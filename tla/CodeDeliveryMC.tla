--------------------------- MODULE CodeDeliveryMC ---------------------------
(* Small instances of CodeDelivery for TLC.                                *)
EXTENDS CodeDelivery, TLC

(* Requests, logins and chats are interchangeable.  Used by the safety run *)
(* only.                                                                   *)
Interchangeable ==
    Permutations(Requests) \union Permutations(Logins) \union Permutations(Chats)
=============================================================================
