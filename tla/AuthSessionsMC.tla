--------------------------- MODULE AuthSessionsMC ---------------------------
(* Small instances of AuthSessions for TLC.                                *)
EXTENDS AuthSessions, TLC

(* Used by runs that check safety only.                                    *)
Interchangeable ==
    Permutations(Requests) \union Permutations(Sessions) \union Permutations(Users)
=============================================================================
