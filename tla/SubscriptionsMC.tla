--------------------------- MODULE SubscriptionsMC ---------------------------
(* Small instances of Subscriptions for TLC.                               *)
EXTENDS Subscriptions, TLC

(* Marzban has the account of each user from before.                       *)
AppAccounts == {BuildUsername(u) : u \in Users}

Plans == [trial |-> 1]

(* One user; the plan of one key is listed, that of the others is not.     *)
Orders ==
    [k \in Keys |->
       [user |-> CHOOSE u \in Users : TRUE,
        plan |-> IF k = CHOOSE j \in Keys : TRUE THEN "trial" ELSE "mvp"]]

(* Requests are interchangeable.            *)
Interchangeable == Permutations(Requests)
=============================================================================
