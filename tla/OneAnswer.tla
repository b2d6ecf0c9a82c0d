------------------------------ MODULE OneAnswer ------------------------------
(***************************************************************************)
(* What an idempotency key promises to the clients of the internal API:    *)
(* every successful answer to requests with one key is the same answer.    *)
(***************************************************************************)
CONSTANTS
    Keys,      \* idempotency keys
    Actions    \* action ids

VARIABLE told   \* the action ids that clients were given for a key

Init == told = [k \in Keys |-> {}]

Tell(k, a) ==
    /\ told[k] = {}
    /\ told' = [told EXCEPT ![k] = {a}]

Next == \E k \in Keys, a \in Actions : Tell(k, a)

Spec == Init /\ [][Next]_told
=============================================================================
