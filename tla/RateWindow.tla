----------------------------- MODULE RateWindow -----------------------------
(***************************************************************************)
(* What the auth rate limiter promises to one client address: in every     *)
(* window of Window ticks at most MaxAttempts requests pass.  The only     *)
(* state is the sequence of times at which requests passed.                *)
(***************************************************************************)
EXTENDS Integers, Sequences

CONSTANTS
    Keys,          \* client addresses, "auth:<host>"
    Times,         \* readings of the clock
    MaxAttempts,   \* auth_rate_limit_attempts
    Window         \* auth_rate_limit_window_seconds, in ticks

VARIABLE granted   \* times of the requests that passed, by key

Init == granted = [k \in Keys |-> << >>]

(* A request passes at time t when the MaxAttempts-th request before it is *)
(* at least a window old.                                                  *)
MayPass(log, t) ==
    LET n == Len(log) IN
    /\ n > 0 => log[n] <= t
    /\ n >= MaxAttempts => log[n - MaxAttempts + 1] + Window <= t

Pass(k, t) ==
    /\ MayPass(granted[k], t)
    /\ granted' = [granted EXCEPT ![k] = Append(@, t)]

Next == \E k \in Keys, t \in Times : Pass(k, t)

Spec == Init /\ [][Next]_granted
=============================================================================
