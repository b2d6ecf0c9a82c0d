----------------------------- MODULE AuthFlowMC -----------------------------
(* Small instances of AuthFlow for TLC.                                    *)
EXTENDS AuthFlow, TLC

(* Requests and logins are interchangeable: no action tells one from       *)
(* another.  Used by the runs that check safety only.                      *)
Interchangeable == Permutations(Requests) \union Permutations(Logins)
=============================================================================
