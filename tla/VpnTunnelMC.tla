----------------------------- MODULE VpnTunnelMC -----------------------------
(* Small instances of VpnTunnel for TLC.                                   *)
EXTENDS VpnTunnel, TLC

Interchangeable == Permutations(Attempts)

(* Bound: one attempt only where a service object is destroyed, since      *)
(* objects share no field.  Two attempts on one object meet Disconnect,    *)
(* which does to the object what Destroy does.                             *)
OneAttemptWhenDestroyed ==
    destroying \/ current > 1 =>
        \A c, d \in Attempts :
            c # d => "off" \in {pc[Connecting(c)], pc[Connecting(d)]}

(* Bound: DeadTunnelEnds says nothing once threads have crossed.           *)
UntilCrossed == crossed = {}
=============================================================================
