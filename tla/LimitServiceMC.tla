--------------------------- MODULE LimitServiceMC ---------------------------
(* A small instance of LimitService for TLC.                               *)
EXTENDS LimitService
=============================================================================
