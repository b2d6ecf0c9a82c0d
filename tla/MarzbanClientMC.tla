--------------------------- MODULE MarzbanClientMC ---------------------------
(* A small instance of MarzbanClient for TLC.                              *)
EXTENDS MarzbanClient
=============================================================================
