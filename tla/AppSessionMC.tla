---------------------------- MODULE AppSessionMC ----------------------------
(* Small instances of AppSession for TLC.                                  *)
EXTENDS AppSession
=============================================================================
