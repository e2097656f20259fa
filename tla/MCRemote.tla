------------------------------ MODULE MCRemote ------------------------------
(***************************************************************************)
(* Remote.tla with one track, for which calls compete, and few calls.      *)
(***************************************************************************)
EXTENDS Remote
=============================================================================
