-------------------------- MODULE MCRemoteManager --------------------------
(* Small instances of RemoteManager for TLC. *)
EXTENDS RemoteManager
=============================================================================
