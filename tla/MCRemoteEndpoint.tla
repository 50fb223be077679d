-------------------------- MODULE MCRemoteEndpoint --------------------------
(* Small instances of RemoteEndpoint for TLC. *)
EXTENDS RemoteEndpoint, TLC

(* For the runs without liveness: the callers are interchangeable. *)
CallerSymmetry == Permutations(Callers)
=============================================================================
