--------------------------- MODULE MCEventManager ---------------------------
(* Small instances of EventManager for TLC. *)
EXTENDS EventManager, TLC

(* Files are interchangeable; descriptors are not (one of them is 0). *)
FileSymmetry == Permutations(Files)
=============================================================================
