-------------------------- MODULE MCLoopProgress --------------------------
(* Small instances of LoopProgress for TLC. *)
EXTENDS LoopProgress
=============================================================================
