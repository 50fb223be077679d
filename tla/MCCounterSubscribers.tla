----------------------- MODULE MCCounterSubscribers -----------------------
(* Small instances of CounterSubscribers for TLC. *)
EXTENDS CounterSubscribers

MCCounterFds == <<0, 1, 2>>
=============================================================================
