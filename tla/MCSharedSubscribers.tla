------------------------ MODULE MCSharedSubscribers ------------------------
(* Two managers in a row: the subscribers of the first may call the second,
   and two subscribers are registered with both. *)
EXTENDS SharedSubscribers, TLC

CONSTANTS m1, m2, c1, c2, r1, p

MCRegistered == (m1 :> {c1, c2, r1, p} @@ m2 :> {c2, p})

MCKind == (c1 :> "Mutex" @@ c2 :> "Mutex" @@ r1 :> "RefCell" @@ p :> "plain")

MCRank == (m1 :> 1 @@ r1 :> 2 @@ c1 :> 3 @@ m2 :> 4 @@ c2 :> 5 @@ p :> 6)
=============================================================================
