---------------------------- MODULE Registration ----------------------------
(***************************************************************************)
(* What an EventManager promises its subscribers, without epoll, buffers   *)
(* or tables: every descriptor has at most one owner, events are collected *)
(* in batches, each collected event is handed once to the owner it was     *)
(* collected for, and nothing is collected or handed out for a descriptor  *)
(* whose owner gave it up.  Subscribers come and go only between batches.  *)
(***************************************************************************)
EXTENDS Naturals

CONSTANTS
    Fds,          \* descriptors
    SubscriberIds \* ids, 1..n

Nobody == 0

VARIABLES
    members,      \* subscribers that are registered
    issued,       \* number of ids handed out
    owner,        \* [Fds -> SubscriberIds \cup {Nobody}]
    collected,    \* descriptors of the batch whose event is still to be handed out
    serving       \* subscriber that is processing an event

rvars == <<members, issued, owner, collected, serving>>

Init ==
    /\ members = {}
    /\ issued = 0
    /\ owner = [fd \in Fds |-> Nobody]
    /\ collected = {}
    /\ serving = Nobody

BetweenBatches == collected = {} /\ serving = Nobody

(* Ids are handed out in order, so none is ever given twice. *)
Join ==
    /\ BetweenBatches
    /\ issued + 1 \in SubscriberIds
    /\ issued' = issued + 1
    /\ members' = members \cup {issued'}
    /\ UNCHANGED <<owner, collected, serving>>

(* Leaving gives up the member's own descriptors, and only those. *)
Leave(id) ==
    /\ BetweenBatches
    /\ id \in members
    /\ members' = members \ {id}
    /\ owner' = [fd \in Fds |-> IF owner[fd] = id THEN Nobody ELSE owner[fd]]
    /\ UNCHANGED <<issued, collected, serving>>

Register(id, fd) ==
    /\ id \in members
    /\ owner[fd] = Nobody
    /\ owner' = [owner EXCEPT ![fd] = id]
    /\ UNCHANGED <<members, issued, collected, serving>>

(* An event collected for a descriptor that is given up is never handed out. *)
Unregister(id, fd) ==
    /\ id \in members
    /\ owner[fd] = id
    /\ owner' = [owner EXCEPT ![fd] = Nobody]
    /\ collected' = collected \ {fd}
    /\ UNCHANGED <<members, issued, serving>>

Collect ==
    /\ BetweenBatches
    /\ collected' \in SUBSET {fd \in Fds : owner[fd] # Nobody}
    /\ UNCHANGED <<members, issued, owner, serving>>

Deliver(fd) ==
    /\ serving = Nobody
    /\ fd \in collected
    /\ collected' = collected \ {fd}
    /\ serving' = owner[fd]
    /\ UNCHANGED <<members, issued, owner>>

Return ==
    /\ serving' = Nobody
    /\ UNCHANGED <<members, issued, owner, collected>>

(* A callback panicked: the rest of the batch is abandoned. *)
Abandon ==
    /\ serving # Nobody
    /\ serving' = Nobody
    /\ collected' = {}
    /\ UNCHANGED <<members, issued, owner>>

Next ==
    \/ Join
    \/ \E id \in SubscriberIds : Leave(id)
    \/ \E id \in SubscriberIds, fd \in Fds : Register(id, fd) \/ Unregister(id, fd)
    \/ Collect
    \/ \E fd \in Fds : Deliver(fd)
    \/ Return
    \/ Abandon

Spec == Init /\ [][Next]_rvars
=============================================================================
