---------------------------- MODULE Subscribers ----------------------------
(***************************************************************************)
(* src/src/subscribers.rs: the map from SubscriberId to subscriber object. *)
(* The objects themselves are opaque to the manager, so the map is the set *)
(* of its keys.                                                            *)
(***************************************************************************)
EXTENDS Naturals

CONSTANT MaxSubscribers    \* bound: how many ids a behaviour hands out

ASSUME SubscribersAssumption == MaxSubscribers \in Nat \ {0}

SubscriberIds == 1..MaxSubscribers

(* No id is ever 0: `next_id` starts at 1. *)
NoSubscriber == 0

VARIABLES
    subscribers,   \* keys of the HashMap
    next_id        \* the id the next `add` hands out

subscribersVars == <<subscribers, next_id>>

SubscribersTypeOK ==
    /\ subscribers \in SUBSET SubscriberIds
    /\ next_id \in 1..(MaxSubscribers + 1)

SubscribersInit ==
    /\ subscribers = {}
    /\ next_id = 1

(* The bound stands for the range of the u64 counter, which the code takes *)
(* to be inexhaustible.                                                    *)
SubscribersAdd ==
    /\ next_id <= MaxSubscribers
    /\ subscribers' = subscribers \cup {next_id}
    /\ next_id' = next_id + 1

(* Seeded fault: the counter is taken back when the newest id is removed.  *)
SubscribersRemoveRewinding(id) ==
    /\ id \in subscribers
    /\ subscribers' = subscribers \ {id}
    /\ next_id' = IF id + 1 = next_id THEN id ELSE next_id

(* `remove` of an unknown id is None: nothing changes. *)
SubscribersRemove(id) ==
    /\ id \in subscribers
    /\ subscribers' = subscribers \ {id}
    /\ UNCHANGED next_id
=============================================================================
