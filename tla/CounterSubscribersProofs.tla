---------------------- MODULE CounterSubscribersProofs ----------------------
(***************************************************************************)
(* Proofs about CounterSubscribers, for every first_data, every width of   *)
(* the packed halves, any capacity and any number of rounds, toggles and   *)
(* re-additions: each event is counted by its own counter, a round in      *)
(* which `process` re-registers its descriptors counts one of them, and no *)
(* `expect` of theirs fails.                                               *)
(***************************************************************************)
EXTENDS CounterSubscribers, EventsPacking, DeliveryProofs

-----------------------------------------------------------------------------
(* The invariant. *)

(* The map holds the objects that were added, each under an id of its own. *)
IdInv ==
    /\ \A o \in Objects : id_of[o] # NoSubscriber => id_of[o] \in subscribers
    /\ \A o, p \in Objects : id_of[o] = id_of[p] /\ id_of[o] # NoSubscriber => o = p
    /\ \A id \in subscribers : \E o \in Objects : id_of[o] = id

(* The running callback is that of an object; step counts its EventOps calls. *)
StepInv ==
    /\ pc \in {"init", "process"} => \E o \in Objects : Owner(o)
    /\ pc \notin {"init", "process"} => step = 0
    /\ pc = "init" => \A o \in Objects : Owner(o) => step <= Len(FdsOf(o))
    /\ pc = "process" /\ Owner("single") => step = 0

(* The k-th descriptor of o is registered now: `init` registers them one   *)
(* after the other, a toggle takes them away and puts them back.           *)
Present(o, k) ==
    /\ pc = "init" /\ current = id_of[o] => k <= step
    /\ pc = "process" /\ current = id_of[o] => IF step <= 3 THEN k > step ELSE k <= step - 3

(* ... and it has been registered before, so epoll_data is known. *)
Known(o, k) == pc = "init" /\ current = id_of[o] => k <= step

RegistryInv ==
    \A o \in Objects : id_of[o] # NoSubscriber =>
        \A k \in 1..Len(FdsOf(o)) :
            /\ Present(o, k) => fd_dispatch[FdsOf(o)[k]] = id_of[o]
            /\ Known(o, k) => epoll_data[FdsOf(o)[k]] = WatchFor(o, k).inner

(* Whatever is dispatched is dispatched to the object whose eventfd it is. *)
OwnerInv ==
    \A fd \in Fds : fd_dispatch[fd] # NoSubscriber =>
        \E o \in Objects : \E k \in 1..Len(FdsOf(o)) :
            fd_dispatch[fd] = id_of[o] /\ fd = FdsOf(o)[k]

(* The event being processed is one its subscriber registered. *)
EventInv ==
    pc = "process" =>
        \E o \in Objects : \E k \in 1..Len(FdsOf(o)) :
            Owner(o) /\ event = WatchFor(o, k).inner

DataFds == {CounterFds[k] : k \in 1..3}

(* A toggle happens in the first `process` of the round that counts a data *)
(* event, and takes the other ones out of the batch.                       *)
ToggleInv ==
    pc \in {"dispatch", "process"} =>
        /\ toggle_registry => ~toggled /\ counted \cap DataFds = {}
        /\ step > 0 => toggled
        /\ toggled =>
              IF pc = "process" /\ Owner("data")
              THEN /\ step > 0
                   /\ counted \cap DataFds = {}
                   /\ \A k \in 1..3 : k <= step => CounterFds[k] \notin EventsAhead
              ELSE /\ EventsAhead \cap DataFds = {}
                   /\ \E k \in 1..3 : counted \cap DataFds = {CounterFds[k]}

CountersInv ==
    /\ CountersTypeOK
    /\ ServedSlotCollected
    /\ CallbackAlive
    /\ MembersIssued
    /\ TablesAgree
    /\ IdInv
    /\ StepInv
    /\ RegistryInv
    /\ OwnerInv
    /\ EventInv
    /\ ToggleInv

-----------------------------------------------------------------------------
(* Constants. *)

(* What the proofs need of a sequence. *)
LEMMA SeqFacts ==
    ASSUME NEW S, NEW s \in Seq(S)
    PROVE  DOMAIN s = 1..Len(s) /\ \A k \in 1..Len(s) : s[k] \in S
OBVIOUS

(* Three descriptors of the data subscriber, one of the single one. *)
LEMMA Lengths ==
    /\ CounterFds \in Seq(Fds) /\ Len(CounterFds) = 3 /\ FdsOf("data") = CounterFds
    /\ <<SingleFd>> \in Seq(Fds) /\ Len(<<SingleFd>>) = 1 /\ FdsOf("single") = <<SingleFd>>
    /\ \A o : FdsOf(o) \in Seq(Fds)
    /\ Objects \subseteq {"data", "single"}
<1>1. CounterFds \in Seq(Fds) /\ Len(CounterFds) = 3 /\ Objects \subseteq {"data", "single"}
  BY CountersAssumption
<1>2. <<SingleFd>> \in Seq(Fds) /\ Len(<<SingleFd>>) = 1
  BY CountersAssumption
<1>3. FdsOf("data") = CounterFds /\ FdsOf("single") = <<SingleFd>>
  BY DEF FdsOf
<1>4. ASSUME NEW o PROVE FdsOf(o) \in Seq(Fds)
  BY <1>1, <1>2 DEF FdsOf
<1> QED
  BY <1>1, <1>2, <1>3, <1>4

(* Every descriptor belongs to one object, in one place. *)
LEMMA FdsOfFacts ==
    ASSUME NEW o \in Objects, NEW k \in 1..Len(FdsOf(o))
    PROVE  /\ FdsOf(o)[k] \in Fds
           /\ k \in 1..3
           /\ o = "data" => FdsOf(o)[k] = CounterFds[k]
           /\ o = "single" => k = 1 /\ FdsOf(o)[k] = SingleFd
           /\ o \in {"data", "single"}
<1>1. FdsOf(o)[k] \in Fds
  <2>1. FdsOf(o) \in Seq(Fds)
    BY Lengths
  <2> QED
    BY <2>1, SeqFacts
<1>2. CASE o = "data"
  BY <1>1, <1>2, Lengths
<1>3. CASE o = "single"
  <2>1. FdsOf(o) = <<SingleFd>> /\ k \in 1..1
    BY <1>3, Lengths
  <2>2. k = 1
    BY <2>1
  <2>3. FdsOf(o)[k] = SingleFd
    BY <2>1, <2>2
  <2> QED
    BY <1>1, <1>3, <2>2, <2>3
<1> QED
  BY <1>2, <1>3, Lengths

(* A descriptor tells its object and its place there. *)
LEMMA FdsOfDistinct ==
    ASSUME NEW o \in Objects, NEW k \in 1..Len(FdsOf(o)),
           NEW p \in Objects, NEW j \in 1..Len(FdsOf(p)),
           FdsOf(o)[k] = FdsOf(p)[j]
    PROVE  o = p /\ k = j
<1>1. \A i \in 1..3 : CounterFds[i] # SingleFd
  BY CountersAssumption
<1>2. \A i, l \in 1..3 : CounterFds[i] = CounterFds[l] => i = l
  BY CountersAssumption
<1> QED
  BY <1>1, <1>2, FdsOfFacts

(* FirstData + 2 may wrap, but not onto itself: three descriptors do not   *)
(* fit into fewer than six values of a RawFd.                              *)
LEMMA HalfIsWide == Half \in Nat /\ Half > 2
<1>1. PICK a, b, c \in Descriptors : a # b /\ b # c /\ a # c
  <2>1. CounterFds[1] \in Descriptors /\ CounterFds[2] \in Descriptors /\ CounterFds[3] \in Descriptors
    <3>1. \A k \in 1..3 : CounterFds[k] \in Fds
      BY Lengths, SeqFacts
    <3>2. Fds \subseteq Descriptors
      BY CountersAssumption
    <3> QED
      BY <3>1, <3>2
  <2>2. CounterFds[1] # CounterFds[2] /\ CounterFds[2] # CounterFds[3] /\ CounterFds[1] # CounterFds[3]
    BY CountersAssumption
  <2> QED
    BY <2>1, <2>2
<1> QED
  BY <1>1, Widths DEF Descriptors

(* first_data + k - 1, wrapped, is a u32. *)
LEMMA DataOfType ==
    ASSUME NEW o \in Objects, NEW k \in 1..Len(FdsOf(o))
    PROVE  DataOf(o, k) \in U32
<1>1. k \in 1..3 /\ FirstData \in Nat
  BY FdsOfFacts, CountersAssumption DEF U32
<1>2. FirstData + k - 1 \in Nat
  BY <1>1
<1> QED
  BY <1>2, HalfIsWide DEF DataOf, U32

(* What the kernel keeps for a registration, read back. *)
LEMMA WatchForFacts ==
    ASSUME NEW o \in Objects, NEW k \in 1..Len(FdsOf(o))
    PROVE  /\ WatchFor(o, k).inner \in U64
           /\ WatchFor(o, k).events = {In}
           /\ InnerFd(WatchFor(o, k).inner) = FdsOf(o)[k]
           /\ UserData(WatchFor(o, k).inner) = DataOf(o, k)
<1>1. FdsOf(o)[k] \in Descriptors /\ DataOf(o, k) \in U32
  BY FdsOfFacts, DataOfType, CountersAssumption
<1>2. WatchFor(o, k).inner = InnerData(FdsOf(o)[k], DataOf(o, k)) /\ WatchFor(o, k).events = {In}
  BY DEF WatchFor, WithData
<1>3. ASSUME NEW x \in Int PROVE x % (Half * Half) \in U64
  <2>1. \A m \in Nat : m > 0 => x % m \in 0..(m - 1)
    OBVIOUS
  <2>2. Half * Half \in Nat /\ Half * Half > 0
    BY Widths
  <2> QED
    BY <2>1, <2>2 DEF U64
<1>4. InnerData(FdsOf(o)[k], DataOf(o, k)) \in U64
  <2>1. AsU64(FdsOf(o)[k]) \in Int
    <3>1. FdsOf(o)[k] \in Int
      BY <1>1 DEF Descriptors
    <3>2. \A x \in U64 : x \in Int
      BY DEF U64
    <3> QED
      BY <1>3, <3>1, <3>2 DEF AsU64
  <2>2. DataOf(o, k) * Half + AsU64(FdsOf(o)[k]) \in Int
    BY <1>1, <2>1, Widths DEF U32
  <2> QED
    BY <1>3, <2>2 DEF InnerData
<1> QED
  BY <1>1, <1>2, <1>4, DescriptorPacks

(* Subtracting first_data recovers the place, wrapped or not. *)
LEMMA EventIdIsPlace ==
    ASSUME NEW k \in 1..3
    PROVE  (((FirstData + k - 1) % Half) - FirstData) % Half = k - 1
<1>1. FirstData \in Nat /\ FirstData < Half /\ k - 1 \in 0..(Half - 1)
  BY HalfIsWide, CountersAssumption DEF U32
<1>2. CASE FirstData + k - 1 < Half
  <2>1. (FirstData + k - 1) % Half = FirstData + k - 1
    BY <1>1, <1>2, HalfIsWide
  <2>2. (FirstData + k - 1) - FirstData = 0 * Half + (k - 1)
    BY <1>1, HalfIsWide
  <2> QED
    BY <1>1, <2>1, <2>2, QuotientUnique, HalfIsWide
<1>3. CASE FirstData + k - 1 >= Half
  <2>1. FirstData + k - 1 = 1 * Half + (FirstData + k - 1 - Half)
        /\ FirstData + k - 1 - Half \in 0..(Half - 1)
    BY <1>1, <1>3, HalfIsWide
  <2>2. (FirstData + k - 1) % Half = FirstData + k - 1 - Half
    BY <2>1, QuotientUnique, HalfIsWide
  <2>3. (FirstData + k - 1 - Half) - FirstData = (-1) * Half + (k - 1)
    BY <1>1, HalfIsWide
  <2> QED
    BY <1>1, <2>2, <2>3, QuotientUnique, HalfIsWide
<1> QED
  BY <1>1, <1>2, <1>3, HalfIsWide

-----------------------------------------------------------------------------
(* The steps, seen from EventManager. *)

(* `add` is called for the descriptor the Events value was built from. *)
LEMMA RegisterMeans ==
    ASSUME NEW o \in Objects, NEW k \in 1..Len(FdsOf(o)), Register(o, k)
    PROVE  /\ OpsAdd(id_of[o], FdsOf(o)[k], {In})
           /\ epoll_data' = [epoll_data EXCEPT ![FdsOf(o)[k]] = WatchFor(o, k).inner]
BY WatchForFacts DEF Register

(* The object whose callback runs has a real id. *)
LEMMA OwnerIsId ==
    ASSUME CountersTypeOK, NEW o, Owner(o)
    PROVE  o \in Objects /\ id_of[o] \in SubscriberIds /\ current = id_of[o] /\ id_of[o] # NoSubscriber
BY DEF Owner, CountersTypeOK

(* Two objects never have the callback at once. *)
LEMMA OneOwner ==
    ASSUME IdInv, NEW o, NEW p, Owner(o), Owner(p)
    PROVE  o = p
BY DEF IdInv, Owner

(* The next descriptor a callback registers or unregisters. *)
LEMMA ToggleSteps ==
    ASSUME CountersTypeOK
    PROVE  /\ \A o \in Objects : InitRegisters(o) => step + 1 \in 1..Len(FdsOf(o))
           /\ ToggleRemoves => /\ "data" \in Objects
                               /\ step + 1 \in 1..3 /\ step + 1 \in 1..Len(FdsOf("data"))
                               /\ CounterFds[step + 1] = FdsOf("data")[step + 1]
                               /\ CounterFds[step + 1] \in Fds
           /\ ToggleAdds => /\ "data" \in Objects
                            /\ step - 2 \in 1..3 /\ step - 2 \in 1..Len(FdsOf("data"))
<1>1. step \in 0..6
  BY DEF CountersTypeOK
<1>2. \A o \in Objects : Len(FdsOf(o)) \in Nat
  BY Lengths, CountersAssumption
<1>3. ASSUME NEW o \in Objects, InitRegisters(o) PROVE step + 1 \in 1..Len(FdsOf(o))
  BY <1>1, <1>2, <1>3 DEF InitRegisters
<1>4. ASSUME ToggleRemoves
      PROVE  "data" \in Objects /\ step + 1 \in 1..3
  BY <1>1, <1>4 DEF ToggleRemoves, Owner
<1>5. ASSUME ToggleAdds
      PROVE  "data" \in Objects /\ step - 2 \in 1..3
  BY <1>1, <1>5 DEF ToggleAdds, Owner
<1> QED
  BY <1>3, <1>4, <1>5, Lengths, FdsOfFacts

(* Whatever the counters do with the manager is a step of EventManager. *)
LEMMA CountersStepIsManagerStep ==
    CountersTypeOK /\ [CountersNext]_countersVars => [Next]_vars
<1> SUFFICES ASSUME CountersTypeOK, [CountersNext]_countersVars PROVE [Next]_vars
  OBVIOUS
<1>0. {In} \in SUBSET Maskable
  BY WrapperAssumption
<1>1. CASE TriggerAllCounters \/ TriggerEvent \/ ClearEvent \/ SetToggleRegistry \/ UNCHANGED countersVars
  BY <1>1 DEF TriggerAllCounters, TriggerEvent, ClearEvent, RaiseOrClear, SetToggleRegistry, countersVars
<1>2. ASSUME NEW o \in Objects, AddObject(o) PROVE Next
  BY <1>2 DEF AddObject, Next, ClientCalls
<1>3. ASSUME NEW o \in Objects, RemoveObject(o) PROVE Next
  <2>1. id_of[o] \in SubscriberIds
    BY <1>3 DEF RemoveObject, RemoveSubscriber, SubscribersRemove, CountersTypeOK, TypeOK, SubscribersTypeOK
  <2> QED
    BY <1>3, <2>1 DEF RemoveObject, Next, ClientCalls
<1>4. ASSUME NEW o \in Objects, NEW k \in 1..Len(FdsOf(o)), Owner(o), Register(o, k) PROVE Next
  <2>1. OpsAdd(id_of[o], FdsOf(o)[k], {In})
    BY <1>4, RegisterMeans
  <2>2. id_of[o] \in SubscriberIds /\ FdsOf(o)[k] \in Fds
    BY <1>4, OwnerIsId, FdsOfFacts
  <2> QED
    BY <1>0, <2>1, <2>2 DEF Next, ClientCalls
<1>5. ASSUME NEW o \in Objects, InitRegisters(o) PROVE Next
  BY <1>4, <1>5, ToggleSteps DEF InitRegisters
<1>6. CASE ToggleAdds
  BY <1>4, <1>6, ToggleSteps DEF ToggleAdds
<1>7. CASE ToggleRemoves
  <2>1. current \in SubscriberIds /\ CounterFds[step + 1] \in Fds
    BY <1>7, OwnerIsId, ToggleSteps DEF ToggleRemoves
  <2>2. OpsRemove(current, CounterFds[step + 1])
    BY <1>7 DEF ToggleRemoves
  <2> QED
    BY <2>1, <2>2 DEF Next, ClientCalls
<1>8. CASE CountEvent \/ \E o \in Objects : InitDone(o)
  BY <1>8 DEF CountEvent, InitDone, Next, ClientCalls
<1>9. CASE LoopStep
  BY <1>9 DEF LoopStep, RunCounters, DispatchCounter, WalkOn, Next, Loop
<1> QED
  BY <1>1, <1>2, <1>3, <1>5, <1>6, <1>7, <1>8, <1>9 DEF CountersNext, ClientStep, Callback

(* Steps that neither the manager nor the callbacks notice. *)
Unnoticed ==
    /\ toggle_registry' = toggle_registry \/ pc = "idle"
    /\ UNCHANGED <<vars, counters, id_of, step, epoll_data, event, counted, toggled>>

(* Raising, clearing and setting the flag are such steps. *)
LEMMA UnnoticedSteps ==
    ASSUME TriggerAllCounters \/ TriggerEvent \/ ClearEvent \/ SetToggleRegistry \/ UNCHANGED countersVars
    PROVE  Unnoticed
BY DEF TriggerAllCounters, TriggerEvent, ClearEvent, RaiseOrClear, SetToggleRegistry, countersVars,
   clientVars, Unnoticed

(* Who is added or removed, and when. *)
LEMMA AddObjectMeans ==
    ASSUME CountersTypeOK, MembersIssued, NEW o \in Objects, AddObject(o)
    PROVE  /\ id_of[o] = NoSubscriber
           /\ pc \in {"idle", "endpoint"} /\ pc' = "init" /\ current' = next_id
           /\ next_id \in SubscriberIds /\ next_id \notin subscribers /\ next_id # NoSubscriber
           /\ subscribers' = subscribers \cup {next_id}
           /\ \A p \in Objects : id_of'[p] = IF p = o THEN next_id ELSE id_of[p]
           /\ UNCHANGED <<fd_dispatch, epoll_data, step>>
<1>1. /\ id_of[o] = NoSubscriber
      /\ pc \in {"idle", "endpoint"} /\ pc' = "init" /\ current' = next_id
      /\ next_id <= MaxSubscribers /\ subscribers' = subscribers \cup {next_id}
      /\ UNCHANGED <<fd_dispatch, epoll_data, step>>
  BY DEF AddObject, AddSubscriber, SubscribersAdd, HoldsSubscriberOps, wrapperVars
<1>2. next_id \in SubscriberIds
  BY <1>1, SubscribersAssumption DEF CountersTypeOK, TypeOK, SubscribersTypeOK, SubscriberIds
<1>3. next_id \notin subscribers
  <2>1. next_id \in Nat /\ (next_id \in subscribers => next_id < next_id)
    BY <1>2, SubscribersAssumption DEF MembersIssued, SubscriberIds
  <2> QED
    BY <2>1
<1>4. \A p \in Objects : id_of'[p] = IF p = o THEN next_id ELSE id_of[p]
  BY DEF AddObject, CountersTypeOK
<1> QED
  BY <1>1, <1>2, <1>3, <1>4, IdIsSomebody

(* Removal takes away what the object owns in fd_dispatch, and no more. *)
LEMMA RemoveObjectMeans ==
    ASSUME CountersTypeOK, TablesAgree, NEW o \in Objects, RemoveObject(o)
    PROVE  /\ id_of[o] \in subscribers /\ id_of[o] \in SubscriberIds /\ id_of[o] # NoSubscriber
           /\ pc \in {"idle", "endpoint"} /\ pc' = pc
           /\ subscribers' = subscribers \ {id_of[o]}
           /\ \A p \in Objects : id_of'[p] = IF p = o THEN NoSubscriber ELSE id_of[p]
           /\ \A fd \in Fds : fd_dispatch'[fd] = IF fd_dispatch[fd] = id_of[o] THEN NoSubscriber
                                                                          ELSE fd_dispatch[fd]
           /\ UNCHANGED <<epoll_data, step>>
<1>1. /\ id_of[o] \in subscribers
      /\ pc \in {"idle", "endpoint"} /\ pc' = pc
      /\ subscribers' = subscribers \ {id_of[o]}
      /\ RemoveEvent(WatchList(id_of[o]))
      /\ UNCHANGED <<epoll_data, step>>
  BY DEF RemoveObject, RemoveSubscriber, SubscribersRemove, WrapperRemove, HoldsSubscriberOps, loopVars
<1>2. id_of[o] \in SubscriberIds
  BY <1>1 DEF CountersTypeOK, TypeOK, SubscribersTypeOK
<1>3. \A p \in Objects : id_of'[p] = IF p = o THEN NoSubscriber ELSE id_of[p]
  BY DEF RemoveObject, CountersTypeOK
<1>4. \A fd \in Fds : fd_dispatch'[fd] = IF fd_dispatch[fd] = id_of[o] THEN NoSubscriber
                                                                     ELSE fd_dispatch[fd]
  BY <1>1, <1>2, WatchListOwned DEF RemoveEvent
<1> QED
  BY <1>1, <1>2, <1>3, <1>4, IdIsSomebody

(* What a registration or a removal made in a callback changes. *)
LEMMA OwnerRegisters ==
    ASSUME CountersTypeOK, NEW o \in Objects, NEW k \in 1..Len(FdsOf(o)), Register(o, k)
    PROVE  /\ UNCHANGED <<subscribers, pc, current, ready_events, loopVars>>
           /\ \A fd \in Fds : fd_dispatch'[fd] = IF fd = FdsOf(o)[k] THEN id_of[o] ELSE fd_dispatch[fd]
           /\ \A fd \in Fds : epoll_data'[fd] = IF fd = FdsOf(o)[k] THEN WatchFor(o, k).inner
                                                                 ELSE epoll_data[fd]
<1>1. OpsAdd(id_of[o], FdsOf(o)[k], {In})
      /\ epoll_data' = [epoll_data EXCEPT ![FdsOf(o)[k]] = WatchFor(o, k).inner]
  BY RegisterMeans
<1>2. fd_dispatch' = [fd_dispatch EXCEPT ![FdsOf(o)[k]] = id_of[o]]
      /\ UNCHANGED <<subscribers, pc, current, ready_events, loopVars>>
  BY <1>1 DEF OpsAdd, EventOpsAdd, subscribersVars, loopVars
<1> QED
  BY <1>1, <1>2 DEF CountersTypeOK, TypeOK, WrapperTypeOK

(* The same for one removal of a toggle. *)
LEMMA OwnerRemoves ==
    ASSUME CountersTypeOK, ToggleRemoves
    PROVE  /\ UNCHANGED <<subscribers, pc, current, loopVars>>
           /\ RemoveEvent({CounterFds[step + 1]})
           /\ \A fd \in Fds : fd_dispatch'[fd] = IF fd = CounterFds[step + 1] THEN NoSubscriber
                                                                          ELSE fd_dispatch[fd]
<1>1. UNCHANGED <<subscribers, pc, current, loopVars>> /\ RemoveEvent({CounterFds[step + 1]})
  BY DEF ToggleRemoves, OpsRemove, EventOpsRemove, subscribersVars, loopVars
<1> QED
  BY <1>1 DEF RemoveEvent

-----------------------------------------------------------------------------
(* The parts of the invariant. *)

(* id_of and the map change together. *)
LEMMA NextIdInv ==
    ASSUME CountersTypeOK, MembersIssued, TablesAgree, IdInv, [CountersNext]_countersVars
    PROVE  IdInv'
<1>1. CASE UNCHANGED <<subscribers, id_of>>
  BY <1>1 DEF IdInv
<1>2. ASSUME NEW o \in Objects, AddObject(o) PROVE IdInv'
  <2>1. NoSubscriber \notin subscribers
    BY SubscribersAssumption DEF CountersTypeOK, TypeOK, SubscribersTypeOK, SubscriberIds, NoSubscriber
  <2>2. /\ id_of[o] = NoSubscriber /\ next_id \notin subscribers
        /\ subscribers' = subscribers \cup {next_id}
        /\ \A p \in Objects : id_of'[p] = IF p = o THEN next_id ELSE id_of[p]
    BY <1>2, AddObjectMeans
  <2>3. \A id \in subscribers' : \E p \in Objects : id_of'[p] = id
    BY <2>1, <2>2 DEF IdInv
  <2>4. \A p \in Objects : id_of'[p] # NoSubscriber => id_of'[p] \in subscribers'
    BY <2>2 DEF IdInv
  <2>5. \A p, q \in Objects : id_of'[p] = id_of'[q] /\ id_of'[p] # NoSubscriber => p = q
    BY <2>2 DEF IdInv
  <2> QED
    BY <2>3, <2>4, <2>5 DEF IdInv
<1>3. ASSUME NEW o \in Objects, RemoveObject(o) PROVE IdInv'
  BY <1>3, RemoveObjectMeans DEF IdInv
<1>4. CASE Unnoticed
  BY <1>1, <1>4 DEF Unnoticed, vars, subscribersVars
<1>5. ASSUME NEW o \in Objects, InitRegisters(o) PROVE UNCHANGED <<subscribers, id_of>>
  BY <1>5, OwnerRegisters, ToggleSteps DEF InitRegisters
<1>6. CASE ToggleAdds
  BY <1>1, <1>6, OwnerRegisters, ToggleSteps DEF ToggleAdds
<1>7. CASE ToggleRemoves
  BY <1>1, <1>7, OwnerRemoves DEF ToggleRemoves
<1>8. CASE CountEvent \/ \E o \in Objects : InitDone(o)
  BY <1>1, <1>8 DEF CountEvent, ProcessReturns, InitDone, InitReturns, subscribersVars
<1>9. CASE LoopStep
  BY <1>1, <1>9 DEF LoopStep, RunCounters, Run, DispatchCounter, CallProcess, WalkOn, SkipDiscarded,
     DispatchEnds, subscribersVars, clientVars
<1> QED
  BY <1>1, <1>2, <1>3, <1>4, <1>5, <1>6, <1>7, <1>8, <1>9, UnnoticedSteps
     DEF CountersNext, ClientStep, Callback

(* Outside callbacks, and after them, no EventOps call is half done. *)
LEMMA NextStepInv ==
    ASSUME CountersTypeOK, MembersIssued, TablesAgree, IdInv, IdInv', StepInv,
           [CountersNext]_countersVars
    PROVE  StepInv'
<1>1. CASE Unnoticed
  BY <1>1 DEF Unnoticed, vars, loopVars, StepInv, Owner
<1>2. ASSUME NEW o \in Objects, AddObject(o) PROVE StepInv'
  <2>1. step' = 0 /\ pc' = "init" /\ Owner(o)'
    BY <1>2, AddObjectMeans DEF StepInv, Owner
  <2>2. \A p \in Objects : Len(FdsOf(p)) \in Nat
    BY Lengths
  <2> QED
    BY <2>1, <2>2 DEF StepInv
<1>3. ASSUME NEW o \in Objects, RemoveObject(o) PROVE StepInv'
  BY <1>3, RemoveObjectMeans DEF StepInv
<1>4. ASSUME NEW o \in Objects, InitRegisters(o) PROVE StepInv'
  <2>1. /\ pc = "init" /\ pc' = pc /\ current' = current /\ id_of' = id_of
        /\ step' = step + 1 /\ step + 1 \in 1..Len(FdsOf(o)) /\ Owner(o)
    BY <1>4, OwnerRegisters, ToggleSteps DEF InitRegisters
  <2>2. \A p : Owner(p)' <=> Owner(p)
    BY <2>1 DEF Owner
  <2>3. \A p \in Objects : Owner(p) => p = o
    BY <2>1, OneOwner
  <2>4. Len(FdsOf(o)) \in Nat
    BY Lengths
  <2> QED
    BY <2>1, <2>2, <2>3, <2>4 DEF StepInv
<1>5. CASE ToggleAdds \/ ToggleRemoves
  <2>1. pc = "process" /\ pc' = pc /\ current' = current /\ id_of' = id_of /\ Owner("data")
    <3>1. CASE ToggleAdds
      BY <3>1, OwnerRegisters, ToggleSteps DEF ToggleAdds
    <3>2. CASE ToggleRemoves
      BY <3>2, OwnerRemoves DEF ToggleRemoves
    <3> QED
      BY <1>5, <3>1, <3>2
  <2>2. \A p : Owner(p)' <=> Owner(p)
    BY <2>1 DEF Owner
  <2>3. ~Owner("single")
    BY <2>1, OneOwner
  <2> QED
    BY <2>1, <2>2, <2>3, OwnerIsId DEF StepInv
<1>6. CASE CountEvent \/ \E o \in Objects : InitDone(o)
  BY <1>6 DEF CountEvent, ProcessReturns, InitDone, InitReturns, StepInv, CountersTypeOK, TypeOK
<1>7. CASE DispatchCounter
  <2>1. pc = "dispatch" /\ pc' = "process" /\ step' = step /\ current' \in subscribers' /\ id_of' = id_of
    BY <1>7 DEF DispatchCounter, CallProcess, AtSlot, subscribersVars
  <2>2. PICK o \in Objects : id_of'[o] = current'
    BY <2>1 DEF IdInv
  <2>3. current' # NoSubscriber
    BY <1>7, SubscribersAssumption DEF DispatchCounter, CallProcess, CountersTypeOK, TypeOK,
       SubscribersTypeOK, SubscriberIds, NoSubscriber
  <2>4. Owner(o)'
    BY <2>2, <2>3 DEF Owner
  <2> QED
    BY <2>1, <2>4 DEF StepInv
<1>8. CASE RunCounters \/ WalkOn
  BY <1>8 DEF RunCounters, Run, WalkOn, SkipDiscarded, AtSlot, DispatchEnds, clientVars, StepInv
<1> QED
  BY <1>1, <1>2, <1>3, <1>4, <1>5, <1>6, <1>7, <1>8, UnnoticedSteps
     DEF CountersNext, ClientStep, Callback, LoopStep

(* A step between callbacks that leaves the tables alone. *)
LEMMA RegistryOutside ==
    ASSUME RegistryInv, OwnerInv, UNCHANGED <<fd_dispatch, epoll_data, id_of>>,
           \A o \in Objects : \A k \in 1..Len(FdsOf(o)) :
               id_of[o] # NoSubscriber => Present(o, k) /\ Known(o, k)
    PROVE  RegistryInv' /\ OwnerInv'
<1>1. RegistryInv'
  BY DEF RegistryInv
<1>2. OwnerInv'
  BY DEF OwnerInv
<1> QED
  BY <1>1, <1>2

(* Every step keeps the registrations where `step` says they are, and each *)
(* descriptor with its own object.                                         *)
LEMMA NextRegistryInv ==
    ASSUME CountersTypeOK, MembersIssued, TablesAgree, IdInv, IdInv', StepInv, RegistryInv, OwnerInv,
           [CountersNext]_countersVars
    PROVE  RegistryInv' /\ OwnerInv'
<1>1. CASE Unnoticed
  BY <1>1 DEF Unnoticed, vars, wrapperVars, loopVars, RegistryInv, Present, Known, OwnerInv
<1>2. ASSUME NEW o \in Objects, AddObject(o) PROVE RegistryInv' /\ OwnerInv'
  <2>1. step = 0
    BY <1>2, AddObjectMeans DEF StepInv
  <2>2. \A p \in Objects : id_of[p] # NoSubscriber => id_of[p] # next_id
    BY <1>2, AddObjectMeans DEF IdInv
  <2>3. \A p \in Objects, k \in Int : Present(p, k) /\ Known(p, k)
    BY <1>2, AddObjectMeans DEF Present, Known
  <2>4. RegistryInv'
    <3> SUFFICES ASSUME NEW p \in Objects, id_of'[p] # NoSubscriber, NEW k \in 1..Len(FdsOf(p))
                 PROVE  /\ Present(p, k)' => fd_dispatch'[FdsOf(p)[k]] = id_of'[p]
                        /\ Known(p, k)' => epoll_data'[FdsOf(p)[k]] = WatchFor(p, k).inner
      BY DEF RegistryInv
    <3>1. CASE p = o
      <4>1. pc' = "init" /\ current' = id_of'[o] /\ step' = 0
        BY <1>2, <2>1, AddObjectMeans
      <4>2. k \in Nat /\ k > 0
        BY FdsOfFacts
      <4> QED
        BY <3>1, <4>1, <4>2 DEF Present, Known
    <3>2. CASE p # o
      BY <1>2, <2>2, <2>3, <3>2, AddObjectMeans DEF RegistryInv
    <3> QED
      BY <3>1, <3>2
  <2>5. OwnerInv'
    <3>1. \A fd \in Fds : fd_dispatch'[fd] = fd_dispatch[fd]
      BY <1>2, AddObjectMeans
    <3>2. \A p \in Objects : id_of[p] # NoSubscriber => id_of'[p] = id_of[p]
      BY <1>2, AddObjectMeans
    <3> QED
      BY <3>1, <3>2 DEF OwnerInv
  <2> QED
    BY <2>4, <2>5
<1>3. ASSUME NEW o \in Objects, RemoveObject(o) PROVE RegistryInv' /\ OwnerInv'
  <2>1. \A p \in Objects, k \in Int : Present(p, k) /\ Known(p, k)
    BY <1>3, RemoveObjectMeans DEF Present, Known
  <2>2. \A p \in Objects : id_of'[p] # NoSubscriber => id_of'[p] = id_of[p] /\ id_of[p] # id_of[o]
    BY <1>3, RemoveObjectMeans DEF IdInv
  <2>3. /\ epoll_data' = epoll_data
        /\ \A fd \in Fds : fd_dispatch'[fd] = IF fd_dispatch[fd] = id_of[o] THEN NoSubscriber
                                                                       ELSE fd_dispatch[fd]
    BY <1>3, RemoveObjectMeans
  <2>4. RegistryInv'
    BY <2>1, <2>2, <2>3, FdsOfFacts DEF RegistryInv
  <2>5. OwnerInv'
    <3>1. \A p \in Objects : id_of[p] # id_of[o] => id_of'[p] = id_of[p]
      BY <1>3, RemoveObjectMeans
    <3> QED
      BY <2>3, <3>1 DEF OwnerInv
  <2> QED
    BY <2>4, <2>5
<1>4. ASSUME NEW o \in Objects, NEW k \in 1..Len(FdsOf(o)), Owner(o), Register(o, k), id_of' = id_of,
             \A j \in 1..Len(FdsOf(o)) : Present(o, j)' => Present(o, j) \/ j = k,
             \A j \in 1..Len(FdsOf(o)) : Known(o, j)' => Known(o, j) \/ j = k
      PROVE  RegistryInv' /\ OwnerInv'
  <2>1. /\ UNCHANGED <<pc, current>>
        /\ \A fd \in Fds : fd_dispatch'[fd] = IF fd = FdsOf(o)[k] THEN id_of[o] ELSE fd_dispatch[fd]
        /\ \A fd \in Fds : epoll_data'[fd] = IF fd = FdsOf(o)[k] THEN WatchFor(o, k).inner
                                                              ELSE epoll_data[fd]
    BY <1>4, OwnerRegisters
  <2>2. RegistryInv'
    <3> SUFFICES ASSUME NEW p \in Objects, id_of[p] # NoSubscriber, NEW j \in 1..Len(FdsOf(p))
                 PROVE  /\ Present(p, j)' => fd_dispatch'[FdsOf(p)[j]] = id_of[p]
                        /\ Known(p, j)' => epoll_data'[FdsOf(p)[j]] = WatchFor(p, j).inner
      BY <1>4 DEF RegistryInv
    <3>1. FdsOf(p)[j] \in Fds
      BY FdsOfFacts
    <3>2. CASE p = o /\ j = k
      BY <2>1, <3>1, <3>2
    <3>3. CASE p = o /\ j # k
      <4>1. FdsOf(p)[j] # FdsOf(o)[k]
        BY <3>3, FdsOfDistinct
      <4> QED
        BY <1>4, <2>1, <3>1, <3>3, <4>1 DEF RegistryInv
    <3>4. CASE p # o
      <4>1. FdsOf(p)[j] # FdsOf(o)[k]
        BY <3>4, FdsOfDistinct
      <4>2. current # id_of[p]
        BY <1>4, <3>4 DEF IdInv, Owner
      <4>3. Present(p, j) /\ Known(p, j)
        BY <4>2 DEF Present, Known
      <4> QED
        BY <2>1, <3>1, <4>1, <4>3 DEF RegistryInv
    <3> QED
      BY <3>2, <3>3, <3>4
  <2>3. OwnerInv'
    BY <1>4, <2>1 DEF OwnerInv
  <2> QED
    BY <2>2, <2>3
<1>5. ASSUME NEW o \in Objects, InitRegisters(o) PROVE RegistryInv' /\ OwnerInv'
  <2>1. /\ pc = "init" /\ Owner(o) /\ step + 1 \in 1..Len(FdsOf(o)) /\ Register(o, step + 1)
        /\ step' = step + 1 /\ id_of' = id_of
    BY <1>5, ToggleSteps DEF InitRegisters
  <2>2. pc' = pc /\ current' = current
    BY <2>1, OwnerRegisters
  <2>3. \A j \in 1..Len(FdsOf(o)) : j \in 1..3
    BY FdsOfFacts
  <2>4. step \in 0..6
    BY DEF CountersTypeOK
  <2>5. \A j \in 1..Len(FdsOf(o)) : (Present(o, j)' => j <= step + 1) /\ (Known(o, j)' => j <= step + 1)
    BY <2>1, <2>2 DEF Present, Known, Owner
  <2>6. \A j \in 1..Len(FdsOf(o)) : j <= step => Present(o, j) /\ Known(o, j)
    BY <2>1 DEF Present, Known
  <2>7. \A j \in 1..Len(FdsOf(o)) : j <= step + 1 => j <= step \/ j = step + 1
    BY <2>3, <2>4
  <2> QED
    BY <1>4, <2>1, <2>5, <2>6, <2>7
<1>6. CASE ToggleAdds
  <2>1. /\ pc = "process" /\ Owner("data") /\ "data" \in Objects
        /\ step - 2 \in 1..Len(FdsOf("data")) /\ Register("data", step - 2)
        /\ step' = step + 1 /\ id_of' = id_of /\ step \in 3..5
    BY <1>6, ToggleSteps DEF ToggleAdds
  <2>2. pc' = pc /\ current' = current
    BY <2>1, OwnerRegisters
  <2>3. \A j \in 1..Len(FdsOf("data")) : j \in 1..3
    BY <2>1, FdsOfFacts
  <2>4. \A j \in 1..Len(FdsOf("data")) : Known("data", j)
    BY <2>1 DEF Known
  <2>5. ASSUME NEW j \in 1..Len(FdsOf("data")), Present("data", j)'
        PROVE  Present("data", j) \/ j = step - 2
    <3>1. j <= step + 1 - 3
      BY <2>1, <2>2, <2>5 DEF Present, Owner
    <3>2. j = step - 2 \/ j <= step - 3
      BY <2>1, <2>3, <3>1
    <3>3. CASE j <= step - 3
      BY <2>1, <2>3, <3>3 DEF Present
    <3> QED
      BY <3>2, <3>3
  <2>6. \A j \in 1..Len(FdsOf("data")) : Present("data", j)' => Present("data", j) \/ j = step - 2
    BY <2>5
  <2>7. \A j \in 1..Len(FdsOf("data")) : Known("data", j)' => Known("data", j) \/ j = step - 2
    BY <2>4
  <2> QED
    BY <1>4, <2>1, <2>6, <2>7
<1>7. CASE ToggleRemoves
  <2>1. /\ pc = "process" /\ Owner("data") /\ "data" \in Objects /\ step' = step + 1
        /\ id_of' = id_of /\ epoll_data' = epoll_data /\ step \in 0..2
        /\ CounterFds[step + 1] = FdsOf("data")[step + 1] /\ step + 1 \in 1..Len(FdsOf("data"))
    <3>1. step \in 0..6 /\ step < 3
      BY <1>7 DEF ToggleRemoves, CountersTypeOK
    <3>2. step \in 0..2
      BY <3>1
    <3> QED
      BY <1>7, <3>2, ToggleSteps DEF ToggleRemoves
  <2>2. /\ pc' = pc /\ current' = current
        /\ \A fd \in Fds : fd_dispatch'[fd] = IF fd = CounterFds[step + 1] THEN NoSubscriber
                                                                       ELSE fd_dispatch[fd]
    BY <1>7, OwnerRemoves
  <2>3. RegistryInv'
    <3> SUFFICES ASSUME NEW p \in Objects, id_of[p] # NoSubscriber, NEW j \in 1..Len(FdsOf(p))
                 PROVE  /\ Present(p, j)' => fd_dispatch'[FdsOf(p)[j]] = id_of[p]
                        /\ Known(p, j)' => epoll_data[FdsOf(p)[j]] = WatchFor(p, j).inner
      BY <2>1 DEF RegistryInv
    <3>1. Known(p, j)
      BY <2>1 DEF Known
    <3>2. Present(p, j)' => Present(p, j) /\ (p = "data" => j # step + 1)
      <4>1. CASE p = "data"
        <5>1. Present(p, j)' => j > step + 1
          BY <2>1, <2>2, <4>1 DEF Present, Owner
        <5>2. j > step => Present(p, j)
          BY <2>1 DEF Present
        <5> QED
          BY <2>1, <5>1, <5>2, FdsOfFacts
      <4>2. CASE p # "data"
        BY <2>1, <4>2 DEF Present, Owner, IdInv
      <4> QED
        BY <4>1, <4>2
    <3>3. FdsOf(p)[j] \in Fds
      BY FdsOfFacts
    <3>4. FdsOf(p)[j] = FdsOf("data")[step + 1] => p = "data" /\ j = step + 1
      BY <2>1, FdsOfDistinct
    <3> QED
      BY <2>1, <2>2, <3>1, <3>2, <3>3, <3>4 DEF RegistryInv
  <2>4. OwnerInv'
    BY <2>1, <2>2 DEF OwnerInv
  <2> QED
    BY <2>3, <2>4
<1>8. ASSUME NEW o \in Objects, InitDone(o) PROVE RegistryInv' /\ OwnerInv'
  <2>1. /\ pc = "init" /\ Owner(o) /\ step = Len(FdsOf(o))
        /\ UNCHANGED <<fd_dispatch, epoll_data, id_of>>
    BY <1>8 DEF InitDone, InitReturns, wrapperVars
  <2>2. ASSUME NEW p \in Objects, NEW k \in 1..Len(FdsOf(p)), id_of[p] # NoSubscriber
        PROVE  Present(p, k) /\ Known(p, k)
    <3>1. CASE p = o
      <4>1. k <= step
        BY <2>1, <2>2, <3>1, FdsOfFacts, Lengths
      <4> QED
        BY <2>1, <4>1 DEF Present, Known
    <3>2. CASE p # o
      BY <2>1, <2>2, <3>2 DEF Present, Known, Owner, IdInv
    <3> QED
      BY <3>1, <3>2
  <2> QED
    BY <2>1, <2>2, RegistryOutside
<1>9. CASE CountEvent
  <2>1. /\ pc = "process" /\ UNCHANGED <<fd_dispatch, epoll_data, id_of>>
        /\ Owner("data") => step \in {0, 6}
    <3>1. Owner("data") => ~Owner("single")
      BY OneOwner
    <3> QED
      BY <1>9, <3>1 DEF CountEvent, ProcessReturns, CountData, CountSingle, wrapperVars
  <2>2. ASSUME NEW p \in Objects, NEW k \in 1..Len(FdsOf(p)), id_of[p] # NoSubscriber
        PROVE  Present(p, k) /\ Known(p, k)
    <3>1. Known(p, k)
      BY <2>1 DEF Known
    <3>2. k \in 1..3 /\ p \in {"data", "single"}
      BY FdsOfFacts
    <3>3. CASE Owner(p)
      <4>1. step \in {0, 6}
        BY <2>1, <3>2, <3>3 DEF StepInv
      <4> QED
        BY <2>1, <3>1, <3>2, <4>1 DEF Present
    <3>4. CASE ~Owner(p)
      BY <2>2, <3>1, <3>4 DEF Present, Owner
    <3> QED
      BY <3>3, <3>4
  <2> QED
    BY <2>1, <2>2, RegistryOutside
<1>10. CASE LoopStep
  <2>1. pc \notin {"init", "process"} /\ UNCHANGED <<fd_dispatch, epoll_data, id_of>>
    BY <1>10 DEF LoopStep, RunCounters, Run, WrapperPoll, DispatchCounter, CallProcess, WalkOn,
       SkipDiscarded, AtSlot, DispatchEnds, wrapperVars, clientVars
  <2> QED
    BY <2>1, RegistryOutside DEF Present, Known
<1> QED
  BY <1>1, <1>2, <1>3, <1>5, <1>6, <1>7, <1>8, <1>9, <1>10, UnnoticedSteps
     DEF CountersNext, ClientStep, Callback

(* `process` is given what the owner of the descriptor registered. *)
LEMMA NextEventInv ==
    ASSUME CountersTypeOK, IdInv, RegistryInv, OwnerInv, EventInv, [CountersNext]_countersVars
    PROVE  EventInv'
<1>1. CASE UNCHANGED <<pc, current, id_of, event>>
  BY <1>1 DEF EventInv, Owner
<1>2. CASE Unnoticed
  BY <1>1, <1>2 DEF Unnoticed, vars, loopVars
<1>3. ASSUME NEW o \in Objects, AddObject(o) \/ RemoveObject(o) \/ InitDone(o) PROVE EventInv'
  BY <1>3 DEF AddObject, AddSubscriber, RemoveObject, RemoveSubscriber, HoldsSubscriberOps, InitDone,
     InitReturns, loopVars, EventInv, CountersTypeOK, TypeOK
<1>4. ASSUME NEW o \in Objects, InitRegisters(o) PROVE EventInv'
  BY <1>1, <1>4, OwnerRegisters, ToggleSteps DEF InitRegisters
<1>5. CASE ToggleAdds
  BY <1>1, <1>5, OwnerRegisters, ToggleSteps DEF ToggleAdds
<1>6. CASE ToggleRemoves
  BY <1>1, <1>6, OwnerRemoves DEF ToggleRemoves
<1>7. CASE CountEvent \/ RunCounters \/ WalkOn
  BY <1>7 DEF CountEvent, ProcessReturns, RunCounters, Run, WalkOn, SkipDiscarded, AtSlot, DispatchEnds,
     EventInv
<1>8. CASE DispatchCounter
  <2>1. TypeOK /\ CallProcess
    BY <1>8 DEF DispatchCounter, CountersTypeOK
  <2>2. Event.fd \in Fds /\ SubscriberId(Event.fd) = fd_dispatch[Event.fd]
    BY <2>1, ProcessedWasAhead
  <2>3. /\ fd_dispatch[Event.fd] \in subscribers /\ current' = fd_dispatch[Event.fd]
        /\ pc = "dispatch" /\ event' = epoll_data[Event.fd] /\ id_of' = id_of
    BY <1>8, <2>2 DEF DispatchCounter, CallProcess, AtSlot
  <2>4. fd_dispatch[Event.fd] # NoSubscriber
    BY <2>1, <2>3, IdIsSomebody DEF TypeOK, SubscribersTypeOK
  <2>5. PICK o \in Objects : \E k \in 1..Len(FdsOf(o)) :
            fd_dispatch[Event.fd] = id_of[o] /\ Event.fd = FdsOf(o)[k]
    BY <2>2, <2>4 DEF OwnerInv
  <2>6. PICK k \in 1..Len(FdsOf(o)) : fd_dispatch[Event.fd] = id_of[o] /\ Event.fd = FdsOf(o)[k]
    BY <2>5
  <2>7. epoll_data[FdsOf(o)[k]] = WatchFor(o, k).inner
    BY <2>3, <2>4, <2>6 DEF RegistryInv, Known
  <2>8. Owner(o)'
    BY <2>3, <2>4, <2>6 DEF Owner
  <2>9. event' = WatchFor(o, k).inner
    BY <2>3, <2>6, <2>7
  <2> QED
    BY <2>8, <2>9 DEF EventInv
<1> QED
  BY <1>1, <1>2, <1>3, <1>4, <1>5, <1>6, <1>7, <1>8, UnnoticedSteps
     DEF CountersNext, ClientStep, Callback, LoopStep

(* The event being processed is of a descriptor of the object it is given to. *)
LEMMA ProcessedIsOwn ==
    ASSUME IdInv, EventInv, pc = "process", NEW o, Owner(o)
    PROVE  \E k \in 1..Len(FdsOf(o)) :
               /\ event = WatchFor(o, k).inner
               /\ InnerFd(event) = FdsOf(o)[k]
               /\ UserData(event) = DataOf(o, k)
<1>1. PICK p \in Objects : \E k \in 1..Len(FdsOf(p)) : Owner(p) /\ event = WatchFor(p, k).inner
  BY DEF EventInv
<1>2. p = o
  BY <1>1, OneOwner
<1> QED
  BY <1>1, <1>2, WatchForFacts

(* Slots ahead only go, and with RemoveEvent so do the events of the       *)
(* descriptors removed.                                                    *)
LEMMA AheadShrinks ==
    ASSUME UNCHANGED ready_events, SlotsAhead' \subseteq SlotsAhead
    PROVE  EventsAhead' \subseteq EventsAhead
BY DEF EventsAhead, IsDiscarded

(* No event of a removed descriptor is ahead. *)
LEMMA RemovedNotAhead ==
    ASSUME TypeOK, NEW fds \in SUBSET Fds, RemoveEvent(fds), UNCHANGED loopVars
    PROVE  EventsAhead' \subseteq EventsAhead \ fds
<1>1. SlotsAhead' = SlotsAhead /\ SlotsAhead \subseteq Slots
  BY SameSlots, AheadInBuffer
<1>2. \A i \in SlotsAhead :
        ready_events'[i] = IF ready_events[i].fd \in fds THEN DefaultEvent ELSE ready_events[i]
  BY <1>1 DEF RemoveEvent
<1>3. \A i \in SlotsAhead : ~IsDiscarded(ready_events[i])' =>
        ready_events[i].fd \notin fds /\ ready_events'[i] = ready_events[i] /\ ~IsDiscarded(ready_events[i])
  BY <1>2 DEF IsDiscarded
<1> QED
  BY <1>1, <1>3 DEF EventsAhead

(* The walk over the batch adds nothing to what is ahead. *)
LEMMA LoopShrinks ==
    ASSUME TypeOK, SkipDiscarded \/ CallProcess \/ ProcessReturns
    PROVE  EventsAhead' \subseteq EventsAhead
<1>1. ev_index \in Int /\ event_count \in Int /\ event_count' = event_count /\ ready_events' = ready_events
  BY DEF TypeOK, SkipDiscarded, CallProcess, ProcessReturns, wrapperVars
<1>2. CASE SkipDiscarded
  BY <1>1, <1>2, AheadShrinks DEF SkipDiscarded, AtSlot, SlotsAhead
<1>3. CASE CallProcess
  BY <1>1, <1>3, AheadShrinks DEF CallProcess, AtSlot, SlotsAhead
<1>4. CASE ProcessReturns
  BY <1>1, <1>4, AheadShrinks DEF ProcessReturns, SlotsAhead
<1> QED
  BY <1>2, <1>3, <1>4

(* Every step keeps the account of a toggle. *)
LEMMA NextToggleInv ==
    ASSUME CountersTypeOK, IdInv, IdInv', StepInv, StepInv', RegistryInv, OwnerInv, EventInv, ToggleInv,
           [CountersNext]_countersVars
    PROVE  ToggleInv'
<1>0. TypeOK
  BY DEF CountersTypeOK
<1>1. CASE Unnoticed
  <2>1. SlotsAhead' = SlotsAhead /\ ready_events' = ready_events /\ pc' = pc /\ current' = current
    BY <1>1, SameSlots DEF Unnoticed, vars, loopVars, wrapperVars
  <2>2. EventsAhead' = EventsAhead
    BY <2>1 DEF EventsAhead, IsDiscarded
  <2> QED
    BY <1>1, <2>1, <2>2 DEF Unnoticed, ToggleInv, Owner
<1>2. ASSUME NEW o \in Objects, AddObject(o) \/ RemoveObject(o) \/ InitDone(o) PROVE ToggleInv'
  BY <1>2 DEF AddObject, AddSubscriber, RemoveObject, RemoveSubscriber, HoldsSubscriberOps, InitDone,
     InitReturns, loopVars, ToggleInv, CountersTypeOK, TypeOK
<1>3. ASSUME NEW o \in Objects, InitRegisters(o) PROVE ToggleInv'
  BY <1>3, OwnerRegisters, ToggleSteps DEF InitRegisters, ToggleInv
<1>4. CASE ToggleRemoves
  <2>1. /\ pc = "process" /\ Owner("data") /\ toggle_registry' = FALSE /\ toggled' = TRUE
        /\ step' = step + 1 /\ id_of' = id_of /\ counted' = counted
        /\ step = 0 => toggle_registry
    BY <1>4 DEF ToggleRemoves
  <2>2. /\ CounterFds[step + 1] \in Fds /\ pc' = pc /\ current' = current
        /\ RemoveEvent({CounterFds[step + 1]}) /\ UNCHANGED loopVars
    BY <1>4, OwnerRemoves, ToggleSteps
  <2>3. EventsAhead' \subseteq EventsAhead \ {CounterFds[step + 1]}
    BY <1>0, <2>2, RemovedNotAhead
  <2>4. step \in 0..6
    BY DEF CountersTypeOK
  <2>5. step > 0 => toggled
    BY <2>1 DEF ToggleInv
  <2>6. counted \cap DataFds = {}
    BY <2>1, <2>4, <2>5 DEF ToggleInv
  <2>7. \A k \in 1..3 : k <= step => CounterFds[k] \notin EventsAhead
    BY <2>1, <2>4, <2>5 DEF ToggleInv
  <2>8. \A k \in 1..3 : k <= step' => CounterFds[k] \notin EventsAhead'
    <3> SUFFICES ASSUME NEW k \in 1..3, k <= step + 1 PROVE CounterFds[k] \notin EventsAhead'
      BY <2>1
    <3>1. k <= step \/ k = step + 1
      BY <2>4
    <3> QED
      BY <2>3, <2>7, <3>1
  <2>9. Owner("data")' /\ step' > 0
    BY <2>1, <2>2, <2>4 DEF Owner
  <2> QED
    BY <2>1, <2>2, <2>6, <2>8, <2>9 DEF ToggleInv
<1>5. CASE ToggleAdds
  <2>1. /\ pc = "process" /\ Owner("data") /\ "data" \in Objects
        /\ step - 2 \in 1..Len(FdsOf("data")) /\ Register("data", step - 2)
        /\ step' = step + 1 /\ step \in 3..5
        /\ UNCHANGED <<toggle_registry, toggled, id_of, counted>>
    BY <1>5, ToggleSteps DEF ToggleAdds
  <2>2. UNCHANGED <<pc, current, ready_events>> /\ UNCHANGED loopVars
    BY <2>1, OwnerRegisters
  <2>3. EventsAhead' \subseteq EventsAhead
    BY <2>2, SameSlots, AheadShrinks
  <2>4. step > 0 /\ step' > 0 /\ \A k \in 1..3 : k <= step
    BY <2>1
  <2>5. Owner("data")'
    BY <2>1, <2>2 DEF Owner
  <2>6. toggled /\ ~toggle_registry /\ counted \cap DataFds = {}
        /\ \A k \in 1..3 : CounterFds[k] \notin EventsAhead
    BY <2>1, <2>4 DEF ToggleInv
  <2> QED
    BY <2>1, <2>2, <2>3, <2>4, <2>5, <2>6 DEF ToggleInv
<1>6. CASE CountEvent
  <2>1. /\ pc = "process" /\ pc' = "dispatch" /\ step' = 0 /\ counted' = counted \cup {InnerFd(event)}
        /\ UNCHANGED <<toggle_registry, toggled, id_of>>
        /\ CountData \/ CountSingle
    BY <1>6 DEF CountEvent, ProcessReturns
  <2>2. EventsAhead' \subseteq EventsAhead
    BY <1>0, <1>6, LoopShrinks DEF CountEvent
  <2>3. CASE Owner("data")
    <3>1. step = 6 \/ (step = 0 /\ ~toggle_registry)
      BY <2>1, <2>3, OneOwner DEF CountData, CountSingle
    <3>2. PICK k \in 1..3 : InnerFd(event) = CounterFds[k]
      BY <2>1, <2>3, ProcessedIsOwn, FdsOfFacts, Lengths DEF Owner
    <3>3. CASE toggled
      <4>1. step = 6
        BY <2>1, <2>3, <3>1, <3>3 DEF ToggleInv
      <4>2. ~toggle_registry /\ counted \cap DataFds = {} /\ \A j \in 1..3 : CounterFds[j] \notin EventsAhead
        BY <2>1, <2>3, <3>3, <4>1 DEF ToggleInv
      <4>3. EventsAhead' \cap DataFds = {}
        BY <2>2, <4>2 DEF DataFds
      <4>4. counted' \cap DataFds = {CounterFds[k]}
        BY <2>1, <3>2, <4>2 DEF DataFds
      <4> QED
        BY <2>1, <3>3, <4>2, <4>3, <4>4 DEF ToggleInv
    <3>4. CASE ~toggled
      <4>1. ~toggle_registry
        BY <2>1, <3>1, <3>4 DEF ToggleInv
      <4> QED
        BY <2>1, <3>4, <4>1 DEF ToggleInv, CountersTypeOK
    <3> QED
      BY <3>3, <3>4
  <2>4. CASE ~Owner("data")
    <3>1. Owner("single")
      BY <2>1, <2>4 DEF CountData, CountSingle
    <3>2. InnerFd(event) = SingleFd
      BY <2>1, <3>1, ProcessedIsOwn, FdsOfFacts, Lengths DEF Owner
    <3>3. counted' \cap DataFds = counted \cap DataFds
      BY <2>1, <3>2, CountersAssumption DEF DataFds
    <3> QED
      BY <2>1, <2>2, <2>4, <3>3 DEF ToggleInv
  <2> QED
    BY <2>3, <2>4
<1>7. CASE RunCounters
  BY <1>7 DEF RunCounters, Run, ToggleInv, StepInv
<1>8. CASE DispatchCounter
  <2>1. /\ pc = "dispatch" /\ pc' = "process"
        /\ UNCHANGED <<toggle_registry, toggled, id_of, counted, step>> /\ CallProcess
    BY <1>8 DEF DispatchCounter, CallProcess, AtSlot
  <2>2. EventsAhead' \subseteq EventsAhead
    BY <1>0, <2>1, LoopShrinks
  <2>3. Event.fd \in EventsAhead /\ Event.fd \in Fds /\ current' = fd_dispatch[Event.fd]
    BY <1>0, <2>1, ProcessedWasAhead DEF CallProcess
  <2>4. ASSUME Owner("data")' PROVE Event.fd \in DataFds
    <3>1. fd_dispatch[Event.fd] = id_of["data"] /\ id_of["data"] # NoSubscriber /\ "data" \in Objects
      BY <2>1, <2>3, <2>4 DEF Owner
    <3>2. PICK o \in Objects : \E k \in 1..Len(FdsOf(o)) :
              fd_dispatch[Event.fd] = id_of[o] /\ Event.fd = FdsOf(o)[k]
      BY <2>3, <3>1 DEF OwnerInv
    <3>3. o = "data"
      <4>1. id_of[o] = id_of["data"]
        BY <3>1, <3>2
      <4> QED
        BY <3>1, <4>1, Zenon DEF IdInv
    <3>4. PICK k \in 1..Len(FdsOf(o)) : Event.fd = FdsOf(o)[k]
      BY <3>2
    <3>5. k \in 1..3 /\ FdsOf(o)[k] = CounterFds[k]
      BY <3>3, FdsOfFacts
    <3> QED
      BY <3>4, <3>5 DEF DataFds
  <2>5. step = 0
    BY <2>1 DEF StepInv
  <2>6. toggled => ~Owner("data")'
    BY <2>1, <2>3, <2>4 DEF ToggleInv
  <2> QED
    BY <2>1, <2>2, <2>5, <2>6 DEF ToggleInv
<1>9. CASE WalkOn
  <2>1. CASE SkipDiscarded
    <3>1. EventsAhead' \subseteq EventsAhead
      BY <1>0, <2>1, LoopShrinks
    <3> QED
      BY <1>9, <2>1, <3>1 DEF WalkOn, SkipDiscarded, AtSlot, clientVars, ToggleInv
  <2>2. CASE DispatchEnds
    BY <2>2 DEF DispatchEnds, ToggleInv
  <2> QED
    BY <1>9, <2>1, <2>2 DEF WalkOn
<1> QED
  BY <1>1, <1>2, <1>3, <1>4, <1>5, <1>6, <1>7, <1>8, <1>9, UnnoticedSteps
     DEF CountersNext, ClientStep, Callback, LoopStep

-----------------------------------------------------------------------------
(* Types. *)

(* The descriptors of an object, as a set. *)
LEMMA FdSetsOfFds ==
    ASSUME NEW o \in Objects
    PROVE  FdSetOf(o) = {FdsOf(o)[k] : k \in 1..Len(FdsOf(o))} /\ FdSetOf(o) \subseteq Fds
<1>1. FdsOf(o) \in Seq(Fds)
  BY Lengths
<1>2. DOMAIN FdsOf(o) = 1..Len(FdsOf(o)) /\ \A k \in 1..Len(FdsOf(o)) : FdsOf(o)[k] \in Fds
  BY <1>1, SeqFacts
<1> QED
  BY <1>2 DEF FdSetOf

(* A counter wraps within its width and leaves the others alone. *)
LEMMA IncrementTypes ==
    ASSUME counters \in [Fds -> 0..(CountLimit - 1)], NEW fd \in Fds, Increment(fd)
    PROVE  /\ counters' \in [Fds -> 0..(CountLimit - 1)]
           /\ \A g \in Fds : g # fd => counters'[g] = counters[g]
<1>1. CountLimit \in Nat /\ CountLimit > 0
  BY CountersAssumption
<1>2. (counters[fd] + 1) % CountLimit \in 0..(CountLimit - 1)
  BY <1>1
<1> QED
  BY <1>2 DEF Increment

(* `process` counts for the descriptor of its event. *)
LEMMA CountEventMeans ==
    ASSUME CountersTypeOK, IdInv, EventInv, CountEvent
    PROVE  InnerFd(event) \in Fds /\ Increment(InnerFd(event))
<1>1. pc = "process" /\ (CountData \/ CountSingle)
  BY DEF CountEvent
<1>2. CASE CountData
  <2>1. Owner("data") /\ "data" \in Objects
    BY <1>2 DEF CountData, Owner
  <2>2. PICK k \in 1..Len(FdsOf("data")) : /\ InnerFd(event) = FdsOf("data")[k]
                                           /\ UserData(event) = DataOf("data", k)
    BY <1>1, <2>1, ProcessedIsOwn
  <2>3. k \in 1..3 /\ FdsOf("data")[k] = CounterFds[k] /\ CounterFds[k] \in Fds
    BY <2>1, FdsOfFacts
  <2>4. (UserData(event) - FirstData) % Half = k - 1
    BY <2>2, <2>3, EventIdIsPlace DEF DataOf
  <2>5. Increment(CounterFds[(k - 1) + 1])
    BY <1>2, <2>3, <2>4 DEF CountData, CountId
  <2>6. (k - 1) + 1 = k
    BY <2>3
  <2> QED
    BY <2>2, <2>3, <2>5, <2>6
<1>3. CASE CountSingle
  <2>1. Owner("single") /\ "single" \in Objects
    BY <1>3 DEF CountSingle, Owner
  <2>2. PICK k \in 1..Len(FdsOf("single")) : InnerFd(event) = FdsOf("single")[k]
    BY <1>1, <2>1, ProcessedIsOwn
  <2>3. InnerFd(event) = SingleFd /\ SingleFd \in Fds
    BY <2>1, <2>2, FdsOfFacts
  <2> QED
    BY <1>3, <2>3 DEF CountSingle
<1> QED
  BY <1>1, <1>2, <1>3

(* Every step keeps the types. *)
LEMMA NextCountersTypeOK ==
    ASSUME CountersTypeOK, ServedSlotCollected, MembersIssued, TablesAgree, IdInv, EventInv,
           [CountersNext]_countersVars
    PROVE  CountersTypeOK'
<1>0. TypeOK'
  BY CountersStepIsManagerStep, NextTypes DEF CountersTypeOK
<1>1. CASE TriggerAllCounters \/ TriggerEvent \/ ClearEvent
  <2>1. PICK up, down \in SUBSET Fds : RaiseOrClear(up, down)
    BY <1>1, FdSetsOfFds, CountersAssumption DEF TriggerAllCounters, TriggerEvent, ClearEvent
  <2> QED
    BY <1>0, <2>1 DEF RaiseOrClear, CountersTypeOK
<1>2. CASE SetToggleRegistry
  <2>1. toggles' \in 0..MaxToggles
    BY <1>2, CountersAssumption DEF SetToggleRegistry, CountersTypeOK
  <2> QED
    BY <1>0, <1>2, <2>1 DEF SetToggleRegistry, CountersTypeOK
<1>3. ASSUME NEW o \in Objects, AddObject(o) PROVE CountersTypeOK'
  <2>1. next_id \in SubscriberIds
    BY <1>3, AddObjectMeans
  <2>2. id_of' \in [Objects -> SubscriberIds \cup {NoSubscriber}]
    BY <1>3, <2>1 DEF AddObject, CountersTypeOK
  <2> QED
    BY <1>0, <1>3, <2>2 DEF AddObject, CountersTypeOK
<1>4. ASSUME NEW o \in Objects, RemoveObject(o) PROVE CountersTypeOK'
  <2>1. id_of' \in [Objects -> SubscriberIds \cup {NoSubscriber}]
    BY <1>4 DEF RemoveObject, CountersTypeOK
  <2> QED
    BY <1>0, <1>4, <2>1 DEF RemoveObject, CountersTypeOK
<1>5. ASSUME NEW o \in Objects, NEW k \in 1..Len(FdsOf(o)), Register(o, k)
      PROVE  epoll_data' \in [Fds -> U64]
  <2>1. WatchFor(o, k).inner \in U64
    BY WatchForFacts
  <2>2. epoll_data' = [epoll_data EXCEPT ![FdsOf(o)[k]] = WatchFor(o, k).inner]
    BY <1>5, RegisterMeans
  <2>3. epoll_data \in [Fds -> U64]
    BY DEF CountersTypeOK
  <2> QED
    BY <2>1, <2>2, <2>3
<1>6. ASSUME NEW o \in Objects, InitRegisters(o) PROVE CountersTypeOK'
  <2>1. epoll_data' \in [Fds -> U64]
    BY <1>5, <1>6, ToggleSteps DEF InitRegisters
  <2>2. step' = step + 1 /\ step \in 0..6 /\ step + 1 \in 1..Len(FdsOf(o))
    BY <1>6, ToggleSteps DEF InitRegisters, CountersTypeOK
  <2>3. step' \in 0..6
    BY <2>2, FdsOfFacts
  <2> QED
    BY <1>0, <1>6, <2>1, <2>3 DEF InitRegisters, CountersTypeOK
<1>7. CASE ToggleAdds
  <2>1. epoll_data' \in [Fds -> U64]
    BY <1>5, <1>7, ToggleSteps DEF ToggleAdds
  <2>2. step' \in 0..6
    BY <1>7 DEF ToggleAdds
  <2> QED
    BY <1>0, <1>7, <2>1, <2>2 DEF ToggleAdds, CountersTypeOK
<1>8. CASE ToggleRemoves
  <2>1. step \in 0..6
    BY DEF CountersTypeOK
  <2>2. step' \in 0..6
    BY <1>8, <2>1 DEF ToggleRemoves
  <2> QED
    BY <1>0, <1>8, <2>2 DEF ToggleRemoves, CountersTypeOK
<1>9. CASE CountEvent
  <2>1. InnerFd(event) \in Fds /\ Increment(InnerFd(event))
    BY <1>9, CountEventMeans
  <2>2. counters' \in [Fds -> 0..(CountLimit - 1)]
    BY <2>1, IncrementTypes DEF CountersTypeOK
  <2>3. counted' \in SUBSET Fds /\ step' = 0
    BY <1>9, <2>1 DEF CountEvent, CountersTypeOK
  <2> QED
    BY <1>0, <1>9, <2>2, <2>3 DEF CountEvent, CountersTypeOK
<1>10. ASSUME NEW o \in Objects, InitDone(o) PROVE CountersTypeOK'
  BY <1>0, <1>10 DEF InitDone, CountersTypeOK
<1>11. CASE DispatchCounter
  <2>1. event' \in U64
    BY <1>11, ProcessedWasAhead DEF DispatchCounter, CountersTypeOK
  <2> QED
    BY <1>0, <1>11, <2>1 DEF DispatchCounter, CountersTypeOK
<1>12. CASE RunCounters
  BY <1>0, <1>12 DEF RunCounters, CountersTypeOK
<1>13. CASE WalkOn \/ UNCHANGED countersVars
  BY <1>0, <1>13 DEF WalkOn, clientVars, countersVars, CountersTypeOK
<1> QED
  BY <1>1, <1>2, <1>3, <1>4, <1>6, <1>7, <1>8, <1>9, <1>10, <1>11, <1>12, <1>13
     DEF CountersNext, ClientStep, Callback, LoopStep

-----------------------------------------------------------------------------
(* The tables: a counter unregisters only what is its own. *)

(* Watch lists and fd_dispatch stay one relation, whatever TouchesForeign  *)
(* allows: these clients make no use of it.                                *)
LEMMA NextCountersTables ==
    ASSUME CountersTypeOK, TablesAgree, StepInv, RegistryInv, [CountersNext]_countersVars
    PROVE  TablesAgree'
<1>0. TypeOK
  BY DEF CountersTypeOK
<1>1. CASE UNCHANGED <<fd_dispatch, subscriber_watch_list>>
  BY <1>1 DEF TablesAgree
<1>2. ASSUME NEW o \in Objects, RemoveObject(o) PROVE TablesAgree'
  <2>1. id_of[o] \in SubscriberIds
    BY <1>2, RemoveObjectMeans
  <2> QED
    BY <1>0, <1>2, <2>1, RemoveSubscriberAgrees DEF RemoveObject
<1>3. ASSUME NEW o \in Objects, NEW k \in 1..Len(FdsOf(o)), Owner(o), Register(o, k) PROVE TablesAgree'
  <2>1. OpsAdd(id_of[o], FdsOf(o)[k], {In})
    BY <1>3, RegisterMeans
  <2>2. id_of[o] \in SubscriberIds /\ FdsOf(o)[k] \in Fds
    BY <1>3, OwnerIsId, FdsOfFacts
  <2> QED
    BY <1>0, <2>1, <2>2, OpsAddAgrees
<1>4. ASSUME NEW o \in Objects, InitRegisters(o) PROVE TablesAgree'
  BY <1>3, <1>4, ToggleSteps DEF InitRegisters
<1>5. CASE ToggleAdds
  BY <1>3, <1>5, ToggleSteps DEF ToggleAdds
<1>6. CASE ToggleRemoves
  <2>1. /\ pc = "process" /\ Owner("data") /\ step \in 0..6 /\ step < 3
        /\ OpsRemove(current, CounterFds[step + 1])
    BY <1>6 DEF ToggleRemoves, CountersTypeOK
  <2>2. /\ "data" \in Objects /\ step + 1 \in 1..Len(FdsOf("data"))
        /\ CounterFds[step + 1] = FdsOf("data")[step + 1] /\ CounterFds[step + 1] \in Fds
    BY <1>6, ToggleSteps
  <2>3. current \in SubscriberIds /\ current = id_of["data"] /\ id_of["data"] # NoSubscriber
    BY <2>1, OwnerIsId
  <2>4. Present("data", step + 1)
    BY <2>1 DEF Present
  <2>5. fd_dispatch[CounterFds[step + 1]] = current
    BY <2>2, <2>3, <2>4 DEF RegistryInv
  <2> QED
    BY <1>0, <2>1, <2>2, <2>3, <2>5, OpsRemoveAgrees
<1>7. CASE Unnoticed
  BY <1>1, <1>7 DEF Unnoticed, vars, wrapperVars
<1>8. ASSUME NEW o \in Objects, AddObject(o) \/ InitDone(o) PROVE TablesAgree'
  BY <1>1, <1>8 DEF AddObject, AddSubscriber, InitDone, InitReturns, wrapperVars
<1>9. CASE CountEvent \/ LoopStep
  BY <1>1, <1>9 DEF CountEvent, ProcessReturns, LoopStep, RunCounters, Run, WrapperPoll,
     DispatchCounter, CallProcess, WalkOn, SkipDiscarded, DispatchEnds, wrapperVars
<1> QED
  BY <1>2, <1>4, <1>5, <1>6, <1>7, <1>8, <1>9, UnnoticedSteps
     DEF CountersNext, ClientStep, Callback

-----------------------------------------------------------------------------
(* Theorems. *)

(* A new manager and fresh counters satisfy the invariant. *)
LEMMA InitCountersInv == CountersInit => CountersInv
<1> SUFFICES ASSUME CountersInit PROVE CountersInv
  OBVIOUS
<1>1. Init /\ TypeOK /\ TablesAgree
  BY InitTypes, InitTablesAgree DEF CountersInit
<1>2. /\ pc = "idle" /\ subscribers = {} /\ \A fd \in Fds : fd_dispatch[fd] = NoSubscriber
      /\ \A o \in Objects : id_of[o] = NoSubscriber
      /\ step = 0
  BY DEF CountersInit, Init, SubscribersInit, WrapperInit
<1>3. CountersTypeOK
  <2>1. 0 \in 0..(CountLimit - 1) /\ 0 \in 0..MaxToggles /\ 0 \in U64
    BY CountersAssumption, Widths DEF U64
  <2>2. /\ counters \in [Fds -> 0..(CountLimit - 1)]
        /\ id_of \in [Objects -> SubscriberIds \cup {NoSubscriber}]
        /\ epoll_data \in [Fds -> U64]
        /\ toggles \in 0..MaxToggles /\ event \in U64 /\ step \in 0..6
    BY <2>1 DEF CountersInit
  <2> QED
    BY <1>1, <2>2 DEF CountersInit, CountersTypeOK
<1>4. ServedSlotCollected /\ CallbackAlive /\ MembersIssued
  BY <1>2 DEF ServedSlotCollected, CallbackAlive, MembersIssued
<1>5. IdInv /\ StepInv
  BY <1>2 DEF IdInv, StepInv
<1>6. RegistryInv /\ OwnerInv
  BY <1>2 DEF RegistryInv, OwnerInv
<1>7. EventInv /\ ToggleInv
  BY <1>2 DEF EventInv, ToggleInv
<1> QED
  BY <1>1, <1>3, <1>4, <1>5, <1>6, <1>7 DEF CountersInv

(* The invariant is inductive. *)
LEMMA NextCountersInv == CountersInv /\ [CountersNext]_countersVars => CountersInv'
<1> SUFFICES ASSUME CountersInv, [CountersNext]_countersVars PROVE CountersInv'
  OBVIOUS
<1>0. /\ CountersTypeOK /\ ServedSlotCollected /\ CallbackAlive /\ MembersIssued /\ TablesAgree
      /\ IdInv /\ StepInv /\ RegistryInv /\ OwnerInv /\ EventInv /\ ToggleInv
  BY DEF CountersInv
<1>1. [Next]_vars /\ TypeOK
  BY <1>0, CountersStepIsManagerStep DEF CountersTypeOK
<1>2. CountersTypeOK'
  BY <1>0, NextCountersTypeOK
<1>3. ServedSlotCollected' /\ CallbackAlive' /\ MembersIssued'
  BY <1>0, <1>1, NextServedSlot, NextCallbackAlive, NextMembersIssued
<1>4. TablesAgree'
  BY <1>0, NextCountersTables
<1>5. IdInv'
  BY <1>0, NextIdInv
<1>6. StepInv'
  BY <1>0, <1>5, NextStepInv
<1>7. RegistryInv' /\ OwnerInv'
  BY <1>0, <1>5, NextRegistryInv
<1>8. EventInv'
  BY <1>0, NextEventInv
<1>9. ToggleInv'
  BY <1>0, <1>5, <1>6, NextToggleInv
<1> QED
  BY <1>2, <1>3, <1>4, <1>5, <1>6, <1>7, <1>8, <1>9 DEF CountersInv

(* The inductive invariant holds of every run of the counter subscribers. *)
THEOREM CountersInvariant == CountersSpec => []CountersInv
BY InitCountersInv, NextCountersInv, PTL DEF CountersSpec

(* The counter subscribers are clients of the manager: whatever they do is *)
(* a behaviour of EventManager, so what is proved of it holds here.        *)
THEOREM CountersImplementManager == CountersSpec => Spec
<1>1. CountersInit => Init
  BY DEF CountersInit
<1>2. CountersInv /\ [CountersNext]_countersVars => [Next]_vars
  BY CountersStepIsManagerStep DEF CountersInv
<1> QED
  BY <1>1, <1>2, CountersInvariant, PTL DEF CountersSpec, Spec

(* Types: in particular a counter stays within its 64 bits and the data    *)
(* the kernel is given within 64 bits.                                     *)
THEOREM CountersTypes == CountersSpec => []CountersTypeOK
<1>1. CountersInv => CountersTypeOK
  BY DEF CountersInv
<1> QED
  BY <1>1, CountersInvariant, PTL

(* `process` counts for the descriptor the event came from and for no      *)
(* other, whatever first_data is and also where first_data + 2 wraps.      *)
THEOREM EventsCountedByOwner == CountersSpec => CountsItsOwn
<1>1. CountersInv /\ [CountersNext]_countersVars =>
        [\A fd \in Fds : counters'[fd] # counters[fd] => fd = InnerFd(event)]_countersVars
  <2> SUFFICES ASSUME CountersInv, CountersNext, NEW fd \in Fds, counters'[fd] # counters[fd]
               PROVE  fd = InnerFd(event)
    OBVIOUS
  <2>1. CountEvent
    <3>1. ~(TriggerAllCounters \/ TriggerEvent \/ ClearEvent \/ SetToggleRegistry)
      BY UnnoticedSteps DEF Unnoticed
    <3>2. \A o \in Objects : ~(AddObject(o) \/ RemoveObject(o) \/ InitRegisters(o) \/ InitDone(o))
      BY DEF AddObject, RemoveObject, InitRegisters, InitDone
    <3>3. ~(ToggleRemoves \/ ToggleAdds \/ LoopStep)
      BY DEF ToggleRemoves, ToggleAdds, LoopStep, RunCounters, DispatchCounter, WalkOn, clientVars
    <3> QED
      BY <3>1, <3>2, <3>3 DEF CountersNext, ClientStep, Callback
  <2>2. InnerFd(event) \in Fds /\ Increment(InnerFd(event))
    BY <2>1, CountEventMeans DEF CountersInv
  <2> QED
    BY <2>2, IncrementTypes DEF CountersInv, CountersTypeOK
<1> QED
  BY <1>1, CountersInvariant, PTL DEF CountersSpec, CountsItsOwn

(* In a round in which `process` unregisters and registers the three       *)
(* descriptors, one event of them is counted: the others were taken out of *)
(* the batch with the registrations they belonged to (issue 41).           *)
THEOREM OneCountedPerToggle == CountersSpec => []ToggleCountsOne
<1>1. CountersInv => ToggleCountsOne
  <2> SUFFICES ASSUME CountersInv, pc = "dispatch", ev_index > event_count, toggled
               PROVE  \E k \in 1..3 : counted \cap FdSetOf("data") = {CounterFds[k]}
    BY DEF ToggleCountsOne
  <2>1. FdSetOf("data") = DataFds
    <3>1. FdsOf("data") = CounterFds /\ DOMAIN CounterFds = 1..3
      BY Lengths, SeqFacts
    <3> QED
      BY <3>1 DEF FdSetOf, DataFds
  <2> QED
    BY <2>1 DEF CountersInv, ToggleInv
<1> QED
  BY <1>1, CountersInvariant, PTL

(* Between callbacks every subscriber is watched exactly as `init` left    *)
(* it, with its data, however often the registry was toggled.              *)
THEOREM RegistryIsRestored == CountersSpec => []RegistryRestored
<1>1. CountersInv => RegistryRestored
  <2> SUFFICES ASSUME CountersInv, pc \notin {"init", "process"}, NEW o \in Objects, id_of[o] # NoSubscriber
               PROVE  /\ WatchList(id_of[o]) = FdSetOf(o)
                      /\ \A k \in DOMAIN FdsOf(o) : epoll_data[FdsOf(o)[k]] = WatchFor(o, k).inner
    BY DEF RegistryRestored
  <2>0. CountersTypeOK /\ TablesAgree /\ IdInv /\ RegistryInv /\ OwnerInv
    BY DEF CountersInv
  <2>1. DOMAIN FdsOf(o) = 1..Len(FdsOf(o))
    BY Lengths, SeqFacts
  <2>2. ASSUME NEW k \in 1..Len(FdsOf(o))
        PROVE  fd_dispatch[FdsOf(o)[k]] = id_of[o] /\ epoll_data[FdsOf(o)[k]] = WatchFor(o, k).inner
    BY <2>0 DEF RegistryInv, Present, Known
  <2>3. id_of[o] \in SubscriberIds
    BY <2>0 DEF CountersTypeOK
  <2>4. WatchList(id_of[o]) = {fd \in Fds : fd_dispatch[fd] = id_of[o]}
    BY <2>0, <2>3, WatchListOwned
  <2>5. ASSUME NEW fd \in Fds, fd_dispatch[fd] = id_of[o]
        PROVE  \E k \in 1..Len(FdsOf(o)) : fd = FdsOf(o)[k]
    <3>1. PICK p \in Objects : \E k \in 1..Len(FdsOf(p)) : fd_dispatch[fd] = id_of[p] /\ fd = FdsOf(p)[k]
      BY <2>0, <2>5 DEF OwnerInv
    <3>2. p = o
      BY <2>0, <2>5, <3>1 DEF IdInv
    <3> QED
      BY <3>1, <3>2
  <2>6. FdSetOf(o) = {FdsOf(o)[k] : k \in 1..Len(FdsOf(o))} /\ FdSetOf(o) \subseteq Fds
    BY FdSetsOfFds
  <2> QED
    BY <2>1, <2>2, <2>4, <2>5, <2>6
<1> QED
  BY <1>1, CountersInvariant, PTL

-----------------------------------------------------------------------------
(* No `expect` fails. *)

(* What a callback has not registered yet, or has taken away, is nobody's. *)
AbsentInv ==
    \A o \in Objects : \A k \in 1..Len(FdsOf(o)) :
        ~Present(o, k) => fd_dispatch[FdsOf(o)[k]] = NoSubscriber

(* The eventfds stay open, so the kernel follows fd_dispatch even where    *)
(* ClosesRegistered would let clients close them.                          *)
KernelInv == open = [fd \in Fds |-> fd] /\ InStep

(* One registration of the running callback. *)
LEMMA RegisterKeepsAbsent ==
    ASSUME CountersTypeOK, IdInv, AbsentInv, NEW o \in Objects, NEW k \in 1..Len(FdsOf(o)),
           Owner(o), Register(o, k), id_of' = id_of, Present(o, k)',
           \A j \in 1..Len(FdsOf(o)) : ~Present(o, j)' => ~Present(o, j)
    PROVE  AbsentInv'
<1>1. /\ UNCHANGED <<pc, current>>
      /\ \A fd \in Fds : fd_dispatch'[fd] = IF fd = FdsOf(o)[k] THEN id_of[o] ELSE fd_dispatch[fd]
  BY OwnerRegisters
<1> SUFFICES ASSUME NEW p \in Objects, NEW j \in 1..Len(FdsOf(p)), ~Present(p, j)'
             PROVE  fd_dispatch'[FdsOf(p)[j]] = NoSubscriber
  BY DEF AbsentInv
<1>2. FdsOf(p)[j] \in Fds
  BY FdsOfFacts
<1>3. p = o
  BY <1>1 DEF Present, Owner, IdInv
<1>4. j # k
  BY <1>3
<1>5. FdsOf(p)[j] # FdsOf(o)[k]
  BY <1>4, FdsOfDistinct
<1>6. fd_dispatch[FdsOf(p)[j]] = NoSubscriber
  BY <1>3 DEF AbsentInv
<1> QED
  BY <1>1, <1>2, <1>5, <1>6

(* Every step keeps it. *)
LEMMA NextAbsentInv ==
    ASSUME CountersInv, CountersInv', AbsentInv, [CountersNext]_countersVars
    PROVE  AbsentInv'
<1>0. CountersTypeOK /\ MembersIssued /\ TablesAgree /\ IdInv /\ StepInv /\ OwnerInv
  BY DEF CountersInv
<1>1. CASE Unnoticed
  BY <1>1 DEF Unnoticed, vars, wrapperVars, loopVars, AbsentInv, Present
<1>2. CASE pc' \notin {"init", "process"}
  BY <1>2 DEF AbsentInv, Present
<1>3. ASSUME NEW o \in Objects, AddObject(o) PROVE AbsentInv'
  <2>1. id_of[o] = NoSubscriber /\ current' = next_id /\ pc' = "init" /\ UNCHANGED fd_dispatch
    BY <1>0, <1>3, AddObjectMeans
  <2>2. \A p \in Objects : p # o => id_of'[p] = id_of[p] /\ id_of[p] # next_id
    BY <1>0, <1>3, AddObjectMeans DEF IdInv
  <2> SUFFICES ASSUME NEW p \in Objects, NEW j \in 1..Len(FdsOf(p)), ~Present(p, j)'
               PROVE  fd_dispatch'[FdsOf(p)[j]] = NoSubscriber
    BY DEF AbsentInv
  <2>3. p = o
    BY <2>1, <2>2 DEF Present
  <2>4. FdsOf(p)[j] \in Fds
    BY FdsOfFacts
  <2>5. ASSUME fd_dispatch[FdsOf(p)[j]] # NoSubscriber PROVE FALSE
    <3>1. PICK q \in Objects : \E k \in 1..Len(FdsOf(q)) :
              fd_dispatch[FdsOf(p)[j]] = id_of[q] /\ FdsOf(p)[j] = FdsOf(q)[k]
      BY <1>0, <2>4, <2>5 DEF OwnerInv
    <3>2. q = p
      BY <3>1, FdsOfDistinct
    <3> QED
      BY <2>1, <2>3, <2>5, <3>1, <3>2
  <2> QED
    BY <2>1, <2>5
<1>4. ASSUME NEW o \in Objects, InitRegisters(o) PROVE AbsentInv'
  <2>1. /\ pc = "init" /\ Owner(o) /\ step + 1 \in 1..Len(FdsOf(o)) /\ Register(o, step + 1)
        /\ step' = step + 1 /\ id_of' = id_of
    BY <1>0, <1>4, ToggleSteps DEF InitRegisters
  <2>2. pc' = pc /\ current' = current
    BY <1>0, <2>1, OwnerRegisters
  <2>3. step \in 0..6 /\ \A j \in 1..Len(FdsOf(o)) : j \in 1..3
    BY <1>0, FdsOfFacts DEF CountersTypeOK
  <2>4. \A j \in 1..Len(FdsOf(o)) : j <= step + 1 => Present(o, j)'
    BY <2>1, <2>2 DEF Present
  <2>5. \A j \in 1..Len(FdsOf(o)) : Present(o, j) => j <= step
    BY <2>1 DEF Present, Owner
  <2>6. \A j \in 1..Len(FdsOf(o)) : ~Present(o, j)' => ~Present(o, j)
    BY <2>3, <2>4, <2>5
  <2>7. PICK k \in 1..Len(FdsOf(o)) : k = step + 1
    BY <2>1
  <2>8. Register(o, k) /\ Present(o, k)'
    BY <2>1, <2>3, <2>4, <2>7
  <2> QED
    BY <1>0, <2>1, <2>6, <2>8, RegisterKeepsAbsent
<1>5. CASE ToggleAdds
  <2>1. /\ pc = "process" /\ Owner("data") /\ "data" \in Objects
        /\ step - 2 \in 1..Len(FdsOf("data")) /\ Register("data", step - 2)
        /\ step' = step + 1 /\ id_of' = id_of /\ step \in 3..5
    BY <1>0, <1>5, ToggleSteps DEF ToggleAdds
  <2>2. pc' = pc /\ current' = current
    BY <1>0, <2>1, OwnerRegisters
  <2>3. \A j \in 1..Len(FdsOf("data")) : j \in 1..3
    BY <2>1, FdsOfFacts
  <2>4. \A j \in 1..Len(FdsOf("data")) : j <= step - 2 => Present("data", j)'
    BY <2>1, <2>2, <2>3 DEF Present
  <2>5. \A j \in 1..Len(FdsOf("data")) : Present("data", j) => j <= step - 3
    BY <2>1, <2>3 DEF Present, Owner
  <2>6. \A j \in 1..Len(FdsOf("data")) : ~Present("data", j)' => ~Present("data", j)
    BY <2>1, <2>3, <2>4, <2>5
  <2>7. PICK k \in 1..Len(FdsOf("data")) : k = step - 2
    BY <2>1
  <2>8. Register("data", k) /\ Present("data", k)'
    BY <2>1, <2>3, <2>4, <2>7
  <2> QED
    BY <1>0, <2>1, <2>6, <2>8, RegisterKeepsAbsent
<1>6. CASE ToggleRemoves
  <2>1. /\ pc = "process" /\ Owner("data") /\ "data" \in Objects /\ step' = step + 1
        /\ id_of' = id_of /\ step \in 0..2
        /\ CounterFds[step + 1] = FdsOf("data")[step + 1] /\ step + 1 \in 1..Len(FdsOf("data"))
    <3>1. step \in 0..6 /\ step < 3
      BY <1>0, <1>6 DEF ToggleRemoves, CountersTypeOK
    <3>2. step \in 0..2
      BY <3>1
    <3> QED
      BY <1>0, <1>6, <3>2, ToggleSteps DEF ToggleRemoves
  <2>2. /\ pc' = pc /\ current' = current
        /\ \A fd \in Fds : fd_dispatch'[fd] = IF fd = CounterFds[step + 1] THEN NoSubscriber
                                                                       ELSE fd_dispatch[fd]
    BY <1>0, <1>6, OwnerRemoves
  <2> SUFFICES ASSUME NEW p \in Objects, NEW j \in 1..Len(FdsOf(p)), ~Present(p, j)'
               PROVE  fd_dispatch'[FdsOf(p)[j]] = NoSubscriber
    BY DEF AbsentInv
  <2>3. p = "data"
    BY <1>0, <2>1, <2>2 DEF Present, Owner, IdInv
  <2>4. j \in 1..3 /\ FdsOf(p)[j] \in Fds
    BY FdsOfFacts
  <2>5. j <= step + 1
    BY <2>1, <2>2, <2>3, <2>4 DEF Present
  <2>6. CASE j = step + 1
    BY <2>1, <2>2, <2>3, <2>4, <2>6
  <2>7. CASE j <= step
    <3>1. ~Present(p, j)
      BY <2>1, <2>3, <2>4, <2>7 DEF Present, Owner
    <3>2. fd_dispatch[FdsOf(p)[j]] = NoSubscriber
      BY <3>1 DEF AbsentInv
    <3> QED
      BY <2>2, <2>4, <3>2
  <2> QED
    BY <2>1, <2>4, <2>5, <2>6, <2>7
<1>7. ASSUME NEW o \in Objects, RemoveObject(o) PROVE pc' \notin {"init", "process"}
  BY <1>0, <1>7, RemoveObjectMeans
<1>8. ASSUME NEW o \in Objects, InitDone(o) PROVE pc' \notin {"init", "process"}
  BY <1>0, <1>8 DEF InitDone, InitReturns, CountersTypeOK, TypeOK
<1>9. CASE CountEvent \/ RunCounters \/ WalkOn
  <2>1. pc' \notin {"init", "process"}
    BY <1>9 DEF CountEvent, ProcessReturns, RunCounters, Run, WalkOn, SkipDiscarded, AtSlot, DispatchEnds
  <2> QED
    BY <1>2, <2>1
<1>10. CASE DispatchCounter
  <2>1. /\ pc' = "process" /\ step = 0 /\ step' = 0
    BY <1>0, <1>10 DEF DispatchCounter, CallProcess, AtSlot, StepInv
  <2>2. ASSUME NEW p \in Objects, NEW j \in 1..Len(FdsOf(p)) PROVE Present(p, j)'
    BY <2>1, FdsOfFacts DEF Present
  <2> QED
    BY <2>2 DEF AbsentInv
<1> QED
  BY <1>1, <1>2, <1>3, <1>4, <1>5, <1>6, <1>7, <1>8, <1>9, <1>10, UnnoticedSteps
     DEF CountersNext, ClientStep, Callback, LoopStep

(* Registrations and removals reach the kernel. *)
LEMMA NextKernelInv ==
    ASSUME CountersInv, KernelInv, [CountersNext]_countersVars
    PROVE  KernelInv'
<1>0. CountersTypeOK /\ TypeOK /\ InStep /\ {In} \in SUBSET Maskable
  BY WrapperAssumption DEF CountersInv, CountersTypeOK, KernelInv
<1>1. CASE UNCHANGED <<open, interest, fd_dispatch>>
  BY <1>1 DEF KernelInv, InStep
<1>2. ASSUME NEW o \in Objects, RemoveObject(o) PROVE KernelInv'
  <2>1. CtlDeleteAll(WatchList(id_of[o])) /\ RemoveEvent(WatchList(id_of[o]))
    BY <1>2 DEF RemoveObject, RemoveSubscriber, WrapperRemove
  <2>2. WatchList(id_of[o]) \in SUBSET Fds
    BY DEF WatchList
  <2>3. open' = open
    BY <2>1 DEF CtlDeleteAll
  <2> QED
    BY <1>0, <2>1, <2>2, <2>3, DeleteInStep DEF KernelInv
<1>3. ASSUME NEW o \in Objects, NEW k \in 1..Len(FdsOf(o)), Owner(o), Register(o, k) PROVE KernelInv'
  <2>1. EventOpsAdd(id_of[o], FdsOf(o)[k], {In})
    BY <1>3, RegisterMeans DEF OpsAdd
  <2>2. id_of[o] \in SubscriberIds /\ FdsOf(o)[k] \in Fds
    BY <1>0, <1>3, OwnerIsId, FdsOfFacts
  <2>3. open' = open
    BY <2>1 DEF EventOpsAdd, CtlAdd
  <2> QED
    BY <1>0, <2>1, <2>2, <2>3, AddInStep DEF KernelInv
<1>4. ASSUME NEW o \in Objects, InitRegisters(o) PROVE KernelInv'
  BY <1>0, <1>3, <1>4, ToggleSteps DEF InitRegisters
<1>5. CASE ToggleAdds
  BY <1>0, <1>3, <1>5, ToggleSteps DEF ToggleAdds
<1>6. CASE ToggleRemoves
  <2>1. CtlDeleteAll({CounterFds[step + 1]}) /\ RemoveEvent({CounterFds[step + 1]})
    BY <1>6 DEF ToggleRemoves, OpsRemove, EventOpsRemove, CtlDelete
  <2>2. {CounterFds[step + 1]} \in SUBSET Fds
    BY <1>0, <1>6, ToggleSteps
  <2>3. open' = open
    BY <2>1 DEF CtlDeleteAll
  <2> QED
    BY <1>0, <2>1, <2>2, <2>3, DeleteInStep DEF KernelInv
<1>7. CASE Unnoticed
  BY <1>1, <1>7 DEF Unnoticed, vars, kernelVars, wrapperVars
<1>8. ASSUME NEW o \in Objects, AddObject(o) \/ InitDone(o) PROVE KernelInv'
  BY <1>1, <1>8 DEF AddObject, AddSubscriber, InitDone, InitReturns, kernelVars, wrapperVars
<1>9. CASE CountEvent \/ LoopStep
  BY <1>1, <1>9 DEF CountEvent, ProcessReturns, LoopStep, RunCounters, Run, WrapperPoll,
     DispatchCounter, CallProcess, WalkOn, SkipDiscarded, DispatchEnds, kernelVars, wrapperVars
<1> QED
  BY <1>2, <1>4, <1>5, <1>6, <1>7, <1>8, <1>9, UnnoticedSteps
     DEF CountersNext, ClientStep, Callback

(* A descriptor nobody owns can be added, one with an owner removed. *)
LEMMA OwnedDecides ==
    ASSUME TypeOK, KernelInv, NEW fd \in Fds
    PROVE  /\ fd_dispatch[fd] = NoSubscriber => AddSucceeds(fd)
           /\ fd_dispatch[fd] # NoSubscriber => Watched(fd)
<1>1. IsOpen(fd)
  BY EpollAssumption, CountersAssumption DEF KernelInv, IsOpen
<1>2. Watched(fd) <=> fd_dispatch[fd] # NoSubscriber
  BY WatchedIffOwned DEF KernelInv
<1> QED
  BY <1>1, <1>2 DEF AddSucceeds

(* Whatever the counter subscribers expect of add and remove holds, for    *)
(* any number of toggles and re-additions.                                 *)
THEOREM ExpectationsHold == CountersSpec => []NoExpectFails
<1>1. CountersInit => AbsentInv /\ KernelInv
  <2>1. CountersInit => AbsentInv
    BY DEF CountersInit, Init, AbsentInv, Present
  <2>2. CountersInit => KernelInv
    BY InitInStep DEF CountersInit, KernelInv
  <2> QED
    BY <2>1, <2>2
<1>2. CountersInv /\ CountersInv' /\ AbsentInv /\ KernelInv /\ [CountersNext]_countersVars
        => AbsentInv' /\ KernelInv'
  BY NextAbsentInv, NextKernelInv
<1>3. CountersInv /\ AbsentInv /\ KernelInv => NoExpectFails
  <2> SUFFICES ASSUME CountersInv, AbsentInv, KernelInv PROVE NoExpectFails
    OBVIOUS
  <2>0. CountersTypeOK /\ TypeOK /\ StepInv /\ RegistryInv /\ step \in 0..6
    BY DEF CountersInv, CountersTypeOK
  <2>1. ASSUME pc = "init", NEW o \in Objects, Owner(o), step < Len(FdsOf(o))
        PROVE  AddSucceeds(FdsOf(o)[step + 1])
    <3>1. Len(FdsOf(o)) \in Nat
      BY Lengths, CountersAssumption
    <3>2. step + 1 \in 1..Len(FdsOf(o))
      BY <2>0, <2>1, <3>1
    <3>3. ~Present(o, step + 1)
      BY <2>0, <2>1 DEF Present, Owner
    <3>4. FdsOf(o)[step + 1] \in Fds
      BY <3>2, FdsOfFacts
    <3> QED
      BY <2>0, <3>2, <3>3, <3>4, OwnedDecides DEF AbsentInv
  <2>2. ASSUME pc = "process", Owner("data"), step \in 0..2
        PROVE  Watched(CounterFds[step + 1])
    <3>1. "data" \in Objects /\ id_of["data"] # NoSubscriber
      BY <2>2 DEF Owner
    <3>2. step + 1 \in 1..Len(FdsOf("data"))
      <4>1. Len(FdsOf("data")) = 3
        BY Lengths
      <4> QED
        BY <2>2, <4>1
    <3>3. Present("data", step + 1)
      BY <2>2 DEF Present
    <3>4. fd_dispatch[FdsOf("data")[step + 1]] = id_of["data"]
      BY <2>0, <3>1, <3>2, <3>3 DEF RegistryInv
    <3>5. FdsOf("data")[step + 1] = CounterFds[step + 1] /\ CounterFds[step + 1] \in Fds
      BY <3>1, <3>2, FdsOfFacts
    <3> QED
      BY <2>0, <3>1, <3>4, <3>5, OwnedDecides
  <2>3. ASSUME pc = "process", Owner("data"), step \in 3..5
        PROVE  AddSucceeds(CounterFds[step - 2])
    <3>1. "data" \in Objects
      BY <2>3 DEF Owner
    <3>2. step - 2 \in 1..Len(FdsOf("data"))
      <4>1. Len(FdsOf("data")) = 3
        BY Lengths
      <4> QED
        BY <2>3, <4>1
    <3>3. ~Present("data", step - 2)
      BY <2>3 DEF Present, Owner
    <3>4. FdsOf("data")[step - 2] = CounterFds[step - 2] /\ CounterFds[step - 2] \in Fds
      BY <3>1, <3>2, FdsOfFacts
    <3> QED
      BY <2>0, <3>1, <3>2, <3>3, <3>4, OwnedDecides DEF AbsentInv
  <2>4. step \in 1..2 \/ step = 0 => step \in 0..2
    OBVIOUS
  <2> QED
    BY <2>1, <2>2, <2>3, <2>4 DEF NoExpectFails
<1> QED
  BY <1>1, <1>2, <1>3, CountersInvariant, PTL DEF CountersSpec
=============================================================================
