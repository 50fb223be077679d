------------------------- MODULE EventManagerProofs -------------------------
(***************************************************************************)
(* Theorems about EventManager, for every set of descriptors and files,    *)
(* every number of subscribers and every capacity of the buffer.           *)
(***************************************************************************)
EXTENDS EventManager, TLAPS

-----------------------------------------------------------------------------
(* Types. *)

(* The kernel keeps its types when registrations are dropped.  *)
LEMMA ForgetTypes ==
    ASSUME KernelTypeOK, NEW S, Forget(S)
    PROVE  interest' \in SUBSET Keys /\ mask' \in [Keys -> SUBSET Maskable]
BY DEF KernelTypeOK, Forget

(* EPOLL_CTL_DEL keeps the kernel's types. *)
LEMMA DeleteAllTypes ==
    ASSUME KernelTypeOK, NEW fds, CtlDeleteAll(fds)
    PROVE  KernelTypeOK'
<1>1. PICK S : Forget(S)
  BY DEF CtlDeleteAll
<1>2. interest' \in SUBSET Keys /\ mask' \in [Keys -> SUBSET Maskable]
  BY <1>1, ForgetTypes
<1> QED
  BY <1>2 DEF CtlDeleteAll, KernelTypeOK

(* ... and when descriptors are opened, duplicated and closed. *)
LEMMA KernelStepTypes ==
    ASSUME KernelTypeOK, KernelStep
    PROVE  KernelTypeOK'
<1>1. ASSUME NEW fd \in Fds, NEW file \in Files, OpenFile(fd, file)
      PROVE  KernelTypeOK'
  BY <1>1 DEF OpenFile, KernelTypeOK
<1>2. ASSUME NEW fd \in Fds, NEW newfd \in Fds, Dup(fd, newfd)
      PROVE  KernelTypeOK'
  BY <1>2 DEF Dup, KernelTypeOK
<1>3. ASSUME NEW fd \in Fds, Close(fd)
      PROVE  KernelTypeOK'
  <2>1. open' \in [Fds -> Files \cup {NoFile}]
    BY <1>3 DEF Close, KernelTypeOK
  <2>2. CASE UNCHANGED <<interest, mask>>
    BY <2>1, <2>2 DEF KernelTypeOK
  <2>3. CASE Forget(Fds \X {open[fd]})
    BY <2>1, <2>3, ForgetTypes DEF KernelTypeOK
  <2> QED
    BY <1>3, <2>2, <2>3 DEF Close
<1> QED
  BY <1>1, <1>2, <1>3 DEF KernelStep

(* The key of an open descriptor. *)
LEMMA KeyOfType ==
    ASSUME KernelTypeOK, NEW fd \in Fds, IsOpen(fd)
    PROVE  KeyOf(fd) \in Keys
BY DEF KernelTypeOK, IsOpen, KeyOf, Keys

(* Soft-deleting events keeps the types of the table and the buffer. *)
LEMMA RemoveEventTypes ==
    ASSUME WrapperTypeOK, NEW fds, RemoveEvent(fds)
    PROVE  /\ fd_dispatch' \in [Fds -> SubscriberIds \cup {NoSubscriber}]
           /\ ready_events' \in [Slots -> EpollEvent]
<1>1. DefaultEvent \in EpollEvent
  BY EpollAssumption DEF DefaultEvent, EpollEvent
<1> QED
  BY <1>1 DEF WrapperTypeOK, RemoveEvent

(* The empty watch list. *)
LEMMA NoFdsType == NoFds \in [Fds -> 0..MaxDuplicates]
BY WrapperAssumption DEF NoFds

(* EpollWrapper::remove keeps the types. *)
LEMMA WrapperRemoveTypes ==
    ASSUME KernelTypeOK, WrapperTypeOK, NEW id \in SubscriberIds, WrapperRemove(id)
    PROVE  KernelTypeOK' /\ WrapperTypeOK'
<1>1. KernelTypeOK'
  BY DeleteAllTypes DEF WrapperRemove
<1>2. /\ fd_dispatch' \in [Fds -> SubscriberIds \cup {NoSubscriber}]
      /\ ready_events' \in [Slots -> EpollEvent]
  BY RemoveEventTypes DEF WrapperRemove
<1>3. subscriber_watch_list' \in [SubscriberIds -> [Fds -> 0..MaxDuplicates]]
  BY NoFdsType DEF WrapperRemove, WrapperTypeOK
<1> QED
  BY <1>1, <1>2, <1>3 DEF WrapperTypeOK

(* EventOps::add keeps the types. *)
LEMMA EventOpsAddTypes ==
    ASSUME KernelTypeOK, WrapperTypeOK, NEW id \in SubscriberIds, NEW fd \in Fds,
           NEW events \in SUBSET Maskable, EventOpsAdd(id, fd, events)
    PROVE  KernelTypeOK' /\ WrapperTypeOK'
<1>1. KernelTypeOK'
  <2>1. IsOpen(fd)
    BY DEF EventOpsAdd, CtlAdd
  <2>2. KeyOf(fd) \in Keys
    BY <2>1, KeyOfType
  <2> QED
    BY <2>2 DEF EventOpsAdd, CtlAdd, KernelTypeOK
<1>2. subscriber_watch_list[id] \in [Fds -> 0..MaxDuplicates]
  BY DEF WrapperTypeOK
<1>3. subscriber_watch_list[id][fd] + 1 \in 0..MaxDuplicates
  BY <1>2, WrapperAssumption DEF EventOpsAdd
<1>4. [subscriber_watch_list[id] EXCEPT ![fd] = @ + 1] \in [Fds -> 0..MaxDuplicates]
  BY <1>2, <1>3
<1>5. subscriber_watch_list' \in [SubscriberIds -> [Fds -> 0..MaxDuplicates]]
  BY <1>4 DEF EventOpsAdd, WrapperTypeOK
<1> QED
  BY <1>1, <1>5 DEF EventOpsAdd, WrapperTypeOK

(* EventOps::remove keeps the types. *)
LEMMA EventOpsRemoveTypes ==
    ASSUME KernelTypeOK, WrapperTypeOK, NEW id \in SubscriberIds, NEW fd \in Fds,
           EventOpsRemove(id, fd)
    PROVE  KernelTypeOK' /\ WrapperTypeOK'
<1>1. KernelTypeOK'
  BY DeleteAllTypes DEF EventOpsRemove, CtlDelete
<1>2. /\ fd_dispatch' \in [Fds -> SubscriberIds \cup {NoSubscriber}]
      /\ ready_events' \in [Slots -> EpollEvent]
  BY RemoveEventTypes DEF EventOpsRemove
<1>3. subscriber_watch_list[id] \in [Fds -> 0..MaxDuplicates]
  BY DEF WrapperTypeOK
<1>4. CASE fd \in WatchList(id)
  <2>1. subscriber_watch_list[id][fd] - 1 \in 0..MaxDuplicates
    BY <1>3, <1>4, WrapperAssumption DEF WatchList
  <2>2. [subscriber_watch_list[id] EXCEPT ![fd] = @ - 1] \in [Fds -> 0..MaxDuplicates]
    BY <1>3, <2>1
  <2>3. subscriber_watch_list' \in [SubscriberIds -> [Fds -> 0..MaxDuplicates]]
    BY <1>4, <2>2 DEF EventOpsRemove, WrapperTypeOK
  <2> QED
    BY <1>1, <1>2, <2>3 DEF WrapperTypeOK
<1>5. CASE fd \notin WatchList(id)
  BY <1>1, <1>2, <1>5 DEF EventOpsRemove, WrapperTypeOK
<1> QED
  BY <1>4, <1>5

(* A slot epoll_wait fills has the descriptor of a registration or of the  *)
(* channel, so the buffer keeps its type.                                  *)
LEMMA PollTypes ==
    ASSUME KernelTypeOK, WrapperTypeOK, NEW n \in 0..Capacity, WrapperPoll(n, signaled)
    PROVE  WrapperTypeOK'
<1>1. PICK ks \in [1..n -> Sources(signaled)], es \in [1..n -> SUBSET (Maskable \cup Unmaskable)] :
          ready_events' = [i \in Slots |-> IF i <= n
                                           THEN [fd |-> ks[i][1], events |-> es[i]]
                                           ELSE ready_events[i]]
  BY DEF WrapperPoll
<1>2. \A k \in Sources(signaled) : k[1] \in Fds \cup {ChannelFd}
  BY DEF Sources, ChannelKey, KernelTypeOK, Keys
<1>3. \A i \in Slots : i <= n => i \in 1..n
  BY DEF Slots
<1>4. \A i \in Slots : i <= n => [fd |-> ks[i][1], events |-> es[i]] \in EpollEvent
  BY <1>1, <1>2, <1>3 DEF EpollEvent
<1>5. ready_events' \in [Slots -> EpollEvent]
  BY <1>1, <1>4 DEF WrapperTypeOK
<1> QED
  BY <1>5 DEF WrapperPoll, WrapperTypeOK

(* new_with_capacity establishes the types. *)
LEMMA InitTypes == Init => TypeOK
<1> SUFFICES ASSUME Init PROVE TypeOK
  OBVIOUS
<1>1. KernelTypeOK
  BY DEF Init, KernelInit, KernelTypeOK
<1>2. SubscribersTypeOK
  BY SubscribersAssumption DEF Init, SubscribersInit, SubscribersTypeOK
<1>3. DefaultEvent \in EpollEvent
  BY EpollAssumption DEF DefaultEvent, EpollEvent
<1>4. WrapperTypeOK
  BY <1>3, NoFdsType DEF Init, WrapperInit, WrapperTypeOK
<1>5. event_count \in 0..Capacity /\ ev_index \in 1..(Capacity + 1)
  BY WrapperAssumption DEF Init
<1> QED
  BY <1>1, <1>2, <1>4, <1>5, Zenon DEF Init, TypeOK

(* The slot whose event is being processed is one epoll_wait filled, so    *)
(* the loop's index stays within the buffer once `process` returns.        *)
ServedSlotCollected == pc = "process" => ev_index <= event_count

(* Every step keeps the types. *)
LEMMA NextTypes == TypeOK /\ ServedSlotCollected /\ [Next]_vars => TypeOK'
<1> SUFFICES ASSUME TypeOK, ServedSlotCollected, [Next]_vars PROVE TypeOK'
  OBVIOUS
<1>a. KernelTypeOK /\ SubscribersTypeOK /\ WrapperTypeOK
  BY DEF TypeOK
<1>b. SubscribersAdd => SubscribersTypeOK' /\ next_id \in SubscriberIds
  BY <1>a, SubscribersAssumption DEF SubscribersAdd, SubscribersTypeOK, SubscriberIds
<1>c. TrackDue => due' \in SUBSET Fds
  BY DEF TrackDue, TypeOK
<1>1. CASE AddSubscriber
  BY <1>1, <1>b DEF AddSubscriber, HoldsSubscriberOps, TypeOK, KernelTypeOK, WrapperTypeOK,
     kernelVars, wrapperVars
<1>2. CASE InitReturns
  BY <1>2 DEF InitReturns, TypeOK, KernelTypeOK, SubscribersTypeOK, WrapperTypeOK,
     kernelVars, subscribersVars, wrapperVars
<1>3. ASSUME NEW id \in SubscriberIds, RemoveSubscriber(id)
      PROVE  TypeOK'
  <2>1. KernelTypeOK' /\ WrapperTypeOK'
    BY <1>3, <1>a, WrapperRemoveTypes DEF RemoveSubscriber
  <2>2. SubscribersTypeOK'
    BY <1>3, <1>a DEF RemoveSubscriber, SubscribersRemove, SubscribersTypeOK
  <2>3. due' \in SUBSET Fds
    BY <1>3, <1>c DEF RemoveSubscriber
  <2> QED
    BY <1>3, <2>1, <2>2, <2>3 DEF RemoveSubscriber, TypeOK, loopVars
<1>4. ASSUME NEW id \in SubscriberIds, NEW fd \in Fds, NEW events \in SUBSET Maskable,
             OpsAdd(id, fd, events)
      PROVE  TypeOK'
  <2>1. KernelTypeOK' /\ WrapperTypeOK'
    BY <1>4, <1>a, EventOpsAddTypes DEF OpsAdd
  <2>2. due' \in SUBSET Fds
    BY <1>4, <1>c DEF OpsAdd
  <2> QED
    BY <1>4, <2>1, <2>2 DEF OpsAdd, TypeOK, SubscribersTypeOK, subscribersVars, loopVars
<1>5. ASSUME NEW id \in SubscriberIds, NEW fd \in Fds, NEW events \in SUBSET Maskable,
             OpsModify(id, fd, events)
      PROVE  TypeOK'
  <2>1. KernelTypeOK'
    BY <1>5, <1>a DEF OpsModify, EventOpsModify, CtlModify, KernelTypeOK
  <2> QED
    BY <1>5, <2>1 DEF OpsModify, EventOpsModify, TypeOK, SubscribersTypeOK, WrapperTypeOK,
       subscribersVars, wrapperVars, loopVars
<1>6. ASSUME NEW id \in SubscriberIds, NEW fd \in Fds, OpsRemove(id, fd)
      PROVE  TypeOK'
  <2>1. KernelTypeOK' /\ WrapperTypeOK'
    BY <1>6, <1>a, EventOpsRemoveTypes DEF OpsRemove
  <2>2. due' \in SUBSET Fds
    BY <1>6, <1>c DEF OpsRemove
  <2> QED
    BY <1>6, <2>1, <2>2 DEF OpsRemove, TypeOK, SubscribersTypeOK, subscribersVars, loopVars
<1>7. CASE Run
  <2>1. PICK n \in 0..Capacity : WrapperPoll(n, signaled) /\ event_count' = n
    BY <1>7 DEF Run
  <2>2. WrapperTypeOK'
    BY <1>a, <2>1, PollTypes
  <2>3. due' \in SUBSET Fds
    BY <1>7 DEF Run
  <2>4. event_count' \in 0..Capacity /\ ev_index' \in 1..(Capacity + 1)
    BY <1>7, <2>1, WrapperAssumption DEF Run
  <2>5. KernelTypeOK' /\ SubscribersTypeOK'
    BY <1>7, <1>a DEF Run, KernelTypeOK, SubscribersTypeOK, kernelVars, subscribersVars
  <2> QED
    BY <1>7, <2>2, <2>3, <2>4, <2>5, Zenon DEF Run, TypeOK
<1>8. CASE SkipDiscarded
  BY <1>8, WrapperAssumption DEF SkipDiscarded, AtSlot, TypeOK, KernelTypeOK,
     SubscribersTypeOK, WrapperTypeOK, kernelVars, subscribersVars, wrapperVars
<1>9. CASE CallProcess
  <2>1. SubscriberId(Event.fd) \in SubscriberIds
    BY <1>9, <1>a DEF CallProcess, SubscribersTypeOK
  <2> QED
    BY <1>9, <2>1 DEF CallProcess, TypeOK, KernelTypeOK, SubscribersTypeOK, WrapperTypeOK,
       kernelVars, subscribersVars, wrapperVars
<1>10. CASE Panic
  BY <1>10 DEF Panic, TypeOK, KernelTypeOK, SubscribersTypeOK, WrapperTypeOK,
     kernelVars, subscribersVars, wrapperVars
<1>11. CASE NoteEndpointEvent
  <2>1. ev_index' \in 1..(Capacity + 1)
    BY <1>11, WrapperAssumption DEF NoteEndpointEvent, AtSlot, TypeOK
  <2>2. KernelTypeOK' /\ SubscribersTypeOK' /\ WrapperTypeOK'
    BY <1>11, <1>a DEF NoteEndpointEvent, KernelTypeOK, SubscribersTypeOK, WrapperTypeOK,
       kernelVars, subscribersVars, wrapperVars
  <2> QED
    BY <1>11, <2>1, <2>2, Zenon DEF NoteEndpointEvent, TypeOK
<1>12. CASE DispatchEnds
  <2>1. event_count' \in 0..Capacity /\ ev_index' \in 1..(Capacity + 1)
    BY <1>12, WrapperAssumption DEF DispatchEnds
  <2>2. KernelTypeOK' /\ SubscribersTypeOK' /\ WrapperTypeOK'
    BY <1>12, <1>a DEF DispatchEnds, KernelTypeOK, SubscribersTypeOK, WrapperTypeOK,
       kernelVars, subscribersVars, wrapperVars
  <2>3. signaled' \in BOOLEAN /\ endpoint_event' \in BOOLEAN
    BY <1>12, Zenon DEF DispatchEnds, TypeOK
  <2> QED
    BY <1>12, <2>1, <2>2, <2>3 DEF DispatchEnds, TypeOK
<1>13. CASE EndpointCallsDone
  BY <1>13 DEF EndpointCallsDone, TypeOK, KernelTypeOK, SubscribersTypeOK, WrapperTypeOK,
     kernelVars, subscribersVars, wrapperVars
<1>14. CASE Unwind
  <2>1. event_count' \in 0..Capacity /\ ev_index' \in 1..(Capacity + 1)
    BY <1>14, WrapperAssumption DEF Unwind
  <2>2. KernelTypeOK' /\ SubscribersTypeOK' /\ WrapperTypeOK'
    BY <1>14, <1>a DEF Unwind, KernelTypeOK, SubscribersTypeOK, WrapperTypeOK,
       kernelVars, subscribersVars, wrapperVars
  <2> QED
    BY <1>14, <2>1, <2>2, Zenon DEF Unwind, TypeOK
<1>15. CASE Signal
  BY <1>15 DEF Signal, TypeOK, KernelTypeOK, SubscribersTypeOK, WrapperTypeOK,
     kernelVars, subscribersVars, wrapperVars, loopVars
<1>16. CASE DescriptorTable
  <2>1. KernelTypeOK'
    BY <1>16, <1>a, KernelStepTypes DEF DescriptorTable
  <2>2. due' \in SUBSET Fds
    BY <1>16, <1>c DEF DescriptorTable
  <2> QED
    BY <1>16, <2>1, <2>2 DEF DescriptorTable, TypeOK, SubscribersTypeOK, WrapperTypeOK,
       subscribersVars, wrapperVars, loopVars
<1>17. CASE ProcessReturns
  BY <1>17, WrapperAssumption DEF ProcessReturns, ServedSlotCollected, TypeOK, KernelTypeOK,
     SubscribersTypeOK, WrapperTypeOK, kernelVars, subscribersVars, wrapperVars
<1>18. CASE UNCHANGED vars
  BY <1>18 DEF vars, TypeOK, KernelTypeOK, SubscribersTypeOK, WrapperTypeOK,
     kernelVars, subscribersVars, wrapperVars, loopVars
<1> QED
  BY <1>1, <1>2, <1>3, <1>4, <1>5, <1>6, <1>7, <1>8, <1>9, <1>10, <1>11, <1>12, <1>13,
     <1>14, <1>15, <1>16, <1>17, <1>18 DEF Next, ClientCalls, Loop

(* Every step keeps the index on a filled slot during `process`. *)
LEMMA NextServedSlot == TypeOK /\ ServedSlotCollected /\ [Next]_vars => ServedSlotCollected'
<1> SUFFICES ASSUME TypeOK, ServedSlotCollected, [Next]_vars, pc' = "process"
             PROVE  (ev_index <= event_count)'
  BY DEF ServedSlotCollected
<1>1. CASE CallProcess
  BY <1>1 DEF CallProcess, AtSlot
<1>2. CASE UNCHANGED loopVars
  BY <1>2 DEF loopVars, ServedSlotCollected
<1>3. CASE AddSubscriber \/ InitReturns \/ ProcessReturns \/ Unwind
  BY <1>3 DEF AddSubscriber, InitReturns, ProcessReturns, Unwind, TypeOK
<1>4. CASE Run \/ Panic \/ DispatchEnds \/ EndpointCallsDone
  BY <1>4 DEF Run, Panic, DispatchEnds, EndpointCallsDone
<1>5. CASE SkipDiscarded \/ NoteEndpointEvent
  BY <1>5 DEF SkipDiscarded, NoteEndpointEvent, AtSlot
<1>6. ASSUME NEW id \in SubscriberIds, RemoveSubscriber(id)
      PROVE  UNCHANGED loopVars
  BY <1>6 DEF RemoveSubscriber
<1>7. ASSUME NEW id \in SubscriberIds, NEW fd \in Fds, OpsRemove(id, fd)
      PROVE  UNCHANGED loopVars
  BY <1>7 DEF OpsRemove
<1>8. ASSUME NEW id \in SubscriberIds, NEW fd \in Fds, NEW events \in SUBSET Maskable,
             OpsAdd(id, fd, events) \/ OpsModify(id, fd, events)
      PROVE  UNCHANGED loopVars
  BY <1>8 DEF OpsAdd, OpsModify
<1>9. CASE Signal \/ DescriptorTable \/ UNCHANGED vars
  BY <1>2, <1>9 DEF Signal, DescriptorTable, vars
<1> QED
  BY <1>1, <1>2, <1>3, <1>4, <1>5, <1>6, <1>7, <1>8, <1>9 DEF Next, ClientCalls, Loop

(* Every variable keeps its type in every reachable state; in particular   *)
(* dispatch_events never indexes the buffer past its capacity.             *)
THEOREM TypeCorrect == Spec => []TypeOK
<1>1. Init => TypeOK /\ ServedSlotCollected
  BY InitTypes DEF Init, ServedSlotCollected
<1>2. TypeOK /\ ServedSlotCollected /\ [Next]_vars => TypeOK' /\ ServedSlotCollected'
  BY NextTypes, NextServedSlot
<1> QED
  BY <1>1, <1>2, PTL DEF Spec

-----------------------------------------------------------------------------
(* Dispatch reaches only registered subscribers. *)

(* The subscriber whose callback runs is in the map: nothing that removes  *)
(* subscribers can run meanwhile.                                          *)
CallbackAlive == pc \in {"init", "process"} => current \in subscribers

(* NoDanglingDispatch by itself is not inductive: an `add` made by a       *)
(* callback enters `current` in the table.                                 *)
DispatchInv == TypeOK /\ CallbackAlive /\ NoDanglingDispatch

(* Whoever holds an EventOps holds one of a registered subscriber. *)
LEMMA HolderAlive ==
    ASSUME CallbackAlive, NEW id, HoldsEventOps(id)
    PROVE  id \in subscribers
BY DEF CallbackAlive, HoldsEventOps

(* Nothing removes the subscriber whose callback runs. *)
LEMMA NextCallbackAlive ==
    TypeOK /\ CallbackAlive /\ [Next]_vars => CallbackAlive'
<1> SUFFICES ASSUME TypeOK, CallbackAlive, [Next]_vars PROVE CallbackAlive'
  OBVIOUS
<1>1. CASE AddSubscriber
  BY <1>1 DEF AddSubscriber, SubscribersAdd, CallbackAlive
<1>2. CASE InitReturns
  BY <1>2 DEF InitReturns, TypeOK, CallbackAlive
<1>3. CASE CallProcess
  BY <1>3 DEF CallProcess, CallbackAlive, subscribersVars
<1>4. ASSUME NEW id \in SubscriberIds, RemoveSubscriber(id)
      PROVE  CallbackAlive'
  BY <1>4 DEF RemoveSubscriber, HoldsSubscriberOps, CallbackAlive, loopVars
<1>5. CASE UNCHANGED <<subscribersVars, loopVars>>
  BY <1>5 DEF CallbackAlive, subscribersVars, loopVars
<1>6. ASSUME NEW id \in SubscriberIds, NEW fd \in Fds,
             \/ OpsRemove(id, fd)
             \/ \E events \in SUBSET Maskable : OpsAdd(id, fd, events) \/ OpsModify(id, fd, events)
      PROVE  CallbackAlive'
  BY <1>5, <1>6 DEF OpsRemove, OpsAdd, OpsModify
<1>7. CASE ProcessReturns \/ Unwind
  BY <1>7 DEF ProcessReturns, Unwind, CallbackAlive
<1>8. CASE Run \/ SkipDiscarded \/ NoteEndpointEvent \/ Panic \/ DispatchEnds \/ EndpointCallsDone
  BY <1>8 DEF Run, SkipDiscarded, NoteEndpointEvent, Panic, DispatchEnds, EndpointCallsDone,
     AtSlot, CallbackAlive
<1>9. CASE Signal \/ DescriptorTable \/ UNCHANGED vars
  BY <1>5, <1>9 DEF Signal, DescriptorTable, vars
<1> QED
  BY <1>1, <1>2, <1>3, <1>4, <1>6, <1>7, <1>8, <1>9 DEF Next, ClientCalls, Loop

(* Every step keeps fd_dispatch free of dangling ids. *)
LEMMA NextNoDangling == DispatchInv /\ [Next]_vars => NoDanglingDispatch'
<1> SUFFICES ASSUME DispatchInv, [Next]_vars PROVE NoDanglingDispatch'
  OBVIOUS
<1> USE DEF DispatchInv
<1>1. CASE AddSubscriber
  BY <1>1 DEF AddSubscriber, SubscribersAdd, wrapperVars, NoDanglingDispatch, WatchList
<1>2. ASSUME NEW id \in SubscriberIds, RemoveSubscriber(id)
      PROVE  NoDanglingDispatch'
  <2> SUFFICES ASSUME NEW fd \in Fds, fd_dispatch'[fd] # NoSubscriber
               PROVE  /\ fd_dispatch'[fd] \in subscribers'
                      /\ subscriber_watch_list'[fd_dispatch'[fd]][fd] > 0
    BY DEF NoDanglingDispatch, WatchList
  <2>1. fd \notin WatchList(id) /\ fd_dispatch'[fd] = fd_dispatch[fd]
    BY <1>2 DEF RemoveSubscriber, WrapperRemove, RemoveEvent
  <2>2. fd_dispatch[fd] \in subscribers /\ fd \in WatchList(fd_dispatch[fd])
    BY <2>1 DEF NoDanglingDispatch
  <2>3. fd_dispatch[fd] # id
    BY <2>1, <2>2
  <2>4. fd_dispatch[fd] \in subscribers'
    BY <1>2, <2>2, <2>3 DEF RemoveSubscriber, SubscribersRemove
  <2>5. subscriber_watch_list'[fd_dispatch[fd]] = subscriber_watch_list[fd_dispatch[fd]]
    BY <1>2, <2>2, <2>3 DEF RemoveSubscriber, WrapperRemove, TypeOK, WrapperTypeOK, SubscribersTypeOK
  <2> QED
    BY <2>1, <2>2, <2>4, <2>5 DEF WatchList
<1>3. ASSUME NEW id \in SubscriberIds, NEW fd \in Fds, NEW events \in SUBSET Maskable,
             OpsAdd(id, fd, events)
      PROVE  NoDanglingDispatch'
  <2>1. id \in subscribers
    BY <1>3, HolderAlive DEF OpsAdd
  <2> SUFFICES ASSUME NEW g \in Fds, fd_dispatch'[g] # NoSubscriber
               PROVE  /\ fd_dispatch'[g] \in subscribers
                      /\ subscriber_watch_list'[fd_dispatch'[g]][g] > 0
    BY <1>3 DEF OpsAdd, subscribersVars, NoDanglingDispatch, WatchList
  <2>2. CASE g = fd
    <3>1. subscriber_watch_list[id][fd] \in 0..MaxDuplicates
      BY DEF TypeOK, WrapperTypeOK
    <3>2. subscriber_watch_list'[id][fd] = subscriber_watch_list[id][fd] + 1
      BY <1>3 DEF OpsAdd, EventOpsAdd, TypeOK, WrapperTypeOK
    <3>3. fd_dispatch'[g] = id
      BY <1>3, <2>2 DEF OpsAdd, EventOpsAdd, TypeOK, WrapperTypeOK
    <3> QED
      BY <2>1, <2>2, <3>1, <3>2, <3>3, WrapperAssumption
  <2>3. CASE g # fd
    <3>1. fd_dispatch'[g] = fd_dispatch[g]
      BY <1>3, <2>3 DEF OpsAdd, EventOpsAdd, TypeOK, WrapperTypeOK
    <3>2. fd_dispatch[g] \in subscribers /\ subscriber_watch_list[fd_dispatch[g]][g] > 0
      BY <3>1 DEF NoDanglingDispatch, WatchList
    <3>3. subscriber_watch_list'[fd_dispatch[g]][g] = subscriber_watch_list[fd_dispatch[g]][g]
      BY <1>3, <2>3, <3>2 DEF OpsAdd, EventOpsAdd, TypeOK, WrapperTypeOK, SubscribersTypeOK
    <3> QED
      BY <3>1, <3>2, <3>3
  <2> QED
    BY <2>2, <2>3
<1>4. ASSUME NEW id \in SubscriberIds, NEW fd \in Fds, OpsRemove(id, fd)
      PROVE  NoDanglingDispatch'
  <2> SUFFICES ASSUME NEW g \in Fds, fd_dispatch'[g] # NoSubscriber
               PROVE  /\ fd_dispatch'[g] \in subscribers
                      /\ subscriber_watch_list'[fd_dispatch'[g]][g] > 0
    BY <1>4 DEF OpsRemove, subscribersVars, NoDanglingDispatch, WatchList
  <2>1. g # fd /\ fd_dispatch'[g] = fd_dispatch[g]
    BY <1>4 DEF OpsRemove, EventOpsRemove, RemoveEvent
  <2>2. fd_dispatch[g] \in subscribers /\ subscriber_watch_list[fd_dispatch[g]][g] > 0
    BY <2>1 DEF NoDanglingDispatch, WatchList
  <2>3. subscriber_watch_list'[fd_dispatch[g]][g] = subscriber_watch_list[fd_dispatch[g]][g]
    BY <1>4, <2>1, <2>2 DEF OpsRemove, EventOpsRemove, TypeOK, WrapperTypeOK, SubscribersTypeOK
  <2> QED
    BY <2>1, <2>2, <2>3
<1>5. CASE UNCHANGED <<subscribers, fd_dispatch, subscriber_watch_list>>
  BY <1>5 DEF NoDanglingDispatch, WatchList
<1>6. ASSUME NEW id \in SubscriberIds, NEW fd \in Fds, NEW events \in SUBSET Maskable,
             OpsModify(id, fd, events)
      PROVE  NoDanglingDispatch'
  BY <1>5, <1>6 DEF OpsModify, EventOpsModify, subscribersVars, wrapperVars
<1>7. CASE InitReturns \/ ProcessReturns \/ Unwind \/ Signal \/ DescriptorTable \/ UNCHANGED vars
  BY <1>5, <1>7 DEF InitReturns, ProcessReturns, Unwind, Signal, DescriptorTable, vars,
     subscribersVars, wrapperVars
<1>8. CASE Loop
  BY <1>5, <1>8 DEF Loop, Run, WrapperPoll, SkipDiscarded, CallProcess, NoteEndpointEvent,
     Panic, DispatchEnds, EndpointCallsDone, subscribersVars, wrapperVars
<1> QED
  BY <1>1, <1>2, <1>3, <1>4, <1>6, <1>7, <1>8 DEF Next, ClientCalls

(* Whatever clients do, the id dispatch_events looks up for a descriptor   *)
(* is the id of a registered subscriber that watches the descriptor, so    *)
(* the unwrap in get_mut_unchecked never fails.                            *)
THEOREM DispatchIsSafe == Spec => []NoDanglingDispatch
<1>1. Init => CallbackAlive /\ NoDanglingDispatch
  BY DEF Init, WrapperInit, CallbackAlive, NoDanglingDispatch
<1>2. DispatchInv /\ [Next]_vars => CallbackAlive' /\ NoDanglingDispatch'
  BY NextCallbackAlive, NextNoDangling DEF DispatchInv
<1> QED
  BY <1>1, <1>2, TypeCorrect, PTL DEF Spec, DispatchInv

-----------------------------------------------------------------------------
(* Ids. *)

(* The counter is past every id in the map. *)
MembersIssued == \A id \in subscribers : id < next_id

(* How the map and the counter change. *)
LEMMA NextIds ==
    ASSUME TypeOK, [Next]_vars
    PROVE  \/ subscribers' = subscribers \cup {next_id} /\ next_id' = next_id + 1
           \/ subscribers' \subseteq subscribers /\ next_id' = next_id
<1>1. CASE AddSubscriber
  BY <1>1 DEF AddSubscriber, SubscribersAdd
<1>2. ASSUME NEW id \in SubscriberIds, RemoveSubscriber(id)
      PROVE  subscribers' \subseteq subscribers /\ next_id' = next_id
  BY <1>2 DEF RemoveSubscriber, SubscribersRemove
<1>3. ASSUME NEW id \in SubscriberIds, NEW fd \in Fds,
             \/ OpsRemove(id, fd)
             \/ \E events \in SUBSET Maskable : OpsAdd(id, fd, events) \/ OpsModify(id, fd, events)
      PROVE  UNCHANGED subscribersVars
  BY <1>3 DEF OpsRemove, OpsAdd, OpsModify
<1>4. CASE InitReturns \/ ProcessReturns \/ Unwind \/ Signal \/ DescriptorTable \/ Loop \/ UNCHANGED vars
  BY <1>4 DEF InitReturns, ProcessReturns, Unwind, Signal, DescriptorTable, Loop, Run,
     SkipDiscarded, CallProcess, NoteEndpointEvent, Panic, DispatchEnds, EndpointCallsDone,
     subscribersVars, vars
<1> QED
  BY <1>1, <1>2, <1>3, <1>4 DEF Next, ClientCalls, subscribersVars

(* The counter stays past every id in the map. *)
LEMMA NextMembersIssued ==
    TypeOK /\ MembersIssued /\ [Next]_vars => MembersIssued'
<1> SUFFICES ASSUME TypeOK, MembersIssued, [Next]_vars PROVE MembersIssued'
  OBVIOUS
<1>1. next_id \in Nat /\ subscribers \subseteq Nat
  BY SubscribersAssumption DEF TypeOK, SubscribersTypeOK, SubscriberIds
<1>2. \/ subscribers' = subscribers \cup {next_id} /\ next_id' = next_id + 1
      \/ subscribers' \subseteq subscribers /\ next_id' = next_id
  BY NextIds
<1>3. CASE subscribers' = subscribers \cup {next_id} /\ next_id' = next_id + 1
  <2>1. \A id \in subscribers : id \in Nat /\ id < next_id
    BY <1>1 DEF MembersIssued
  <2>2. \A id \in subscribers' : id < next_id'
    BY <1>1, <1>3, <2>1
  <2> QED
    BY <2>2 DEF MembersIssued
<1>4. CASE subscribers' \subseteq subscribers /\ next_id' = next_id
  BY <1>4 DEF MembersIssued
<1> QED
  BY <1>2, <1>3, <1>4

(* An id that was removed never becomes valid again. *)
THEOREM IdsAreFresh == Spec => IdsNeverReused
<1>1. Init => MembersIssued
  BY DEF Init, SubscribersInit, MembersIssued
<1>2. ASSUME TypeOK, MembersIssued, [Next]_vars
      PROVE  /\ MembersIssued'
             /\ \A id \in SubscriberIds :
                   \/ id \in subscribers /\ id \notin subscribers'
                   \/ id \notin subscribers /\ id < next_id
                   => id \notin subscribers' /\ id < next_id'
  <2>1. next_id \in Nat /\ subscribers \subseteq Nat /\ SubscriberIds \subseteq Nat
    BY <1>2, SubscribersAssumption DEF TypeOK, SubscribersTypeOK, SubscriberIds
  <2>2. \/ subscribers' = subscribers \cup {next_id} /\ next_id' = next_id + 1
        \/ subscribers' \subseteq subscribers /\ next_id' = next_id
    BY <1>2, NextIds
  <2>3. CASE subscribers' = subscribers \cup {next_id} /\ next_id' = next_id + 1
    BY <1>2, <2>1, <2>3 DEF MembersIssued
  <2>4. CASE subscribers' \subseteq subscribers /\ next_id' = next_id
    <3>1. \A id \in SubscriberIds : id \in subscribers => id < next_id
      BY <1>2 DEF MembersIssued
    <3>2. MembersIssued'
      BY <1>2, <2>4 DEF MembersIssued
    <3> QED
      BY <2>4, <3>1, <3>2
  <2> QED
    BY <2>2, <2>3, <2>4
<1>3. TypeOK /\ MembersIssued /\ [Next]_vars => MembersIssued'
  BY <1>2
<1>4. TypeOK /\ MembersIssued /\ [Next]_vars =>
        [\A id \in SubscriberIds :
            \/ id \in subscribers /\ id \notin subscribers'
            \/ id \notin subscribers /\ id < next_id
            => id \notin subscribers' /\ id < next_id']_vars
  BY <1>2
<1> QED
  BY <1>1, <1>3, <1>4, TypeCorrect, PTL DEF Spec, IdsNeverReused
=============================================================================
