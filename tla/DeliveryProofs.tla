--------------------------- MODULE DeliveryProofs ---------------------------
(***************************************************************************)
(* What EventManager delivers, proved for clients that close no descriptor *)
(* while it is registered: the kernel's interest set and fd_dispatch stay  *)
(* in step, the manager never panics, and every collected event is         *)
(* processed exactly when its registration still stands.  Who owns which   *)
(* descriptor, proved for subscribers that touch only their own: the watch *)
(* lists and fd_dispatch are one relation, and removing a subscriber       *)
(* disturbs no other.  Under both disciplines EventManager implements      *)
(* Registration.                                                           *)
(***************************************************************************)
EXTENDS EventManagerProofs

-----------------------------------------------------------------------------
(* The kernel and fd_dispatch. *)

(* KernelAgrees, descriptor by descriptor. *)
InStep ==
    /\ \A fd \in Fds : fd_dispatch[fd] # NoSubscriber => open[fd] \in Files
    /\ \A fd \in Fds, file \in Files :
          <<fd, file>> \in interest <=> fd_dispatch[fd] # NoSubscriber /\ open[fd] = file

(* The pointwise form implies the property. *)
LEMMA InStepAgrees ==
    ASSUME TypeOK, InStep
    PROVE  KernelAgrees
<1>1. \A k \in interest : \E fd \in Fds : k = KeyOf(fd) /\ fd_dispatch[fd] # NoSubscriber
  BY DEF TypeOK, KernelTypeOK, Keys, KeyOf, InStep
<1>2. \A fd \in Fds : fd_dispatch[fd] # NoSubscriber => KeyOf(fd) \in interest
  BY DEF InStep, KeyOf
<1> QED
  BY <1>1, <1>2 DEF KernelAgrees

(* A descriptor is watched exactly when it has an owner. *)
LEMMA WatchedIffOwned ==
    ASSUME TypeOK, InStep, NEW fd \in Fds
    PROVE  Watched(fd) <=> fd_dispatch[fd] # NoSubscriber
BY EpollAssumption DEF TypeOK, KernelTypeOK, InStep, Watched, IsOpen, KeyOf, Keys

(* epoll_ctl deletes what leaves the table, and nothing else. *)
LEMMA DeleteInStep ==
    ASSUME TypeOK, InStep, NEW fds \in SUBSET Fds, CtlDeleteAll(fds), RemoveEvent(fds)
    PROVE  InStep'
<1>1. interest' = interest \ {KeyOf(f) : f \in {g \in fds : Watched(g)}} /\ open' = open
  BY DEF CtlDeleteAll, Forget
<1>2. \A fd \in Fds : fd_dispatch'[fd] = IF fd \in fds THEN NoSubscriber ELSE fd_dispatch[fd]
  BY DEF RemoveEvent
<1>3. ASSUME NEW fd \in Fds, NEW file \in Files
      PROVE  <<fd, file>> \in interest' <=> fd_dispatch'[fd] # NoSubscriber /\ open'[fd] = file
  <2>1. CASE fd \in fds
    <3>1. <<fd, file>> \in interest => Watched(fd) /\ KeyOf(fd) = <<fd, file>>
      BY WatchedIffOwned DEF InStep, KeyOf
    <3> QED
      BY <1>1, <1>2, <2>1, <3>1
  <2>2. CASE fd \notin fds
    <3>1. <<fd, file>> \notin {KeyOf(f) : f \in {g \in fds : Watched(g)}}
      BY <2>2 DEF KeyOf
    <3> QED
      BY <1>1, <1>2, <2>2, <3>1 DEF InStep
  <2> QED
    BY <2>1, <2>2
<1>4. \A fd \in Fds : fd_dispatch'[fd] # NoSubscriber => open'[fd] \in Files
  BY <1>1, <1>2 DEF InStep
<1> QED
  BY <1>3, <1>4 DEF InStep

(* EPOLL_CTL_ADD and the insertion into fd_dispatch go together. *)
LEMMA AddInStep ==
    ASSUME TypeOK, InStep, NEW id \in SubscriberIds, NEW fd \in Fds,
           NEW events \in SUBSET Maskable, EventOpsAdd(id, fd, events)
    PROVE  InStep'
<1>1. open[fd] \in Files /\ open' = open
  BY DEF EventOpsAdd, CtlAdd, IsOpen, TypeOK, KernelTypeOK
<1>2. interest' = interest \cup {<<fd, open[fd]>>}
  BY DEF EventOpsAdd, CtlAdd, KeyOf
<1>3. \A g \in Fds : fd_dispatch'[g] = IF g = fd THEN id ELSE fd_dispatch[g]
  BY DEF EventOpsAdd, TypeOK, WrapperTypeOK
<1>4. id # NoSubscriber
  BY SubscribersAssumption DEF SubscriberIds, NoSubscriber
<1>5. fd_dispatch[fd] = NoSubscriber
  BY DEF EventOpsAdd
<1> QED
  BY <1>1, <1>2, <1>3, <1>4, <1>5 DEF InStep

(* Descriptors without an owner may be opened, duplicated and closed. *)
LEMMA DescriptorsInStep ==
    ASSUME ~ClosesRegistered, TypeOK, InStep, KernelStep, UNCHANGED wrapperVars
    PROVE  InStep'
<1>0. fd_dispatch' = fd_dispatch
  BY DEF wrapperVars
<1>1. ASSUME NEW fd \in Fds, NEW file \in Files, OpenFile(fd, file)
      PROVE  InStep'
  <2>1. fd_dispatch[fd] = NoSubscriber
    BY <1>1, EpollAssumption DEF OpenFile, IsOpen, InStep
  <2> QED
    BY <1>0, <1>1, <2>1 DEF OpenFile, InStep, TypeOK, KernelTypeOK
<1>2. ASSUME NEW fd \in Fds, NEW newfd \in Fds, Dup(fd, newfd)
      PROVE  InStep'
  <2>1. fd_dispatch[newfd] = NoSubscriber
    BY <1>2, EpollAssumption DEF Dup, IsOpen, InStep
  <2> QED
    BY <1>0, <1>2, <2>1 DEF Dup, InStep, TypeOK, KernelTypeOK
<1>3. ASSUME NEW fd \in Fds, Close(fd)
      PROVE  InStep'
  <2>1. fd_dispatch[fd] = NoSubscriber
    BY <1>3, WatchedIffOwned DEF Close
  <2>2. \A g \in Fds : g # fd => open'[g] = open[g]
    BY <1>3 DEF Close, TypeOK, KernelTypeOK
  <2>3. CASE UNCHANGED <<interest, mask>>
    BY <1>0, <2>1, <2>2, <2>3 DEF InStep
  <2>4. CASE Forget(Fds \X {open[fd]}) /\ \A g \in Fds \ {fd} : open[g] # open[fd]
    <3>1. interest' = interest \ (Fds \X {open[fd]})
      BY <2>4 DEF Forget
    <3>2. \A g \in Fds, file \in Files : <<g, file>> \in interest => file # open[fd]
      BY <2>1, <2>4 DEF InStep
    <3>3. interest' = interest
      BY <3>1, <3>2 DEF TypeOK, KernelTypeOK, Keys
    <3> QED
      BY <1>0, <2>1, <2>2, <3>3 DEF InStep
  <2> QED
    BY <1>3, <2>3, <2>4 DEF Close
<1> QED
  BY <1>1, <1>2, <1>3 DEF KernelStep

(* Every step keeps kernel and table in step. *)
LEMMA NextInStep ==
    ASSUME ~ClosesRegistered, TypeOK, InStep, [Next]_vars
    PROVE  InStep'
<1>1. CASE UNCHANGED <<open, interest, fd_dispatch>>
  BY <1>1 DEF InStep
<1>2. ASSUME NEW id \in SubscriberIds, RemoveSubscriber(id)
      PROVE  InStep'
  <2>1. WatchList(id) \in SUBSET Fds
    BY DEF WatchList
  <2> QED
    BY <1>2, <2>1, DeleteInStep DEF RemoveSubscriber, WrapperRemove
<1>3. ASSUME NEW id \in SubscriberIds, NEW fd \in Fds, OpsRemove(id, fd)
      PROVE  InStep'
  BY <1>3, DeleteInStep DEF OpsRemove, EventOpsRemove, CtlDelete
<1>4. ASSUME NEW id \in SubscriberIds, NEW fd \in Fds, NEW events \in SUBSET Maskable,
             OpsAdd(id, fd, events)
      PROVE  InStep'
  BY <1>4, AddInStep DEF OpsAdd
<1>5. ASSUME NEW id \in SubscriberIds, NEW fd \in Fds, NEW events \in SUBSET Maskable,
             OpsModify(id, fd, events)
      PROVE  InStep'
  BY <1>1, <1>5 DEF OpsModify, EventOpsModify, CtlModify, wrapperVars
<1>6. CASE DescriptorTable
  BY <1>6, DescriptorsInStep DEF DescriptorTable
<1>7. CASE AddSubscriber \/ InitReturns \/ ProcessReturns \/ Unwind \/ Signal \/ UNCHANGED vars
  BY <1>1, <1>7 DEF AddSubscriber, InitReturns, ProcessReturns, Unwind, Signal, vars,
     kernelVars, wrapperVars
<1>8. CASE Loop
  BY <1>1, <1>8 DEF Loop, Run, WrapperPoll, SkipDiscarded, CallProcess, NoteEndpointEvent,
     Panic, DispatchEnds, EndpointCallsDone, kernelVars, wrapperVars
<1> QED
  BY <1>2, <1>3, <1>4, <1>5, <1>6, <1>7, <1>8 DEF Next, ClientCalls

(* A new manager watches nothing for anybody. *)
LEMMA InitInStep == Init => InStep
BY DEF Init, KernelInit, WrapperInit, InStep

(* As long as no registered descriptor is closed, epoll watches exactly    *)
(* the descriptors in fd_dispatch, even when subscribers remove each       *)
(* other's descriptors.                                                    *)
THEOREM KernelStaysInStep ==
    ASSUME ~ClosesRegistered
    PROVE  Spec => []KernelAgrees
<1>1. TypeOK /\ InStep /\ [Next]_vars => InStep'
  BY NextInStep
<1>2. TypeOK /\ InStep => KernelAgrees
  BY InStepAgrees
<1> QED
  BY <1>1, <1>2, InitInStep, TypeCorrect, PTL DEF Spec

-----------------------------------------------------------------------------
(* The slots the loop has still to look at. *)

Live(i) == ~IsDiscarded(ready_events[i])

(* Every event ahead is of a descriptor that has an owner ... *)
AheadOwned == \A fd \in EventsAhead : fd_dispatch[fd] # NoSubscriber

(* ... no two are of the same descriptor ... *)
AheadDistinct ==
    \A i, j \in SlotsAhead :
        Live(i) /\ Live(j) /\ ready_events[i].fd = ready_events[j].fd => i = j

(* ... and they are the events that are due. *)
DeliveryInv ==
    /\ NoPanic
    /\ AheadOwned
    /\ AheadDistinct
    /\ due = EventsAhead

(* The slots ahead are slots of the buffer. *)
LEMMA AheadInBuffer ==
    ASSUME TypeOK
    PROVE  SlotsAhead \subseteq Slots
BY WrapperAssumption DEF TypeOK, SlotsAhead, Slots

(* Client calls do not move the loop. *)
LEMMA SameSlots ==
    ASSUME UNCHANGED loopVars
    PROVE  SlotsAhead' = SlotsAhead
BY DEF loopVars, SlotsAhead

(* Nothing is ahead, and nothing is due, outside a dispatch. *)
LEMMA NoSlotsOutsideDispatch ==
    ASSUME pc \notin {"dispatch", "process"}
    PROVE  SlotsAhead = {} /\ EventsAhead = {}
BY DEF SlotsAhead, EventsAhead

(* A step that neither moves the loop nor touches the buffer and the       *)
(* owners, keeps the invariant if it keeps what is due.                    *)
LEMMA SameDelivery ==
    ASSUME DeliveryInv, UNCHANGED <<loopVars, ready_events, fd_dispatch, due>>
    PROVE  DeliveryInv'
<1>1. SlotsAhead' = SlotsAhead
  BY SameSlots
<1>2. EventsAhead' = EventsAhead
  BY <1>1 DEF EventsAhead, IsDiscarded
<1>3. AheadDistinct'
  BY <1>1 DEF DeliveryInv, AheadDistinct, Live, IsDiscarded
<1> QED
  BY <1>2, <1>3 DEF DeliveryInv, NoPanic, AheadOwned, loopVars

(* What is due after a client call: TrackDue asks the kernel, and the      *)
(* kernel is in step.                                                      *)
LEMMA DueTracked ==
    ASSUME TypeOK, TypeOK', InStep', DeliveryInv, TrackDue,
           EventsAhead' = {fd \in EventsAhead : fd_dispatch'[fd] # NoSubscriber}
    PROVE  AheadOwned' /\ (due = EventsAhead)'
<1>1. \A fd \in Fds : Watched(fd)' <=> fd_dispatch'[fd] # NoSubscriber
  BY EpollAssumption DEF TypeOK, KernelTypeOK, InStep, Watched, IsOpen, KeyOf, Keys
<1>2. due \subseteq Fds
  BY DEF TypeOK
<1>3. due' = {fd \in EventsAhead : fd_dispatch'[fd] # NoSubscriber}
  BY <1>1, <1>2 DEF TrackDue, DeliveryInv
<1> QED
  BY <1>3 DEF AheadOwned

(* Soft deletion takes the events of the removed descriptors out of the    *)
(* way, and of no others.                                                  *)
LEMMA RemoveEventAhead ==
    ASSUME TypeOK, DeliveryInv, NEW fds \in SUBSET Fds, RemoveEvent(fds), UNCHANGED loopVars
    PROVE  /\ EventsAhead' = {fd \in EventsAhead : fd_dispatch'[fd] # NoSubscriber}
           /\ AheadDistinct'
<1>1. SlotsAhead' = SlotsAhead /\ SlotsAhead \subseteq Slots
  BY SameSlots, AheadInBuffer
<1>2. \A i \in SlotsAhead :
        ready_events'[i] = IF ready_events[i].fd \in fds THEN DefaultEvent ELSE ready_events[i]
  BY <1>1 DEF RemoveEvent
<1>3. IsDiscarded(DefaultEvent)
  BY DEF IsDiscarded
<1>4. \A i \in SlotsAhead : Live(i)' <=> Live(i) /\ ready_events[i].fd \notin fds
  BY <1>2, <1>3 DEF Live, IsDiscarded
<1>5. EventsAhead' = EventsAhead \ fds
  BY <1>1, <1>2, <1>4 DEF EventsAhead, Live
<1>6. \A fd \in EventsAhead : fd_dispatch'[fd] # NoSubscriber <=> fd \notin fds
  BY DEF RemoveEvent, DeliveryInv, AheadOwned, EventsAhead
<1>7. AheadDistinct'
  BY <1>1, <1>2, <1>4 DEF AheadDistinct, DeliveryInv
<1> QED
  BY <1>5, <1>6, <1>7

(* The loop steps past slot ev_index. *)
LEMMA PastSlot ==
    ASSUME TypeOK, DeliveryInv, AtSlot, UNCHANGED ready_events, UNCHANGED event_count,
           \/ pc' = "process" /\ ev_index' = ev_index
           \/ pc' = "dispatch" /\ ev_index' = ev_index + 1
    PROVE  /\ AheadDistinct'
           /\ EventsAhead' = IF Live(ev_index) THEN EventsAhead \ {Event.fd} ELSE EventsAhead
<1>1. SlotsAhead = ev_index..event_count /\ ev_index \in SlotsAhead
  BY DEF AtSlot, SlotsAhead, TypeOK
<1>2. SlotsAhead' = SlotsAhead \ {ev_index}
  <2>1. SlotsAhead' = (ev_index + 1)..event_count
    BY DEF SlotsAhead
  <2> QED
    BY <1>1, <2>1 DEF TypeOK
<1>3. \A i : Live(i)' <=> Live(i)
  BY DEF Live, IsDiscarded
<1>4. AheadDistinct'
  BY <1>2, <1>3 DEF AheadDistinct, DeliveryInv
<1>5. \A fd \in Fds : fd \in EventsAhead <=> \E i \in SlotsAhead : ready_events[i].fd = fd /\ Live(i)
  BY DEF EventsAhead, Live
<1>6. \A fd \in Fds : fd \in EventsAhead' <=>
                        \E i \in SlotsAhead \ {ev_index} : ready_events[i].fd = fd /\ Live(i)
  BY <1>2, <1>3 DEF EventsAhead, Live
<1>7. EventsAhead \subseteq Fds /\ EventsAhead' \subseteq Fds
  BY DEF EventsAhead
<1>8. CASE Live(ev_index)
  <2>1. \A i \in SlotsAhead \ {ev_index} : Live(i) => ready_events[i].fd # Event.fd
    BY <1>1, <1>8 DEF Event, DeliveryInv, AheadDistinct
  <2> QED
    BY <1>1, <1>4, <1>5, <1>6, <1>7, <1>8, <2>1 DEF Event
<1>9. CASE ~Live(ev_index)
  BY <1>1, <1>4, <1>5, <1>6, <1>7, <1>9
<1> QED
  BY <1>8, <1>9

(* The fields of a record built from them. *)
LEMMA EventFields ==
    ASSUME NEW e, NEW fd, NEW events, e = [fd |-> fd, events |-> events]
    PROVE  e.fd = fd /\ e.events = events
OBVIOUS

(* What epoll_wait fills in: live events, one per source, of owned         *)
(* descriptors or the channel.                                             *)
LEMMA RunDelivery ==
    ASSUME TypeOK, InStep, Run
    PROVE  DeliveryInv'
<1>1. PICK n \in 0..Capacity : WrapperPoll(n, signaled) /\ event_count' = n
  BY DEF Run
<1>2. PICK ks \in [1..n -> Sources(signaled)], es \in [1..n -> SUBSET (Maskable \cup Unmaskable)] :
          /\ \A i, j \in 1..n : ks[i] = ks[j] => i = j
          /\ \A i \in 1..n : es[i] \in EventsOf(ks[i])
          /\ ready_events' = [i \in Slots |-> IF i <= n
                                             THEN [fd |-> ks[i][1], events |-> es[i]]
                                             ELSE ready_events[i]]
  BY <1>1 DEF WrapperPoll
<1>3. SlotsAhead' = 1..n
  BY <1>1 DEF Run, SlotsAhead
<1>4. 1..n \subseteq Slots
  BY WrapperAssumption DEF Slots
<1>5. \A i \in 1..n : ready_events'[i].fd = ks[i][1] /\ ready_events'[i].events = es[i]
  <2> SUFFICES ASSUME NEW i \in 1..n
               PROVE  ready_events'[i].fd = ks[i][1] /\ ready_events'[i].events = es[i]
    OBVIOUS
  <2>1. ready_events'[i] = [fd |-> ks[i][1], events |-> es[i]]
    BY <1>2, <1>4
  <2> QED
    BY <2>1, EventFields
<1>6. \A i \in 1..n : Live(i)'
  <2>1. \A k : {} \notin EventsOf(k)
    BY DEF EventsOf, Reports
  <2>2. ASSUME NEW i \in 1..n PROVE ready_events'[i].events # {}
    <3>1. es[i] \in EventsOf(ks[i])
      BY <1>2
    <3>2. es[i] # {}
      BY <2>1, <3>1
    <3>3. ready_events'[i].events = es[i]
      BY <1>5
    <3> QED
      BY <3>2, <3>3
  <2>3. DefaultEvent.events = {}
    BY DEF DefaultEvent
  <2> QED
    BY <2>2, <2>3 DEF Live, IsDiscarded
<1>7. \A i \in 1..n : ks[i] = ChannelKey \/ ks[i] \in interest
  BY <1>2 DEF Sources
<1>8. \A k \in interest : k \in Fds \X Files /\ k[2] = open[k[1]] /\ fd_dispatch[k[1]] # NoSubscriber
  BY DEF TypeOK, KernelTypeOK, Keys, InStep
<1>9. ASSUME NEW i \in 1..n, NEW j \in 1..n, ks[i][1] = ks[j][1]
      PROVE  ks[i] = ks[j]
  BY <1>7, <1>8, <1>9, WrapperAssumption DEF ChannelKey
<1>10. AheadDistinct'
  <2>1. \A i, j \in 1..n : ready_events'[i].fd = ready_events'[j].fd => i = j
    BY <1>2, <1>5, <1>9
  <2> QED
    BY <1>3, <2>1 DEF AheadDistinct
<1>11. EventsAhead' = {fd \in Fds : \E i \in 1..n : ready_events'[i].fd = fd}
  BY <1>3, <1>6 DEF EventsAhead, Live
<1>12. due' = EventsAhead'
  BY <1>1, <1>11 DEF Run
<1>13. AheadOwned'
  <2>1. ASSUME NEW fd \in EventsAhead' PROVE fd_dispatch[fd] # NoSubscriber
    <3>1. PICK i \in 1..n : fd = ks[i][1] /\ fd \in Fds
      BY <1>5, <1>11
    <3>2. ks[i] # ChannelKey
      BY <3>1, WrapperAssumption DEF ChannelKey
    <3> QED
      BY <1>7, <1>8, <3>1, <3>2
  <2> QED
    BY <1>1, <2>1 DEF AheadOwned, WrapperPoll
<1> QED
  BY <1>10, <1>12, <1>13 DEF DeliveryInv, NoPanic, Run

(* Client calls that register or unregister, and the descriptor table. *)
LEMMA ClientDelivery ==
    ASSUME TypeOK, TypeOK', InStep', DeliveryInv, TrackDue, UNCHANGED loopVars,
           \/ \E fds \in SUBSET Fds : RemoveEvent(fds)
           \/ /\ UNCHANGED ready_events
              /\ \A fd \in Fds : fd_dispatch[fd] # NoSubscriber => fd_dispatch'[fd] # NoSubscriber
    PROVE  DeliveryInv'
<1>1. CASE \E fds \in SUBSET Fds : RemoveEvent(fds)
  BY <1>1, RemoveEventAhead, DueTracked DEF DeliveryInv, NoPanic, loopVars
<1>2. CASE /\ UNCHANGED ready_events
           /\ \A fd \in Fds : fd_dispatch[fd] # NoSubscriber => fd_dispatch'[fd] # NoSubscriber
  <2>1. SlotsAhead' = SlotsAhead
    BY SameSlots
  <2>2. EventsAhead' = EventsAhead
    BY <1>2, <2>1 DEF EventsAhead, IsDiscarded
  <2>3. EventsAhead' = {fd \in EventsAhead : fd_dispatch'[fd] # NoSubscriber}
    BY <1>2, <2>2 DEF DeliveryInv, AheadOwned, EventsAhead
  <2>4. AheadDistinct'
    BY <1>2, <2>1 DEF DeliveryInv, AheadDistinct, Live, IsDiscarded
  <2> QED
    BY <2>3, <2>4, DueTracked DEF DeliveryInv, NoPanic, loopVars
<1> QED
  BY <1>1, <1>2

(* The channel's eventfd is watched for IN only, so that is what the slots *)
(* filled for it hold, also the ones left from earlier rounds.             *)
ChannelReportsIn ==
    \A i \in Slots : ready_events[i].fd = ChannelFd => ready_events[i].events = {In}

(* Discarding events makes no event of the channel. *)
LEMMA RemoveEventReportsIn ==
    ASSUME ChannelReportsIn, NEW fds, RemoveEvent(fds)
    PROVE  ChannelReportsIn'
<1>1. DefaultEvent.fd # ChannelFd
  BY EpollAssumption, WrapperAssumption DEF DefaultEvent
<1>2. \A i \in Slots : ready_events'[i] \in {DefaultEvent, ready_events[i]}
  BY DEF RemoveEvent
<1> QED
  BY <1>1, <1>2 DEF ChannelReportsIn

(* epoll_wait reports IN, and nothing else, for the channel. *)
LEMMA RunReportsIn ==
    ASSUME TypeOK, ChannelReportsIn, Run
    PROVE  ChannelReportsIn'
<1>1. PICK n \in 0..Capacity : WrapperPoll(n, signaled)
  BY DEF Run
<1>2. PICK ks \in [1..n -> Sources(signaled)], es \in [1..n -> SUBSET (Maskable \cup Unmaskable)] :
          /\ \A i \in 1..n : es[i] \in EventsOf(ks[i])
          /\ ready_events' = [i \in Slots |-> IF i <= n
                                             THEN [fd |-> ks[i][1], events |-> es[i]]
                                             ELSE ready_events[i]]
  BY <1>1 DEF WrapperPoll
<1>3. ASSUME NEW i \in Slots, ready_events'[i].fd = ChannelFd
      PROVE  ready_events'[i].events = {In}
  <2>1. CASE i <= n
    <3>1. i \in 1..n /\ ready_events'[i] = [fd |-> ks[i][1], events |-> es[i]]
      BY <1>2, <2>1 DEF Slots
    <3>2. ks[i][1] = ChannelFd /\ ready_events'[i].events = es[i]
      BY <1>3, <3>1, EventFields
    <3>3. ks[i] \in interest \cup {ChannelKey}
      BY <1>2, <3>1 DEF Sources
    <3>4. ks[i] = ChannelKey
      BY <3>2, <3>3, WrapperAssumption DEF TypeOK, KernelTypeOK, Keys
    <3>5. es[i] \in EventsOf(ks[i])
      BY <1>2, <3>1
    <3> QED
      BY <3>2, <3>4, <3>5 DEF EventsOf
  <2>2. CASE ~(i <= n)
    <3>1. ready_events'[i] = ready_events[i]
      BY <1>2, <2>2
    <3> QED
      BY <1>3, <3>1 DEF ChannelReportsIn
  <2> QED
    BY <2>1, <2>2
<1> QED
  BY <1>3 DEF ChannelReportsIn

(* Every step keeps it. *)
LEMMA NextReportsIn ==
    ASSUME TypeOK, ChannelReportsIn, [Next]_vars
    PROVE  ChannelReportsIn'
<1>1. CASE UNCHANGED ready_events
  BY <1>1 DEF ChannelReportsIn
<1>2. CASE Run
  BY <1>2, RunReportsIn
<1>3. ASSUME NEW id \in SubscriberIds, RemoveSubscriber(id)
      PROVE  ChannelReportsIn'
  BY <1>3, RemoveEventReportsIn DEF RemoveSubscriber, WrapperRemove
<1>4. ASSUME NEW id \in SubscriberIds, NEW fd \in Fds, OpsRemove(id, fd)
      PROVE  ChannelReportsIn'
  BY <1>4, RemoveEventReportsIn DEF OpsRemove, EventOpsRemove
<1>5. ASSUME NEW id \in SubscriberIds, NEW fd \in Fds, NEW events \in SUBSET Maskable,
             OpsAdd(id, fd, events) \/ OpsModify(id, fd, events)
      PROVE  ChannelReportsIn'
  BY <1>1, <1>5 DEF OpsAdd, EventOpsAdd, OpsModify, EventOpsModify, wrapperVars
<1>6. CASE AddSubscriber \/ InitReturns \/ ProcessReturns \/ Unwind
  BY <1>1, <1>6 DEF AddSubscriber, InitReturns, ProcessReturns, Unwind, wrapperVars
<1>7. CASE \/ SkipDiscarded \/ CallProcess \/ NoteEndpointEvent \/ Panic
           \/ DispatchEnds \/ EndpointCallsDone
  BY <1>1, <1>7 DEF SkipDiscarded, CallProcess, NoteEndpointEvent, Panic, DispatchEnds,
     EndpointCallsDone, wrapperVars
<1>8. CASE Signal \/ DescriptorTable \/ UNCHANGED vars
  BY <1>1, <1>8 DEF Signal, DescriptorTable, vars, wrapperVars
<1> QED
  BY <1>2, <1>3, <1>4, <1>5, <1>6, <1>7, <1>8 DEF Next, ClientCalls, Loop

(* So dispatch_endpoint_event does not meet its unreachable!. *)
LEMMA EndpointEventIsIn ==
    ASSUME TypeOK, ChannelReportsIn
    PROVE  EndpointSetIsIn
<1>1. \A i \in 1..event_count : i \in Slots
  BY WrapperAssumption DEF TypeOK, Slots
<1> QED
  BY <1>1 DEF ChannelReportsIn, EndpointSetIsIn

(* An event ahead has a registered owner, so the loop does not panic. *)
LEMMA PanicIsImpossible ==
    ASSUME TypeOK, NoDanglingDispatch, DeliveryInv
    PROVE  ~Panic
<1> SUFFICES ASSUME Panic PROVE FALSE
  OBVIOUS
<1>1. ev_index \in SlotsAhead /\ Live(ev_index)
  BY DEF Panic, AtSlot, SlotsAhead, TypeOK, Live, Event
<1>2. Event.fd \in Fds \cup {ChannelFd}
  BY <1>1, AheadInBuffer DEF Event, TypeOK, WrapperTypeOK, EpollEvent
<1>3. CASE Event.fd \in Fds
  <2>1. Event.fd \in EventsAhead
    BY <1>1, <1>3 DEF EventsAhead, Live, Event
  <2>2. fd_dispatch[Event.fd] # NoSubscriber
    BY <2>1 DEF DeliveryInv, AheadOwned
  <2> QED
    BY <1>3, <2>2 DEF Panic, SubscriberId, NoDanglingDispatch
<1>4. CASE Event.fd \notin Fds
  BY <1>2, <1>4 DEF Panic, SubscriberId
<1> QED
  BY <1>3, <1>4

(* Every step keeps DeliveryInv, given the kernel in step. *)
LEMMA NextDelivery ==
    ASSUME TypeOK, TypeOK', InStep, InStep', NoDanglingDispatch, ChannelReportsIn, DeliveryInv,
           [Next]_vars
    PROVE  DeliveryInv'
<1>1. CASE Run
  BY <1>1, RunDelivery
<1>2. CASE CallProcess
  <2>1. Live(ev_index)
    BY <1>2 DEF CallProcess, Live, Event
  <2>2. AheadDistinct' /\ EventsAhead' = EventsAhead \ {Event.fd}
    BY <1>2, <2>1, PastSlot DEF CallProcess, wrapperVars
  <2> QED
    BY <1>2, <2>2 DEF CallProcess, DeliveryInv, NoPanic, AheadOwned, wrapperVars
<1>3. CASE SkipDiscarded
  <2>1. ~Live(ev_index)
    BY <1>3 DEF SkipDiscarded, Live, Event
  <2>2. pc = "dispatch" /\ pc' = "dispatch"
    BY <1>3 DEF SkipDiscarded, AtSlot
  <2>3. AheadDistinct' /\ EventsAhead' = EventsAhead
    BY <1>3, <2>1, <2>2, PastSlot DEF SkipDiscarded, wrapperVars
  <2> QED
    BY <1>3, <2>2, <2>3 DEF SkipDiscarded, DeliveryInv, NoPanic, AheadOwned, wrapperVars
<1>4. CASE NoteEndpointEvent
  <2>1. Event.fd \notin EventsAhead
    BY <1>4, WrapperAssumption DEF NoteEndpointEvent, EventsAhead
  <2>2. pc = "dispatch" /\ pc' = "dispatch"
    BY <1>4 DEF NoteEndpointEvent, AtSlot
  <2>3. AheadDistinct' /\ EventsAhead' = EventsAhead
    BY <1>4, <2>1, <2>2, PastSlot DEF NoteEndpointEvent, wrapperVars
  <2> QED
    BY <1>4, <2>2, <2>3 DEF NoteEndpointEvent, DeliveryInv, NoPanic, AheadOwned, wrapperVars
<1>5. CASE ProcessReturns
  <2>1. SlotsAhead' = SlotsAhead
    BY <1>5 DEF ProcessReturns, SlotsAhead
  <2>2. EventsAhead' = EventsAhead
    BY <1>5, <2>1 DEF ProcessReturns, EventsAhead, IsDiscarded, wrapperVars
  <2>3. AheadDistinct'
    BY <1>5, <2>1 DEF ProcessReturns, DeliveryInv, AheadDistinct, Live, IsDiscarded, wrapperVars
  <2> QED
    BY <1>5, <2>2, <2>3 DEF ProcessReturns, DeliveryInv, NoPanic, AheadOwned, wrapperVars
<1>6. CASE Panic
  BY <1>6, PanicIsImpossible
<1>7. CASE DispatchEnds \/ Unwind
  <2>1. pc' \notin {"dispatch", "process", "panicked"} /\ due' = {}
    BY <1>7, EndpointEventIsIn DEF DispatchEnds, Unwind
  <2>2. SlotsAhead' = {} /\ EventsAhead' = {}
    BY <2>1 DEF SlotsAhead, EventsAhead
  <2> QED
    BY <2>1, <2>2 DEF DeliveryInv, NoPanic, AheadOwned, AheadDistinct
<1>8. CASE AddSubscriber \/ InitReturns \/ EndpointCallsDone
  <2>1. /\ pc \notin {"dispatch", "process"}
        /\ pc' \notin {"dispatch", "process", "panicked"}
        /\ due' = due
    BY <1>8 DEF AddSubscriber, InitReturns, EndpointCallsDone, HoldsSubscriberOps, TypeOK
  <2>2. SlotsAhead' = {} /\ EventsAhead' = {}
    BY <2>1 DEF SlotsAhead, EventsAhead
  <2>3. due = {}
    BY <2>1, NoSlotsOutsideDispatch DEF DeliveryInv
  <2> QED
    BY <2>1, <2>2, <2>3 DEF DeliveryInv, NoPanic, AheadOwned, AheadDistinct
<1>9. ASSUME NEW id \in SubscriberIds, RemoveSubscriber(id)
      PROVE  DeliveryInv'
  <2>1. WatchList(id) \in SUBSET Fds
    BY DEF WatchList
  <2>2. \E fds \in SUBSET Fds : RemoveEvent(fds)
    BY <1>9, <2>1 DEF RemoveSubscriber, WrapperRemove
  <2> QED
    BY <1>9, <2>2, ClientDelivery DEF RemoveSubscriber
<1>10. ASSUME NEW id \in SubscriberIds, NEW fd \in Fds, OpsRemove(id, fd)
       PROVE  DeliveryInv'
  <2>1. \E fds \in SUBSET Fds : RemoveEvent(fds)
    BY <1>10 DEF OpsRemove, EventOpsRemove
  <2> QED
    BY <1>10, <2>1, ClientDelivery DEF OpsRemove
<1>11. ASSUME NEW id \in SubscriberIds, NEW fd \in Fds, NEW events \in SUBSET Maskable,
              OpsAdd(id, fd, events)
       PROVE  DeliveryInv'
  <2>1. id # NoSubscriber
    BY SubscribersAssumption DEF SubscriberIds, NoSubscriber
  <2>2. \A g \in Fds : fd_dispatch[g] # NoSubscriber => fd_dispatch'[g] # NoSubscriber
    BY <1>11, <2>1 DEF OpsAdd, EventOpsAdd, TypeOK, WrapperTypeOK
  <2> QED
    BY <1>11, <2>2, ClientDelivery DEF OpsAdd, EventOpsAdd
<1>12. ASSUME NEW id \in SubscriberIds, NEW fd \in Fds, NEW events \in SUBSET Maskable,
              OpsModify(id, fd, events)
       PROVE  DeliveryInv'
  BY <1>12, SameDelivery DEF OpsModify, EventOpsModify, wrapperVars
<1>13. CASE DescriptorTable
  BY <1>13, ClientDelivery DEF DescriptorTable, wrapperVars
<1>14. CASE Signal \/ UNCHANGED vars
  BY <1>14, SameDelivery DEF Signal, vars, wrapperVars
<1> QED
  BY <1>1, <1>2, <1>3, <1>4, <1>5, <1>6, <1>7, <1>8, <1>9, <1>10, <1>11, <1>12, <1>13, <1>14
     DEF Next, ClientCalls, Loop

(* Nothing is ahead and nothing due at first. *)
LEMMA InitDelivery == Init => DeliveryInv
BY DEF Init, DeliveryInv, NoPanic, AheadOwned, AheadDistinct, EventsAhead, SlotsAhead

(* The invariant all the delivery theorems rest on. *)
LEMMA DeliveryInvariance ==
    ASSUME ~ClosesRegistered
    PROVE  Spec => [](TypeOK /\ NoDanglingDispatch /\ InStep /\ ChannelReportsIn /\ DeliveryInv)
<1>1. TypeOK /\ InStep /\ [Next]_vars => InStep'
  BY NextInStep
<1>2. TypeOK /\ TypeOK' /\ InStep /\ InStep' /\ NoDanglingDispatch /\ ChannelReportsIn
      /\ DeliveryInv /\ [Next]_vars => DeliveryInv'
  BY NextDelivery
<1>3. Init => ChannelReportsIn
  BY EpollAssumption, WrapperAssumption DEF Init, WrapperInit, DefaultEvent, ChannelReportsIn
<1>4. TypeOK /\ ChannelReportsIn /\ [Next]_vars => ChannelReportsIn'
  BY NextReportsIn
<1> QED
  BY <1>1, <1>2, <1>3, <1>4, InitInStep, InitDelivery, TypeCorrect, DispatchIsSafe, PTL DEF Spec

(* dispatch_events reaches neither its unreachable!, nor that of           *)
(* dispatch_endpoint_event, nor a failing unwrap.                          *)
THEOREM NeverPanics ==
    ASSUME ~ClosesRegistered
    PROVE  Spec => []NoPanic
<1>1. DeliveryInv => NoPanic
  BY DEF DeliveryInv
<1> QED
  BY <1>1, DeliveryInvariance, PTL

(* `process` is only called for an event whose registration has stood      *)
(* since the poll, and once per event (issue 41).                          *)
THEOREM DeliveryIsCurrent ==
    ASSUME ~ClosesRegistered
    PROVE  Spec => NoStaleDelivery
<1>1. TypeOK /\ NoDanglingDispatch /\ InStep /\ DeliveryInv /\ [Next]_vars
        => [pc = "dispatch" /\ pc' = "process" => Event.fd \in due]_vars
  <2> SUFFICES ASSUME TypeOK, DeliveryInv, Next, pc = "dispatch", pc' = "process"
               PROVE  Event.fd \in due
    OBVIOUS
  <2>1. CallProcess
    <3>1. ASSUME NEW id \in SubscriberIds, RemoveSubscriber(id) PROVE FALSE
      BY <3>1 DEF RemoveSubscriber, HoldsSubscriberOps
    <3>2. ASSUME NEW id \in SubscriberIds, NEW fd \in Fds,
                 \/ OpsRemove(id, fd)
                 \/ \E events \in SUBSET Maskable : OpsAdd(id, fd, events) \/ OpsModify(id, fd, events)
          PROVE  FALSE
      BY <3>2 DEF OpsRemove, OpsAdd, OpsModify, loopVars
    <3>3. ~(AddSubscriber \/ InitReturns \/ ProcessReturns \/ Unwind \/ Signal \/ DescriptorTable)
      BY DEF AddSubscriber, InitReturns, ProcessReturns, Unwind, Signal, DescriptorTable,
         HoldsSubscriberOps, loopVars
    <3>4. ~(Run \/ SkipDiscarded \/ NoteEndpointEvent \/ Panic \/ DispatchEnds \/ EndpointCallsDone)
      BY DEF Run, SkipDiscarded, NoteEndpointEvent, Panic, DispatchEnds, EndpointCallsDone
    <3> QED
      BY <3>1, <3>2, <3>3, <3>4 DEF Next, ClientCalls, Loop
  <2>2. ev_index \in SlotsAhead /\ Live(ev_index)
    BY <2>1 DEF CallProcess, AtSlot, SlotsAhead, TypeOK, Live, Event
  <2>3. Event.fd \in Fds
    BY <2>1, SubscribersAssumption DEF CallProcess, SubscriberId, TypeOK, SubscribersTypeOK,
       SubscriberIds, NoSubscriber
  <2>4. Event.fd \in EventsAhead
    BY <2>2, <2>3 DEF EventsAhead, Live, Event
  <2> QED
    BY <2>4 DEF DeliveryInv
<1> QED
  BY <1>1, DeliveryInvariance, PTL DEF Spec, NoStaleDelivery

(* When the loop has looked at all the slots, no event is left whose       *)
(* registration still stands.                                              *)
THEOREM DeliveryIsComplete ==
    ASSUME ~ClosesRegistered
    PROVE  Spec => []NoEventDropped
<1>1. TypeOK /\ DeliveryInv => NoEventDropped
  BY DEF TypeOK, DeliveryInv, NoEventDropped, EventsAhead, SlotsAhead
<1> QED
  BY <1>1, DeliveryInvariance, PTL

-----------------------------------------------------------------------------
(* Ownership: fd_dispatch and the watch lists. *)

(* Of an agreeing table, the watch list of a subscriber is what it owns. *)
LEMMA WatchListOwned ==
    ASSUME TablesAgree, NEW id \in SubscriberIds
    PROVE  WatchList(id) = {fd \in Fds : fd_dispatch[fd] = id}
BY DEF TablesAgree, WatchList

(* 0 is no id. *)
LEMMA IdIsSomebody ==
    ASSUME NEW id \in SubscriberIds
    PROVE  id # NoSubscriber
BY SubscribersAssumption DEF SubscriberIds, NoSubscriber

(* The three operations that change the tables keep them in agreement, a   *)
(* removal when the descriptor is the caller's own.                        *)
LEMMA RemoveSubscriberAgrees ==
    ASSUME TypeOK, TablesAgree, NEW id \in SubscriberIds, RemoveSubscriber(id)
    PROVE  TablesAgree'
<1>1. \A fd \in Fds : fd_dispatch'[fd] = IF fd_dispatch[fd] = id THEN NoSubscriber ELSE fd_dispatch[fd]
  BY WatchListOwned DEF RemoveSubscriber, WrapperRemove, RemoveEvent
<1>2. \A i \in SubscriberIds : subscriber_watch_list'[i] =
                                 IF i = id THEN NoFds ELSE subscriber_watch_list[i]
  BY DEF RemoveSubscriber, WrapperRemove, TypeOK, WrapperTypeOK
<1>3. \A fd \in Fds : NoFds[fd] = 0
  BY DEF NoFds
<1> QED
  BY <1>1, <1>2, <1>3, IdIsSomebody DEF TablesAgree

(* An `add` finds the descriptor on no list. *)
LEMMA OpsAddAgrees ==
    ASSUME TypeOK, TablesAgree, NEW id \in SubscriberIds, NEW fd \in Fds, NEW events,
           OpsAdd(id, fd, events)
    PROVE  TablesAgree'
<1>1. fd_dispatch[fd] = NoSubscriber
  BY DEF OpsAdd, EventOpsAdd
<1>2. subscriber_watch_list[id][fd] = 0
  BY <1>1, IdIsSomebody DEF TablesAgree
<1>3. \A g \in Fds : fd_dispatch'[g] = IF g = fd THEN id ELSE fd_dispatch[g]
  BY DEF OpsAdd, EventOpsAdd, TypeOK, WrapperTypeOK
<1>4. \A i \in SubscriberIds, g \in Fds :
        subscriber_watch_list'[i][g] = IF i = id /\ g = fd THEN 1 ELSE subscriber_watch_list[i][g]
  BY <1>2 DEF OpsAdd, EventOpsAdd, TypeOK, WrapperTypeOK
<1> QED
  BY <1>1, <1>3, <1>4, IdIsSomebody DEF TablesAgree

(* A removal of one's own descriptor clears both tables. *)
LEMMA OpsRemoveAgrees ==
    ASSUME TypeOK, TablesAgree, NEW id \in SubscriberIds, NEW fd \in Fds,
           OpsRemove(id, fd), fd_dispatch[fd] = id
    PROVE  TablesAgree'
<1>1. subscriber_watch_list[id][fd] = 1 /\ fd \in WatchList(id)
  BY DEF TablesAgree, WatchList
<1>2. \A g \in Fds : fd_dispatch'[g] = IF g = fd THEN NoSubscriber ELSE fd_dispatch[g]
  BY DEF OpsRemove, EventOpsRemove, RemoveEvent
<1>3. \A i \in SubscriberIds, g \in Fds :
        subscriber_watch_list'[i][g] = IF i = id /\ g = fd THEN 0 ELSE subscriber_watch_list[i][g]
  BY <1>1 DEF OpsRemove, EventOpsRemove, TypeOK, WrapperTypeOK
<1> QED
  BY <1>2, <1>3, IdIsSomebody DEF TablesAgree

(* Every step keeps the tables in agreement. *)
LEMMA NextTablesAgree ==
    ASSUME ~TouchesForeign, TypeOK, TablesAgree, [Next]_vars
    PROVE  TablesAgree'
<1>1. CASE UNCHANGED <<fd_dispatch, subscriber_watch_list>>
  BY <1>1 DEF TablesAgree
<1>2. ASSUME NEW id \in SubscriberIds, RemoveSubscriber(id)
      PROVE  TablesAgree'
  BY <1>2, RemoveSubscriberAgrees
<1>3. ASSUME NEW id \in SubscriberIds, NEW fd \in Fds, NEW events \in SUBSET Maskable,
             OpsAdd(id, fd, events)
      PROVE  TablesAgree'
  BY <1>3, OpsAddAgrees
<1>4. ASSUME NEW id \in SubscriberIds, NEW fd \in Fds, OpsRemove(id, fd)
      PROVE  TablesAgree'
  <2>1. fd_dispatch[fd] = id
    BY <1>4 DEF OpsRemove, EventOpsRemove, MayTouch
  <2> QED
    BY <1>4, <2>1, OpsRemoveAgrees
<1>5. ASSUME NEW id \in SubscriberIds, NEW fd \in Fds, NEW events \in SUBSET Maskable,
             OpsModify(id, fd, events)
      PROVE  TablesAgree'
  BY <1>1, <1>5 DEF OpsModify, EventOpsModify, wrapperVars
<1>6. CASE \/ AddSubscriber \/ InitReturns \/ ProcessReturns \/ Unwind
           \/ Signal \/ DescriptorTable \/ UNCHANGED vars
  BY <1>1, <1>6 DEF AddSubscriber, InitReturns, ProcessReturns, Unwind, Signal,
     DescriptorTable, vars, wrapperVars
<1>7. CASE Loop
  BY <1>1, <1>7 DEF Loop, Run, WrapperPoll, SkipDiscarded, CallProcess, NoteEndpointEvent,
     Panic, DispatchEnds, EndpointCallsDone, wrapperVars
<1> QED
  BY <1>2, <1>3, <1>4, <1>5, <1>6, <1>7 DEF Next, ClientCalls

(* The tables of a new manager are empty. *)
LEMMA InitTablesAgree == Init => TablesAgree
<1> SUFFICES ASSUME Init, NEW id \in SubscriberIds, NEW fd \in Fds
             PROVE  subscriber_watch_list[id][fd] = IF fd_dispatch[fd] = id THEN 1 ELSE 0
  BY DEF TablesAgree
<1>1. subscriber_watch_list[id] = NoFds /\ fd_dispatch[fd] = NoSubscriber
  BY DEF Init, WrapperInit
<1> QED
  BY <1>1, IdIsSomebody DEF NoFds

(* With such subscribers each watch list holds exactly what is dispatched  *)
(* to its subscriber, once: remove_subscriber leaves nothing behind.       *)
THEOREM TablesStayAligned ==
    ASSUME ~TouchesForeign
    PROVE  Spec => []TablesAgree
<1>1. TypeOK /\ TablesAgree /\ [Next]_vars => TablesAgree'
  BY NextTablesAgree
<1> QED
  BY <1>1, InitTablesAgree, TypeCorrect, PTL DEF Spec

(* remove_subscriber takes the subscriber's own descriptors out of         *)
(* fd_dispatch and leaves every other entry alone.                         *)
THEOREM RemovalsAreLocal ==
    ASSUME ~TouchesForeign
    PROVE  Spec => RemovalIsLocal
<1>1. TablesAgree /\ [Next]_vars =>
        [\A id \in subscribers \ subscribers' : \A fd \in Fds :
            fd_dispatch'[fd] = IF fd_dispatch[fd] = id THEN NoSubscriber ELSE fd_dispatch[fd]]_vars
  <2> SUFFICES ASSUME TablesAgree, Next, NEW id \in subscribers \ subscribers', NEW fd \in Fds
               PROVE  fd_dispatch'[fd] = IF fd_dispatch[fd] = id THEN NoSubscriber ELSE fd_dispatch[fd]
    OBVIOUS
  <2>1. PICK i \in SubscriberIds : RemoveSubscriber(i)
    <3>1. ~(AddSubscriber \/ InitReturns \/ ProcessReturns \/ Unwind \/ Signal \/ DescriptorTable)
      BY DEF AddSubscriber, SubscribersAdd, InitReturns, ProcessReturns, Unwind, Signal,
         DescriptorTable, subscribersVars
    <3>2. ~Loop
      BY DEF Loop, Run, SkipDiscarded, CallProcess, NoteEndpointEvent, Panic, DispatchEnds,
         EndpointCallsDone, subscribersVars
    <3>3. ASSUME NEW j \in SubscriberIds, NEW g \in Fds,
                 \/ OpsRemove(j, g)
                 \/ \E events \in SUBSET Maskable : OpsAdd(j, g, events) \/ OpsModify(j, g, events)
          PROVE  FALSE
      BY <3>3 DEF OpsRemove, OpsAdd, OpsModify, subscribersVars
    <3> QED
      BY <3>1, <3>2, <3>3 DEF Next, ClientCalls
  <2>2. i = id
    BY <2>1 DEF RemoveSubscriber, SubscribersRemove
  <2> QED
    BY <2>1, <2>2, WatchListOwned DEF RemoveSubscriber, WrapperRemove, RemoveEvent
<1> QED
  BY <1>1, TablesStayAligned, PTL DEF Spec, RemovalIsLocal
-----------------------------------------------------------------------------
(* EventManager implements Registration. *)

Serving == IF pc = "process" THEN current ELSE NoSubscriber

(* What the step simulation needs to know of a state. *)
PromiseInv ==
    /\ TypeOK
    /\ CallbackAlive
    /\ InStep
    /\ DeliveryInv
    /\ TablesAgree

(* A step that leaves the mapped state alone is a stutter of Registration. *)
LEMMA StutterInPromise ==
    ASSUME UNCHANGED subscribersVars, UNCHANGED fd_dispatch,
           EventsAhead' = EventsAhead, Serving' = Serving
    PROVE  [Promise!Next]_Promise!rvars
BY DEF Promise!rvars, subscribersVars, Serving

(* Outside a dispatch Registration is between two batches. *)
LEMMA QuietIsBetweenBatches ==
    ASSUME pc \notin {"dispatch", "process"}
    PROVE  Promise!BetweenBatches
BY NoSlotsOutsideDispatch DEF Promise!BetweenBatches, Promise!Nobody, NoSubscriber

(* add_subscriber hands out the next id between two batches. *)
LEMMA AddSubscriberJoins ==
    ASSUME TypeOK, AddSubscriber
    PROVE  Promise!Join
<1>1. pc \notin {"dispatch", "process"} /\ pc' = "init"
  BY DEF AddSubscriber, HoldsSubscriberOps
<1>2. EventsAhead = {} /\ EventsAhead' = {}
  BY <1>1 DEF EventsAhead, SlotsAhead
<1>3. Promise!BetweenBatches
  BY <1>1, QuietIsBetweenBatches
<1>4. /\ next_id \in 1..MaxSubscribers
      /\ next_id' = next_id + 1
      /\ subscribers' = subscribers \cup {next_id}
  BY SubscribersAssumption DEF AddSubscriber, SubscribersAdd, TypeOK, SubscribersTypeOK
<1>5. /\ next_id - 1 + 1 = next_id
      /\ next_id' - 1 = next_id
      /\ next_id' - 1 = next_id - 1 + 1
  BY <1>4
<1>6. fd_dispatch' = fd_dispatch
  BY DEF AddSubscriber, wrapperVars
<1> QED
  BY <1>1, <1>2, <1>3, <1>4, <1>5, <1>6 DEF Promise!Join, SubscriberIds

(* remove_subscriber gives up what its subscriber owns. *)
LEMMA RemoveSubscriberLeaves ==
    ASSUME TypeOK, TablesAgree, NEW id \in SubscriberIds, RemoveSubscriber(id)
    PROVE  Promise!Leave(id)
<1>1. pc \notin {"dispatch", "process"} /\ pc' = pc
  BY DEF RemoveSubscriber, HoldsSubscriberOps, loopVars
<1>2. EventsAhead = {} /\ EventsAhead' = {}
  BY <1>1 DEF EventsAhead, SlotsAhead
<1>3. Promise!BetweenBatches
  BY <1>1, QuietIsBetweenBatches
<1>4. fd_dispatch' = [fd \in Fds |-> IF fd_dispatch[fd] = id THEN NoSubscriber ELSE fd_dispatch[fd]]
  BY WatchListOwned DEF RemoveSubscriber, WrapperRemove, RemoveEvent
<1> QED
  BY <1>1, <1>2, <1>3, <1>4 DEF Promise!Leave, Promise!Nobody, NoSubscriber, RemoveSubscriber,
     SubscribersRemove

(* EventOps::add gives a descriptor nobody owns to a member. *)
LEMMA OpsAddRegisters ==
    ASSUME TypeOK, CallbackAlive, NEW id \in SubscriberIds, NEW fd \in Fds,
           NEW events \in SUBSET Maskable, OpsAdd(id, fd, events)
    PROVE  Promise!Register(id, fd)
<1>1. id \in subscribers
  BY HolderAlive DEF OpsAdd
<1>2. EventsAhead' = EventsAhead
  BY SameSlots DEF OpsAdd, EventOpsAdd, EventsAhead, IsDiscarded
<1>3. fd_dispatch[fd] = NoSubscriber /\ fd_dispatch' = [fd_dispatch EXCEPT ![fd] = id]
  BY DEF OpsAdd, EventOpsAdd
<1> QED
  BY <1>1, <1>2, <1>3 DEF Promise!Register, Promise!Nobody, NoSubscriber, OpsAdd,
     subscribersVars, loopVars

(* EventOps::remove takes the descriptor from its owner, and its collected *)
(* event out of the batch.                                                 *)
LEMMA OpsRemoveUnregisters ==
    ASSUME ~TouchesForeign, TypeOK, CallbackAlive, DeliveryInv,
           NEW id \in SubscriberIds, NEW fd \in Fds, OpsRemove(id, fd)
    PROVE  Promise!Unregister(id, fd)
<1>1. id \in subscribers
  BY HolderAlive DEF OpsRemove
<1>2. fd_dispatch[fd] = id
  BY DEF OpsRemove, EventOpsRemove, MayTouch
<1>3. RemoveEvent({fd}) /\ UNCHANGED loopVars
  BY DEF OpsRemove, EventOpsRemove
<1>4. EventsAhead' = {g \in EventsAhead : fd_dispatch'[g] # NoSubscriber}
  BY <1>3, RemoveEventAhead
<1>5. fd_dispatch' = [g \in Fds |-> IF g = fd THEN NoSubscriber ELSE fd_dispatch[g]]
  BY <1>3 DEF RemoveEvent
<1>6. \A g \in EventsAhead : fd_dispatch'[g] # NoSubscriber <=> g # fd
  BY <1>5 DEF DeliveryInv, AheadOwned, EventsAhead
<1>7. EventsAhead' = EventsAhead \ {fd}
  BY <1>4, <1>6
<1>8. fd_dispatch' = [fd_dispatch EXCEPT ![fd] = NoSubscriber]
  BY <1>5 DEF TypeOK, WrapperTypeOK
<1> QED
  BY <1>1, <1>2, <1>3, <1>7, <1>8 DEF Promise!Unregister, Promise!Nobody, NoSubscriber,
     OpsRemove, subscribersVars, loopVars

(* A poll collects events of owned descriptors only. *)
LEMMA RunCollects ==
    ASSUME TypeOK, DeliveryInv', Run
    PROVE  Promise!Collect
<1>1. pc = "idle" /\ pc' = "dispatch"
  BY DEF Run
<1>2. Promise!BetweenBatches
  BY <1>1, QuietIsBetweenBatches
<1>3. UNCHANGED <<subscribers, next_id, fd_dispatch>>
  BY DEF Run, WrapperPoll, subscribersVars
<1>4. EventsAhead' \subseteq {fd \in Fds : fd_dispatch[fd] # NoSubscriber}
  BY <1>3 DEF DeliveryInv, AheadOwned, EventsAhead
<1> QED
  BY <1>1, <1>2, <1>3, <1>4 DEF Promise!Collect, Promise!Nobody, NoSubscriber

(* `process` is called for an event that was still ahead. *)
LEMMA ProcessedWasAhead ==
    ASSUME TypeOK, CallProcess
    PROVE  /\ Event.fd \in EventsAhead
           /\ Event.fd \in Fds
           /\ SubscriberId(Event.fd) = fd_dispatch[Event.fd]
           /\ Live(ev_index)
<1>1. Event.fd \in Fds /\ SubscriberId(Event.fd) = fd_dispatch[Event.fd]
  BY SubscribersAssumption DEF CallProcess, SubscriberId, TypeOK, SubscribersTypeOK,
     SubscriberIds, NoSubscriber
<1>2. ev_index \in SlotsAhead /\ Live(ev_index)
  BY DEF CallProcess, AtSlot, SlotsAhead, TypeOK, Live, Event
<1>3. Event.fd \in EventsAhead
  BY <1>1, <1>2 DEF EventsAhead, Live, Event
<1> QED
  BY <1>1, <1>2, <1>3

(* `process` is called on the owner of an event of the batch. *)
LEMMA CallProcessDelivers ==
    ASSUME TypeOK, DeliveryInv, CallProcess
    PROVE  Event.fd \in Fds /\ Promise!Deliver(Event.fd)
<1>1. Event.fd \in Fds /\ SubscriberId(Event.fd) = fd_dispatch[Event.fd]
  BY ProcessedWasAhead
<1>2. Live(ev_index)
  BY ProcessedWasAhead
<1>3. Event.fd \in EventsAhead
  BY ProcessedWasAhead
<1>4. EventsAhead' = EventsAhead \ {Event.fd}
  BY <1>2, PastSlot DEF CallProcess, wrapperVars
<1>5. pc = "dispatch" /\ pc' = "process" /\ current' = fd_dispatch[Event.fd]
  BY <1>1 DEF CallProcess, AtSlot
<1>6. UNCHANGED <<subscribers, next_id, fd_dispatch>>
  BY DEF CallProcess, subscribersVars, wrapperVars
<1> QED
  BY <1>1, <1>3, <1>4, <1>5, <1>6 DEF Promise!Deliver, Promise!Nobody, NoSubscriber

(* The return of `process` ends the delivery. *)
LEMMA ProcessReturnsReturns ==
    ASSUME ProcessReturns
    PROVE  Promise!Return
<1>1. SlotsAhead' = SlotsAhead
  BY DEF ProcessReturns, SlotsAhead
<1>2. EventsAhead' = EventsAhead
  BY <1>1 DEF ProcessReturns, EventsAhead, IsDiscarded, wrapperVars
<1> QED
  BY <1>2 DEF ProcessReturns, Promise!Return, Promise!Nobody, NoSubscriber, subscribersVars,
     wrapperVars

(* A panic in `process` gives the rest of the batch up; in `init` or in a  *)
(* closure there is no batch.                                              *)
LEMMA UnwindAbandons ==
    ASSUME TypeOK, CallbackAlive, Unwind
    PROVE  Promise!Abandon \/ UNCHANGED Promise!rvars
<1>1. UNCHANGED <<subscribers, next_id, fd_dispatch>> /\ pc' = "idle"
  BY DEF Unwind, subscribersVars, wrapperVars
<1>2. EventsAhead' = {}
  BY <1>1 DEF EventsAhead, SlotsAhead
<1>3. CASE pc = "process"
  <2>1. current # NoSubscriber
    BY <1>3, IdIsSomebody DEF CallbackAlive, TypeOK, SubscribersTypeOK
  <2> QED
    BY <1>1, <1>2, <1>3, <2>1 DEF Promise!Abandon, Promise!Nobody, NoSubscriber
<1>4. CASE pc # "process"
  <2>1. EventsAhead = {}
    BY <1>4, NoSlotsOutsideDispatch DEF Unwind
  <2> QED
    BY <1>1, <1>2, <1>4, <2>1 DEF Promise!rvars
<1> QED
  BY <1>3, <1>4

(* The steps Registration does not see. *)
LEMMA InvisibleSteps ==
    ASSUME TypeOK, DeliveryInv,
           \/ InitReturns \/ SkipDiscarded \/ NoteEndpointEvent \/ DispatchEnds
           \/ EndpointCallsDone \/ Signal \/ DescriptorTable \/ UNCHANGED vars
           \/ \E id \in SubscriberIds, fd \in Fds : \E events \in SUBSET Maskable :
                 OpsModify(id, fd, events)
    PROVE  [Promise!Next]_Promise!rvars
<1>1. CASE UNCHANGED <<subscribersVars, fd_dispatch, ready_events, loopVars>>
  <2>1. EventsAhead' = EventsAhead
    BY <1>1, SameSlots DEF EventsAhead, IsDiscarded
  <2> QED
    BY <1>1, <2>1, StutterInPromise DEF Serving, loopVars
<1>2. CASE InitReturns \/ EndpointCallsDone
  <2>1. pc \notin {"dispatch", "process"} /\ pc' \notin {"dispatch", "process"}
    BY <1>2 DEF InitReturns, EndpointCallsDone, TypeOK
  <2>2. EventsAhead = {} /\ EventsAhead' = {} /\ Serving' = Serving
    BY <2>1 DEF EventsAhead, SlotsAhead, Serving
  <2>3. UNCHANGED subscribersVars /\ UNCHANGED fd_dispatch
    BY <1>2 DEF InitReturns, EndpointCallsDone, wrapperVars
  <2> QED
    BY <2>2, <2>3, StutterInPromise
<1>3. CASE SkipDiscarded \/ NoteEndpointEvent
  <2>1. /\ AtSlot /\ pc = "dispatch" /\ pc' = "dispatch" /\ ev_index' = ev_index + 1
        /\ UNCHANGED subscribersVars /\ UNCHANGED fd_dispatch
        /\ UNCHANGED ready_events /\ UNCHANGED event_count
    BY <1>3 DEF SkipDiscarded, NoteEndpointEvent, AtSlot, wrapperVars
  <2>2. EventsAhead' = IF Live(ev_index) THEN EventsAhead \ {Event.fd} ELSE EventsAhead
    BY <2>1, PastSlot
  <2>3. Live(ev_index) => Event.fd \notin Fds
    BY <1>3, WrapperAssumption DEF SkipDiscarded, NoteEndpointEvent, Live, Event
  <2>4. EventsAhead' = EventsAhead
    BY <2>2, <2>3 DEF EventsAhead
  <2> QED
    BY <2>1, <2>4, StutterInPromise DEF Serving
<1>4. CASE DispatchEnds
  <2>1. pc = "dispatch" /\ pc' \notin {"dispatch", "process"} /\ ev_index > event_count
    BY <1>4 DEF DispatchEnds
  <2>2. EventsAhead' = {} /\ Serving' = Serving
    BY <2>1 DEF EventsAhead, SlotsAhead, Serving
  <2>3. EventsAhead = {}
    BY <2>1 DEF EventsAhead, SlotsAhead, TypeOK
  <2>4. UNCHANGED subscribersVars /\ UNCHANGED fd_dispatch
    BY <1>4 DEF DispatchEnds, wrapperVars
  <2> QED
    BY <2>2, <2>3, <2>4, StutterInPromise
<1>5. CASE Signal \/ DescriptorTable \/ UNCHANGED vars
  BY <1>1, <1>5 DEF Signal, DescriptorTable, vars, wrapperVars
<1>6. ASSUME NEW id \in SubscriberIds, NEW fd \in Fds, NEW events \in SUBSET Maskable,
             OpsModify(id, fd, events)
      PROVE  [Promise!Next]_Promise!rvars
  BY <1>1, <1>6 DEF OpsModify, EventOpsModify, wrapperVars
<1> QED
  BY <1>2, <1>3, <1>4, <1>5, <1>6

(* Every step of EventManager is a step of Registration or none. *)
LEMMA NextKeepsPromise ==
    ASSUME ~TouchesForeign, PromiseInv, NoDanglingDispatch, DeliveryInv', [Next]_vars
    PROVE  [Promise!Next]_Promise!rvars
<1> USE DEF PromiseInv
<1>1. CASE AddSubscriber
  BY <1>1, AddSubscriberJoins DEF Promise!Next
<1>2. ASSUME NEW id \in SubscriberIds, RemoveSubscriber(id)
      PROVE  Promise!Next
  BY <1>2, RemoveSubscriberLeaves DEF Promise!Next
<1>3. ASSUME NEW id \in SubscriberIds, NEW fd \in Fds, NEW events \in SUBSET Maskable,
             OpsAdd(id, fd, events)
      PROVE  Promise!Next
  BY <1>3, OpsAddRegisters DEF Promise!Next
<1>4. ASSUME NEW id \in SubscriberIds, NEW fd \in Fds, OpsRemove(id, fd)
      PROVE  Promise!Next
  BY <1>4, OpsRemoveUnregisters DEF Promise!Next
<1>5. CASE Run
  BY <1>5, RunCollects DEF Promise!Next
<1>6. CASE CallProcess
  BY <1>6, CallProcessDelivers DEF Promise!Next
<1>7. CASE ProcessReturns
  BY <1>7, ProcessReturnsReturns DEF Promise!Next
<1>8. CASE Unwind
  BY <1>8, UnwindAbandons DEF Promise!Next
<1>9. CASE Panic
  BY <1>9, PanicIsImpossible
<1>10. CASE \/ InitReturns \/ SkipDiscarded \/ NoteEndpointEvent \/ DispatchEnds
            \/ EndpointCallsDone \/ Signal \/ DescriptorTable \/ UNCHANGED vars
  BY <1>10, InvisibleSteps
<1>11. ASSUME NEW id \in SubscriberIds, NEW fd \in Fds, NEW events \in SUBSET Maskable,
              OpsModify(id, fd, events)
       PROVE  [Promise!Next]_Promise!rvars
  BY <1>11, InvisibleSteps
<1> QED
  BY <1>1, <1>2, <1>3, <1>4, <1>5, <1>6, <1>7, <1>8, <1>9, <1>10, <1>11
     DEF Next, ClientCalls, Loop

(* A new manager is an empty registration. *)
LEMMA InitKeepsPromise == Init => Promise!Init
<1> SUFFICES ASSUME Init PROVE Promise!Init
  OBVIOUS
<1>1. EventsAhead = {}
  BY DEF Init, EventsAhead, SlotsAhead
<1>2. next_id - 1 = 0 /\ subscribers = {} /\ pc = "idle"
  BY DEF Init, SubscribersInit
<1>3. fd_dispatch = [fd \in Fds |-> NoSubscriber]
  BY DEF Init, WrapperInit
<1> QED
  BY <1>1, <1>2, <1>3 DEF Promise!Init, Promise!Nobody, NoSubscriber

(* The manager keeps the promise of Registration to subscribers that close *)
(* nothing registered and touch only their own descriptors: add, remove,   *)
(* poll, dispatch and a caught panic are its steps, all else is invisible. *)
THEOREM ManagerKeepsPromise ==
    ASSUME ~ClosesRegistered, ~TouchesForeign
    PROVE  Spec => KeepsPromise
<1>1. Init => CallbackAlive
  BY DEF Init, CallbackAlive
<1>2. TypeOK /\ CallbackAlive /\ [Next]_vars => CallbackAlive'
  BY NextCallbackAlive
<1>3. PromiseInv /\ NoDanglingDispatch /\ DeliveryInv' /\ [Next]_vars => [Promise!Next]_Promise!rvars
  BY NextKeepsPromise
<1>4. TypeOK /\ CallbackAlive /\ InStep /\ DeliveryInv /\ TablesAgree => PromiseInv
  BY DEF PromiseInv
<1>5. Spec => []CallbackAlive
  BY <1>1, <1>2, TypeCorrect, PTL DEF Spec
<1>6. Spec => []PromiseInv
  BY <1>4, <1>5, DeliveryInvariance, TablesStayAligned, PTL
<1>7. Spec => [][Promise!Next]_Promise!rvars
  BY <1>3, <1>6, DeliveryInvariance, PTL DEF Spec
<1> QED
  BY <1>7, InitKeepsPromise, PTL DEF Spec, KeepsPromise, Promise!Spec
=============================================================================
