---------------------------- MODULE EventManager ----------------------------
(***************************************************************************)
(* src/src/manager.rs: SubscriberOps and the event loop, composed with the *)
(* subscriber map (Subscribers), the epoll bookkeeping (EpollWrapper) and  *)
(* the kernel (Epoll).                                                     *)
(*                                                                         *)
(* One thread owns the manager.  pc says which code it runs:               *)
(*   "idle"      the owner's own code, between two calls of `run`;         *)
(*   "dispatch"  the loop of dispatch_events, about to look at a slot;     *)
(*   "process"   a subscriber's `process` callback;                        *)
(*   "init"      a subscriber's `init` callback, inside add_subscriber;    *)
(*   "endpoint"  the closures received over the remote endpoint;           *)
(*   "panicked"  the manager itself hit unwrap on None or unreachable!.    *)
(* Client code appears as every sequence of calls its borrow allows:       *)
(* callbacks hold an EventOps for one subscriber, the owner and the        *)
(* closures hold the whole SubscriberOps.                                  *)
(***************************************************************************)
EXTENDS EpollWrapper

VARIABLES
    pc,
    caller,          \* where add_subscriber returns to once init is done
    current,         \* subscriber whose callback runs
    event_count,     \* what epoll_wait returned
    ev_index,        \* slot the loop looks at
    endpoint_event,  \* an event of the channel was met in this dispatch
    signaled,        \* the channel's eventfd counter is not zero
    due              \* history: descriptors with a collected event not yet processed,
                     \* whose registration has stood since the poll

loopVars == <<pc, caller, current, event_count, ev_index, endpoint_event>>

vars == <<kernelVars, subscribersVars, wrapperVars, loopVars, signaled, due>>

TypeOK ==
    /\ KernelTypeOK
    /\ SubscribersTypeOK
    /\ WrapperTypeOK
    /\ pc \in {"idle", "dispatch", "process", "init", "endpoint", "panicked"}
    /\ caller \in {"idle", "endpoint"}
    /\ current \in SubscriberIds \cup {NoSubscriber}
    /\ event_count \in 0..Capacity
    /\ ev_index \in 1..(Capacity + 1)
    /\ endpoint_event \in BOOLEAN
    /\ signaled \in BOOLEAN
    /\ due \in SUBSET Fds

(* new_with_capacity: nothing registered but the channel's eventfd. *)
Init ==
    /\ KernelInit
    /\ SubscribersInit
    /\ WrapperInit
    /\ pc = "idle"
    /\ caller = "idle"
    /\ current = NoSubscriber
    /\ event_count = 0
    /\ ev_index = 1
    /\ endpoint_event = FALSE
    /\ signaled = FALSE
    /\ due = {}

(* Keeps the history: once a registration is gone its event is not due. *)
TrackDue == due' = {fd \in due : Watched(fd)'}

-----------------------------------------------------------------------------
(* SubscriberOps, called by the owner or by a closure.  subscriber_mut and *)
(* the InvalidId results change nothing.                                   *)

HoldsSubscriberOps == pc \in {"idle", "endpoint"}

AddSubscriber ==
    /\ HoldsSubscriberOps
    /\ SubscribersAdd
    /\ current' = next_id
    /\ caller' = pc
    /\ pc' = "init"
    /\ UNCHANGED <<kernelVars, wrapperVars, event_count, ev_index, endpoint_event, signaled, due>>

InitReturns ==
    /\ pc = "init"
    /\ pc' = caller
    /\ caller' = "idle"
    /\ current' = NoSubscriber
    /\ UNCHANGED <<kernelVars, subscribersVars, wrapperVars, event_count, ev_index,
                   endpoint_event, signaled, due>>

(* Seeded fault: the map forgets the subscriber, the epoll tables do not. *)
RemoveSubscriberFromMapOnly(id) ==
    /\ HoldsSubscriberOps
    /\ SubscribersRemove(id)
    /\ TrackDue
    /\ UNCHANGED <<kernelVars, wrapperVars, loopVars, signaled>>

RemoveSubscriber(id) ==
    /\ HoldsSubscriberOps
    /\ SubscribersRemove(id)
    /\ WrapperRemove(id)
    /\ TrackDue
    /\ UNCHANGED <<loopVars, signaled>>

-----------------------------------------------------------------------------
(* EventOps: handed to the callback that runs, or obtained with event_ops  *)
(* for any registered subscriber.                                          *)

HoldsEventOps(id) ==
    \/ pc \in {"init", "process"} /\ id = current
    \/ HoldsSubscriberOps /\ id \in subscribers

OpsAdd(id, fd, events) ==
    /\ HoldsEventOps(id)
    /\ EventOpsAdd(id, fd, events)
    /\ TrackDue
    /\ UNCHANGED <<subscribersVars, loopVars, signaled>>

OpsModify(id, fd, events) ==
    /\ HoldsEventOps(id)
    /\ EventOpsModify(id, fd, events)
    /\ UNCHANGED <<subscribersVars, loopVars, signaled, due>>

OpsRemove(id, fd) ==
    /\ HoldsEventOps(id)
    /\ EventOpsRemove(id, fd)
    /\ TrackDue
    /\ UNCHANGED <<subscribersVars, loopVars, signaled>>

-----------------------------------------------------------------------------
(* run, run_with_timeout and dispatch_events. *)

(* Seeded fault: epoll_wait is told of one slot more than the buffer has. *)
RunOverrunning ==
    /\ pc = "idle"
    /\ \E n \in 0..(Capacity + 1) :
          /\ WrapperPoll(n, signaled)
          /\ event_count' = n
    /\ pc' = "dispatch"
    /\ ev_index' = 1
    /\ endpoint_event' = FALSE
    /\ due' = {}
    /\ UNCHANGED <<kernelVars, subscribersVars, caller, current, signaled>>

(* An error of epoll_wait other than EINTR returns before anything changes. *)
Run ==
    /\ pc = "idle"
    /\ \E n \in 0..Capacity :
          /\ WrapperPoll(n, signaled)
          /\ event_count' = n
    /\ pc' = "dispatch"
    /\ ev_index' = 1
    /\ endpoint_event' = FALSE
    /\ due' = {fd \in Fds : \E i \in 1..event_count' : ready_events'[i].fd = fd}
    /\ UNCHANGED <<kernelVars, subscribersVars, caller, current, signaled>>

Event == ready_events[ev_index]

(* Seeded fault: only the descriptor is compared with the default event's. *)
IsDiscardedByFd(event) == event.fd = DefaultEvent.fd

IsDiscarded(event) ==
    /\ event.events = DefaultEvent.events
    /\ event.fd = DefaultEvent.fd

AtSlot == pc = "dispatch" /\ ev_index <= event_count

(* fd_dispatch.get(&fd): the channel's eventfd is never in the table. *)
SubscriberId(fd) == IF fd \in Fds THEN fd_dispatch[fd] ELSE NoSubscriber

SkipDiscarded ==
    /\ AtSlot
    /\ IsDiscarded(Event)
    /\ ev_index' = ev_index + 1
    /\ UNCHANGED <<kernelVars, subscribersVars, wrapperVars, pc, caller, current,
                   event_count, endpoint_event, signaled, due>>

CallProcess ==
    /\ AtSlot
    /\ ~IsDiscarded(Event)
    /\ SubscriberId(Event.fd) \in subscribers
    /\ pc' = "process"
    /\ current' = SubscriberId(Event.fd)
    /\ due' = due \ {Event.fd}
    /\ UNCHANGED <<kernelVars, subscribersVars, wrapperVars, caller, event_count,
                   ev_index, endpoint_event, signaled>>

ProcessReturns ==
    /\ pc = "process"
    /\ pc' = "dispatch"
    /\ current' = NoSubscriber
    /\ ev_index' = ev_index + 1
    /\ UNCHANGED <<kernelVars, subscribersVars, wrapperVars, caller, event_count,
                   endpoint_event, signaled, due>>

NoteEndpointEvent ==
    /\ AtSlot
    /\ ~IsDiscarded(Event)
    /\ SubscriberId(Event.fd) = NoSubscriber
    /\ Event.fd = ChannelFd
    /\ endpoint_event' = TRUE
    /\ ev_index' = ev_index + 1
    /\ UNCHANGED <<kernelVars, subscribersVars, wrapperVars, pc, caller, current,
                   event_count, signaled, due>>

(* get_mut_unchecked of an id the map does not hold, or the unreachable! *)
(* for a descriptor that is nobody's.                                     *)
Panic ==
    /\ AtSlot
    /\ ~IsDiscarded(Event)
    /\ IF SubscriberId(Event.fd) = NoSubscriber
       THEN Event.fd # ChannelFd
       ELSE SubscriberId(Event.fd) \notin subscribers
    /\ pc' = "panicked"
    /\ UNCHANGED <<kernelVars, subscribersVars, wrapperVars, caller, current,
                   event_count, ev_index, endpoint_event, signaled, due>>

(* The event set of the endpoint event that was noted; its slot is never   *)
(* soft-deleted, as the channel's descriptor is no subscriber's.           *)
EndpointSetIsIn ==
    \A i \in 1..event_count : ready_events[i].fd = ChannelFd => ready_events[i].events = {In}

(* All slots seen: an endpoint event that is not IN is unreachable!, any   *)
(* other is handled, first clearing its eventfd.                           *)
DispatchEnds ==
    /\ pc = "dispatch"
    /\ ev_index > event_count
    /\ pc' = IF ~endpoint_event THEN "idle"
             ELSE IF EndpointSetIsIn THEN "endpoint" ELSE "panicked"
    /\ signaled' = IF endpoint_event /\ EndpointSetIsIn THEN FALSE ELSE signaled
    /\ endpoint_event' = FALSE
    /\ event_count' = 0
    /\ ev_index' = 1
    /\ due' = {}
    /\ UNCHANGED <<kernelVars, subscribersVars, wrapperVars, caller, current>>

EndpointCallsDone ==
    /\ pc = "endpoint"
    /\ pc' = "idle"
    /\ UNCHANGED <<kernelVars, subscribersVars, wrapperVars, caller, current, event_count,
                   ev_index, endpoint_event, signaled, due>>

(* Client code panics in a callback or a closure and the owner of the      *)
(* manager catches the unwind: the call in progress is abandoned, what it  *)
(* did to the tables stays.                                                *)
Unwind ==
    /\ pc \in {"init", "process", "endpoint"}
    /\ pc' = "idle"
    /\ caller' = "idle"
    /\ current' = NoSubscriber
    /\ event_count' = 0
    /\ ev_index' = 1
    /\ endpoint_event' = FALSE
    /\ due' = {}
    /\ UNCHANGED <<kernelVars, subscribersVars, wrapperVars, signaled>>

-----------------------------------------------------------------------------
(* Other threads: a remote endpoint signals, descriptors come and go. *)

Signal ==
    /\ ~signaled
    /\ signaled' = TRUE
    /\ UNCHANGED <<kernelVars, subscribersVars, wrapperVars, loopVars, due>>

DescriptorTable ==
    /\ KernelStep
    /\ TrackDue
    /\ UNCHANGED <<subscribersVars, wrapperVars, loopVars, signaled>>

ClientCalls ==
    \/ AddSubscriber
    \/ InitReturns
    \/ ProcessReturns
    \/ Unwind
    \/ \E id \in SubscriberIds :
          \/ RemoveSubscriber(id)
          \/ \E fd \in Fds :
                \/ OpsRemove(id, fd)
                \/ \E events \in SUBSET Maskable : OpsAdd(id, fd, events)
                \/ \E events \in SUBSET Maskable : OpsModify(id, fd, events)

Loop ==
    \/ Run
    \/ SkipDiscarded
    \/ CallProcess
    \/ NoteEndpointEvent
    \/ Panic
    \/ DispatchEnds
    \/ EndpointCallsDone

Next ==
    \/ ClientCalls
    \/ Loop
    \/ Signal
    \/ DescriptorTable

Spec == Init /\ [][Next]_vars

-----------------------------------------------------------------------------
(* Properties. *)

(* Whatever clients do, a descriptor is dispatched only to a subscriber    *)
(* that is in the map and that has the descriptor on its watch list, so    *)
(* get_mut_unchecked in dispatch_events never meets a removed subscriber.  *)
NoDanglingDispatch ==
    \A fd \in Fds : fd_dispatch[fd] # NoSubscriber =>
        /\ fd_dispatch[fd] \in subscribers
        /\ fd \in WatchList(fd_dispatch[fd])

(* An id that was handed out and removed never names a subscriber again:   *)
(* a stale SubscriberId gets InvalidId, not somebody else's subscriber.    *)
(* When an id leaves the map the counter is past it, and from then on the  *)
(* id stays out of the map and behind the counter.                         *)
IdsNeverReused ==
    [][\A id \in SubscriberIds :
          \/ id \in subscribers /\ id \notin subscribers'
          \/ id \notin subscribers /\ id < next_id
          => id \notin subscribers' /\ id < next_id']_vars

(* While clients close only what they have unregistered, what epoll        *)
(* watches is exactly what fd_dispatch knows: no descriptor is watched for *)
(* nobody and none is in the table unwatched.                              *)
KernelAgrees ==
    interest = {KeyOf(fd) : fd \in {f \in Fds : fd_dispatch[f] # NoSubscriber}}

(* ... and therefore dispatch_events reaches neither its unreachable!, nor *)
(* that of dispatch_endpoint_event, nor the unwrap of get_mut_unchecked.   *)
NoPanic == pc # "panicked"

(* `process` is called for an event only if the registration that produced *)
(* the event still stands: not one that was removed since the poll, nor a  *)
(* new one that took over the descriptor number (issue 41).  It is called  *)
(* once per collected event.                                               *)
NoStaleDelivery ==
    [][pc = "dispatch" /\ pc' = "process" => Event.fd \in due]_vars

(* When the loop has seen all slots, every collected event whose           *)
(* registration still stands has been processed: none is taken for a       *)
(* discarded one, not even on descriptor 0, which the default event bears. *)
NoEventDropped ==
    pc = "dispatch" /\ ev_index > event_count => due = {}

(* While each subscriber touches only its own descriptors, a watch list    *)
(* holds exactly the descriptors dispatched to its subscriber, once each.  *)
TablesAgree ==
    \A id \in SubscriberIds, fd \in Fds :
        subscriber_watch_list[id][fd] = IF fd_dispatch[fd] = id THEN 1 ELSE 0

(* Removing a subscriber takes away its own descriptors and nobody else's. *)
RemovalIsLocal ==
    [][\A id \in subscribers \ subscribers' : \A fd \in Fds :
          fd_dispatch'[fd] = IF fd_dispatch[fd] = id THEN NoSubscriber
                                                     ELSE fd_dispatch[fd]]_vars

(* `process` is called with an event some of whose conditions are          *)
(* monitored at that moment: asked for, or impossible to mask.             *)
DeliveredEventIsMonitored ==
    [][pc = "dispatch" /\ pc' = "process" =>
          Event.events \cap (mask[KeyOf(Event.fd)] \cup Unmaskable) # {}]_vars

-----------------------------------------------------------------------------
(* Refinement: the events still to be handed out are the live slots the    *)
(* loop has not reached.                                                   *)

SlotsAhead ==
    CASE pc = "dispatch" -> ev_index..event_count
      [] pc = "process"  -> (ev_index + 1)..event_count
      [] OTHER           -> {}

EventsAhead ==
    {fd \in Fds : \E i \in SlotsAhead : ready_events[i].fd = fd /\ ~IsDiscarded(ready_events[i])}

Promise == INSTANCE Registration WITH
    members <- subscribers,
    issued <- next_id - 1,
    owner <- fd_dispatch,
    collected <- EventsAhead,
    serving <- IF pc = "process" THEN current ELSE NoSubscriber

(* With disciplined clients the manager keeps the promise of Registration: *)
(* every step of it is a step of the abstract registration or changes      *)
(* nothing there.                                                          *)
KeepsPromise == Promise!Spec
=============================================================================
