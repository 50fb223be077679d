---------------------------- MODULE EpollWrapper ----------------------------
(***************************************************************************)
(* src/src/epoll.rs and the EventOps of src/src/events.rs: the manager's   *)
(* own bookkeeping of what it asked the kernel to watch, and the buffer    *)
(* epoll_wait fills.                                                       *)
(*                                                                         *)
(* An error result leaves every variable as it was, so each operation is   *)
(* the action of its success, guarded by the code's early returns.         *)
(***************************************************************************)
EXTENDS Epoll, Subscribers

CONSTANTS
    Capacity,       \* ready_events_capacity, the length of the buffer
    ChannelFd,      \* descriptor of the manager's own eventfd
    In,             \* EventSet::IN
    TouchesForeign, \* may EventOps be used on a descriptor of another subscriber?
    MaxDuplicates   \* bound: occurrences of one fd in one watch list

ASSUME WrapperAssumption ==
    /\ Capacity \in Nat \ {0}
    /\ ChannelFd \notin Fds
    /\ In \in Maskable
    /\ TouchesForeign \in BOOLEAN
    /\ MaxDuplicates \in Nat \ {0}

VARIABLES
    fd_dispatch,            \* [Fds -> SubscriberIds \cup {NoSubscriber}]
    subscriber_watch_list,  \* the Vec<RawFd> per id, as a bag: its order is never used
    ready_events            \* the buffer, [Slots -> EpollEvent]

wrapperVars == <<fd_dispatch, subscriber_watch_list, ready_events>>

Slots == 1..Capacity

EpollEvent == [fd : Fds \cup {ChannelFd}, events : SUBSET (Maskable \cup Unmaskable)]

(* EpollEvent::default(): no events, data 0 and hence descriptor 0. *)
DefaultEvent == [fd |-> Fd0, events |-> {}]

NoFds == [fd \in Fds |-> 0]

WrapperTypeOK ==
    /\ fd_dispatch \in [Fds -> SubscriberIds \cup {NoSubscriber}]
    /\ subscriber_watch_list \in [SubscriberIds -> [Fds -> 0..MaxDuplicates]]
    /\ ready_events \in [Slots -> EpollEvent]

WrapperInit ==
    /\ fd_dispatch = [fd \in Fds |-> NoSubscriber]
    /\ subscriber_watch_list = [id \in SubscriberIds |-> NoFds]
    /\ ready_events = [i \in Slots |-> DefaultEvent]

-----------------------------------------------------------------------------
(* Seeded fault: the events already collected for the descriptor stay in   *)
(* the buffer, as before the fix of issue 41.                              *)
RemoveEventKeepingReady(fds) ==
    /\ fd_dispatch' = [fd \in Fds |-> IF fd \in fds THEN NoSubscriber ELSE fd_dispatch[fd]]
    /\ UNCHANGED ready_events

(* `remove_event` for each descriptor of a set: forget whose it is and     *)
(* soft-delete its events from the whole buffer.                           *)
RemoveEvent(fds) ==
    /\ fd_dispatch' = [fd \in Fds |-> IF fd \in fds THEN NoSubscriber ELSE fd_dispatch[fd]]
    /\ ready_events' = [i \in Slots |-> IF ready_events[i].fd \in fds
                                        THEN DefaultEvent ELSE ready_events[i]]

WatchList(id) == {fd \in Fds : subscriber_watch_list[id][fd] > 0}

(* Seeded fault: the kernel is not told. *)
WrapperRemoveTablesOnly(id) ==
    /\ RemoveEvent(WatchList(id))
    /\ subscriber_watch_list' = [subscriber_watch_list EXCEPT ![id] = NoFds]
    /\ UNCHANGED kernelVars

(* `EpollWrapper::remove`: every descriptor on the subscriber's list is    *)
(* deleted from the epoll set, whatever epoll_ctl answers.                 *)
WrapperRemove(id) ==
    /\ CtlDeleteAll(WatchList(id))
    /\ RemoveEvent(WatchList(id))
    /\ subscriber_watch_list' = [subscriber_watch_list EXCEPT ![id] = NoFds]

-----------------------------------------------------------------------------
(* EventOps of subscriber id. *)

EventOpsAdd(id, fd, events) ==
    /\ fd_dispatch[fd] = NoSubscriber          \* else FdAlreadyRegistered
    /\ subscriber_watch_list[id][fd] < MaxDuplicates
    /\ CtlAdd(fd, events)
    /\ fd_dispatch' = [fd_dispatch EXCEPT ![fd] = id]
    /\ subscriber_watch_list' = [subscriber_watch_list EXCEPT ![id][fd] = @ + 1]
    /\ UNCHANGED ready_events

(* The code checks no ownership; the constant says whether clients rely on that. *)
MayTouch(id, fd) == TouchesForeign \/ fd_dispatch[fd] = id

EventOpsModify(id, fd, events) ==
    /\ MayTouch(id, fd)
    /\ CtlModify(fd, events)
    /\ UNCHANGED wrapperVars

(* Seeded fault: the descriptor is left on the subscriber's list. *)
EventOpsRemoveKeepingList(id, fd) ==
    /\ MayTouch(id, fd)
    /\ CtlDelete(fd)
    /\ RemoveEvent({fd})
    /\ UNCHANGED subscriber_watch_list

(* Only the caller's own list is searched, and one occurrence removed. *)
EventOpsRemove(id, fd) ==
    /\ MayTouch(id, fd)
    /\ CtlDelete(fd)                           \* else Error::Epoll, nothing undone
    /\ RemoveEvent({fd})
    /\ subscriber_watch_list' =
         IF fd \in WatchList(id)
         THEN [subscriber_watch_list EXCEPT ![id][fd] = @ - 1]
         ELSE subscriber_watch_list

-----------------------------------------------------------------------------
(* `poll`: epoll_wait writes n events over the first n slots.  n = 0 is a  *)
(* timeout or EINTR.  Sources are the registrations, and the channel's     *)
(* eventfd, watched for IN since construction, when it is signalled.       *)

ChannelKey == <<ChannelFd, ChannelFd>>

Sources(signaled) == interest \cup (IF signaled THEN {ChannelKey} ELSE {})

EventsOf(k) == IF k = ChannelKey THEN {{In}} ELSE Reports(k)

(* Distinct sources, each with events it can report. *)
WrapperPoll(n, signaled) ==
    /\ \E ks \in [1..n -> Sources(signaled)] :
          /\ \A i, j \in 1..n : ks[i] = ks[j] => i = j
          /\ \E es \in [1..n -> SUBSET (Maskable \cup Unmaskable)] :
                /\ \A i \in 1..n : es[i] \in EventsOf(ks[i])
                /\ ready_events' = [i \in Slots |-> IF i <= n
                                                   THEN [fd |-> ks[i][1], events |-> es[i]]
                                                   ELSE ready_events[i]]
    /\ UNCHANGED <<fd_dispatch, subscriber_watch_list>>
=============================================================================
