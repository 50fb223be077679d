------------------------- MODULE CounterSubscribers -------------------------
(***************************************************************************)
(* The subscribers of src/src/utilities/subscribers.rs as clients of the   *)
(* manager: every step of theirs that touches the manager is a step of     *)
(* EventManager with the arguments their code passes.                      *)
(*                                                                         *)
(*   "data"   a CounterSubscriberWithData: three Counters, told apart by   *)
(*            user data, and a flag that makes `process` unregister and    *)
(*            re-register all three (the regression test of issue 41);     *)
(*   "single" a CounterInnerMutSubscriber, shared with another thread that *)
(*            raises and clears its eventfd at any time (CounterSubscriber *)
(*            is the same, except that only the owner does so).            *)
(*                                                                         *)
(* A Counter owns its eventfd, so descriptors are neither closed nor       *)
(* duplicated, and an eventfd reports nothing but IN to these clients: the *)
(* ERROR and HANG_UP arms of `process` stay unused.  Sums wrap, as in a    *)
(* build without overflow checks.                                          *)
(***************************************************************************)
EXTENDS EventManager, Events, Sequences, FiniteSets

CONSTANTS
    Objects,       \* the subscribers there are, of {"data", "single"}
    CounterFds,    \* the eventfds of counter_1, counter_2, counter_3
    SingleFd,      \* the eventfd of the single counter
    FirstData,     \* first_data
    CountLimit,    \* number of values of a counter (2^64)
    MaxToggles     \* bound: set_toggle_registry(true) calls

ASSUME CountersAssumption ==
    /\ Objects \subseteq {"data", "single"}
    /\ Fds \subseteq Descriptors /\ Fds \subseteq Files
    /\ CounterFds \in Seq(Fds) /\ Len(CounterFds) = 3
    /\ \A i, j \in 1..3 : CounterFds[i] = CounterFds[j] => i = j
    /\ SingleFd \in Fds /\ \A i \in 1..3 : CounterFds[i] # SingleFd
    /\ FirstData \in U32
    /\ CountLimit \in Nat \ {0}
    /\ MaxToggles \in Nat

VARIABLES
    raised,          \* descriptors whose eventfd counter is not 0
    counters,        \* [Fds -> Nat]: Counter.counter
    toggle_registry,
    toggles,         \* toggle requests so far
    id_of,           \* [Objects -> ids]: NoSubscriber while the owner has the object
    step,            \* EventOps calls made in the running callback
    epoll_data,      \* [Fds -> U64]: what the kernel returns with the descriptor's events
    event,           \* epoll_data of the event being processed
    counted,         \* history: descriptors counted in this round
    toggled          \* history: the registry was toggled in this round

clientVars == <<raised, counters, toggle_registry, toggles, id_of, step, epoll_data,
                event, counted, toggled>>

countersVars == <<vars, clientVars>>

CountersTypeOK ==
    /\ TypeOK
    /\ raised \in SUBSET Fds
    /\ counters \in [Fds -> 0..(CountLimit - 1)]
    /\ toggle_registry \in BOOLEAN
    /\ toggles \in 0..MaxToggles
    /\ id_of \in [Objects -> SubscriberIds \cup {NoSubscriber}]
    /\ step \in 0..6
    /\ epoll_data \in [Fds -> U64]
    /\ event \in U64
    /\ counted \in SUBSET Fds
    /\ toggled \in BOOLEAN

(* Counter::new: one eventfd each, and the file of descriptor fd is called *)
(* fd; the manager is new and has no endpoint.                             *)
CountersInit ==
    /\ Init
    /\ open = [fd \in Fds |-> fd]
    /\ raised = {}
    /\ counters = [fd \in Fds |-> 0]
    /\ toggle_registry = FALSE
    /\ toggles = 0
    /\ id_of = [o \in Objects |-> NoSubscriber]
    /\ step = 0
    /\ epoll_data = [fd \in Fds |-> 0]
    /\ event = 0
    /\ counted = {}
    /\ toggled = FALSE

FdsOf(o) == IF o = "data" THEN CounterFds ELSE <<SingleFd>>

FdSetOf(o) == {FdsOf(o)[k] : k \in DOMAIN FdsOf(o)}

(* Events::with_data(&counter_k.event_fd, first_data + (k - 1), IN), where *)
(* the addition wraps, and Events::new(&event_fd, IN).                     *)
DataOf(o, k) == IF o = "data" THEN (FirstData + k - 1) % Half ELSE 0

WatchFor(o, k) == WithData(FdsOf(o)[k], DataOf(o, k), {In})

Owner(o) == o \in Objects /\ id_of[o] # NoSubscriber /\ current = id_of[o]

-----------------------------------------------------------------------------
(* The owner of the manager between two runs; the single counter is shared *)
(* with another thread, which needs no lock.                               *)

RaiseOrClear(up, down) ==
    /\ raised' = (raised \ down) \cup up
    /\ UNCHANGED <<vars, counters, toggle_registry, toggles, id_of, step, epoll_data,
                   event, counted, toggled>>

TriggerAllCounters == pc = "idle" /\ "data" \in Objects /\ RaiseOrClear(FdSetOf("data"), {})

TriggerEvent == "single" \in Objects /\ RaiseOrClear({SingleFd}, {})

(* The read of an eventfd that is 0 would block: these are not EFD_NONBLOCK. *)
ClearEvent == SingleFd \in raised /\ RaiseOrClear({}, {SingleFd})

SetToggleRegistry ==
    /\ pc = "idle"
    /\ toggles < MaxToggles
    /\ toggles' = toggles + 1
    /\ toggle_registry' = TRUE
    /\ UNCHANGED <<vars, raised, counters, id_of, step, epoll_data, event, counted, toggled>>

AddObject(o) ==
    /\ id_of[o] = NoSubscriber
    /\ AddSubscriber
    /\ id_of' = [id_of EXCEPT ![o] = next_id]
    /\ UNCHANGED <<raised, counters, toggle_registry, toggles, step, epoll_data, event,
                   counted, toggled>>

(* remove_subscriber returns the object; it may be added again. *)
RemoveObject(o) ==
    /\ RemoveSubscriber(id_of[o])
    /\ id_of' = [id_of EXCEPT ![o] = NoSubscriber]
    /\ UNCHANGED <<raised, counters, toggle_registry, toggles, step, epoll_data, event,
                   counted, toggled>>

-----------------------------------------------------------------------------
(* The callbacks.  A call of EventOps that is not enabled fails, and its   *)
(* `expect` panics: NoExpectFails says that this does not happen.          *)

Register(o, k) ==
    LET w == WatchFor(o, k) IN
    /\ OpsAdd(id_of[o], InnerFd(w.inner), w.events)
    /\ epoll_data' = [epoll_data EXCEPT ![InnerFd(w.inner)] = w.inner]

InitRegisters(o) ==
    /\ pc = "init"
    /\ Owner(o)
    /\ step < Len(FdsOf(o))
    /\ Register(o, step + 1)
    /\ step' = step + 1
    /\ UNCHANGED <<raised, counters, toggle_registry, toggles, id_of, event, counted, toggled>>

InitDone(o) ==
    /\ Owner(o)
    /\ step = Len(FdsOf(o))
    /\ InitReturns
    /\ step' = 0
    /\ UNCHANGED <<raised, counters, toggle_registry, toggles, id_of, epoll_data, event,
                   counted, toggled>>

(* Seeded fault: the third one is not removed. *)
ToggleRemovesTwo ==
    /\ pc = "process"
    /\ Owner("data")
    /\ step = 0 => toggle_registry
    /\ step < 2
    /\ toggle_registry' = FALSE
    /\ toggled' = TRUE
    /\ OpsRemove(current, CounterFds[step + 1])
    /\ step' = IF step = 1 THEN 3 ELSE 1
    /\ UNCHANGED <<raised, counters, toggles, id_of, epoll_data, event, counted>>

(* The first half of `process` with the flag set: three times remove ...   *)
ToggleRemoves ==
    /\ pc = "process"
    /\ Owner("data")
    /\ step = 0 => toggle_registry
    /\ step < 3
    /\ toggle_registry' = FALSE
    /\ toggled' = TRUE
    /\ OpsRemove(current, CounterFds[step + 1])
    /\ step' = step + 1
    /\ UNCHANGED <<raised, counters, toggles, id_of, epoll_data, event, counted>>

(* Seeded fault: the third one is forgotten. *)
ToggleAddsTwo ==
    /\ pc = "process"
    /\ Owner("data")
    /\ step \in 3..4
    /\ Register("data", step - 2)
    /\ step' = IF step = 4 THEN 6 ELSE 4
    /\ UNCHANGED <<raised, counters, toggle_registry, toggles, id_of, event, counted, toggled>>

(* ... and three times add. *)
ToggleAdds ==
    /\ pc = "process"
    /\ Owner("data")
    /\ step \in 3..5
    /\ Register("data", step - 2)
    /\ step' = step + 1
    /\ UNCHANGED <<raised, counters, toggle_registry, toggles, id_of, event, counted, toggled>>

(* Seeded fault: no wrap-around. *)
IncrementUnbounded(fd) == counters' = [counters EXCEPT ![fd] = @ + 1]

Increment(fd) == counters' = [counters EXCEPT ![fd] = (@ + 1) % CountLimit]

(* The match on event_id: another one is a spurious event, not counted. *)
CountId(event_id) ==
    IF event_id \in 0..2 THEN Increment(CounterFds[event_id + 1]) ELSE UNCHANGED counters

(* Seeded fault: the counters are told apart by the data itself. *)
CountDataByValue ==
    /\ Owner("data")
    /\ step = 6 \/ (step = 0 /\ ~toggle_registry)
    /\ CountId(UserData(event))

(* event_id = events.data() - first_data, in wrapping u32 arithmetic. *)
CountData ==
    /\ Owner("data")
    /\ step = 6 \/ (step = 0 /\ ~toggle_registry)
    /\ CountId((UserData(event) - FirstData) % Half)

CountSingle ==
    /\ Owner("single")
    /\ Increment(SingleFd)

(* The IN arm of `process`, and its return. *)
CountEvent ==
    /\ pc = "process"
    /\ CountData \/ CountSingle
    /\ ProcessReturns
    /\ step' = 0
    /\ counted' = counted \cup {InnerFd(event)}
    /\ UNCHANGED <<raised, toggle_registry, toggles, id_of, epoll_data, event, toggled>>

-----------------------------------------------------------------------------
(* The loop.  An eventfd that is raised is ready; epoll_wait reports as    *)
(* many ready descriptors as fit, and none only when none is ready.        *)

ReadyFds == {fd \in raised : Watched(fd)}

RunCounters ==
    /\ Run
    /\ \A i \in 1..event_count' : ready_events'[i].fd \in raised
    /\ event_count' = 0 => ReadyFds = {}
    /\ event_count' < Capacity =>
          \A fd \in ReadyFds : \E i \in 1..event_count' : ready_events'[i].fd = fd
    /\ counted' = {}
    /\ toggled' = FALSE
    /\ UNCHANGED <<raised, counters, toggle_registry, toggles, id_of, step, epoll_data, event>>

(* `process` gets the event with the data epoll_wait returned; the data of *)
(* a descriptor never changes, so what is registered is what was reported. *)
DispatchCounter ==
    /\ CallProcess
    /\ event' = epoll_data[Event.fd]
    /\ UNCHANGED <<raised, counters, toggle_registry, toggles, id_of, step, epoll_data,
                   counted, toggled>>

WalkOn ==
    /\ SkipDiscarded \/ DispatchEnds
    /\ UNCHANGED clientVars

ClientStep ==
    \/ TriggerAllCounters
    \/ TriggerEvent
    \/ ClearEvent
    \/ SetToggleRegistry
    \/ \E o \in Objects : AddObject(o) \/ RemoveObject(o)

Callback ==
    \/ \E o \in Objects : InitRegisters(o) \/ InitDone(o)
    \/ ToggleRemoves
    \/ ToggleAdds
    \/ CountEvent

LoopStep == RunCounters \/ DispatchCounter \/ WalkOn

CountersNext == ClientStep \/ Callback \/ LoopStep

CountersSpec == CountersInit /\ [][CountersNext]_countersVars

-----------------------------------------------------------------------------
(* Properties. *)

(* A counter counts the events of its own eventfd and of no other: the     *)
(* user data that `process` subtracts first_data from is the data its own  *)
(* descriptor was registered with, also after re-registration and where    *)
(* first_data + 2 wraps around.                                            *)
CountsItsOwn ==
    [][\A fd \in Fds : counters'[fd] # counters[fd] => fd = InnerFd(event)]_countersVars

(* What test_reuse_file_descriptor asserts of one run, for every run: when *)
(* `process` re-registers the three descriptors, the events collected for  *)
(* them are gone, and only the one being processed is counted.             *)
ToggleCountsOne ==
    pc = "dispatch" /\ ev_index > event_count /\ toggled =>
        \E k \in 1..3 : counted \cap FdSetOf("data") = {CounterFds[k]}

AddSucceeds(fd) == fd_dispatch[fd] = NoSubscriber /\ IsOpen(fd) /\ ~Watched(fd)

(* Every `expect` in init and process holds: an add finds its descriptor   *)
(* free and a remove finds it registered, also when the subscriber toggled *)
(* its registrations, or was taken out of the manager and added again.     *)
NoExpectFails ==
    /\ pc = "init" => \A o \in Objects :
          Owner(o) /\ step < Len(FdsOf(o)) => AddSucceeds(FdsOf(o)[step + 1])
    /\ pc = "process" /\ Owner("data") =>
          /\ step \in 1..2 \/ (step = 0 /\ toggle_registry) => Watched(CounterFds[step + 1])
          /\ step \in 3..5 => AddSucceeds(CounterFds[step - 2])

(* Between callbacks a subscriber is watched exactly as its `init` left    *)
(* it: toggling has put every descriptor back, with its data.              *)
RegistryRestored ==
    pc \notin {"init", "process"} =>
        \A o \in Objects : id_of[o] # NoSubscriber =>
            /\ WatchList(id_of[o]) = FdSetOf(o)
            /\ \A k \in DOMAIN FdsOf(o) : epoll_data[FdsOf(o)[k]] = WatchFor(o, k).inner
=============================================================================
