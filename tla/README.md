# event-manager in TLA+

A model of the `event-manager` crate: an epoll loop that dispatches the events
of file descriptors to subscribers (`src/src/manager.rs`, `epoll.rs`,
`events.rs`, `subscribers.rs`) and that other threads reach through a remote
endpoint (`endpoint.rs`), with the wrappers that make a subscriber shareable
(`lib.rs`) and the example subscribers (`utilities/subscribers.rs`). Paths below are relative to the repository's root
`src/`, so `src/manager.rs` is `src/src/manager.rs` of `PROJECT.json`.

## The system

| part | state | operations | who calls it |
|---|---|---|---|
| subscriber map (`Subscribers`) | `subscribers`, `next_id` | `add`, `remove`, `contains`, `get_mut_unchecked` | the manager |
| epoll bookkeeping (`EpollWrapper`) | `fd_dispatch`, `subscriber_watch_list`, `ready_events` | `poll`, `remove`, `remove_event`, `subscriber_id` | the manager, `EventOps` |
| `EventOps` | borrows the wrapper, one `subscriber_id` | `add`, `modify`, `remove` | callbacks; anyone with `event_ops` |
| `EventManager` | the above and the channel | `add_subscriber`, `remove_subscriber`, `event_ops`, `run` | its owner; closures |
| channel | mpsc queue, eventfd | drain in `handle_endpoint_calls` | the loop |
| `RemoteEndpoint` | sender and eventfd clones | `call_blocking`, `fire`, `kick` | any thread |
| `Events` | fd and user data in 64 bits | constructors, `fd`, `data` | clients |
| wrappers in `lib.rs` | the guard of a `Mutex` or `RefCell`, poisoning | forward `init`, `process` | the manager |
| counter subscribers | eventfds, counters, a toggle flag | `init`, `process`, triggers | the manager, their owner |

The manager has one thread. It is hard for two reasons. First, client code runs
in the middle of the manager's work: `init` inside `add_subscriber`, `process`
inside the walk over `ready_events`, closures at the end of it; each may change
the tables the walk relies on, or panic. Second, the environment moves
meanwhile: other threads open, duplicate and close descriptors, which the kernel
keys differently from the crate (by number and file, not by number), and send
closures over a channel whose two halves (queue, eventfd) are not updated
atomically.

What makes each part correct:

- **map**: an id is never reused, and every id in `fd_dispatch` is in the map;
- **bookkeeping**: the kernel's interest set, `fd_dispatch` and the watch lists
  describe the same registrations;
- **dispatch**: `process` is called for every collected event whose registration
  still stands, and for no other, and the loop itself never panics;
- **endpoint**: no wakeup is lost, every blocked caller is released, what callers
  are told is true, requests of one thread run in order;
- **remote use of the manager**: who gets a subscriber back has it alone, who
  gets an id finds it initialized, a stopped loop ends;
- **turns**: a ready descriptor is served however small the buffer is;
- **encoding**: the descriptor and the user data come out as they went in;
- **wrappers**: the locks they take close no circle of waits.

`PROJECT.json` lists the hazards line by line.

## Modules

```
Epoll (external kernel)   Subscribers
          \                 /
        EpollWrapper (+ EventOps)                    Events
                 |                                     |
            EventManager ..implements.. Registration   |
                 |                                     |
      +----------+-----------+------------+------------+
      |                      |            |
 MCEventManager      RemoteManager   CounterSubscribers
                             |            |
                   MCRemoteManager   MCCounterSubscribers

 RemoteEndpoint ..implements.. RemoteCall     SharedSubscribers     LoopProgress
       |                                             |                   |
 MCRemoteEndpoint                           MCSharedSubscribers    MCLoopProgress
```

The theorems are in modules of their own:

```
 EventsPacking (of Events)    EventManagerProofs (of EventManager)
        \                      /              \
         \             DeliveryProofs    RemoteManagerProofs (of RemoteManager)
          \             /
     CounterSubscribersProofs (of CounterSubscribers)

 RemoteEndpointProofs      SharedSubscribersProofs      LoopProgressProofs
```

- **Epoll** is not code of the crate but what the crate is written against: the
  descriptor table and epoll's registrations, keyed by (number, file). A
  registration disappears by itself only when the last descriptor of its file is
  closed. `epoll_wait` may report any non-empty set of the conditions asked for
  and of those that cannot be masked. `ClosesRegistered` says whether clients
  may close a descriptor that is registered.
- **Subscribers**: the map as the set of its keys, and `next_id`.
- **EpollWrapper**: `fd_dispatch` (0 for absent), the watch lists as bags (their
  order is never used), the buffer as a function on its slots, stale tail
  included. `EventOpsAdd/Modify/Remove` are the successes of the `EventOps`
  methods; a failing method changes nothing and is a stutter.
  `TouchesForeign` says whether a subscriber may use its `EventOps` on
  descriptors of others, which the code does not check.
- **EventManager**: `pc` tells whose code the thread runs; dispatch proceeds slot
  by slot, one action per branch of `dispatch_events`; at the end of the batch the
  endpoint's event is checked to be `IN` and handled. "panicked" stands for the
  manager's own panics: the `unwrap` and both `unreachable!`. In `init` and `process`
  the client may make any sequence of `EventOps` calls for its own id; the owner
  and the closures may use all of `SubscriberOps`. `Unwind` is a panic of client
  code that the owner catches: the tables stay as they are. `due` is a history
  variable: the descriptors with a collected, unprocessed event whose
  registration has stood since the poll.
- **Registration**: what subscribers are promised, without buffers or tables.
- **RemoteEndpoint**: every thread's position in `send`/`recv`, the queue, the
  eventfd counter with its maximum, the loop's position in wait, dispatch, drain
  and closure, panics, and the drop of the manager. `told` and `executed` record
  what callers were told and what ran.
- **RemoteCall**: what a caller is promised, without channel, eventfd or loop: a
  closure is run once, in its thread's order, or lost with the manager, and the
  verdict is true. `RemoteEndpoint` maps a request to the stage it is in.
- **RemoteManager** composes `EventManager` with the endpoint: the messages are
  closures that add or remove subscribers, and their steps are the steps of
  `EventManager` while the loop drains its channel. The loop's thread and the
  thread that stops it are those of `tests/endpoint.rs`: `run` until a flag is
  false; store the flag, `kick`, join. Callbacks use their `EventOps` on their own
  descriptors, which stay open; panics are in `RemoteEndpoint`.
- **LoopProgress**: the constructor for every capacity, and `run` over epoll's
  ready list (external): a source that becomes ready goes to its end; `epoll_wait`
  walks it from the front, drops what is no longer ready, puts what it reports at
  the end, and stops with the source that fills the last slot. Registrations do
  not change here.
- **SharedSubscribers**: several managers and other threads, wrapped subscribers
  as cells of kind `plain` (`Arc`, `Rc`, `Box`), `RefCell` or `Mutex`. The loop
  enters a cell before the callback and leaves it after; client code locks cells,
  makes blocking calls, and panics, which poisons. A `Mutex` that a manager owns
  alone (`get_mut`) is one nobody else holds. `Rank` is an order on managers and
  cells in which a manager comes before its subscribers; with `Ordered`, client
  code waits only for what ranks above everything it occupies. A `RefCell` is
  registered with one manager, as it cannot be shared between threads.
- **Events**: the constructors, `fd`, `data` and `==` on 64 bits, the width of a
  half being a constant. **EventsPacking** holds the theorems about them.
- **CounterSubscribers**: the exported example subscribers as clients of
  `EventManager`, with their registrations encoded by `Events`. One of them
  unregisters and re-registers its three descriptors inside `process`; the other
  is raised and cleared by another thread. Each counter owns its eventfd, so the
  four descriptors differ. An `EventOps` call of theirs that would fail is not
  enabled, where the code's `expect` would panic; `NoExpectFails` says that this
  never happens. Additions wrap, as in a build without
  overflow checks; where those are on, `first_data + 2` beyond `u32::MAX` panics.

The definitions named `...KeepingReady`, `...FromMapOnly` and so on ("Seeded
fault" in their comments) are not part of any specification; they are wrong
variants used to see that each property can fail.

## What is checked

All bounds are in the `.cfg` files. Two descriptor numbers (one of them 0) and
two files are the least in which a number is reused, a file duplicated and a
descriptor mistaken for the default event; a buffer of two slots is the least in
which the callback for one event can act on another; two ids let the old and the new
owner of a descriptor differ, a third one adds a bystander.

| run | instance | shows |
|---|---|---|
| `disciplined` | clients touch and close only their own | `TypeOK`, `TablesAgree`, `KernelAgrees`, `NoPanic`, `NoEventDropped`, `RemovalIsLocal`, `NoStaleDelivery`, and `KeepsPromise`: the manager implements `Registration` |
| `any_client` | may also close what is registered and touch what is another's | `NoDanglingDispatch`, `IdsNeverReused` |
| `caught` | a caller and the loop's thread, two requests each, panics caught | `EndpointTypeOK`, `CallerNotForgotten`, `HonestAnswers`, `InOrder`, `ImplementsRemoteCall` |
| `liveness` | two callers and the loop's thread, fair | `NoLostWakeup`, `CallsReturn`, `FiresAreServed`, `SignalsAreConsumed`, `ServesRemoteCalls` |
| `remote` | two callers, three requests, two ids, a stop, fair | `RemoteTypeOK`, `RemovedIsSilent`, `AddedIsInitialized`, `KickedLoopExits`, `CallsAnswered` |
| `progress` | three descriptors and the channel, capacities 0 to 4, fair | `ProgressTypeOK`, `InvalidOnlyForZero`, `BoundedBypass`, `NoStarvation`, `ChannelIsDrained` |
| `ordered` | two managers, a worker, two `Mutex`, a `RefCell`, a plain cell, fair | `SharedTypeOK`, `NoCircularWait`, `NoBorrowPanic`, `WaitsEnd` |
| `toggle` | both kinds of counters, on four descriptors, data that wraps | `CountersTypeOK`, `ToggleCountsOne`, `NoExpectFails`, `RegistryRestored`, `CountsItsOwn` |

In `remote` one descriptor and two ids make the second subscriber the successor of
the first on the same descriptor, a buffer of two holds its event and the
channel's, and three requests let both threads remove what one of them added. In
`progress` the limit on capacities is 3, so that the buffer is smaller than,
nearly as large as, and refused for the four sources. In `ordered` two cells are registered
with both managers, so that loops compete for locks with each other and with the
worker. In `toggle` a `u32` has 8 values and `first_data` is 6: the data of the
three counters are 6, 7 and 0; `CountLimit` 2 makes counters wrap. Two toggles and
three ids let a subscriber that toggled do so again, and be removed and added back.

The discipline is more than some of the properties need:
`TablesAgree` and `RemovalIsLocal` survive clients that close registered
descriptors, `KernelAgrees`, `NoPanic`, `NoEventDropped` and `NoStaleDelivery`
such as touch others' descriptors; the theorems below say so. Where the
discipline is needed, runs without it are the findings:

- `foreign_removal`: `EventOps::remove` of another's descriptor leaves it on the
  owner's watch list. After another subscriber registers it, `remove_subscriber`
  of the old owner takes it away from the new one.
- `close_registered`: a registered descriptor is closed while a duplicate keeps
  the file open. `remove_subscriber` ignores the failing `EPOLL_CTL_DEL`, the
  kernel keeps the registration, and its next event reaches `unreachable!`.
- `modify`: only `remove` flushes collected events; an event collected before
  `modify` narrowed the mask is still delivered.
- `stranded`: the eventfd is cleared before the closures run; if one panics and
  the owner catches it, the messages behind it are no longer announced.

Four more differences between text and code came up, without a run of their own.
A negative `RawFd` given to a `_raw` constructor borrows one from the user data (`NegativeDescriptorBorrows`). `run` "returns
number of dispatched events", but counts events that a callback discarded, and
the endpoint's. A poisoned `Mutex` panics the loop's thread, where a comment in
`lib.rs` has it that "we terminate the process". And a capacity of 0, which the
constructor accepts, makes every `run` fail (`InvalidOnlyForZero` says that no
other capacity does).

Fairness:

- `RemoteEndpoint!Fairness`: weak fairness of a thread that is inside an operation
  and of the loop's work between two waits (threads are scheduled, client code
  returns, the owner keeps calling `run`), and strong fairness of `PollSignaled`:
  a raised, level-triggered eventfd is not passed over for ever, because epoll
  moves what it reported to the end of its ready list. `RemoteFairSpec` is the
  same for `RemoteManager`, and has the stopping thread kick once it stored.
- `ProgressFairSpec` is where that strong fairness comes from: it assumes no more
  than that the loop's thread runs and client code returns, and `NoStarvation` and
  `ChannelIsDrained` follow from the rotation. They need the closures to come to an end
  (`MaxMessages`): the drain loop runs until the channel is empty, so closures
  that for ever fire closures do starve the descriptors.
- `SharedFairness`: a callback or closure returns, a thread's own code drops its
  guards (strong, as other steps of the same code may come between), a loop gets
  round to its channel, and a `Mutex` that is free again and again is acquired;
  std promises no more than that in practice.
- `RemoteCall!Fairness` is what the endpoint's fairness is shown to imply.

Nothing is assumed about clients starting operations, panicking, or dropping the
manager. Deadlock checking is on in all runs; `AllDone`, `Joined`, `AllEnded` and
`GivenUp` mark the only states in which a system may rest. In `toggle` it shows
little, as the other thread can always raise its eventfd; there `NoExpectFails`
stands in for it. With `Ordered = FALSE`
`SharedSubscribers` reaches deadlocks, as the documentation of `call_blocking`
says for the loop's own thread.

## What is proved

Every safety property of the passing runs, invariants, action properties and the
two refinements alike, is also a theorem, for all sets of descriptors, files and
threads, every capacity and every value of the bounds.

- `EventManagerProofs`: `TypeCorrect`, `DispatchIsSafe`, `IdsAreFresh`, for
  arbitrary clients. Types are not inductive alone: after `process` the index
  advances, so `ServedSlotCollected` is needed. Neither is `NoDanglingDispatch`:
  an `add` in a callback enters `current` into the table, so `CallbackAlive` (the
  running callback's subscriber is in the map, as removal needs the whole
  manager) is carried along.
- `DeliveryProofs`, assuming `~ClosesRegistered`: `KernelStaysInStep` from the
  pointwise invariant `InStep`; then `DeliveryInv`: of the slots ahead, the live
  ones have owners, no two share a descriptor, and their descriptors are exactly
  `due`. With `ChannelReportsIn` (slots filled for the channel hold `IN`, which the
  `unreachable!` of `dispatch_endpoint_event` relies on) it gives `NeverPanics`, `DeliveryIsCurrent` and `DeliveryIsComplete`.
  Assuming `~TouchesForeign`: `TablesStayAligned` (inductive with the types) and
  from it `RemovalsAreLocal`. Assuming both, `ManagerKeepsPromise`: with
  `PromiseInv`, the conjunction of these invariants, each action is shown to be
  one action of `Registration` under the mapping of `EventManager`, or to leave
  the mapped state alone.
- `RemoteEndpointProofs`, from one invariant. `OrderInv` reads the history, the
  running closure and the queue as one sequence that holds each thread's requests
  in the order they were sent; `InOrder` alone says nothing about what is still
  queued. `AnswerInv` says where the sending half of every one-shot channel is and
  that what came through it is true for good. They give `ClosuresInOrder`,
  `AnswersAreHonest` and `CallersNotForgotten`, with panics caught or not, and
  `EndpointImplementsRemoteCall`: a request is in one place only (`OnePlace`), so
  the stage the mapping computes is well determined, and each step moves the stage
  of one request, except the drop of the manager, which loses the whole queue.
  `WakeupsNotLost` assumes `~CatchesPanics`; with caught panics it is false (run
  `stranded`).
- `RemoteManagerProofs`: `RemoteImplementsManager`, each step of the composition
  is one of `EventManager` or leaves it alone, so the theorems above carry over.
  On top of it `RemovedStaysSilent` and `ReportedIsInitialized`: `HandedInv` (an
  object given back went to one thread and its id lies behind the counter) and
  `AddedInv` (an `add_subscriber` whose result is not yet sent is of a subscriber
  that is there), both because no two closures run at once.
- `LoopProgressProofs`: `OnlyZeroIsInvalid`, and `BypassIsBounded` from the
  position on the ready list: a descriptor passed over `n` times has at least
  `n * capacity` sources behind it (`TurnInv`), because whatever was reported
  instead was put at the end. The list has no source twice (`ReadyListInv`), so
  there are no more behind it than there are others. `Fds` is finite.
- `SharedSubscribersProofs`, assuming `Ordered`: whoever waits, waits for
  something above all it keeps from others (`WaitsUpwards`). Of a set of threads
  that wait for each other, look at one that waits for the highest: the thread it
  waits for is in the set and waits for something higher still; that is
  `NoDeadlock`, for finitely many threads. `RefCellsAreFree` needs that a
  `RefCell` is borrowed by its own manager only (`BorrowedAtHome`), whose thread
  cannot enter it again from the callback without breaking the order.
- `CounterSubscribersProofs`: `EventsCountedByOwner`, `OneCountedPerToggle`,
  `RegistryIsRestored`, `ExpectationsHold` and that the counters are clients in the sense of
  `EventManager` (`CountersImplementManager`). `RegistryInv` says, from the number
  of calls the running callback has made, which of its descriptors are registered;
  `OwnerInv` that each descriptor is dispatched to the object whose eventfd it is;
  so the event given to `process` carries data its own object registered
  (`EventInv`), and subtracting `first_data`, wrapped or not, finds the place
  (`EventIdIsPlace`, from the theorems on the packing). `ToggleInv` follows a
  toggle call by call: each removal takes the descriptor's events out of what is
  ahead, so at the end none of the three is, and the event at hand is the only one
  counted. `ExpectationsHold` needs the converse of `RegistryInv` (`AbsentInv`: what
  the callback has not registered is nobody's) and that the kernel follows
  `fd_dispatch` (`KernelInv`). No discipline of clients is assumed: these make no use of the licence.
- `EventsPacking`, for every even width of a half: `FdSurvives` (every `RawFd`),
  `DataSurvives` and `EqualityIsSound` (every real descriptor),
  `NegativeDescriptorBorrows`. The argument is the uniqueness of quotient and
  remainder, with the one case distinction that a negative descriptor's sign
  extension wraps the sum exactly when the data is not 0.

The assumptions on the constants are those named in the modules: descriptor 0 is
a descriptor, the channel's is not one of the clients', capacity and bounds are
positive (in `LoopProgress` the capacity may be anything), a half has an even
number of values, threads and descriptors are finitely many where a counting
argument needs it, a `RefCell` is registered with one manager, and each counter
has an eventfd of its own.

Only model-checked: liveness, which needs fairness and is out of the prover's
reach (`CallsReturn`, `FiresAreServed`, `SignalsAreConsumed`, `KickedLoopExits`,
`CallsAnswered`, `WaitsEnd`, `NoStarvation`, `ChannelIsDrained`, and
`ServesRemoteCalls`, the refinement of `RemoteCall` with its fairness; its safety
part is the theorem `EndpointImplementsRemoteCall`). TLC also confirms the
inductive invariants on the instances of the runs.

## What is not modelled

- Edge-triggered and one-shot registrations (a subset of what `Reports` allows,
  except that a registration may become silent).
- Overflow of `next_id` (u64) and clients that register the channel's eventfd.
- `Error`'s and `Counter`'s formatting; the number `run` returns.
- `EventManager::new`, which is `new_with_capacity` with 256, by itself.
- What clients that break the rules meet: blocking calls on the loop's own thread,
  guards held across them, borrows kept across `run` (`Ordered` excludes them), and
  closures that fire closures without end (`MaxMessages`). The notes of the hazards
  in `PROJECT.json` say where.
- The `ERROR` and `HANG_UP` arms of the counter subscribers, which an eventfd
  never takes; `clear_event` of an eventfd that is not raised, which blocks.
- The subscribers inside tests and benches (`DummySubscriber` of `manager.rs` and
  others): they make calls with fixed arguments that the client actions of
  `EventManager` make with any; the case of `modify` inside a batch is the run
  `modify`.

## Plan

The safety properties of all passing runs are proved. What a further round could
add are consequences across modules: the theorems of `DeliveryProofs` restated for
`RemoteManager` and `CounterSubscribers`, which both implement `EventManager`.
