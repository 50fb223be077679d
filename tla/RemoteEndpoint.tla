--------------------------- MODULE RemoteEndpoint ---------------------------
(***************************************************************************)
(* src/src/endpoint.rs and the endpoint half of src/src/manager.rs: threads *)
(* send closures over an mpsc channel and raise an eventfd; the thread of   *)
(* the event loop wakes up, clears the eventfd and runs what it finds.      *)
(*                                                                          *)
(* `send` is two steps (the message, then the eventfd), and so is the other *)
(* end (the eventfd, then the messages): every interleaving is explored.    *)
(*                                                                          *)
(* tpc[t] is where thread t is in its endpoint operation:                   *)
(*   "ready"     in none;                                                   *)
(*   "calling", "firing"  message sent, eventfd not yet written;            *)
(*   "waiting"   call_blocking, in receiver.recv().                         *)
(* lpc is where the loop's thread is in the manager's code:                 *)
(*   "wait"      between two rounds: the owner's code, or epoll_wait;       *)
(*   "process"   dispatching subscriber events (their callbacks run);       *)
(*   "drain"     about to try_recv;   "closure"  running a closure;         *)
(*   "unwinding" a callback or closure panicked;   "gone"  manager dropped. *)
(***************************************************************************)
EXTENDS Naturals, Sequences

CONSTANTS
    Callers,       \* threads other than the loop's
    LoopThread,    \* the thread the event loop runs on
    MaxRequests,   \* bound: closures one thread sends
    MaxCounter,    \* largest value of the eventfd counter (2^64 - 2)
    CatchesPanics  \* does the owner catch panics of client code and go on?

ASSUME EndpointAssumption ==
    /\ LoopThread \notin Callers
    /\ MaxRequests \in Nat
    /\ MaxCounter \in Nat \ {0}
    /\ CatchesPanics \in BOOLEAN

Threads == Callers \cup {LoopThread}

(* The n-th closure a thread sends. *)
Requests == Threads \X (1..MaxRequests)

VARIABLES
    queue,     \* the mpsc channel: FnMsg, `sender` says whether a reply is wanted
    counter,   \* the eventfd
    tpc,
    made,      \* [Threads -> Nat]: requests made so far
    replies,   \* [Requests -> ...]: the one-shot channel of a call
    told,      \* [Requests -> ...]: what the operation returned to its thread
    lpc,
    noted,     \* endpoint_event is Some
    running,   \* the message whose closure runs, in "closure"
    executed   \* history: requests whose closure ran to completion, in order

endpointVars == <<queue, counter, tpc, made, replies, told, lpc, noted, running, executed>>

FnMsg == [req : Requests, sender : BOOLEAN]

NoMsg == [req |-> <<LoopThread, 0>>, sender |-> FALSE]

EndpointTypeOK ==
    /\ queue \in Seq(FnMsg)
    /\ counter \in 0..MaxCounter
    /\ tpc \in [Threads -> {"ready", "calling", "firing", "waiting"}]
    /\ made \in [Threads -> 0..MaxRequests]
    /\ replies \in [Requests -> {"none", "value", "hangup"}]
    /\ told \in [Requests -> {"none", "Ok", "Value", "ChannelSend", "EventFd", "ChannelRecv"}]
    /\ lpc \in {"wait", "process", "drain", "closure", "unwinding", "gone"}
    /\ noted \in BOOLEAN
    /\ running \in FnMsg \cup {NoMsg}
    /\ executed \in Seq(Requests)

EndpointInit ==
    /\ queue = << >>
    /\ counter = 0
    /\ tpc = [t \in Threads |-> "ready"]
    /\ made = [t \in Threads |-> 0]
    /\ replies = [r \in Requests |-> "none"]
    /\ told = [r \in Requests |-> "none"]
    /\ lpc = "wait"
    /\ noted = FALSE
    /\ running = NoMsg
    /\ executed = << >>

-----------------------------------------------------------------------------
(* RemoteEndpoint, on any thread.  On the loop's thread it is client code  *)
(* in a callback or a closure that calls it, and only `fire` and `kick`:   *)
(* call_blocking there is a documented deadlock.                           *)

RunsClientCode(t) ==
    /\ tpc[t] = "ready"
    /\ t = LoopThread => lpc \in {"process", "closure"}

Current(t) == <<t, made[t]>>

(* msg_sender.send, the first half of `send`: an error once the receiver   *)
(* is gone.                                                                *)
SendMsg(t, blocking) ==
    /\ RunsClientCode(t)
    /\ made[t] < MaxRequests
    /\ made' = [made EXCEPT ![t] = @ + 1]
    /\ IF lpc = "gone"
       THEN /\ told' = [told EXCEPT ![Current(t)'] = "ChannelSend"]
            /\ UNCHANGED <<queue, tpc>>
       ELSE /\ queue' = Append(queue, [req |-> Current(t)', sender |-> blocking])
            /\ tpc' = [tpc EXCEPT ![t] = IF blocking THEN "calling" ELSE "firing"]
            /\ UNCHANGED told
    /\ UNCHANGED <<counter, replies, lpc, noted, running, executed>>

CallBlocking(t) ==
    /\ t # LoopThread
    /\ SendMsg(t, TRUE)

Fire(t) == SendMsg(t, FALSE)

(* Seeded fault: the write is made without regard to the counter's limit.  *)
WriteEventFdUnbounded(t) ==
    /\ tpc[t] \in {"calling", "firing"}
    /\ counter' = counter + 1
    /\ tpc' = [tpc EXCEPT ![t] = IF tpc[t] = "calling" THEN "waiting" ELSE "ready"]
    /\ UNCHANGED <<queue, made, replies, told, lpc, noted, running, executed>>

(* Seeded fault: after the write, call_blocking is told Ok without recv. *)
WriteEventFdNotWaiting(t) ==
    /\ tpc[t] \in {"calling", "firing"}
    /\ counter < MaxCounter
    /\ counter' = counter + 1
    /\ told' = [told EXCEPT ![Current(t)] = IF tpc[t] = "calling" THEN "Value" ELSE "Ok"]
    /\ tpc' = [tpc EXCEPT ![t] = "ready"]
    /\ UNCHANGED <<queue, made, replies, lpc, noted, running, executed>>

(* event_fd.write(1), the second half.  `fire` is done; a call waits. *)
WriteEventFd(t) ==
    /\ tpc[t] \in {"calling", "firing"}
    /\ counter < MaxCounter
    /\ counter' = counter + 1
    /\ IF tpc[t] = "calling"
       THEN /\ tpc' = [tpc EXCEPT ![t] = "waiting"]
            /\ UNCHANGED told
       ELSE /\ tpc' = [tpc EXCEPT ![t] = "ready"]
            /\ told' = [told EXCEPT ![Current(t)] = "Ok"]
    /\ UNCHANGED <<queue, made, replies, lpc, noted, running, executed>>

(* The counter is full (EAGAIN): an error, though the message is queued. *)
WriteEventFdFails(t) ==
    /\ tpc[t] \in {"calling", "firing"}
    /\ counter = MaxCounter
    /\ tpc' = [tpc EXCEPT ![t] = "ready"]
    /\ told' = [told EXCEPT ![Current(t)] = "EventFd"]
    /\ UNCHANGED <<queue, counter, made, replies, lpc, noted, running, executed>>

(* receiver.recv() in call_blocking. *)
RecvReply(t) ==
    /\ tpc[t] = "waiting"
    /\ replies[Current(t)] # "none"
    /\ tpc' = [tpc EXCEPT ![t] = "ready"]
    /\ told' = [told EXCEPT ![Current(t)] =
                  IF replies[Current(t)] = "value" THEN "Value" ELSE "ChannelRecv"]
    /\ UNCHANGED <<queue, counter, made, replies, lpc, noted, running, executed>>

Kick(t) ==
    /\ RunsClientCode(t)
    /\ counter < MaxCounter
    /\ counter' = counter + 1
    /\ UNCHANGED <<queue, tpc, made, replies, told, lpc, noted, running, executed>>

-----------------------------------------------------------------------------
(* The event loop. *)

(* epoll_wait reports the eventfd among the events. *)
PollSignaled ==
    /\ lpc = "wait"
    /\ counter > 0
    /\ noted' = TRUE
    /\ lpc' = "process"
    /\ UNCHANGED <<queue, counter, tpc, made, replies, told, running, executed>>

(* It returns without: a timeout, EINTR, or subscriber events fill the buffer. *)
PollOther ==
    /\ lpc = "wait"
    /\ lpc' = "process"
    /\ UNCHANGED <<queue, counter, tpc, made, replies, told, noted, running, executed>>

(* Seeded fault: the eventfd is cleared in every round. *)
DispatchEndpointEventClearing ==
    /\ lpc = "process"
    /\ tpc[LoopThread] = "ready"
    /\ noted' = FALSE
    /\ counter' = 0
    /\ lpc' = IF noted THEN "drain" ELSE "wait"
    /\ UNCHANGED <<queue, tpc, made, replies, told, running, executed>>

(* Seeded fault: the eventfd is never read. *)
DispatchEndpointEventUnread ==
    /\ lpc = "process"
    /\ tpc[LoopThread] = "ready"
    /\ noted' = FALSE
    /\ lpc' = IF noted THEN "drain" ELSE "wait"
    /\ UNCHANGED <<queue, counter, tpc, made, replies, told, running, executed>>

(* All subscriber events are dispatched; clear the eventfd, then drain.    *)
(* The check that the event is IN is in EventManager.                      *)
DispatchEndpointEvent ==
    /\ lpc = "process"
    /\ tpc[LoopThread] = "ready"
    /\ noted' = FALSE
    /\ IF noted
       THEN lpc' = "drain" /\ counter' = 0
       ELSE lpc' = "wait" /\ UNCHANGED counter
    /\ UNCHANGED <<queue, tpc, made, replies, told, running, executed>>

(* Seeded fault: the newest message is taken first. *)
TryRecvNewest ==
    /\ lpc = "drain"
    /\ queue # << >>
    /\ running' = queue[Len(queue)]
    /\ queue' = SubSeq(queue, 1, Len(queue) - 1)
    /\ lpc' = "closure"
    /\ UNCHANGED <<counter, tpc, made, replies, told, noted, executed>>

TryRecv ==
    /\ lpc = "drain"
    /\ queue # << >>
    /\ running' = Head(queue)
    /\ queue' = Tail(queue)
    /\ lpc' = "closure"
    /\ UNCHANGED <<counter, tpc, made, replies, told, noted, executed>>

TryRecvEmpty ==
    /\ lpc = "drain"
    /\ queue = << >>
    /\ lpc' = "wait"
    /\ UNCHANGED <<queue, counter, tpc, made, replies, told, noted, running, executed>>

(* The answer a message's sender carries back, if it has one. *)
Answer(msg, answer) ==
    IF msg.sender THEN [replies EXCEPT ![msg.req] = answer] ELSE replies

(* Seeded fault: one message per wakeup, `if let` for `while let`. *)
ClosureReturnsOnce ==
    /\ lpc = "closure"
    /\ tpc[LoopThread] = "ready"
    /\ replies' = Answer(running, "value")
    /\ executed' = Append(executed, running.req)
    /\ running' = NoMsg
    /\ lpc' = "wait"
    /\ UNCHANGED <<queue, counter, tpc, made, told, noted>>

(* The closure ran to completion; its result is sent back. *)
ClosureReturns ==
    /\ lpc = "closure"
    /\ tpc[LoopThread] = "ready"
    /\ replies' = Answer(running, "value")
    /\ executed' = Append(executed, running.req)
    /\ running' = NoMsg
    /\ lpc' = "drain"
    /\ UNCHANGED <<queue, counter, tpc, made, told, noted>>

(* Seeded fault: a closure that panicked is put back to be tried again. *)
ClientPanicsRequeueing ==
    /\ lpc \in {"process", "closure"}
    /\ tpc[LoopThread] = "ready"
    /\ queue' = IF lpc = "closure" THEN <<running>> \o queue ELSE queue
    /\ running' = NoMsg
    /\ noted' = FALSE
    /\ lpc' = "unwinding"
    /\ UNCHANGED <<counter, tpc, made, replies, told, executed>>

(* Client code panics: unwinding drops the message, and its sender, first. *)
ClientPanics ==
    /\ lpc \in {"process", "closure"}
    /\ tpc[LoopThread] = "ready"
    /\ replies' = Answer(running, "hangup")
    /\ running' = NoMsg
    /\ noted' = FALSE
    /\ lpc' = "unwinding"
    /\ UNCHANGED <<queue, counter, tpc, made, told, executed>>

(* The owner catches the panic and goes on calling `run`. *)
CatchUnwind ==
    /\ CatchesPanics
    /\ lpc = "unwinding"
    /\ lpc' = "wait"
    /\ UNCHANGED <<queue, counter, tpc, made, replies, told, noted, running, executed>>

Queued(r) == \E i \in DOMAIN queue : queue[i].req = r

AwaitsReply(r) == \E i \in DOMAIN queue : queue[i].req = r /\ queue[i].sender

(* Seeded fault: the queued messages outlive the manager. *)
DropManagerLeaking ==
    /\ lpc \in {"wait", "unwinding"}
    /\ lpc' = "gone"
    /\ queue' = << >>
    /\ UNCHANGED <<counter, tpc, made, replies, told, noted, running, executed>>

(* The manager is dropped, by its owner or by the unwinding, and with it   *)
(* the receiver and every queued message.                                  *)
DropManager ==
    /\ lpc \in {"wait", "unwinding"}
    /\ lpc' = "gone"
    /\ queue' = << >>
    /\ replies' = [r \in Requests |-> IF AwaitsReply(r) THEN "hangup" ELSE replies[r]]
    /\ UNCHANGED <<counter, tpc, made, told, noted, running, executed>>

-----------------------------------------------------------------------------
EndpointStep(t) ==
    \/ CallBlocking(t)
    \/ Fire(t)
    \/ WriteEventFd(t)
    \/ WriteEventFdFails(t)
    \/ RecvReply(t)
    \/ Kick(t)

LoopStep ==
    \/ PollSignaled
    \/ PollOther
    \/ DispatchEndpointEvent
    \/ TryRecv
    \/ TryRecvEmpty
    \/ ClosureReturns
    \/ ClientPanics
    \/ CatchUnwind
    \/ DropManager

(* The one state in which everything may stop: the manager is gone and no  *)
(* thread is inside an operation.  Any other stop is a deadlock.           *)
AllDone ==
    /\ lpc = "gone"
    /\ \A t \in Threads : tpc[t] = "ready"
    /\ UNCHANGED endpointVars

EndpointNext == LoopStep \/ AllDone \/ \E t \in Threads : EndpointStep(t)

EndpointSpec == EndpointInit /\ [][EndpointNext]_endpointVars

(* An operation that has begun is carried through. *)
Finishes(t) == WriteEventFd(t) \/ WriteEventFdFails(t) \/ RecvReply(t)

(* Work the loop's thread does without waiting for anything. *)
Proceeds == DispatchEndpointEvent \/ TryRecv \/ TryRecvEmpty \/ ClosureReturns

(* Threads are scheduled, the owner keeps calling `run`, client code       *)
(* returns, an unwinding ends, and a signalled eventfd is not passed over  *)
(* for ever: epoll serves its ready list in turn.                          *)
Fairness ==
    /\ \A t \in Threads : WF_endpointVars(Finishes(t))
    /\ WF_endpointVars(Proceeds)
    /\ WF_endpointVars(lpc = "unwinding" /\ (CatchUnwind \/ DropManager))
    /\ SF_endpointVars(PollSignaled)

FairSpec == EndpointSpec /\ Fairness

-----------------------------------------------------------------------------
(* Properties. *)

(* No wakeup is lost between `send` and handle_endpoint_calls: whenever    *)
(* the loop goes back to waiting with messages in the channel, the eventfd *)
(* is raised or a sender is just about to raise it.  Rests on send writing *)
(* after it queued, and on the loop reading before it drains.              *)
NoLostWakeup ==
    lpc \in {"wait", "process"} /\ queue # << >> =>
        counter > 0 \/ \E t \in Threads : tpc[t] \in {"calling", "firing"}

(* A thread blocked in call_blocking has its message in the channel or in  *)
(* the hands of the loop, or its answer (or hangup) on the way: dropping   *)
(* the manager at any moment leaves nobody behind.                         *)
CallerNotForgotten ==
    \A t \in Threads : tpc[t] = "waiting" =>
        \/ Queued(Current(t)) /\ lpc # "gone"
        \/ lpc = "closure" /\ running.req = Current(t)
        \/ replies[Current(t)] # "none"

(* What the operations tell their callers is true for good: a value means  *)
(* the closure has run; ChannelSend and ChannelRecv mean that it did not   *)
(* run to completion and never will.                                       *)
HonestAnswers ==
    \A r \in Requests :
        /\ told[r] = "Value" => \E i \in DOMAIN executed : executed[i] = r
        /\ told[r] \in {"ChannelSend", "ChannelRecv"} =>
              /\ \A i \in DOMAIN executed : executed[i] # r
              /\ ~Queued(r)
              /\ running.req # r

(* The closures of one thread run in the order it sent them, none twice,   *)
(* and also when an earlier one was reported as failed with EventFd.       *)
InOrder ==
    \A i, j \in DOMAIN executed :
        i < j /\ executed[i][1] = executed[j][1] => executed[i][2] < executed[j][2]

(* Every call_blocking made off the loop's thread returns: with a value,   *)
(* or with ChannelRecv when the manager is dropped or the closure panics.  *)
CallsReturn == \A t \in Callers : tpc[t] = "waiting" ~> tpc[t] = "ready"

(* A closure that was sent is taken out of the channel: it runs, or the    *)
(* manager is dropped.                                                     *)
FiresAreServed == \A r \in Requests : Queued(r) ~> ~Queued(r)

(* A raised eventfd (a kick, too) gets the loop through a round in which   *)
(* it is cleared: the loop is woken once and does not spin on it.          *)
SignalsAreConsumed == counter > 0 ~> (counter = 0 \/ lpc = "gone")

-----------------------------------------------------------------------------
(* Refinement: where a closure is, read off the channel, the loop and the  *)
(* history; one that was sent and is nowhere is lost.                      *)

StageOf(r) ==
    CASE r[2] > made[r[1]]                         -> "unsent"
      [] Queued(r)                                 -> "queued"
      [] running.req = r                           -> "running"
      [] \E i \in DOMAIN executed : executed[i] = r -> "done"
      [] OTHER                                     -> "lost"

Call == INSTANCE RemoteCall WITH
    Users <- Threads,
    Limit <- MaxRequests,
    alive <- lpc # "gone",
    stage <- [r \in Requests |-> StageOf(r)],
    verdict <- told

(* The endpoint is a RemoteCall: the two halves of `send`, the wakeup, the *)
(* drain, panics and the drop of the manager at any moment are each a step *)
(* of the abstract call or invisible to it.                                *)
ImplementsRemoteCall == Call!Spec

(* ... and, scheduled fairly, one that does not rest while closures wait   *)
(* and that tells every caller.                                            *)
ServesRemoteCalls == Call!FairSpec
=============================================================================
