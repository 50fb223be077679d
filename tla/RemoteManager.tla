---------------------------- MODULE RemoteManager ----------------------------
(***************************************************************************)
(* The manager on a thread of its own, run and stopped as in               *)
(* src/tests/endpoint.rs, and other threads that add and remove            *)
(* subscribers through call_blocking and fire: EventManager composed with   *)
(* the endpoint.  What RemoteEndpoint says of messages and wakeups in      *)
(* general is here about the subscribers the messages are about.           *)
(*                                                                         *)
(* A callback uses its EventOps on its own descriptors as it likes.  These *)
(* stay open, so that the manager does not panic (NoPanic of EventManager),*)
(* and the channel's counter is far from its limit.                        *)
(***************************************************************************)
EXTENDS EventManager, Sequences, FiniteSets

CONSTANTS
    Threads,   \* callers
    MaxCalls   \* bound: messages all threads send

ASSUME RemoteAssumption == MaxCalls \in Nat

VARIABLES
    messages,      \* the channel
    made,          \* messages sent so far
    thread,        \* [Threads -> ...]: "ready", "sending" (eventfd not yet written), "waiting"
    answer,        \* [Threads -> ...]: what the last call returned
    serving,       \* the message whose closure runs, or NoMessage
    added,         \* the id its add_subscriber returns, once called
    keep_running,
    owner,         \* the loop's thread: "run", "check" (run has returned), "exited"
    stopper,       \* the main thread: "live", "stored", "kicked"
    handed         \* history: [SubscriberIds -> SUBSET Threads]: who was given the object back

remoteVars == <<messages, made, thread, answer, serving, added, keep_running, owner,
                stopper, handed>>

allVars == <<vars, remoteVars>>

Ids == SubscriberIds \cup {NoSubscriber}

Message ==
    [from : Threads, op : {"add"}, id : {NoSubscriber}, blocking : BOOLEAN] \cup
    [from : Threads, op : {"remove"}, id : SubscriberIds, blocking : BOOLEAN]

NoMessage == [from |-> "nobody"]

Answers ==
    [result : {"none", "ChannelSend", "ChannelRecv"}] \cup
    [result : {"added", "removed", "InvalidId"}, id : SubscriberIds]

RemoteTypeOK ==
    /\ TypeOK
    /\ messages \in Seq(Message)
    /\ made \in 0..MaxCalls
    /\ thread \in [Threads -> {"ready", "sending", "waiting"}]
    /\ answer \in [Threads -> Answers]
    /\ serving \in Message \cup {NoMessage}
    /\ added \in Ids
    /\ keep_running \in BOOLEAN
    /\ owner \in {"run", "check", "exited"}
    /\ stopper \in {"live", "stored", "kicked"}
    /\ handed \in [SubscriberIds -> SUBSET Threads]

RemoteInit ==
    /\ Init
    /\ \A fd \in Fds : open[fd] = fd
    /\ messages = << >>
    /\ made = 0
    /\ thread = [t \in Threads |-> "ready"]
    /\ answer = [t \in Threads |-> [result |-> "none"]]
    /\ serving = NoMessage
    /\ added = NoSubscriber
    /\ keep_running = TRUE
    /\ owner = "run"
    /\ stopper = "live"
    /\ handed = [id \in SubscriberIds |-> {}]

-----------------------------------------------------------------------------
(* Callers.  An id comes from an earlier answer; it may be stale. *)

(* Adds still to be carried out; with them no more ids than there are. *)
PendingAdds ==
    Len(SelectSeq(messages, LAMBDA m : m.op = "add"))
    + (IF serving # NoMessage /\ serving.op = "add" /\ added = NoSubscriber THEN 1 ELSE 0)

SendMessage(msg) ==
    /\ thread[msg.from] = "ready"
    /\ made < MaxCalls
    /\ made' = made + 1
    /\ msg.op = "add" => next_id + PendingAdds <= MaxSubscribers
    /\ msg.id < next_id
    /\ IF owner = "exited"
       THEN /\ answer' = [answer EXCEPT ![msg.from] = [result |-> "ChannelSend"]]
            /\ UNCHANGED <<messages, thread>>
       ELSE /\ messages' = Append(messages, msg)
            /\ thread' = [thread EXCEPT ![msg.from] = "sending"]
            /\ answer' = [answer EXCEPT ![msg.from] = [result |-> "none"]]
    /\ UNCHANGED <<vars, serving, added, keep_running, owner, stopper, handed>>

SetSignal ==
    /\ signaled' = TRUE
    /\ UNCHANGED <<kernelVars, subscribersVars, wrapperVars, loopVars, due>>

(* Is there a blocking call of t whose answer is still out? *)
Outstanding(t) ==
    \/ serving # NoMessage /\ serving.from = t /\ serving.blocking
    \/ \E i \in DOMAIN messages : messages[i].from = t /\ messages[i].blocking

(* The eventfd is written; call_blocking then waits, if there is anything  *)
(* left to wait for.                                                       *)
WriteEventFd(t) ==
    /\ thread[t] = "sending"
    /\ SetSignal
    /\ thread' = [thread EXCEPT ![t] = IF Outstanding(t) THEN "waiting" ELSE "ready"]
    /\ UNCHANGED <<messages, made, answer, serving, added, keep_running, owner, stopper, handed>>

(* The answer of a call reaches its thread, if it already waits for it. *)
Tell(t, a) ==
    /\ answer' = [answer EXCEPT ![t] = a]
    /\ thread' = [thread EXCEPT ![t] = IF @ = "waiting" THEN "ready" ELSE @]

-----------------------------------------------------------------------------
(* handle_endpoint_calls. *)

TakeMessage ==
    /\ pc = "endpoint"
    /\ serving = NoMessage
    /\ messages # << >>
    /\ serving' = Head(messages)
    /\ messages' = Tail(messages)
    /\ UNCHANGED <<vars, made, thread, answer, added, keep_running, owner, stopper, handed>>

(* Seeded fault: the id is sent back before `init` has run. *)
ClosureAddsAndReplies ==
    /\ serving # NoMessage /\ serving.op = "add"
    /\ added = NoSubscriber
    /\ AddSubscriber
    /\ added' = next_id
    /\ IF serving.blocking
       THEN Tell(serving.from, [result |-> "added", id |-> next_id])
       ELSE UNCHANGED <<answer, thread>>
    /\ UNCHANGED <<messages, made, serving, keep_running, owner, stopper, handed>>

(* Seeded fault: the id is read after next_id was incremented. *)
ClosureAddsOffByOne ==
    /\ serving # NoMessage /\ serving.op = "add"
    /\ added = NoSubscriber
    /\ AddSubscriber
    /\ added' = next_id + 1
    /\ UNCHANGED <<messages, made, thread, answer, serving, keep_running, owner, stopper, handed>>

ClosureAdds ==
    /\ serving # NoMessage /\ serving.op = "add"
    /\ added = NoSubscriber
    /\ AddSubscriber
    /\ added' = next_id
    /\ UNCHANGED <<messages, made, thread, answer, serving, keep_running, owner, stopper, handed>>

Reply(a) ==
    /\ serving' = NoMessage
    /\ added' = NoSubscriber
    /\ IF serving.blocking THEN Tell(serving.from, a) ELSE UNCHANGED <<answer, thread>>
    /\ UNCHANGED <<messages, made, keep_running, owner, stopper>>

AddReturns ==
    /\ pc = "endpoint"
    /\ serving # NoMessage /\ added # NoSubscriber
    /\ Reply([result |-> "added", id |-> added])
    /\ UNCHANGED <<vars, handed>>

(* remove_subscriber gives the object to the caller, or InvalidId.  A      *)
(* fired removal drops it.                                                 *)
ClosureRemoves ==
    /\ serving # NoMessage /\ serving.op = "remove"
    /\ RemoveSubscriber(serving.id)
    /\ Reply([result |-> "removed", id |-> serving.id])
    /\ handed' = [handed EXCEPT ![serving.id] = @ \cup {serving.from}]

ClosureRemovesNothing ==
    /\ pc = "endpoint"
    /\ serving # NoMessage /\ serving.op = "remove"
    /\ serving.id \notin subscribers
    /\ Reply([result |-> "InvalidId", id |-> serving.id])
    /\ UNCHANGED <<vars, handed>>

(* Seeded fault: one message for each wakeup. *)
DrainEndsEarly ==
    /\ serving = NoMessage
    /\ EndpointCallsDone
    /\ owner' = "check"
    /\ UNCHANGED <<messages, made, thread, answer, serving, added, keep_running, stopper, handed>>

DrainEnds ==
    /\ serving = NoMessage
    /\ messages = << >>
    /\ EndpointCallsDone
    /\ owner' = "check"
    /\ UNCHANGED <<messages, made, thread, answer, serving, added, keep_running, stopper, handed>>

-----------------------------------------------------------------------------
(* The thread of the loop: `run`, then a look at keep_running. *)

(* run() blocks while nothing is ready; 0 events is an interrupt. *)
RunLoop ==
    /\ owner = "run"
    /\ Run
    /\ UNCHANGED remoteVars

(* dispatch_events; without an endpoint event `run` returns at its end. *)
DispatchLoop ==
    /\ SkipDiscarded \/ CallProcess \/ NoteEndpointEvent \/ DispatchEnds
    /\ owner' = IF pc' = "idle" THEN "check" ELSE owner
    /\ UNCHANGED <<messages, made, thread, answer, serving, added, keep_running, stopper, handed>>

Callback ==
    /\ \/ InitReturns
       \/ ProcessReturns
       \/ /\ pc \in {"init", "process"}
          /\ \E fd \in Fds : OpsAdd(current, fd, {In}) \/ OpsRemove(current, fd)
    /\ UNCHANGED remoteVars

CheckRunning ==
    /\ owner = "check"
    /\ keep_running
    /\ owner' = "run"
    /\ UNCHANGED <<vars, messages, made, thread, answer, serving, added, keep_running,
                   stopper, handed>>

(* The thread ends and drops the manager: queued calls get ChannelRecv. *)
Exit ==
    /\ owner = "check"
    /\ ~keep_running
    /\ owner' = "exited"
    /\ messages' = << >>
    /\ answer' = [t \in Threads |-> IF Outstanding(t) THEN [result |-> "ChannelRecv"] ELSE answer[t]]
    /\ thread' = [t \in Threads |-> IF thread[t] = "waiting" THEN "ready" ELSE thread[t]]
    /\ UNCHANGED <<vars, made, serving, added, keep_running, stopper, handed>>

-----------------------------------------------------------------------------
(* The main thread: store, then kick, then join. *)

StoreKeepRunning ==
    /\ stopper = "live"
    /\ keep_running' = FALSE
    /\ stopper' = "stored"
    /\ UNCHANGED <<vars, messages, made, thread, answer, serving, added, owner, handed>>

(* Seeded fault: the loop is joined without a kick. *)
KickLoopMissing ==
    /\ stopper = "stored"
    /\ stopper' = "kicked"
    /\ UNCHANGED <<vars, messages, made, thread, answer, serving, added, keep_running,
                   owner, handed>>

KickLoop ==
    /\ stopper = "stored"
    /\ SetSignal
    /\ stopper' = "kicked"
    /\ UNCHANGED <<messages, made, thread, answer, serving, added, keep_running, owner, handed>>

-----------------------------------------------------------------------------
Joined == owner = "exited" /\ UNCHANGED allVars

LoopThread ==
    \/ DispatchLoop
    \/ TakeMessage
    \/ ClosureAdds
    \/ AddReturns
    \/ ClosureRemoves
    \/ ClosureRemovesNothing
    \/ DrainEnds
    \/ CheckRunning
    \/ Exit

RemoteNext ==
    \/ \E msg \in Message : SendMessage(msg)
    \/ \E t \in Threads : WriteEventFd(t)
    \/ StoreKeepRunning
    \/ KickLoop
    \/ RunLoop
    \/ Callback
    \/ LoopThread
    \/ Joined

RemoteSpec == RemoteInit /\ [][RemoteNext]_allVars

(* Threads are scheduled, callbacks return, the main thread kicks after it *)
(* stored, and a signalled channel is reported in the end (LoopProgress).  *)
RemoteFairSpec ==
    /\ RemoteSpec
    /\ \A t \in Threads : WF_allVars(WriteEventFd(t))
    /\ WF_allVars(LoopThread)
    /\ WF_allVars(pc \in {"init", "process"} /\ Callback /\ pc' # pc)
    /\ WF_allVars(KickLoop)
    /\ SF_allVars(RunLoop /\ \E i \in 1..event_count' : ready_events'[i].fd = ChannelFd)

-----------------------------------------------------------------------------
(* Properties. *)

(* A thread to which remove_subscriber gave the object has it for itself:  *)
(* no other thread was given it, the manager does not call it and no       *)
(* descriptor leads to it, in the batch being dispatched or later.         *)
RemovedIsSilent ==
    \A id \in SubscriberIds : handed[id] # {} =>
        /\ Cardinality(handed[id]) = 1
        /\ id \notin subscribers
        /\ current # id
        /\ \A fd \in Fds : fd_dispatch[fd] # id

(* A thread that was told an id finds the subscriber there, with its       *)
(* `init` done, unless somebody removed it since.                          *)
AddedIsInitialized ==
    \A t \in Threads : answer[t].result = "added" =>
        LET id == answer[t].id IN
        /\ ~(pc = "init" /\ current = id)
        /\ id \in subscribers \/ handed[id] # {}

(* keep_running is stored before the kick, so the loop's thread ends and   *)
(* can be joined, wherever it was between two looks at the flag.           *)
KickedLoopExits == stopper = "kicked" ~> owner = "exited"

(* A call_blocking gets its answer, also when the loop is stopped around   *)
(* it.                                                                     *)
CallsAnswered == \A t \in Threads : thread[t] = "waiting" ~> thread[t] = "ready"
=============================================================================
