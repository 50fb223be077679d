-------------------------- MODULE SharedSubscribers --------------------------
(***************************************************************************)
(* The subscriber wrappers of src/src/lib.rs, and call_blocking of          *)
(* src/src/endpoint.rs, between several threads: who waits for whom.        *)
(*                                                                          *)
(* A manager stands for the thread of its event loop; workers are the other *)
(* threads.  A cell is a wrapped subscriber.  The loop enters a Mutex or a  *)
(* RefCell before it calls the subscriber inside; Arc, Rc and Box only pass *)
(* the call on ("plain").  Client code (a callback, a closure, a worker, or *)
(* a manager's owner between two runs) may enter further cells, make        *)
(* blocking calls, and panic.  A panic that nobody catches ends its thread, *)
(* and with a loop's thread its manager.                                    *)
(***************************************************************************)
EXTENDS Naturals, Sequences, FiniteSets

CONSTANTS
    Managers, Workers, Cells,
    Kind,        \* [Cells -> {"plain", "RefCell", "Mutex"}]
    Registered,  \* [Managers -> SUBSET Cells]: the subscribers of a manager
    Nothing,     \* waits for nothing
    Rank,        \* [Managers \cup Cells -> Nat]: the order a disciplined client keeps
    Ordered      \* do clients wait only upwards in that order?

Agents == Managers \cup Workers

Resources == Managers \cup Cells

(* The subscribers of a manager rank above the manager itself.  A RefCell  *)
(* is not Sync: it stays on one thread, and so with one manager.           *)
ASSUME SharedAssumption ==
    /\ Managers \cap Workers = {}
    /\ Agents \cap Cells = {}
    /\ IsFiniteSet(Agents)
    /\ Nothing \notin Resources \cup Agents
    /\ Kind \in [Cells -> {"plain", "RefCell", "Mutex"}]
    /\ Registered \in [Managers -> SUBSET Cells]
    /\ \A m, n \in Managers : \A c \in Registered[m] \cap Registered[n] :
           Kind[c] = "RefCell" => m = n
    /\ Rank \in [Resources -> Nat]
    /\ \A m \in Managers : \A c \in Registered[m] : Rank[m] < Rank[c]
    /\ Ordered \in BOOLEAN

VARIABLES
    phase,     \* [Agents -> ...]: "idle" is the agent's own code
    waits,     \* [Agents -> ...]: the lock or the answer it is blocked on
    holder,    \* [Cells -> Agents \cup {Nothing}]: who has the guard
    poisoned,  \* Mutexes whose guard was dropped by a panic
    inbox,     \* [Managers -> Seq(Agents)]: callers in the order of their messages
    serving,   \* [Managers -> ...]: the caller whose closure runs
    object,    \* [Managers -> ...]: the cell whose callback runs
    cause      \* [Agents -> ...]: why its thread ended

sharedVars == <<phase, waits, holder, poisoned, inbox, serving, object, cause>>

SharedTypeOK ==
    /\ phase \in [Agents -> {"idle", "process", "closure", "dead"}]
    /\ waits \in [Agents -> Resources \cup {Nothing}]
    /\ holder \in [Cells -> Agents \cup {Nothing}]
    /\ poisoned \in SUBSET Cells
    /\ inbox \in [Managers -> Seq(Agents)]
    /\ serving \in [Managers -> Agents \cup {Nothing}]
    /\ object \in [Managers -> Cells \cup {Nothing}]
    /\ cause \in [Agents -> {"none", "client", "borrow", "poison"}]

SharedInit ==
    /\ phase = [a \in Agents |-> "idle"]
    /\ waits = [a \in Agents |-> Nothing]
    /\ holder = [c \in Cells |-> Nothing]
    /\ poisoned = {}
    /\ inbox = [m \in Managers |-> << >>]
    /\ serving = [m \in Managers |-> Nothing]
    /\ object = [m \in Managers |-> Nothing]
    /\ cause = [a \in Agents |-> "none"]

-----------------------------------------------------------------------------
RunsCode(a) == phase[a] # "dead" /\ waits[a] = Nothing

Guards(a) == {c \in Cells : holder[c] = a}

(* The guards client code knows of: the wrapper's only inside the callback. *)
KnownGuards(a) ==
    IF a \in Managers /\ phase[a] # "process" THEN Guards(a) \ {object[a]} ELSE Guards(a)

(* What it keeps others from while it waits: its guards, and a manager's   *)
(* thread its manager, which then answers no calls.                        *)
Occupies(a) == KnownGuards(a) \cup ({a} \cap Managers)

MayWaitFor(a, x) == Ordered => \A y \in Occupies(a) : Rank[y] < Rank[x]

(* An unwind drops the guards, which poisons Mutexes, and a loop's manager *)
(* with everything queued: every caller of it gets ChannelRecv.            *)
Die(a, why) ==
    /\ phase' = [phase EXCEPT ![a] = "dead"]
    /\ cause' = [cause EXCEPT ![a] = why]
    /\ holder' = [c \in Cells |-> IF holder[c] = a THEN Nothing ELSE holder[c]]
    /\ poisoned' = poisoned \cup {c \in Guards(a) : Kind[c] = "Mutex"}
    /\ waits' = [b \in Agents |-> IF waits[b] = a \/ b = a THEN Nothing ELSE waits[b]]
    /\ inbox' = [m \in Managers |-> IF m = a THEN << >> ELSE inbox[m]]
    /\ serving' = [m \in Managers |-> IF m = a THEN Nothing ELSE serving[m]]
    /\ object' = [m \in Managers |-> IF m = a THEN Nothing ELSE object[m]]

ClientPanics(a) == RunsCode(a) /\ Die(a, "client")

(* borrow_mut() or lock(): a RefCell in use panics, a Mutex is waited for; *)
(* a plain wrapper takes no guard.  callback: the loop calls the subscriber.*)
Enter(a, c, callback) ==
    IF Kind[c] = "RefCell" /\ holder[c] # Nothing
    THEN Die(a, "borrow")
    ELSE /\ phase' = [phase EXCEPT ![a] = IF callback THEN "process" ELSE @]
         /\ object' = IF callback THEN [object EXCEPT ![a] = c] ELSE object
         /\ waits' = [waits EXCEPT ![a] = IF Kind[c] = "Mutex" THEN c ELSE @]
         /\ holder' = [holder EXCEPT ![c] = IF Kind[c] = "RefCell" THEN a ELSE @]
         /\ UNCHANGED <<poisoned, inbox, serving, cause>>

(* The lock is free: lock() returns, and unwrap panics if it is poisoned.  *)
Acquired(a) ==
    \E c \in Cells :
        /\ waits[a] = c
        /\ holder[c] = Nothing
        /\ IF c \in poisoned
           THEN Die(a, "poison")
           ELSE /\ waits' = [waits EXCEPT ![a] = Nothing]
                /\ holder' = [holder EXCEPT ![c] = a]
                /\ UNCHANGED <<phase, poisoned, inbox, serving, object, cause>>

(* `process` or `init` of a wrapped subscriber, called by the loop.  A     *)
(* disciplined owner holds no guard while it runs the manager.             *)
CallSubscriber(m, c) ==
    /\ RunsCode(m) /\ phase[m] = "idle"
    /\ c \in Registered[m]
    /\ Ordered => KnownGuards(m) = {}
    /\ Enter(m, c, TRUE)

(* Client code locks a cell.  A RefCell never leaves its thread. *)
LockCell(a, c) ==
    /\ RunsCode(a)
    /\ Kind[c] # "plain"
    /\ Kind[c] = "RefCell" => a \in Managers /\ c \in Registered[a]
    /\ MayWaitFor(a, c)
    /\ Enter(a, c, FALSE)

(* Client code drops guards of its own; the one the wrapper took lives     *)
(* until the callback returns.                                             *)
Unlock(a, cs) ==
    /\ RunsCode(a)
    /\ cs # {} /\ cs \subseteq Guards(a)
    /\ a \in Managers => object[a] \notin cs
    /\ holder' = [c \in Cells |-> IF c \in cs THEN Nothing ELSE holder[c]]
    /\ UNCHANGED <<phase, waits, poisoned, inbox, serving, object, cause>>

(* Seeded fault: the wrapper's guard outlives the callback. *)
CallbackReturnsKeepingGuard(m) ==
    /\ RunsCode(m) /\ phase[m] = "process"
    /\ phase' = [phase EXCEPT ![m] = "idle"]
    /\ UNCHANGED <<waits, holder, poisoned, inbox, serving, object, cause>>

(* The callback returns and the guards go out of scope. *)
CallbackReturns(m) ==
    /\ RunsCode(m) /\ phase[m] = "process"
    /\ phase' = [phase EXCEPT ![m] = "idle"]
    /\ object' = [object EXCEPT ![m] = Nothing]
    /\ holder' = [c \in Cells |-> IF holder[c] = m THEN Nothing ELSE holder[c]]
    /\ UNCHANGED <<waits, poisoned, inbox, serving, cause>>

-----------------------------------------------------------------------------
(* Seeded fault: the caller keeps the sending half of the reply channel,   *)
(* and waits for itself.                                                   *)
CallBlockingOnItself(a, m) ==
    /\ RunsCode(a)
    /\ phase[m] # "dead"
    /\ MayWaitFor(a, m)
    /\ inbox' = [inbox EXCEPT ![m] = Append(@, a)]
    /\ waits' = [waits EXCEPT ![a] = a]
    /\ UNCHANGED <<phase, holder, poisoned, serving, object, cause>>

(* call_blocking: the message is queued and the thread waits.  On a dead   *)
(* manager it fails at once with ChannelSend.                              *)
CallBlocking(a, m) ==
    /\ RunsCode(a)
    /\ phase[m] # "dead"
    /\ MayWaitFor(a, m)
    /\ inbox' = [inbox EXCEPT ![m] = Append(@, a)]
    /\ waits' = [waits EXCEPT ![a] = m]
    /\ UNCHANGED <<phase, holder, poisoned, serving, object, cause>>

(* Seeded fault: calls are handled at once, not after all subscriber events. *)
ServeInCallback(m) ==
    /\ RunsCode(m) /\ phase[m] \in {"idle", "process"}
    /\ Ordered => KnownGuards(m) \subseteq {object[m]}
    /\ inbox[m] # << >>
    /\ serving' = [serving EXCEPT ![m] = Head(inbox[m])]
    /\ inbox' = [inbox EXCEPT ![m] = Tail(@)]
    /\ phase' = [phase EXCEPT ![m] = "closure"]
    /\ UNCHANGED <<waits, holder, poisoned, object, cause>>

(* handle_endpoint_calls takes the oldest message, between two batches. *)
Serve(m) ==
    /\ RunsCode(m) /\ phase[m] = "idle"
    /\ Ordered => KnownGuards(m) = {}
    /\ inbox[m] # << >>
    /\ serving' = [serving EXCEPT ![m] = Head(inbox[m])]
    /\ inbox' = [inbox EXCEPT ![m] = Tail(@)]
    /\ phase' = [phase EXCEPT ![m] = "closure"]
    /\ UNCHANGED <<waits, holder, poisoned, object, cause>>

(* Seeded fault: the result is never sent back. *)
ClosureReturnsSilently(m) ==
    /\ RunsCode(m) /\ phase[m] = "closure"
    /\ phase' = [phase EXCEPT ![m] = "idle"]
    /\ serving' = [serving EXCEPT ![m] = Nothing]
    /\ holder' = [c \in Cells |-> IF holder[c] = m THEN Nothing ELSE holder[c]]
    /\ UNCHANGED <<waits, poisoned, inbox, object, cause>>

(* The closure's guards are dropped before its result is sent. *)
ClosureReturns(m) ==
    /\ RunsCode(m) /\ phase[m] = "closure"
    /\ phase' = [phase EXCEPT ![m] = "idle"]
    /\ serving' = [serving EXCEPT ![m] = Nothing]
    /\ holder' = [c \in Cells |-> IF holder[c] = m THEN Nothing ELSE holder[c]]
    /\ waits' = [waits EXCEPT ![serving[m]] = Nothing]
    /\ UNCHANGED <<poisoned, inbox, object, cause>>

-----------------------------------------------------------------------------
ClientStep(a) ==
    \/ ClientPanics(a)
    \/ \E c \in Cells : LockCell(a, c)
    \/ \E cs \in SUBSET Cells : Unlock(a, cs)
    \/ \E m \in Managers : CallBlocking(a, m)

LoopStep(m) ==
    \/ \E c \in Cells : CallSubscriber(m, c)
    \/ CallbackReturns(m)
    \/ Serve(m)
    \/ ClosureReturns(m)

(* Every thread has ended: the one way to stop. *)
AllEnded == (\A a \in Agents : phase[a] = "dead") /\ UNCHANGED sharedVars

SharedNext ==
    \/ \E a \in Agents : ClientStep(a) \/ Acquired(a)
    \/ \E m \in Managers : LoopStep(m)
    \/ AllEnded

SharedSpec == SharedInit /\ [][SharedNext]_sharedVars

(* Client code comes to its end: a callback or closure returns, a thread's *)
(* own code drops all guards.                                              *)
Ends(a) ==
    \/ phase[a] = "idle" /\ Unlock(a, Guards(a))
    \/ a \in Managers /\ (CallbackReturns(a) \/ ClosureReturns(a))

(* Client code always comes to its end, loops get round to their channel,  *)
(* and a Mutex that is free again and again is got in the end.             *)
SharedFairness ==
    /\ \A a \in Agents : SF_sharedVars(Acquired(a)) /\ SF_sharedVars(Ends(a))
    /\ \A m \in Managers : SF_sharedVars(Serve(m))

SharedFairSpec == SharedSpec /\ SharedFairness

-----------------------------------------------------------------------------
(* Properties. *)

Blocks(b, a) ==
    \/ waits[a] \in Managers /\ b = waits[a]
    \/ waits[a] \in Cells /\ b = holder[waits[a]]

(* A set of threads each of which waits for one of the set. *)
Stuck(S) == S # {} /\ \A a \in S : \E b \in S : Blocks(b, a)

(* With the discipline that a thread waits only for managers and cells     *)
(* ranked above all it occupies, where a manager ranks below its own       *)
(* subscribers, no set of threads is ever stuck: the locks the wrappers    *)
(* take and the calls clients make do not close a circle.                  *)
NoCircularWait == \A S \in SUBSET Agents : ~Stuck(S)

(* ... and a RefCell is never found borrowed: the guard of `process` and   *)
(* `init` is dropped with the callback, before any other code may want it. *)
NoBorrowPanic == \A a \in Agents : cause[a] # "borrow"

(* ... and whoever waits is released: by the lock, the answer, or an error *)
(* when the manager dies, be it of a poisoned Mutex.                       *)
WaitsEnd == \A a \in Agents : waits[a] # Nothing ~> waits[a] = Nothing
=============================================================================
