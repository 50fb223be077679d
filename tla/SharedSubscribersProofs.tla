----------------------- MODULE SharedSubscribersProofs -----------------------
(***************************************************************************)
(* Who waits for whom among threads that share wrapped subscribers, proved *)
(* for any number of managers, workers and cells: under the discipline of  *)
(* waiting upwards there is no deadlock, and no RefCell is found borrowed. *)
(***************************************************************************)
EXTENDS SharedSubscribers, FiniteSetTheorems, WellFoundedInduction, TLAPS

-----------------------------------------------------------------------------
(* The inductive invariant. *)

(* Outside of a callback the wrapper holds nothing on the client's behalf. *)
ObjectOnlyInCallback == \A m \in Managers : phase[m] # "process" => object[m] = Nothing

(* Who waits, waits for something above its guards and, on the thread of a *)
(* loop, above its manager.                                                *)
WaitsUpwards ==
    \A a \in Agents : waits[a] # Nothing =>
        \A y \in Guards(a) \cup ({a} \cap Managers) : Rank[y] < Rank[waits[a]]

(* A RefCell is borrowed only by the manager it is registered with. *)
BorrowedAtHome ==
    \A c \in Cells : Kind[c] = "RefCell" /\ holder[c] # Nothing =>
        holder[c] \in Managers /\ c \in Registered[holder[c]]

(* The only cells anybody waits for are Mutexes. *)
WaitsForMutex == \A a \in Agents : waits[a] \in Cells => Kind[waits[a]] = "Mutex"

SharedInv ==
    /\ SharedTypeOK
    /\ ObjectOnlyInCallback
    /\ WaitsUpwards
    /\ WaitsForMutex
    /\ BorrowedAtHome
    /\ NoBorrowPanic

-----------------------------------------------------------------------------
(* Types. *)

(* A panic keeps the types. *)
LEMMA DieType ==
    ASSUME SharedTypeOK, NEW a \in Agents, NEW why \in {"client", "borrow", "poison"}, Die(a, why)
    PROVE  SharedTypeOK'
<1>1. /\ phase' \in [Agents -> {"idle", "process", "closure", "dead"}]
      /\ cause' \in [Agents -> {"none", "client", "borrow", "poison"}]
  BY DEF SharedTypeOK, Die
<1>2. holder' \in [Cells -> Agents \cup {Nothing}] /\ poisoned' \in SUBSET Cells
  BY DEF SharedTypeOK, Die, Guards
<1>3. waits' \in [Agents -> Resources \cup {Nothing}]
  BY DEF SharedTypeOK, Die
<1>4. inbox' \in [Managers -> Seq(Agents)]
  BY DEF SharedTypeOK, Die
<1>5. serving' \in [Managers -> Agents \cup {Nothing}] /\ object' \in [Managers -> Cells \cup {Nothing}]
  BY DEF SharedTypeOK, Die
<1> QED
  BY <1>1, <1>2, <1>3, <1>4, <1>5 DEF SharedTypeOK

(* Entering a cell keeps the types. *)
LEMMA EnterType ==
    ASSUME SharedTypeOK, NEW a \in Agents, NEW c \in Cells, NEW callback \in BOOLEAN,
           callback => a \in Managers, Enter(a, c, callback)
    PROVE  SharedTypeOK'
<1>1. CASE Kind[c] = "RefCell" /\ holder[c] # Nothing
  BY <1>1, DieType DEF Enter
<1>2. CASE ~(Kind[c] = "RefCell" /\ holder[c] # Nothing)
  <2>1. phase' \in [Agents -> {"idle", "process", "closure", "dead"}]
    BY <1>2 DEF Enter, SharedTypeOK
  <2>2. object' \in [Managers -> Cells \cup {Nothing}]
    BY <1>2 DEF Enter, SharedTypeOK
  <2>3. waits' \in [Agents -> Resources \cup {Nothing}]
    <3>1. (IF Kind[c] = "Mutex" THEN c ELSE waits[a]) \in Resources \cup {Nothing}
      BY DEF SharedTypeOK, Resources
    <3> QED
      BY <1>2, <3>1 DEF Enter, SharedTypeOK
  <2>4. holder' \in [Cells -> Agents \cup {Nothing}]
    <3>1. (IF Kind[c] = "RefCell" THEN a ELSE holder[c]) \in Agents \cup {Nothing}
      BY DEF SharedTypeOK
    <3> QED
      BY <1>2, <3>1 DEF Enter, SharedTypeOK
  <2> QED
    BY <1>2, <2>1, <2>2, <2>3, <2>4 DEF Enter, SharedTypeOK
<1> QED
  BY <1>1, <1>2

(* Every step keeps the types. *)
LEMMA NextSharedTypeOK ==
    ASSUME SharedTypeOK, [SharedNext]_sharedVars
    PROVE  SharedTypeOK'
<1>0. \A m \in Managers : m \in Agents /\ m \in Resources
  BY DEF Agents, Resources
<1>1. CASE UNCHANGED sharedVars
  BY <1>1 DEF sharedVars, SharedTypeOK
<1>2. ASSUME NEW a \in Agents, ClientPanics(a) PROVE SharedTypeOK'
  BY <1>2, DieType DEF ClientPanics
<1>3. ASSUME NEW a \in Agents, NEW c \in Cells, LockCell(a, c) PROVE SharedTypeOK'
  BY <1>3, EnterType DEF LockCell
<1>4. ASSUME NEW a \in Agents, NEW cs \in SUBSET Cells, Unlock(a, cs) PROVE SharedTypeOK'
  BY <1>4 DEF Unlock, SharedTypeOK
<1>5. ASSUME NEW a \in Agents, NEW m \in Managers, CallBlocking(a, m) PROVE SharedTypeOK'
  <2>1. waits' \in [Agents -> Resources \cup {Nothing}]
    BY <1>0, <1>5 DEF CallBlocking, SharedTypeOK
  <2>2. inbox' \in [Managers -> Seq(Agents)]
    <3>1. Append(inbox[m], a) \in Seq(Agents)
      BY DEF SharedTypeOK
    <3> QED
      BY <1>5, <3>1 DEF CallBlocking, SharedTypeOK
  <2> QED
    BY <1>5, <2>1, <2>2 DEF CallBlocking, SharedTypeOK
<1>6. ASSUME NEW a \in Agents, Acquired(a) PROVE SharedTypeOK'
  <2>1. PICK c \in Cells : /\ waits[a] = c
                           /\ IF c \in poisoned
                              THEN Die(a, "poison")
                              ELSE /\ waits' = [waits EXCEPT ![a] = Nothing]
                                   /\ holder' = [holder EXCEPT ![c] = a]
                                   /\ UNCHANGED <<phase, poisoned, inbox, serving, object, cause>>
    BY <1>6 DEF Acquired
  <2>2. CASE c \in poisoned
    BY <2>1, <2>2, DieType
  <2>3. CASE c \notin poisoned
    BY <2>1, <2>3 DEF SharedTypeOK
  <2> QED
    BY <2>2, <2>3
<1>7. ASSUME NEW m \in Managers, NEW c \in Cells, CallSubscriber(m, c) PROVE SharedTypeOK'
  BY <1>0, <1>7, EnterType DEF CallSubscriber
<1>8. ASSUME NEW m \in Managers, CallbackReturns(m) PROVE SharedTypeOK'
  BY <1>0, <1>8 DEF CallbackReturns, SharedTypeOK
<1>9. ASSUME NEW m \in Managers, Serve(m) PROVE SharedTypeOK'
  <2>1. inbox[m] \in Seq(Agents) /\ inbox[m] # << >>
    BY <1>9 DEF Serve, SharedTypeOK
  <2>2. Head(inbox[m]) \in Agents /\ Tail(inbox[m]) \in Seq(Agents)
    BY <2>1
  <2> QED
    BY <1>0, <1>9, <2>2 DEF Serve, SharedTypeOK
<1>10. ASSUME NEW m \in Managers, ClosureReturns(m) PROVE SharedTypeOK'
  BY <1>0, <1>10 DEF ClosureReturns, SharedTypeOK
<1> QED
  BY <1>1, <1>2, <1>3, <1>4, <1>5, <1>6, <1>7, <1>8, <1>9, <1>10
     DEF SharedNext, ClientStep, LoopStep, AllEnded

-----------------------------------------------------------------------------
(* The steps, by what they do to guards and waiting. *)

(* A manager is a thread, and something one can wait for. *)
LEMMA ManagersAreAgents == \A m \in Managers : m \in Agents /\ m \in Resources /\ m # Nothing
BY SharedAssumption DEF Agents, Resources

(* A cell is something one can wait for. *)
LEMMA CellsAreResources == \A c \in Cells : c \in Resources /\ c # Nothing
BY SharedAssumption DEF Resources

(* Client code knows of all guards it holds. *)
LEMMA KnowsAllGuards ==
    ASSUME ObjectOnlyInCallback, NEW a \in Agents
    PROVE  KnownGuards(a) = Guards(a)
BY CellsAreResources DEF ObjectOnlyInCallback, KnownGuards, Guards

(* Every step keeps the callback's object for the time of the callback. *)
LEMMA NextObjectOnlyInCallback ==
    ASSUME SharedTypeOK, ObjectOnlyInCallback, [SharedNext]_sharedVars
    PROVE  ObjectOnlyInCallback'
<1>1. ASSUME NEW a \in Agents, NEW why, Die(a, why)
      PROVE  ObjectOnlyInCallback'
  BY <1>1 DEF Die, ObjectOnlyInCallback, SharedTypeOK, Agents
<1>2. ASSUME NEW a \in Agents, NEW c \in Cells, NEW callback \in BOOLEAN, Enter(a, c, callback)
      PROVE  ObjectOnlyInCallback'
  <2>1. CASE Kind[c] = "RefCell" /\ holder[c] # Nothing
    BY <1>1, <1>2, <2>1 DEF Enter
  <2>2. CASE ~(Kind[c] = "RefCell" /\ holder[c] # Nothing) /\ callback
    BY <1>2, <2>2 DEF Enter, ObjectOnlyInCallback, SharedTypeOK, Agents
  <2>3. CASE ~(Kind[c] = "RefCell" /\ holder[c] # Nothing) /\ ~callback
    BY <1>2, <2>3 DEF Enter, ObjectOnlyInCallback, SharedTypeOK, Agents
  <2> QED
    BY <2>1, <2>2, <2>3
<1>3. CASE UNCHANGED <<phase, object>>
  BY <1>3 DEF ObjectOnlyInCallback
<1>4. ASSUME NEW m \in Managers, CallbackReturns(m)
      PROVE  ObjectOnlyInCallback'
  BY <1>4 DEF CallbackReturns, ObjectOnlyInCallback, SharedTypeOK, Agents
<1>5. ASSUME NEW m \in Managers, Serve(m) \/ ClosureReturns(m)
      PROVE  ObjectOnlyInCallback'
  BY <1>5 DEF Serve, ClosureReturns, ObjectOnlyInCallback, SharedTypeOK, Agents
<1>6. ASSUME NEW a \in Agents, ClientStep(a) \/ Acquired(a)
      PROVE  ObjectOnlyInCallback'
  BY <1>1, <1>2, <1>3, <1>6 DEF ClientStep, Acquired, ClientPanics, LockCell, Unlock, CallBlocking
<1>7. ASSUME NEW m \in Managers, LoopStep(m)
      PROVE  ObjectOnlyInCallback'
  BY <1>2, <1>4, <1>5, <1>7, ManagersAreAgents DEF LoopStep, CallSubscriber
<1> QED
  BY <1>3, <1>6, <1>7 DEF SharedNext, AllEnded, sharedVars

(* Giving up guards, and no longer waiting, keep the order. *)
LEMMA LessIsUpwards ==
    ASSUME WaitsUpwards,
           \A a \in Agents : waits'[a] = Nothing \/ (waits'[a] = waits[a] /\ Guards(a)' \subseteq Guards(a))
    PROVE  WaitsUpwards'
BY DEF WaitsUpwards

(* A panic gives up resources, so waits still go upwards. *)
LEMMA DieUpwards ==
    ASSUME SharedTypeOK, WaitsUpwards, NEW a \in Agents, NEW why, Die(a, why)
    PROVE  WaitsUpwards'
<1>1. \A b \in Agents : waits'[b] = Nothing \/ waits'[b] = waits[b]
  BY DEF Die
<1>2. \A b \in Agents : Guards(b)' \subseteq Guards(b)
  BY SharedAssumption DEF Die, Guards, Resources
<1> QED
  BY <1>1, <1>2, LessIsUpwards

(* Entering a cell that ranks above all that is occupied. *)
LEMMA EnterUpwards ==
    ASSUME SharedTypeOK, WaitsUpwards, NEW a \in Agents, NEW c \in Cells, NEW callback \in BOOLEAN,
           Enter(a, c, callback), waits[a] = Nothing,
           \A y \in Guards(a) \cup ({a} \cap Managers) : Rank[y] < Rank[c]
    PROVE  WaitsUpwards'
<1>1. CASE Kind[c] = "RefCell" /\ holder[c] # Nothing
  BY <1>1, DieUpwards DEF Enter
<1>2. CASE Kind[c] = "RefCell" /\ holder[c] = Nothing
  <2>1. waits' = waits /\ \A d \in Cells : holder'[d] = IF d = c THEN a ELSE holder[d]
    BY <1>2 DEF Enter, SharedTypeOK
  <2>2. \A b \in Agents : b = a \/ Guards(b)' \subseteq Guards(b)
    BY <2>1 DEF Guards
  <2> QED
    BY <2>1, <2>2, LessIsUpwards
<1>3. CASE Kind[c] # "RefCell"
  <2>1. holder' = holder /\ \A b \in Agents \ {a} : waits'[b] = waits[b]
    BY <1>3 DEF Enter, SharedTypeOK
  <2>2. waits'[a] \in {c, Nothing}
    BY <1>3 DEF Enter, SharedTypeOK
  <2>3. \A b : Guards(b)' = Guards(b)
    BY <2>1 DEF Guards
  <2> QED
    BY <2>1, <2>2, <2>3 DEF WaitsUpwards
<1> QED
  BY <1>1, <1>2, <1>3

(* Every step keeps the waits going upwards. *)
LEMMA NextWaitsUpwards ==
    ASSUME Ordered, SharedTypeOK, ObjectOnlyInCallback, WaitsUpwards, [SharedNext]_sharedVars
    PROVE  WaitsUpwards'
<1>0. \A a \in Agents : KnownGuards(a) = Guards(a)
  BY KnowsAllGuards
<1>1. CASE UNCHANGED <<waits, holder>>
  BY <1>1 DEF WaitsUpwards, Guards
<1>2. ASSUME NEW a \in Agents, ClientPanics(a) PROVE WaitsUpwards'
  BY <1>2, DieUpwards DEF ClientPanics
<1>3. ASSUME NEW a \in Agents, NEW c \in Cells, LockCell(a, c) PROVE WaitsUpwards'
  <2>1. \A y \in Guards(a) \cup ({a} \cap Managers) : Rank[y] < Rank[c]
    BY <1>0, <1>3 DEF LockCell, MayWaitFor, Occupies
  <2> QED
    BY <1>3, <2>1, EnterUpwards DEF LockCell, RunsCode
<1>4. ASSUME NEW a \in Agents, NEW cs \in SUBSET Cells, Unlock(a, cs) PROVE WaitsUpwards'
  <2>1. waits' = waits /\ \A b \in Agents : Guards(b)' \subseteq Guards(b)
    BY <1>4, SharedAssumption DEF Unlock, Guards
  <2> QED
    BY <2>1, LessIsUpwards
<1>5. ASSUME NEW a \in Agents, NEW m \in Managers, CallBlocking(a, m) PROVE WaitsUpwards'
  <2>1. \A y \in Guards(a) \cup ({a} \cap Managers) : Rank[y] < Rank[m]
    BY <1>0, <1>5 DEF CallBlocking, MayWaitFor, Occupies
  <2>2. \A b \in Agents : waits'[b] = IF b = a THEN m ELSE waits[b]
    BY <1>5 DEF CallBlocking, SharedTypeOK
  <2>3. \A b : Guards(b)' = Guards(b)
    BY <1>5 DEF CallBlocking, Guards
  <2> QED
    BY <2>1, <2>2, <2>3 DEF WaitsUpwards
<1>6. ASSUME NEW a \in Agents, Acquired(a) PROVE WaitsUpwards'
  <2>1. PICK c \in Cells : /\ waits[a] = c
                           /\ IF c \in poisoned
                              THEN Die(a, "poison")
                              ELSE /\ waits' = [waits EXCEPT ![a] = Nothing]
                                   /\ holder' = [holder EXCEPT ![c] = a]
                                   /\ UNCHANGED <<phase, poisoned, inbox, serving, object, cause>>
    BY <1>6 DEF Acquired
  <2>2. CASE c \in poisoned
    BY <2>1, <2>2, DieUpwards
  <2>3. CASE c \notin poisoned
    <3>1. waits'[a] = Nothing /\ \A b \in Agents \ {a} : waits'[b] = waits[b]
      BY <2>1, <2>3 DEF SharedTypeOK
    <3>2. \A b \in Agents \ {a} : Guards(b)' \subseteq Guards(b)
      BY <2>1, <2>3 DEF SharedTypeOK, Guards
    <3> QED
      BY <3>1, <3>2, LessIsUpwards
  <2> QED
    BY <2>2, <2>3
<1>7. ASSUME NEW m \in Managers, NEW c \in Cells, CallSubscriber(m, c) PROVE WaitsUpwards'
  <2>1. Guards(m) = {} /\ Rank[m] < Rank[c]
    BY <1>0, <1>7, ManagersAreAgents, SharedAssumption DEF CallSubscriber
  <2>2. \A y \in Guards(m) \cup ({m} \cap Managers) : Rank[y] < Rank[c]
    BY <2>1
  <2> QED
    BY <1>7, <2>2, ManagersAreAgents, EnterUpwards DEF CallSubscriber, RunsCode
<1>8. ASSUME NEW m \in Managers, CallbackReturns(m) \/ ClosureReturns(m) PROVE WaitsUpwards'
  <2>1. \A b \in Agents : waits'[b] = Nothing \/ waits'[b] = waits[b]
    BY <1>8 DEF CallbackReturns, ClosureReturns, SharedTypeOK
  <2>2. \A b \in Agents : Guards(b)' \subseteq Guards(b)
    BY <1>8, SharedAssumption DEF CallbackReturns, ClosureReturns, Guards
  <2> QED
    BY <2>1, <2>2, LessIsUpwards
<1>9. ASSUME NEW a \in Agents, ClientStep(a) PROVE WaitsUpwards'
  BY <1>2, <1>3, <1>4, <1>5, <1>9 DEF ClientStep
<1>10. ASSUME NEW m \in Managers, LoopStep(m) PROVE WaitsUpwards'
  BY <1>1, <1>7, <1>8, <1>10 DEF LoopStep, Serve
<1> QED
  BY <1>1, <1>6, <1>9, <1>10 DEF SharedNext, AllEnded, sharedVars

(* A cell is only waited for if it is a Mutex. *)
LEMMA NextWaitsForMutex ==
    ASSUME SharedTypeOK, WaitsForMutex, [SharedNext]_sharedVars
    PROVE  WaitsForMutex'
<1>0. \A m \in Managers : m \notin Cells
  BY SharedAssumption DEF Agents
<1>1. ASSUME \A b \in Agents : waits'[b] = Nothing \/ waits'[b] = waits[b] \/ waits'[b] \in Managers
      PROVE  WaitsForMutex'
  BY <1>0, <1>1, CellsAreResources DEF WaitsForMutex
<1>2. ASSUME NEW a \in Agents, NEW why, Die(a, why) PROVE WaitsForMutex'
  BY <1>1, <1>2 DEF Die
<1>3. ASSUME NEW a \in Agents, NEW c \in Cells, NEW callback \in BOOLEAN, Enter(a, c, callback)
      PROVE  WaitsForMutex'
  <2>1. CASE Kind[c] = "RefCell" /\ holder[c] # Nothing
    BY <1>2, <1>3, <2>1 DEF Enter
  <2>2. CASE ~(Kind[c] = "RefCell" /\ holder[c] # Nothing)
    BY <1>3, <2>2 DEF Enter, SharedTypeOK, WaitsForMutex
  <2> QED
    BY <2>1, <2>2
<1>4. ASSUME NEW a \in Agents, NEW m \in Managers, CallBlocking(a, m) PROVE WaitsForMutex'
  BY <1>1, <1>4 DEF CallBlocking, SharedTypeOK
<1>5. ASSUME NEW a \in Agents, Acquired(a) PROVE WaitsForMutex'
  BY <1>1, <1>2, <1>5 DEF Acquired, SharedTypeOK
<1>6. ASSUME NEW a \in Agents, ClientStep(a) PROVE WaitsForMutex'
  BY <1>1, <1>2, <1>3, <1>4, <1>6 DEF ClientStep, ClientPanics, LockCell, Unlock
<1>7. ASSUME NEW m \in Managers, LoopStep(m) PROVE WaitsForMutex'
  <2>1. CASE ClosureReturns(m)
    BY <1>1, <2>1 DEF ClosureReturns, SharedTypeOK
  <2> QED
    BY <1>1, <1>3, <1>7, <2>1, ManagersAreAgents DEF LoopStep, CallSubscriber, CallbackReturns, Serve
<1> QED
  BY <1>1, <1>5, <1>6, <1>7 DEF SharedNext, AllEnded, sharedVars

-----------------------------------------------------------------------------
(* RefCells. *)

(* Where nobody takes a guard of a RefCell and nobody dies of a borrow.    *)
LEMMA LessIsBorrowed ==
    ASSUME BorrowedAtHome, NoBorrowPanic,
           \A c \in Cells : Kind[c] = "RefCell" => holder'[c] \in {Nothing, holder[c]},
           \A a \in Agents : cause'[a] # "borrow" \/ cause'[a] = cause[a]
    PROVE  BorrowedAtHome' /\ NoBorrowPanic'
BY DEF BorrowedAtHome, NoBorrowPanic

(* A panic ends borrows and starts none. *)
LEMMA DieBorrowed ==
    ASSUME SharedTypeOK, BorrowedAtHome, NoBorrowPanic,
           NEW a \in Agents, NEW why, why # "borrow", Die(a, why)
    PROVE  BorrowedAtHome' /\ NoBorrowPanic'
<1>1. \A c \in Cells : holder'[c] \in {Nothing, holder[c]}
  BY DEF Die
<1>2. \A b \in Agents : cause'[b] # "borrow" \/ cause'[b] = cause[b]
  BY DEF Die, SharedTypeOK
<1> QED
  BY <1>1, <1>2, LessIsBorrowed

(* A thread that enters a RefCell of its own, and does not hold it, finds  *)
(* it free: nobody else can have it.                                       *)
LEMMA EnterBorrowed ==
    ASSUME SharedTypeOK, BorrowedAtHome, NoBorrowPanic,
           NEW a \in Agents, NEW c \in Cells, NEW callback \in BOOLEAN, Enter(a, c, callback),
           Kind[c] = "RefCell" => a \in Managers /\ c \in Registered[a],
           c \notin Guards(a)
    PROVE  BorrowedAtHome' /\ NoBorrowPanic'
<1>1. ~(Kind[c] = "RefCell" /\ holder[c] # Nothing)
  <2> SUFFICES ASSUME Kind[c] = "RefCell", holder[c] # Nothing
               PROVE  FALSE
    OBVIOUS
  <2>1. holder[c] \in Managers /\ c \in Registered[holder[c]]
    BY DEF BorrowedAtHome
  <2>2. holder[c] = a
    BY <2>1, SharedAssumption
  <2> QED
    BY <2>2 DEF Guards
<1>2. cause' = cause /\ \A d \in Cells : holder'[d] = IF d = c /\ Kind[c] = "RefCell" THEN a ELSE holder[d]
  BY <1>1 DEF Enter, SharedTypeOK
<1> QED
  BY <1>2 DEF BorrowedAtHome, NoBorrowPanic

(* Every step keeps borrowed RefCells with their manager, and no borrow    *)
(* fails.                                                                  *)
LEMMA NextBorrowed ==
    ASSUME Ordered, SharedInv, [SharedNext]_sharedVars
    PROVE  BorrowedAtHome' /\ NoBorrowPanic'
<1> USE DEF SharedInv
<1>0. \A a \in Agents : KnownGuards(a) = Guards(a)
  BY KnowsAllGuards
<1>1. CASE UNCHANGED <<holder, cause>>
  BY <1>1 DEF BorrowedAtHome, NoBorrowPanic
<1>2. ASSUME NEW a \in Agents, ClientPanics(a) PROVE BorrowedAtHome' /\ NoBorrowPanic'
  BY <1>2, DieBorrowed DEF ClientPanics
<1>3. ASSUME NEW a \in Agents, NEW c \in Cells, LockCell(a, c) PROVE BorrowedAtHome' /\ NoBorrowPanic'
  <2>1. c \notin Guards(a)
    <3>1. Rank[c] \in Nat
      BY CellsAreResources, SharedAssumption
    <3>2. c \in Guards(a) => Rank[c] < Rank[c]
      BY <1>0, <1>3 DEF LockCell, MayWaitFor, Occupies
    <3> QED
      BY <3>1, <3>2
  <2> QED
    BY <1>3, <2>1, EnterBorrowed DEF LockCell
<1>4. ASSUME NEW a \in Agents, NEW cs \in SUBSET Cells, Unlock(a, cs) PROVE BorrowedAtHome' /\ NoBorrowPanic'
  BY <1>4, LessIsBorrowed DEF Unlock
<1>5. ASSUME NEW a \in Agents, Acquired(a) PROVE BorrowedAtHome' /\ NoBorrowPanic'
  <2>1. PICK c \in Cells : /\ waits[a] = c
                           /\ IF c \in poisoned
                              THEN Die(a, "poison")
                              ELSE /\ waits' = [waits EXCEPT ![a] = Nothing]
                                   /\ holder' = [holder EXCEPT ![c] = a]
                                   /\ UNCHANGED <<phase, poisoned, inbox, serving, object, cause>>
    BY <1>5 DEF Acquired
  <2>2. CASE c \in poisoned
    BY <2>1, <2>2, DieBorrowed
  <2>3. CASE c \notin poisoned
    <3>1. Kind[c] = "Mutex"
      BY <2>1 DEF WaitsForMutex
    <3>2. \A d \in Cells : Kind[d] = "RefCell" => holder'[d] = holder[d]
      BY <2>1, <2>3, <3>1 DEF SharedTypeOK
    <3>3. cause' = cause
      BY <2>1, <2>3
    <3> QED
      BY <3>2, <3>3 DEF BorrowedAtHome, NoBorrowPanic
  <2> QED
    BY <2>2, <2>3
<1>6. ASSUME NEW m \in Managers, NEW c \in Cells, CallSubscriber(m, c) PROVE BorrowedAtHome' /\ NoBorrowPanic'
  BY <1>0, <1>6, ManagersAreAgents, EnterBorrowed DEF CallSubscriber
<1>7. ASSUME NEW m \in Managers, CallbackReturns(m) \/ ClosureReturns(m) PROVE BorrowedAtHome' /\ NoBorrowPanic'
  BY <1>7, LessIsBorrowed DEF CallbackReturns, ClosureReturns
<1>8. ASSUME NEW a \in Agents, ClientStep(a) PROVE BorrowedAtHome' /\ NoBorrowPanic'
  BY <1>1, <1>2, <1>3, <1>4, <1>8 DEF ClientStep, CallBlocking
<1>9. ASSUME NEW m \in Managers, LoopStep(m) PROVE BorrowedAtHome' /\ NoBorrowPanic'
  BY <1>1, <1>6, <1>7, <1>9 DEF LoopStep, Serve
<1> QED
  BY <1>1, <1>5, <1>8, <1>9 DEF SharedNext, AllEnded, sharedVars

-----------------------------------------------------------------------------
(* The theorems. *)

(* A finite set has an element with the largest value. *)
LEMMA Largest ==
    ASSUME NEW S, IsFiniteSet(S), S # {}, NEW f \in [S -> Nat]
    PROVE  \E m \in S : \A x \in S : f[x] <= f[m]
<1> DEFINE Peak(U) == \E m \in U : \A x \in U : f[x] <= f[m]
           Without == {U \in SUBSET S : U # {} /\ ~Peak(U)}
<1>1. SUFFICES ASSUME Without # {} PROVE FALSE
  <2>1. S \notin Without
    BY <1>1
  <2> QED
    BY <2>1
<1>2. IsWellFoundedOn(StrictSubsetOrdering(S), SUBSET S)
  BY FS_StrictSubsetOrderingWellFounded, FS_FiniteSubsetsOfFinite
<1>3. PICK U \in Without : \A V \in Without : <<V, U>> \notin StrictSubsetOrdering(S)
  <2> HIDE DEF Without
  <2>1. Without \subseteq SUBSET S
    BY DEF Without
  <2> QED
    BY <1>1, <1>2, <2>1, WFMin
<1>4. PICK x \in U : TRUE
  OBVIOUS
<1>5. <<U \ {x}, U>> \in StrictSubsetOrdering(S)
  BY <1>4 DEF StrictSubsetOrdering
<1>6. U \ {x} \notin Without
  BY <1>3, <1>5
<1>7. \A y \in U : f[y] \in Nat
  OBVIOUS
<1>8. CASE U \ {x} = {}
  BY <1>4, <1>7, <1>8
<1>9. CASE U \ {x} # {}
  <2>1. PICK m \in U \ {x} : \A y \in U \ {x} : f[y] <= f[m]
    BY <1>6, <1>9
  <2>2. CASE f[x] <= f[m]
    BY <1>4, <1>7, <2>1, <2>2
  <2>3. CASE f[m] <= f[x]
    <3>1. \A y \in U : f[y] <= f[x]
      BY <1>4, <1>7, <2>1, <2>3
    <3> QED
      BY <1>4, <3>1
  <2> QED
    BY <1>7, <1>4, <2>1, <2>2, <2>3
<1> QED
  BY <1>8, <1>9

(* The types of the wrappers' state, whatever order clients keep. *)
THEOREM SharedTypes == SharedSpec => []SharedTypeOK
<1>1. SharedInit => SharedTypeOK
  BY DEF SharedInit, SharedTypeOK
<1> QED
  BY <1>1, NextSharedTypeOK, PTL DEF SharedSpec

(* With clients that wait upwards, what everybody waits for ranks above    *)
(* all they keep from others.                                              *)
THEOREM SharedInvariant ==
    ASSUME Ordered
    PROVE  SharedSpec => []SharedInv
<1>1. SharedInit => SharedInv
  <2> SUFFICES ASSUME SharedInit PROVE SharedInv
    OBVIOUS
  <2>1. SharedTypeOK
    BY DEF SharedInit, SharedTypeOK
  <2>2. ObjectOnlyInCallback /\ WaitsUpwards /\ WaitsForMutex /\ BorrowedAtHome /\ NoBorrowPanic
    BY CellsAreResources DEF SharedInit, ObjectOnlyInCallback, WaitsUpwards, WaitsForMutex, BorrowedAtHome,
       NoBorrowPanic
  <2> QED
    BY <2>1, <2>2 DEF SharedInv
<1>2. SharedInv /\ [SharedNext]_sharedVars => SharedInv'
  BY NextSharedTypeOK, NextObjectOnlyInCallback, NextWaitsUpwards, NextWaitsForMutex, NextBorrowed
     DEF SharedInv
<1> QED
  BY <1>1, <1>2, PTL DEF SharedSpec

(* No set of threads is ever stuck in locks and blocking calls, if clients *)
(* wait upwards: of the set, look at one that waits for the highest; who   *)
(* it waits for waits for something higher still.                          *)
THEOREM NoDeadlock ==
    ASSUME Ordered
    PROVE  SharedSpec => []NoCircularWait
<1>1. SharedInv => NoCircularWait
  <2> SUFFICES ASSUME SharedInv, NEW S \in SUBSET Agents, Stuck(S)
               PROVE  FALSE
    BY DEF NoCircularWait
  <2>1. IsFiniteSet(S) /\ S # {}
    BY FS_Subset, SharedAssumption DEF Stuck
  <2>2. \A a \in S : waits[a] \in Resources
    BY DEF Stuck, Blocks, Resources
  <2> DEFINE f == [a \in S |-> Rank[waits[a]]]
  <2>3. f \in [S -> Nat]
    BY <2>2, SharedAssumption
  <2>4. PICK a \in S : \A x \in S : f[x] <= f[a]
    <3> HIDE DEF f
    <3> QED
      BY <2>1, <2>3, Largest
  <2>5. PICK b \in S : Blocks(b, a)
    BY DEF Stuck
  <2>6. waits[a] \in Guards(b) \cup ({b} \cap Managers)
    BY <2>5 DEF Blocks, Guards
  <2>7. Rank[waits[a]] < Rank[waits[b]]
    <3>1. waits[b] # Nothing
      BY <2>2, SharedAssumption
    <3> QED
      BY <2>6, <3>1 DEF SharedInv, WaitsUpwards
  <2>8. Rank[waits[a]] \in Nat /\ Rank[waits[b]] \in Nat
    BY <2>2, SharedAssumption
  <2> QED
    BY <2>4, <2>7, <2>8
<1> QED
  BY <1>1, SharedInvariant, PTL

(* ... and none of them dies of a RefCell that is already borrowed: the    *)
(* wrapper's borrow_mut finds it free.                                     *)
THEOREM RefCellsAreFree ==
    ASSUME Ordered
    PROVE  SharedSpec => []NoBorrowPanic
<1>1. SharedInv => NoBorrowPanic
  BY DEF SharedInv
<1> QED
  BY <1>1, SharedInvariant, PTL
=============================================================================
