------------------------ MODULE RemoteManagerProofs ------------------------
(***************************************************************************)
(* Proofs about RemoteManager, for any threads and any number of calls:    *)
(* the loop driven through the endpoint takes only steps of EventManager,  *)
(* so what is proved of these holds of it, and what the endpoint tells a   *)
(* thread about a subscriber is true.                                      *)
(***************************************************************************)
EXTENDS RemoteManager, EventManagerProofs, FiniteSetTheorems

-----------------------------------------------------------------------------
(* The invariant. *)

(* Between callbacks the manager holds no subscriber. *)
CurrentInCallback == pc \notin {"init", "process"} => current = NoSubscriber

(* An object that was given back went to one thread, and its id is used up. *)
HandedInv ==
    \A id \in SubscriberIds : handed[id] # {} =>
        /\ id \notin subscribers
        /\ id < next_id
        /\ \E t \in Threads : handed[id] = {t}

(* The id a closure is about to report is of a subscriber that is there:   *)
(* no other closure runs meanwhile.                                        *)
AddedInv ==
    added # NoSubscriber =>
        /\ serving # NoMessage
        /\ serving.op = "add"
        /\ added \in subscribers

RemoteInv ==
    /\ RemoteTypeOK
    /\ CallbackAlive
    /\ CurrentInCallback
    /\ MembersIssued
    /\ HandedInv
    /\ AddedInv
    /\ AddedIsInitialized

-----------------------------------------------------------------------------
(* The steps, seen from EventManager. *)

(* Whatever the endpoint makes the manager do is a step of EventManager. *)
LEMMA RemoteStepIsManagerStep ==
    TypeOK /\ CallbackAlive /\ [RemoteNext]_allVars => [Next]_vars
<1> SUFFICES ASSUME TypeOK, CallbackAlive, [RemoteNext]_allVars PROVE [Next]_vars
  OBVIOUS
<1>1. CASE SetSignal
  <2>1. CASE signaled
    BY <1>1, <2>1 DEF SetSignal, vars, TypeOK
  <2>2. CASE ~signaled
    BY <1>1, <2>2 DEF SetSignal, Signal, Next
  <2> QED
    BY <2>1, <2>2
<1>2. ASSUME NEW msg \in Message, SendMessage(msg)
      PROVE  UNCHANGED vars
  BY <1>2 DEF SendMessage
<1>3. ASSUME NEW t \in Threads, WriteEventFd(t)
      PROVE  SetSignal
  BY <1>3 DEF WriteEventFd
<1>4. CASE KickLoop
  BY <1>1, <1>4 DEF KickLoop
<1>5. CASE \/ StoreKeepRunning \/ TakeMessage \/ AddReturns \/ ClosureRemovesNothing
           \/ CheckRunning \/ Exit \/ Joined \/ UNCHANGED allVars
  BY <1>5 DEF StoreKeepRunning, TakeMessage, AddReturns, ClosureRemovesNothing, CheckRunning,
     Exit, Joined, allVars
<1>6. CASE RunLoop \/ DispatchLoop \/ ClosureAdds \/ DrainEnds
  BY <1>6 DEF RunLoop, DispatchLoop, ClosureAdds, DrainEnds, Next, Loop, ClientCalls
<1>7. CASE ClosureRemoves
  <2>1. serving.id \in SubscriberIds
    BY <1>7 DEF ClosureRemoves, RemoveSubscriber, SubscribersRemove, TypeOK, SubscribersTypeOK
  <2> QED
    BY <1>7, <2>1 DEF ClosureRemoves, Next, ClientCalls
<1>8. CASE Callback
  <2>1. CASE InitReturns \/ ProcessReturns
    BY <2>1 DEF Next, ClientCalls
  <2>2. ASSUME pc \in {"init", "process"}, NEW fd \in Fds,
               OpsAdd(current, fd, {In}) \/ OpsRemove(current, fd)
        PROVE  Next
    <3>1. current \in SubscriberIds
      BY <2>2 DEF CallbackAlive, TypeOK, SubscribersTypeOK
    <3>2. {In} \in SUBSET Maskable
      BY WrapperAssumption
    <3> QED
      BY <2>2, <3>1, <3>2 DEF Next, ClientCalls
  <2> QED
    BY <1>8, <2>1, <2>2 DEF Callback
<1> QED
  BY <1>1, <1>2, <1>3, <1>4, <1>5, <1>6, <1>7, <1>8 DEF RemoteNext, LoopThread

(* A step of the composition is one of these on the tables it talks about. *)
LEMMA RemoteMoves ==
    ASSUME TypeOK, [RemoteNext]_allVars
    PROVE  \/ ClosureAdds
           \/ ClosureRemoves
           \/ /\ UNCHANGED <<subscribersVars, handed>>
              /\ pc' # "init" \/ (pc = "init" /\ current' = current)
<1>1. ASSUME NEW msg \in Message, SendMessage(msg)
      PROVE  UNCHANGED <<vars, handed>>
  BY <1>1 DEF SendMessage
<1>2. ASSUME NEW t \in Threads, WriteEventFd(t)
      PROVE  UNCHANGED <<subscribersVars, loopVars, handed>>
  BY <1>2 DEF WriteEventFd, SetSignal
<1>3. CASE KickLoop
  BY <1>3 DEF KickLoop, SetSignal, loopVars
<1>4. CASE \/ StoreKeepRunning \/ TakeMessage \/ AddReturns \/ ClosureRemovesNothing
           \/ CheckRunning \/ Exit \/ Joined \/ UNCHANGED allVars
  BY <1>4 DEF StoreKeepRunning, TakeMessage, AddReturns, ClosureRemovesNothing, CheckRunning,
     Exit, Joined, allVars, remoteVars, vars, loopVars
<1>5. CASE RunLoop \/ DrainEnds
  BY <1>5 DEF RunLoop, DrainEnds, Run, EndpointCallsDone, remoteVars
<1>6. CASE DispatchLoop
  BY <1>6 DEF DispatchLoop, SkipDiscarded, CallProcess, NoteEndpointEvent, DispatchEnds, AtSlot
<1>7. CASE Callback
  <2>1. UNCHANGED handed
    BY <1>7 DEF Callback, remoteVars
  <2>2. CASE InitReturns \/ ProcessReturns
    BY <2>1, <2>2 DEF InitReturns, ProcessReturns, TypeOK
  <2>3. ASSUME NEW fd \in Fds, OpsAdd(current, fd, {In}) \/ OpsRemove(current, fd)
        PROVE  UNCHANGED <<subscribersVars, loopVars>>
    BY <2>3 DEF OpsAdd, OpsRemove
  <2> QED
    BY <1>7, <2>1, <2>2, <2>3 DEF Callback, loopVars
<1> QED
  BY <1>1, <1>2, <1>3, <1>4, <1>5, <1>6, <1>7 DEF RemoteNext, LoopThread, vars, loopVars

(* No step leaves a subscriber held between callbacks. *)
LEMMA NextCurrentInCallback ==
    TypeOK /\ CurrentInCallback /\ [Next]_vars => CurrentInCallback'
<1> SUFFICES ASSUME TypeOK, CurrentInCallback, [Next]_vars PROVE CurrentInCallback'
  OBVIOUS
<1>1. CASE AddSubscriber \/ InitReturns \/ ProcessReturns \/ Unwind
  BY <1>1 DEF AddSubscriber, InitReturns, ProcessReturns, Unwind, CurrentInCallback
<1>2. CASE Loop
  BY <1>2 DEF Loop, Run, SkipDiscarded, CallProcess, NoteEndpointEvent, Panic, DispatchEnds,
     EndpointCallsDone, AtSlot, CurrentInCallback
<1>3. CASE UNCHANGED loopVars
  BY <1>3 DEF loopVars, CurrentInCallback
<1>4. ASSUME NEW id \in SubscriberIds, RemoveSubscriber(id)
      PROVE  CurrentInCallback'
  BY <1>3, <1>4 DEF RemoveSubscriber
<1>5. ASSUME NEW id \in SubscriberIds, NEW fd \in Fds,
             \/ OpsRemove(id, fd)
             \/ \E events \in SUBSET Maskable : OpsAdd(id, fd, events) \/ OpsModify(id, fd, events)
      PROVE  CurrentInCallback'
  BY <1>3, <1>5 DEF OpsRemove, OpsAdd, OpsModify
<1>6. CASE Signal \/ DescriptorTable \/ UNCHANGED vars
  BY <1>3, <1>6 DEF Signal, DescriptorTable, vars
<1> QED
  BY <1>1, <1>2, <1>4, <1>5, <1>6 DEF Next, ClientCalls

-----------------------------------------------------------------------------
(* Types. *)

(* The fields of a message. *)
LEMMA MessageFields ==
    ASSUME NEW m \in Message
    PROVE  /\ m.from \in Threads
           /\ m.blocking \in BOOLEAN
           /\ m.op = "remove" => m.id \in SubscriberIds
BY DEF Message

(* What an answer may be. *)
LEMMA AnswerKinds ==
    ASSUME NEW id \in SubscriberIds
    PROVE  /\ [result |-> "added", id |-> id] \in Answers
           /\ [result |-> "removed", id |-> id] \in Answers
           /\ [result |-> "InvalidId", id |-> id] \in Answers
           /\ [result |-> "none"] \in Answers
           /\ [result |-> "ChannelSend"] \in Answers
           /\ [result |-> "ChannelRecv"] \in Answers
BY DEF Answers

(* The fields of an answer. *)
LEMMA AnswerFields ==
    ASSUME NEW a \in Answers, a.result = "added"
    PROVE  a.id \in SubscriberIds
BY DEF Answers

(* What a reply does to the threads. *)
LEMMA ReplyTypes ==
    ASSUME RemoteTypeOK, serving # NoMessage, NEW a \in Answers, Reply(a)
    PROVE  /\ serving \in Message
           /\ serving' = NoMessage
           /\ added' = NoSubscriber
           /\ thread' \in [Threads -> {"ready", "sending", "waiting"}]
           /\ answer' \in [Threads -> Answers]
           /\ \A t \in Threads : answer'[t] \in {answer[t], a}
           /\ UNCHANGED <<messages, made, keep_running, owner, stopper>>
<1>1. serving \in Message
  BY DEF RemoteTypeOK
<1>2. thread \in [Threads -> {"ready", "sending", "waiting"}] /\ answer \in [Threads -> Answers]
  BY DEF RemoteTypeOK
<1>3. CASE serving.blocking
  <2>1. answer' = [answer EXCEPT ![serving.from] = a]
    BY <1>3 DEF Reply, Tell
  <2>2. thread' = [thread EXCEPT ![serving.from] = IF thread[serving.from] = "waiting" THEN "ready"
                                                   ELSE thread[serving.from]]
    BY <1>3 DEF Reply, Tell
  <2>3. answer' \in [Threads -> Answers] /\ \A t \in Threads : answer'[t] \in {answer[t], a}
    BY <1>2, <2>1
  <2>4. thread' \in [Threads -> {"ready", "sending", "waiting"}]
    BY <1>2, <2>2
  <2> QED
    BY <1>1, <2>3, <2>4 DEF Reply
<1>4. CASE ~serving.blocking
  BY <1>1, <1>2, <1>4 DEF Reply
<1> QED
  BY <1>3, <1>4

(* Every step keeps the types. *)
LEMMA NextRemoteTypeOK ==
    RemoteTypeOK /\ TypeOK' /\ AddedInv /\ [RemoteNext]_allVars => RemoteTypeOK'
<1> SUFFICES ASSUME RemoteTypeOK, TypeOK', AddedInv, [RemoteNext]_allVars PROVE RemoteTypeOK'
  OBVIOUS
<1>1. ASSUME NEW msg \in Message, SendMessage(msg)
      PROVE  RemoteTypeOK'
  <2>1. msg.from \in Threads
    BY MessageFields
  <2>2. made' \in 0..MaxCalls
    BY <1>1, RemoteAssumption DEF SendMessage, RemoteTypeOK
  <2>3. messages' \in Seq(Message)
    BY <1>1 DEF SendMessage, RemoteTypeOK
  <2>4. thread' \in [Threads -> {"ready", "sending", "waiting"}]
    BY <1>1 DEF SendMessage, RemoteTypeOK
  <2>5. answer' \in [Threads -> Answers]
    <3>1. [result |-> "none"] \in Answers /\ [result |-> "ChannelSend"] \in Answers
      BY DEF Answers
    <3> QED
      BY <1>1, <3>1 DEF SendMessage, RemoteTypeOK
  <2> QED
    BY <1>1, <2>2, <2>3, <2>4, <2>5 DEF SendMessage, RemoteTypeOK
<1>2. ASSUME NEW t \in Threads, WriteEventFd(t)
      PROVE  RemoteTypeOK'
  <2>1. thread' \in [Threads -> {"ready", "sending", "waiting"}]
    BY <1>2 DEF WriteEventFd, RemoteTypeOK
  <2> QED
    BY <1>2, <2>1 DEF WriteEventFd, RemoteTypeOK
<1>3. CASE TakeMessage
  <2>1. messages \in Seq(Message) /\ messages # << >>
    BY <1>3 DEF TakeMessage, RemoteTypeOK
  <2>2. Head(messages) \in Message /\ Tail(messages) \in Seq(Message)
    BY <2>1
  <2> QED
    BY <1>3, <2>2 DEF TakeMessage, RemoteTypeOK
<1>4. CASE ClosureAdds
  <2>1. added' \in Ids
    BY <1>4, SubscribersAssumption DEF ClosureAdds, AddSubscriber, SubscribersAdd, RemoteTypeOK,
       TypeOK, SubscribersTypeOK, Ids, SubscriberIds
  <2> QED
    BY <1>4, <2>1 DEF ClosureAdds, RemoteTypeOK
<1>5. ASSUME NEW a \in Answers, serving # NoMessage, Reply(a),
             handed' \in [SubscriberIds -> SUBSET Threads]
      PROVE  RemoteTypeOK'
  <2>1. /\ serving' = NoMessage
        /\ added' = NoSubscriber
        /\ thread' \in [Threads -> {"ready", "sending", "waiting"}]
        /\ answer' \in [Threads -> Answers]
        /\ UNCHANGED <<messages, made, keep_running, owner, stopper>>
    BY <1>5, ReplyTypes
  <2> QED
    BY <1>5, <2>1 DEF RemoteTypeOK, Ids
<1>6. handed \in [SubscriberIds -> SUBSET Threads]
  BY DEF RemoteTypeOK
<1>7. CASE AddReturns
  <2>1. added \in SubscriberIds
    BY <1>7 DEF AddReturns, RemoteTypeOK, Ids
  <2> QED
    BY <1>5, <1>6, <1>7, <2>1, AnswerKinds DEF AddReturns
<1>8. ASSUME serving # NoMessage, serving.op = "remove"
      PROVE  serving.id \in SubscriberIds /\ serving.from \in Threads
  BY <1>8, MessageFields DEF RemoteTypeOK
<1>9. CASE ClosureRemoves
  <2>1. serving.id \in SubscriberIds /\ serving.from \in Threads /\ serving # NoMessage
    BY <1>8, <1>9 DEF ClosureRemoves
  <2>2. [result |-> "removed", id |-> serving.id] \in Answers
    BY <2>1, AnswerKinds
  <2>3. handed' \in [SubscriberIds -> SUBSET Threads]
    BY <1>6, <1>9, <2>1 DEF ClosureRemoves
  <2> QED
    BY <1>5, <1>9, <2>1, <2>2, <2>3 DEF ClosureRemoves
<1>10. CASE ClosureRemovesNothing
  <2>1. serving.id \in SubscriberIds /\ serving # NoMessage
    BY <1>8, <1>10 DEF ClosureRemovesNothing
  <2>2. [result |-> "InvalidId", id |-> serving.id] \in Answers
    BY <2>1, AnswerKinds
  <2> QED
    BY <1>5, <1>6, <1>10, <2>1, <2>2 DEF ClosureRemovesNothing
<1>11. CASE Exit
  <2>1. [result |-> "ChannelRecv"] \in Answers
    BY DEF Answers
  <2>2. answer' \in [Threads -> Answers]
    BY <1>11, <2>1 DEF Exit, RemoteTypeOK
  <2>3. thread' \in [Threads -> {"ready", "sending", "waiting"}]
    BY <1>11 DEF Exit, RemoteTypeOK
  <2>4. messages' \in Seq(Message)
    BY <1>11 DEF Exit
  <2> QED
    BY <1>11, <2>2, <2>3, <2>4 DEF Exit, RemoteTypeOK
<1>12. CASE StoreKeepRunning \/ KickLoop \/ CheckRunning \/ DrainEnds \/ DispatchLoop
  BY <1>12 DEF StoreKeepRunning, KickLoop, CheckRunning, DrainEnds, DispatchLoop, RemoteTypeOK
<1>13. CASE RunLoop \/ Callback \/ Joined \/ UNCHANGED allVars
  BY <1>13 DEF RunLoop, Callback, Joined, allVars, remoteVars, RemoteTypeOK
<1> QED
  BY <1>1, <1>2, <1>3, <1>4, <1>7, <1>9, <1>10, <1>11, <1>12, <1>13 DEF RemoteNext, LoopThread

-----------------------------------------------------------------------------
(* What was handed back, what is about to be reported, what was told. *)

(* remove_subscriber gives an object to one thread: its id was not handed  *)
(* back before, being in the map.                                          *)
LEMMA NextHandedInv ==
    RemoteTypeOK /\ MembersIssued /\ HandedInv /\ [RemoteNext]_allVars => HandedInv'
<1> SUFFICES ASSUME RemoteTypeOK, MembersIssued, HandedInv, [RemoteNext]_allVars
             PROVE  HandedInv'
  OBVIOUS
<1>1. TypeOK /\ handed \in [SubscriberIds -> SUBSET Threads]
  BY DEF RemoteTypeOK
<1>2. next_id \in Nat /\ SubscriberIds \subseteq Nat
  BY <1>1, SubscribersAssumption DEF TypeOK, SubscribersTypeOK, SubscriberIds
<1>3. CASE ClosureAdds
  <2>1. subscribers' = subscribers \cup {next_id} /\ next_id' = next_id + 1 /\ handed' = handed
    BY <1>3 DEF ClosureAdds, AddSubscriber, SubscribersAdd
  <2>2. ASSUME NEW id \in SubscriberIds, handed'[id] # {}
        PROVE  /\ id \notin subscribers'
               /\ id < next_id'
               /\ \E t \in Threads : handed'[id] = {t}
    <3>1. id \notin subscribers /\ id < next_id /\ \E t \in Threads : handed[id] = {t}
      BY <2>1, <2>2 DEF HandedInv
    <3> QED
      BY <1>2, <2>1, <3>1
  <2> QED
    BY <2>2 DEF HandedInv
<1>4. CASE ClosureRemoves
  <2>1. /\ serving.id \in subscribers
        /\ subscribers' = subscribers \ {serving.id}
        /\ next_id' = next_id
        /\ handed' = [handed EXCEPT ![serving.id] = handed[serving.id] \cup {serving.from}]
    BY <1>4 DEF ClosureRemoves, RemoveSubscriber, SubscribersRemove
  <2>2. serving.id \in SubscriberIds /\ serving.id < next_id
    BY <1>1, <2>1 DEF TypeOK, SubscribersTypeOK, MembersIssued
  <2>3. serving.from \in Threads
    BY <1>4, MessageFields DEF ClosureRemoves, RemoteTypeOK
  <2>4. handed[serving.id] = {}
    BY <2>1, <2>2 DEF HandedInv
  <2>5. \A id \in SubscriberIds :
          handed'[id] = IF id = serving.id THEN {serving.from} ELSE handed[id]
    BY <1>1, <2>1, <2>2, <2>4
  <2>6. ASSUME NEW id \in SubscriberIds, handed'[id] # {}
        PROVE  /\ id \notin subscribers'
               /\ id < next_id'
               /\ \E t \in Threads : handed'[id] = {t}
    <3>1. CASE id = serving.id
      BY <2>1, <2>2, <2>3, <2>5, <3>1
    <3>2. CASE id # serving.id
      <4>1. id \notin subscribers /\ id < next_id /\ \E t \in Threads : handed[id] = {t}
        BY <2>5, <2>6, <3>2 DEF HandedInv
      <4> QED
        BY <2>1, <2>5, <3>2, <4>1
    <3> QED
      BY <3>1, <3>2
  <2> QED
    BY <2>6 DEF HandedInv
<1>5. CASE UNCHANGED <<subscribersVars, handed>>
  BY <1>5 DEF HandedInv, subscribersVars
<1> QED
  BY <1>1, <1>3, <1>4, <1>5, RemoteMoves

(* Between ClosureAdds and AddReturns nothing but the new subscriber's     *)
(* `init` runs.                                                            *)
LEMMA NextAddedInv ==
    RemoteTypeOK /\ AddedInv /\ [RemoteNext]_allVars => AddedInv'
<1> SUFFICES ASSUME RemoteTypeOK, AddedInv, [RemoteNext]_allVars PROVE AddedInv'
  OBVIOUS
<1>1. CASE ClosureAdds
  BY <1>1 DEF ClosureAdds, AddSubscriber, SubscribersAdd, AddedInv
<1>2. CASE AddReturns \/ ClosureRemoves \/ ClosureRemovesNothing
  BY <1>2 DEF AddReturns, ClosureRemoves, ClosureRemovesNothing, Reply, AddedInv
<1>3. CASE TakeMessage
  <2>1. added = NoSubscriber /\ added' = added
    BY <1>3 DEF TakeMessage, AddedInv
  <2> QED
    BY <2>1 DEF AddedInv
<1>4. CASE UNCHANGED <<subscribersVars, serving, added>>
  BY <1>4 DEF AddedInv, subscribersVars
<1>5. ASSUME NEW msg \in Message, SendMessage(msg)
      PROVE  AddedInv'
  BY <1>4, <1>5 DEF SendMessage, vars
<1>6. ASSUME NEW t \in Threads, WriteEventFd(t)
      PROVE  AddedInv'
  BY <1>4, <1>6 DEF WriteEventFd, SetSignal
<1>7. CASE KickLoop \/ StoreKeepRunning \/ CheckRunning \/ Exit \/ DrainEnds
  BY <1>4, <1>7 DEF KickLoop, SetSignal, StoreKeepRunning, CheckRunning, Exit, DrainEnds,
     EndpointCallsDone, vars
<1>8. CASE Joined \/ UNCHANGED allVars
  BY <1>4, <1>8 DEF Joined, allVars, vars, remoteVars
<1>9. CASE RunLoop \/ DispatchLoop \/ Callback
  <2>1. UNCHANGED <<serving, added>>
    BY <1>9 DEF RunLoop, DispatchLoop, Callback, remoteVars
  <2>2. UNCHANGED subscribersVars
    BY <1>9 DEF RunLoop, Run, DispatchLoop, SkipDiscarded, CallProcess, NoteEndpointEvent,
       DispatchEnds, Callback, InitReturns, ProcessReturns, OpsAdd, OpsRemove
  <2> QED
    BY <1>4, <2>1, <2>2
<1> QED
  BY <1>1, <1>2, <1>3, <1>5, <1>6, <1>7, <1>8, <1>9 DEF RemoteNext, LoopThread

(* A thread learns of an id only from AddReturns. *)
LEMMA WhoIsTold ==
    ASSUME RemoteTypeOK, [RemoteNext]_allVars, NEW t \in Threads, answer'[t].result = "added"
    PROVE  \/ answer'[t] = answer[t]
           \/ AddReturns /\ answer'[t].id = added
<1>1. answer \in [Threads -> Answers]
  BY DEF RemoteTypeOK
<1>2. ASSUME NEW msg \in Message, SendMessage(msg)
      PROVE  answer'[t] = answer[t]
  <2>1. \/ answer' = [answer EXCEPT ![msg.from] = [result |-> "ChannelSend"]]
        \/ answer' = [answer EXCEPT ![msg.from] = [result |-> "none"]]
    BY <1>2 DEF SendMessage
  <2>2. [result |-> "ChannelSend"].result # "added" /\ [result |-> "none"].result # "added"
    OBVIOUS
  <2> QED
    BY <1>1, <2>1, <2>2
<1>3. CASE AddReturns
  <2>1. answer'[t] \in {answer[t], [result |-> "added", id |-> added]}
    <3>1. added \in SubscriberIds
      BY <1>3 DEF AddReturns, RemoteTypeOK, Ids
    <3> QED
      BY <1>3, <3>1, AnswerKinds, ReplyTypes DEF AddReturns
  <2> QED
    BY <1>3, <2>1
<1>4. ASSUME serving # NoMessage, serving.op = "remove"
      PROVE  serving.id \in SubscriberIds
  BY <1>4, MessageFields DEF RemoteTypeOK
<1>5. CASE ClosureRemoves
  <2>1. [result |-> "removed", id |-> serving.id] \in Answers
    BY <1>4, <1>5, AnswerKinds DEF ClosureRemoves
  <2>2. answer'[t] \in {answer[t], [result |-> "removed", id |-> serving.id]}
    BY <1>5, <2>1, ReplyTypes DEF ClosureRemoves
  <2> QED
    BY <2>2
<1>6. CASE ClosureRemovesNothing
  <2>1. [result |-> "InvalidId", id |-> serving.id] \in Answers
    BY <1>4, <1>6, AnswerKinds DEF ClosureRemovesNothing
  <2>2. answer'[t] \in {answer[t], [result |-> "InvalidId", id |-> serving.id]}
    BY <1>6, <2>1, ReplyTypes DEF ClosureRemovesNothing
  <2> QED
    BY <2>2
<1>7. CASE Exit
  <2>1. answer'[t] = IF Outstanding(t) THEN [result |-> "ChannelRecv"] ELSE answer[t]
    BY <1>7 DEF Exit
  <2> QED
    BY <2>1
<1>8. ASSUME NEW u \in Threads, WriteEventFd(u)
      PROVE  answer' = answer
  BY <1>8 DEF WriteEventFd
<1>9. CASE \/ TakeMessage \/ ClosureAdds \/ KickLoop \/ StoreKeepRunning \/ CheckRunning
           \/ DrainEnds \/ DispatchLoop
  BY <1>9 DEF TakeMessage, ClosureAdds, KickLoop, StoreKeepRunning, CheckRunning, DrainEnds,
     DispatchLoop
<1>10. CASE RunLoop \/ Callback \/ Joined \/ UNCHANGED allVars
  BY <1>10 DEF RunLoop, Callback, Joined, allVars, remoteVars
<1> QED
  BY <1>2, <1>3, <1>5, <1>6, <1>7, <1>8, <1>9, <1>10 DEF RemoteNext, LoopThread

(* One thread's part of AddedIsInitialized. *)
Initialized(id) ==
    /\ ~(pc = "init" /\ current = id)
    /\ id \in subscribers \/ handed[id] # {}

(* An initialized subscriber is never initialized again, and leaves the    *)
(* map only into a thread's hands.                                         *)
LEMMA StaysInitialized ==
    ASSUME RemoteTypeOK, MembersIssued, HandedInv, [RemoteNext]_allVars,
           NEW id \in SubscriberIds, Initialized(id)
    PROVE  Initialized(id)'
<1>1. TypeOK /\ handed \in [SubscriberIds -> SUBSET Threads]
  BY DEF RemoteTypeOK
<1>2. next_id \in Nat /\ id < next_id
  BY <1>1, SubscribersAssumption DEF Initialized, HandedInv, MembersIssued, TypeOK, SubscribersTypeOK
<1>3. CASE ClosureAdds
  <2>1. subscribers' = subscribers \cup {next_id} /\ current' = next_id /\ handed' = handed
    BY <1>3 DEF ClosureAdds, AddSubscriber, SubscribersAdd
  <2>2. id # next_id
    BY <1>2 DEF SubscriberIds
  <2> QED
    BY <2>1, <2>2 DEF Initialized
<1>4. CASE ClosureRemoves
  <2>1. /\ subscribers' = subscribers \ {serving.id}
        /\ handed' = [handed EXCEPT ![serving.id] = handed[serving.id] \cup {serving.from}]
        /\ UNCHANGED <<pc, current>>
    BY <1>4 DEF ClosureRemoves, RemoveSubscriber, SubscribersRemove, loopVars
  <2>2. handed'[id] = IF id = serving.id THEN handed[id] \cup {serving.from} ELSE handed[id]
    BY <1>1, <2>1
  <2> QED
    BY <2>1, <2>2 DEF Initialized
<1>5. CASE /\ UNCHANGED <<subscribersVars, handed>>
           /\ pc' # "init" \/ (pc = "init" /\ current' = current)
  BY <1>5 DEF Initialized, subscribersVars
<1> QED
  BY <1>1, <1>3, <1>4, <1>5, RemoteMoves

(* No step makes a reported subscriber uninitialized. *)
LEMMA NextAddedIsInitialized ==
    /\ RemoteTypeOK /\ RemoteTypeOK' /\ MembersIssued /\ HandedInv /\ AddedInv
    /\ AddedIsInitialized
    /\ [RemoteNext]_allVars
    => AddedIsInitialized'
<1> SUFFICES ASSUME RemoteTypeOK, RemoteTypeOK', MembersIssued, HandedInv, AddedInv,
                    AddedIsInitialized, [RemoteNext]_allVars,
                    NEW t \in Threads, answer'[t].result = "added"
             PROVE  /\ ~(pc' = "init" /\ current' = answer'[t].id)
                    /\ answer'[t].id \in subscribers' \/ handed'[answer'[t].id] # {}
  BY DEF AddedIsInitialized
<1>1. answer[t] \in Answers
  BY DEF RemoteTypeOK
<1>2. CASE answer'[t] = answer[t]
  <2>1. answer[t].id \in SubscriberIds
    BY <1>1, <1>2, AnswerFields
  <2>2. Initialized(answer[t].id)
    BY <1>2 DEF AddedIsInitialized, Initialized
  <2>3. PICK id \in SubscriberIds : id = answer[t].id
    BY <2>1
  <2>4. Initialized(id)'
    BY <2>2, <2>3, StaysInitialized
  <2> QED
    BY <1>2, <2>3, <2>4 DEF Initialized
<1>3. CASE AddReturns /\ answer'[t].id = added
  <2>1. added \in subscribers /\ pc' = "endpoint" /\ subscribers' = subscribers
    BY <1>3 DEF AddReturns, AddedInv, vars, loopVars, subscribersVars
  <2> QED
    BY <1>3, <2>1 DEF Initialized
<1> QED
  BY <1>2, <1>3, WhoIsTold

-----------------------------------------------------------------------------
(* Theorems. *)

(* A new manager without messages satisfies the invariant. *)
LEMMA InitRemoteInv == RemoteInit => RemoteInv
<1> SUFFICES ASSUME RemoteInit PROVE RemoteInv
  OBVIOUS
<1>1. TypeOK
  BY InitTypes DEF RemoteInit
<1>2. RemoteTypeOK
  <2>1. messages \in Seq(Message) /\ made \in 0..MaxCalls /\ added \in Ids
    BY RemoteAssumption DEF RemoteInit, Ids
  <2>2. [result |-> "none"] \in Answers
    BY DEF Answers
  <2>3. thread \in [Threads -> {"ready", "sending", "waiting"}] /\ answer \in [Threads -> Answers]
    BY <2>2 DEF RemoteInit
  <2>4. handed \in [SubscriberIds -> SUBSET Threads]
    BY DEF RemoteInit
  <2>5. keep_running \in BOOLEAN
    BY DEF RemoteInit
  <2> QED
    BY <1>1, <2>1, <2>3, <2>4, <2>5 DEF RemoteInit, RemoteTypeOK
<1>3. CallbackAlive /\ CurrentInCallback /\ MembersIssued
  BY DEF RemoteInit, Init, SubscribersInit, CallbackAlive, CurrentInCallback, MembersIssued
<1>4. HandedInv /\ AddedInv
  BY DEF RemoteInit, HandedInv, AddedInv
<1>5. AddedIsInitialized
  BY DEF RemoteInit, AddedIsInitialized
<1> QED
  BY <1>2, <1>3, <1>4, <1>5 DEF RemoteInv

(* RemoteManager's steps are EventManager's, its types hold, and what the  *)
(* history says of handed-back and reported subscribers is true.           *)
THEOREM RemoteInvariant == RemoteSpec => [](RemoteInv /\ NoDanglingDispatch)
<1>1. RemoteInit => RemoteInv /\ Init /\ NoDanglingDispatch
  BY InitRemoteInv DEF RemoteInit, Init, WrapperInit, NoDanglingDispatch
<1>2. RemoteInv => TypeOK /\ CallbackAlive
  BY DEF RemoteInv, RemoteTypeOK
<1>3. RemoteInv /\ [RemoteNext]_allVars => [Next]_vars
  BY <1>2, RemoteStepIsManagerStep
<1>4. RemoteInv /\ TypeOK' /\ [RemoteNext]_allVars => RemoteInv'
  <2> SUFFICES ASSUME RemoteInv, TypeOK', [RemoteNext]_allVars PROVE RemoteInv'
    OBVIOUS
  <2>1. /\ RemoteTypeOK /\ CallbackAlive /\ CurrentInCallback /\ MembersIssued /\ HandedInv
        /\ AddedInv /\ AddedIsInitialized /\ TypeOK
    BY DEF RemoteInv, RemoteTypeOK
  <2>2. [Next]_vars
    BY <1>3
  <2>3. RemoteTypeOK'
    BY <2>1, NextRemoteTypeOK
  <2>4. CallbackAlive' /\ CurrentInCallback' /\ MembersIssued'
    BY <2>1, <2>2, NextCallbackAlive, NextCurrentInCallback, NextMembersIssued
  <2>5. HandedInv' /\ AddedInv' /\ AddedIsInitialized'
    BY <2>1, <2>3, NextHandedInv, NextAddedInv, NextAddedIsInitialized
  <2> QED
    BY <2>3, <2>4, <2>5 DEF RemoteInv
<1>5. Init => TypeOK /\ ServedSlotCollected
  BY InitTypes DEF Init, ServedSlotCollected
<1>6. TypeOK /\ ServedSlotCollected /\ [Next]_vars => TypeOK' /\ ServedSlotCollected'
  BY NextTypes, NextServedSlot
<1>7. TypeOK /\ CallbackAlive /\ NoDanglingDispatch /\ [Next]_vars => NoDanglingDispatch'
  BY NextNoDangling DEF DispatchInv
<1> QED
  BY <1>1, <1>2, <1>3, <1>4, <1>5, <1>6, <1>7, PTL DEF RemoteSpec

(* A manager driven through its endpoint implements EventManager, so every *)
(* theorem about EventManager's Spec holds of it.                          *)
THEOREM RemoteImplementsManager == RemoteSpec => Spec
<1>1. RemoteInit => Init
  BY DEF RemoteInit
<1>2. RemoteInv /\ [RemoteNext]_allVars => [Next]_vars
  BY RemoteStepIsManagerStep DEF RemoteInv, RemoteTypeOK
<1> QED
  BY <1>1, <1>2, RemoteInvariant, PTL DEF RemoteSpec, Spec

(* Every variable of the composition keeps its type. *)
THEOREM RemoteTypes == RemoteSpec => []RemoteTypeOK
<1>1. RemoteInv => RemoteTypeOK
  BY DEF RemoteInv
<1> QED
  BY <1>1, RemoteInvariant, PTL

(* A thread that got a subscriber back from remove_subscriber has it for   *)
(* itself: nobody else has it and the manager never calls it again.        *)
THEOREM RemovedStaysSilent == RemoteSpec => []RemovedIsSilent
<1>1. RemoteInv /\ NoDanglingDispatch => RemovedIsSilent
  <2> SUFFICES ASSUME RemoteInv, NoDanglingDispatch, NEW id \in SubscriberIds, handed[id] # {}
               PROVE  /\ Cardinality(handed[id]) = 1
                      /\ id \notin subscribers
                      /\ current # id
                      /\ \A fd \in Fds : fd_dispatch[fd] # id
    BY DEF RemovedIsSilent
  <2>1. id # NoSubscriber
    BY SubscribersAssumption DEF SubscriberIds, NoSubscriber
  <2>2. id \notin subscribers /\ \E t \in Threads : handed[id] = {t}
    BY DEF RemoteInv, HandedInv
  <2>3. Cardinality(handed[id]) = 1
    BY <2>2, FS_Singleton
  <2>4. current # id
    BY <2>1, <2>2 DEF RemoteInv, CallbackAlive, CurrentInCallback
  <2>5. \A fd \in Fds : fd_dispatch[fd] # id
    BY <2>1, <2>2 DEF NoDanglingDispatch
  <2> QED
    BY <2>2, <2>3, <2>4, <2>5
<1> QED
  BY <1>1, RemoteInvariant, PTL

(* An id a thread was told is of a subscriber whose `init` is over, in the *)
(* map or handed back.                                                     *)
THEOREM ReportedIsInitialized == RemoteSpec => []AddedIsInitialized
<1>1. RemoteInv => AddedIsInitialized
  BY DEF RemoteInv
<1> QED
  BY <1>1, RemoteInvariant, PTL
=============================================================================
