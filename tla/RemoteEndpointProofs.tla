------------------------ MODULE RemoteEndpointProofs ------------------------
(***************************************************************************)
(* The remote endpoint, proved for any number of threads, any number of    *)
(* requests and any limit of the eventfd: where a closure can be, that the *)
(* order of one thread is kept, that answers are true and nobody is left   *)
(* waiting, and that the endpoint implements RemoteCall.                   *)
(***************************************************************************)
EXTENDS RemoteEndpoint, TLAPS

-----------------------------------------------------------------------------
(* The inductive invariant. *)

(* If of one thread, q was sent before r. *)
Precedes(q, r) == q[1] = r[1] => q[2] < r[2]

Sent(r) == r[2] <= made[r[1]]

Executed(r) == \E i \in DOMAIN executed : executed[i] = r

(* Neither waiting, nor running, nor done: if it was sent, it is lost. *)
Nowhere(r) == ~Executed(r) /\ ~Queued(r) /\ running.req # r

(* The history, the running closure and the channel, read in this order,   *)
(* hold the requests of each thread in the order they were sent.           *)
QueueInOrder == \A i, j \in DOMAIN queue : i < j => Precedes(queue[i].req, queue[j].req)

RunningIsOldest == \A i \in DOMAIN queue : Precedes(running.req, queue[i].req)

ExecutedCameFirst ==
    \A i \in DOMAIN executed :
        /\ running # NoMsg => Precedes(executed[i], running.req)
        /\ \A j \in DOMAIN queue : Precedes(executed[i], queue[j].req)

AllWereSent ==
    /\ \A i \in DOMAIN queue : Sent(queue[i].req)
    /\ Sent(running.req)
    /\ \A i \in DOMAIN executed : Sent(executed[i])

LoopHolds ==
    /\ running # NoMsg <=> lpc = "closure"
    /\ lpc = "gone" => queue = << >>

OrderInv == QueueInOrder /\ RunningIsOldest /\ ExecutedCameFirst /\ InOrder /\ AllWereSent /\ LoopHolds

(* What the one-shot channels say is true. *)
RepliesAreTrue ==
    \A r \in Requests :
        /\ replies[r] = "value" => Executed(r)
        /\ replies[r] = "hangup" => Sent(r) /\ Nowhere(r)

(* A thread has been told about all it sent but the request it is in.      *)
ToldWhenDone ==
    \A r \in Requests :
        told[r] # "none" <=>
            r[2] < made[r[1]] \/ (r[2] = made[r[1]] /\ tpc[r[1]] = "ready")

InsideOfRequest == \A t \in Threads : tpc[t] # "ready" => made[t] >= 1

(* The sending half of a call's one-shot channel is in the channel or with *)
(* the loop until something was sent through it or it was dropped.         *)
CallIsHeld ==
    \A t \in Threads : tpc[t] \in {"calling", "waiting"} =>
        \/ AwaitsReply(Current(t))
        \/ running = [req |-> Current(t), sender |-> TRUE]
        \/ replies[Current(t)] # "none"

AnswerInv == RepliesAreTrue /\ ToldWhenDone /\ InsideOfRequest /\ CallIsHeld /\ HonestAnswers

EndpointInv == EndpointTypeOK /\ OrderInv /\ AnswerInv

-----------------------------------------------------------------------------
(* What the channel's operations do to its elements. *)

(* An appended message is the last one, and the others keep their places.  *)
LEMMA AppendElements ==
    ASSUME NEW S, NEW s \in Seq(S), NEW e \in S
    PROVE  /\ Append(s, e) \in Seq(S)
           /\ DOMAIN Append(s, e) = 1..(Len(s) + 1)
           /\ DOMAIN s = 1..Len(s)
           /\ Len(s) \in Nat
           /\ \A i \in DOMAIN s : Append(s, e)[i] = s[i]
           /\ Append(s, e)[Len(s) + 1] = e
OBVIOUS

(* Taking the oldest message moves the others up by one. *)
LEMMA TailElements ==
    ASSUME NEW S, NEW s \in Seq(S), s # << >>
    PROVE  /\ Head(s) = s[1]
           /\ s[1] \in S
           /\ 1 \in DOMAIN s
           /\ Tail(s) \in Seq(S)
           /\ Len(s) \in Nat \ {0}
           /\ DOMAIN s = 1..Len(s)
           /\ DOMAIN Tail(s) = 1..(Len(s) - 1)
           /\ \A i \in DOMAIN Tail(s) : i + 1 \in DOMAIN s /\ Tail(s)[i] = s[i + 1]
OBVIOUS

(* A message is at the head or in the rest. *)
LEMMA HeadOrTail ==
    ASSUME NEW S, NEW s \in Seq(S), s # << >>, NEW i \in DOMAIN s
    PROVE  i = 1 \/ (i - 1 \in DOMAIN Tail(s) /\ Tail(s)[i - 1] = s[i])
BY TailElements

(* The number a thread's next request gets is within the bound, and a      *)
(* request in progress is one.                                             *)
LEMMA RequestPairs ==
    ASSUME NEW r \in Requests
    PROVE  r[1] \in Threads /\ r[2] \in 1..MaxRequests /\ r = <<r[1], r[2]>>
BY DEF Requests

(* No message stands for "none": requests are numbered from 1. *)
LEMMA MsgIsNotNoMsg ==
    ASSUME NEW m \in FnMsg
    PROVE  m # NoMsg /\ m.req \in Requests /\ m.req[2] # 0
BY RequestPairs DEF FnMsg, NoMsg

(* The fields of the placeholder. *)
LEMMA NoMsgFields == NoMsg.req[1] = LoopThread /\ NoMsg.req[2] = 0 /\ NoMsg.sender = FALSE
BY DEF NoMsg

-----------------------------------------------------------------------------
(* Types. *)

(* A request is numbered by its thread, and sending keeps the types. *)
LEMMA SendMsgType ==
    ASSUME EndpointTypeOK, NEW t \in Threads, NEW blocking \in BOOLEAN, SendMsg(t, blocking)
    PROVE  /\ Current(t)' = <<t, made[t] + 1>>
           /\ Current(t)' \in Requests
           /\ made[t] \in Nat /\ made'[t] = made[t] + 1
           /\ \A u \in Threads : made[u] \in Nat /\ made'[u] = IF u = t THEN made[t] + 1 ELSE made[u]
           /\ [req |-> Current(t)', sender |-> blocking] \in FnMsg
           /\ EndpointTypeOK'
<1>1. made[t] \in 0..MaxRequests /\ made[t] < MaxRequests /\ MaxRequests \in Nat
  BY EndpointAssumption DEF EndpointTypeOK, SendMsg
<1>2. /\ made' \in [Threads -> 0..MaxRequests]
      /\ made[t] \in Nat /\ made'[t] = made[t] + 1
      /\ \A u \in Threads : made[u] \in Nat /\ made'[u] = IF u = t THEN made[t] + 1 ELSE made[u]
  BY <1>1 DEF EndpointTypeOK, SendMsg
<1>3. Current(t)' = <<t, made[t] + 1>>
  BY <1>2 DEF Current
<1>4. Current(t)' \in Requests
  BY <1>1, <1>3 DEF Requests
<1>5. [req |-> Current(t)', sender |-> blocking] \in FnMsg
  BY <1>4 DEF FnMsg
<1>6. EndpointTypeOK'
  <2>1. CASE lpc = "gone"
    BY <1>2, <1>4, <2>1 DEF EndpointTypeOK, SendMsg
  <2>2. CASE lpc # "gone"
    <3>1. queue \in Seq(FnMsg)
      BY DEF EndpointTypeOK
    <3>2. Append(queue, [req |-> Current(t)', sender |-> blocking]) \in Seq(FnMsg)
      BY <1>5, <3>1, AppendElements
    <3>3. queue' \in Seq(FnMsg)
      BY <2>2, <3>2 DEF SendMsg
    <3> QED
      BY <1>2, <2>2, <3>3 DEF EndpointTypeOK, SendMsg
  <2> QED
    BY <2>1, <2>2
<1> QED
  BY <1>2, <1>3, <1>4, <1>5, <1>6

(* Taking a message, and being in a closure only with one, are what keeps  *)
(* the history of the right type.                                          *)
LEMMA NextEndpointTypeOK ==
    ASSUME EndpointTypeOK, LoopHolds, [EndpointNext]_endpointVars
    PROVE  EndpointTypeOK'
<1>1. CASE UNCHANGED endpointVars
  BY <1>1 DEF EndpointTypeOK, endpointVars
<1>2. ASSUME NEW t \in Threads, EndpointStep(t)
      PROVE  EndpointTypeOK'
  <2>1. CASE CallBlocking(t)
    BY <2>1, SendMsgType DEF CallBlocking
  <2>2. CASE Fire(t)
    BY <2>2, SendMsgType DEF Fire
  <2>3. CASE WriteEventFd(t)
    <3>1. counter' \in 0..MaxCounter
      BY <2>3, EndpointAssumption DEF WriteEventFd, EndpointTypeOK
    <3>2. CASE tpc[t] = "calling"
      BY <2>3, <3>1, <3>2 DEF WriteEventFd, EndpointTypeOK
    <3>3. CASE tpc[t] # "calling"
      BY <2>3, <3>1, <3>3 DEF WriteEventFd, EndpointTypeOK
    <3> QED
      BY <3>2, <3>3
  <2>4. CASE WriteEventFdFails(t)
    BY <2>4 DEF WriteEventFdFails, EndpointTypeOK
  <2>5. CASE RecvReply(t)
    BY <2>5 DEF RecvReply, EndpointTypeOK
  <2>6. CASE Kick(t)
    BY <2>6, EndpointAssumption DEF Kick, EndpointTypeOK
  <2> QED
    BY <1>2, <2>1, <2>2, <2>3, <2>4, <2>5, <2>6 DEF EndpointStep
<1>3. CASE PollSignaled
  BY <1>3 DEF PollSignaled, EndpointTypeOK
<1>4. CASE PollOther
  BY <1>4 DEF PollOther, EndpointTypeOK
<1>5. CASE DispatchEndpointEvent
  <2>1. counter' \in 0..MaxCounter
    BY <1>5, EndpointAssumption DEF DispatchEndpointEvent, EndpointTypeOK
  <2> QED
    BY <1>5, <2>1 DEF DispatchEndpointEvent, EndpointTypeOK
<1>6. CASE TryRecv
  <2>1. queue \in Seq(FnMsg) /\ queue # << >>
    BY <1>6 DEF TryRecv, EndpointTypeOK
  <2>2. Head(queue) \in FnMsg /\ Tail(queue) \in Seq(FnMsg)
    BY <2>1, TailElements
  <2> QED
    BY <1>6, <2>2 DEF TryRecv, EndpointTypeOK
<1>7. CASE TryRecvEmpty
  BY <1>7 DEF TryRecvEmpty, EndpointTypeOK
<1>8. CASE CatchUnwind
  BY <1>8 DEF CatchUnwind, EndpointTypeOK
<1>9. CASE DropManager
  BY <1>9 DEF DropManager, EndpointTypeOK
<1>10. CASE ClientPanics
  <2>1. replies' \in [Requests -> {"none", "value", "hangup"}]
    BY <1>10 DEF ClientPanics, Answer, EndpointTypeOK
  <2> QED
    BY <1>10, <2>1 DEF ClientPanics, EndpointTypeOK
<1>11. CASE ClosureReturns
  <2>1. replies' \in [Requests -> {"none", "value", "hangup"}]
    BY <1>11 DEF ClosureReturns, Answer, EndpointTypeOK
  <2>2. executed \in Seq(Requests) /\ running.req \in Requests
    BY <1>11, MsgIsNotNoMsg DEF ClosureReturns, LoopHolds, EndpointTypeOK
  <2>3. Append(executed, running.req) \in Seq(Requests)
    BY <2>2, AppendElements
  <2> QED
    BY <1>11, <2>1, <2>3 DEF ClosureReturns, EndpointTypeOK
<1> QED
  BY <1>1, <1>2, <1>3, <1>4, <1>5, <1>6, <1>7, <1>8, <1>9, <1>10, <1>11
     DEF EndpointNext, LoopStep, AllDone

-----------------------------------------------------------------------------
(* Order. *)

(* The steps that move requests; all others leave them where they are.     *)
LEMMA MovingSteps ==
    ASSUME [EndpointNext]_endpointVars
    PROVE  \/ UNCHANGED <<queue, running, executed, made>>
           \/ \E t \in Threads, blocking \in BOOLEAN : SendMsg(t, blocking)
           \/ TryRecv \/ ClosureReturns \/ ClientPanics \/ DropManager
<1>1. ASSUME NEW t \in Threads, EndpointStep(t)
      PROVE  \/ UNCHANGED <<queue, running, executed, made>>
             \/ \E blocking \in BOOLEAN : SendMsg(t, blocking)
  BY <1>1 DEF EndpointStep, CallBlocking, Fire, WriteEventFd, WriteEventFdFails, RecvReply, Kick
<1>2. ASSUME LoopStep \/ AllDone
      PROVE  \/ UNCHANGED <<queue, running, executed, made>>
             \/ TryRecv \/ ClosureReturns \/ ClientPanics \/ DropManager
  BY <1>2 DEF LoopStep, AllDone, endpointVars, PollSignaled, PollOther, DispatchEndpointEvent,
              TryRecvEmpty, CatchUnwind
<1> QED
  BY <1>1, <1>2 DEF EndpointNext, endpointVars

(* The loop holds a message exactly while it serves one. *)
LEMMA NextLoopHolds ==
    ASSUME EndpointTypeOK, LoopHolds, [EndpointNext]_endpointVars
    PROVE  LoopHolds'
<1>1. ASSUME NEW t \in Threads, EndpointStep(t)
      PROVE  LoopHolds'
  <2>1. CASE \E blocking \in BOOLEAN : SendMsg(t, blocking)
    BY <2>1 DEF SendMsg, LoopHolds
  <2>2. CASE UNCHANGED <<queue, running, lpc>>
    BY <2>2 DEF LoopHolds
  <2> QED
    BY <1>1, <2>1, <2>2
       DEF EndpointStep, CallBlocking, Fire, WriteEventFd, WriteEventFdFails, RecvReply, Kick
<1>2. CASE TryRecv
  <2>1. running' \in FnMsg
    BY <1>2, TailElements DEF TryRecv, EndpointTypeOK
  <2> QED
    BY <1>2, <2>1, MsgIsNotNoMsg DEF TryRecv, LoopHolds
<1>3. CASE LoopStep /\ ~TryRecv
  BY <1>3 DEF LoopStep, LoopHolds, PollSignaled, PollOther, DispatchEndpointEvent, TryRecvEmpty,
              ClosureReturns, ClientPanics, CatchUnwind, DropManager
<1>4. CASE UNCHANGED endpointVars
  BY <1>4 DEF endpointVars, LoopHolds
<1> QED
  BY <1>1, <1>2, <1>3, <1>4 DEF EndpointNext, AllDone

(* A new request comes after everything its thread sent before. *)
LEMMA SendMsgOrder ==
    ASSUME EndpointTypeOK, OrderInv, NEW t \in Threads, NEW blocking \in BOOLEAN,
           SendMsg(t, blocking)
    PROVE  QueueInOrder' /\ RunningIsOldest' /\ ExecutedCameFirst' /\ InOrder' /\ AllWereSent'
<1> DEFINE msg == [req |-> Current(t)', sender |-> blocking]
<1>1. /\ Current(t)' = <<t, made[t] + 1>> /\ msg \in FnMsg /\ made[t] \in Nat
      /\ \A u \in Threads : made[u] \in Nat /\ made'[u] = IF u = t THEN made[t] + 1 ELSE made[u]
  BY SendMsgType
<1>2. running' = running /\ executed' = executed
  BY DEF SendMsg
<1>3. \A r : r[1] \in Threads /\ Sent(r) /\ r[2] \in Nat => Sent(r)' /\ Precedes(r, Current(t)')
  BY <1>1 DEF Sent, Precedes
<1>4. /\ \A i \in DOMAIN queue : queue[i].req[1] \in Threads /\ queue[i].req[2] \in Nat
      /\ running.req[1] \in Threads /\ running.req[2] \in Nat
      /\ \A i \in DOMAIN executed : executed[i][1] \in Threads /\ executed[i][2] \in Nat
  <2>1. \A m \in FnMsg : m.req[1] \in Threads /\ m.req[2] \in Nat
    BY RequestPairs, MsgIsNotNoMsg, EndpointAssumption
  <2>2. \A i \in DOMAIN queue : queue[i] \in FnMsg
    BY DEF EndpointTypeOK
  <2>3. \A i \in DOMAIN executed : executed[i] \in Requests
    BY DEF EndpointTypeOK
  <2>4. LoopThread \in Threads
    BY DEF Threads
  <2> QED
    BY <2>1, <2>2, <2>3, <2>4, NoMsgFields, RequestPairs, EndpointAssumption DEF EndpointTypeOK
<1>5. CASE queue' = queue
  BY <1>2, <1>3, <1>4, <1>5 DEF OrderInv, QueueInOrder, RunningIsOldest, ExecutedCameFirst,
                                InOrder, AllWereSent
<1>6. CASE queue' = Append(queue, msg)
  <2> DEFINE n == Len(queue) + 1
  <2>1. /\ DOMAIN queue = 1..(n - 1) /\ DOMAIN queue' = 1..n /\ n \in Nat
        /\ \A i \in DOMAIN queue : queue'[i] = queue[i]
        /\ queue'[n] = msg
    BY <1>1, <1>6, AppendElements DEF EndpointTypeOK
  <2>2. \A i \in DOMAIN queue' : i \in DOMAIN queue \/ i = n
    BY <2>1
  <2>3. msg.req = Current(t)' /\ Sent(Current(t))'
    BY <1>1 DEF Sent
  <2>4. QueueInOrder'
    BY <1>3, <1>4, <2>1, <2>2, <2>3 DEF OrderInv, QueueInOrder, AllWereSent
  <2>5. RunningIsOldest'
    BY <1>2, <1>3, <1>4, <2>1, <2>2, <2>3 DEF OrderInv, RunningIsOldest, AllWereSent
  <2>6. ExecutedCameFirst'
    BY <1>2, <1>3, <1>4, <2>1, <2>2, <2>3 DEF OrderInv, ExecutedCameFirst, AllWereSent
  <2>7. AllWereSent'
    BY <1>2, <1>3, <1>4, <2>1, <2>2, <2>3 DEF OrderInv, AllWereSent
  <2>8. InOrder'
    BY <1>2 DEF OrderInv, InOrder
  <2> QED
    BY <2>4, <2>5, <2>6, <2>7, <2>8
<1> QED
  BY <1>5, <1>6 DEF SendMsg

(* Every step keeps the requests in the order they were numbered. *)
LEMMA NextOrderInv ==
    ASSUME EndpointTypeOK, OrderInv, [EndpointNext]_endpointVars
    PROVE  OrderInv'
<1>1. LoopHolds'
  BY NextLoopHolds DEF OrderInv
<1>2. CASE UNCHANGED <<queue, running, executed, made>>
  <2>1. QueueInOrder' /\ RunningIsOldest'
    BY <1>2 DEF OrderInv, QueueInOrder, RunningIsOldest
  <2>2. ExecutedCameFirst' /\ InOrder'
    BY <1>2 DEF OrderInv, ExecutedCameFirst, InOrder
  <2>3. AllWereSent'
    BY <1>2 DEF OrderInv, AllWereSent, Sent
  <2> QED
    BY <1>1, <2>1, <2>2, <2>3 DEF OrderInv
<1>3. ASSUME NEW t \in Threads, NEW blocking \in BOOLEAN, SendMsg(t, blocking)
      PROVE  OrderInv'
  BY <1>1, <1>3, SendMsgOrder DEF OrderInv
<1>4. CASE TryRecv
  <2>1. /\ running' = queue[1]
        /\ 1 \in DOMAIN queue /\ DOMAIN queue \subseteq Nat
        /\ \A i \in DOMAIN queue' : i \in Nat \ {0} /\ i + 1 \in DOMAIN queue /\ queue'[i] = queue[i + 1]
    <3>1. queue \in Seq(FnMsg) /\ queue # << >>
      BY <1>4 DEF TryRecv, EndpointTypeOK
    <3>2. /\ Head(queue) = queue[1]
          /\ 1 \in DOMAIN queue
          /\ Len(queue) \in Nat
          /\ DOMAIN queue = 1..Len(queue)
          /\ DOMAIN Tail(queue) = 1..(Len(queue) - 1)
          /\ \A i \in DOMAIN Tail(queue) : i + 1 \in DOMAIN queue /\ Tail(queue)[i] = queue[i + 1]
      BY <3>1, TailElements
    <3> QED
      BY <1>4, <3>2 DEF TryRecv
  <2>2. executed' = executed /\ made' = made
    BY <1>4 DEF TryRecv
  <2>3. QueueInOrder' /\ RunningIsOldest'
    BY <2>1 DEF OrderInv, QueueInOrder, RunningIsOldest
  <2>4. ExecutedCameFirst' /\ InOrder'
    BY <2>1, <2>2 DEF OrderInv, ExecutedCameFirst, InOrder
  <2>5. AllWereSent'
    BY <2>1, <2>2 DEF OrderInv, AllWereSent, Sent
  <2> QED
    BY <1>1, <2>3, <2>4, <2>5 DEF OrderInv
<1>5. CASE ClosureReturns
  <2>1. queue' = queue /\ made' = made /\ running' = NoMsg /\ running # NoMsg
    BY <1>5 DEF ClosureReturns, OrderInv, LoopHolds
  <2>2. executed \in Seq(Requests) /\ running.req \in Requests
    BY <2>1, MsgIsNotNoMsg DEF EndpointTypeOK
  <2>3. executed' = Append(executed, running.req)
    BY <1>5 DEF ClosureReturns
  <2> DEFINE n == Len(executed) + 1
  <2>4. /\ DOMAIN executed = 1..(n - 1) /\ DOMAIN executed' = 1..n /\ n \in Nat
        /\ \A i \in DOMAIN executed : executed'[i] = executed[i]
        /\ executed'[n] = running.req
    BY <2>2, <2>3, AppendElements
  <2>5. \A i \in DOMAIN executed' : i \in DOMAIN executed \/ i = n
    BY <2>4
  <2>6. InOrder'
    BY <2>1, <2>4, <2>5 DEF OrderInv, InOrder, ExecutedCameFirst, Precedes
  <2>7. ExecutedCameFirst'
    BY <2>1, <2>4, <2>5 DEF OrderInv, RunningIsOldest, ExecutedCameFirst
  <2>8. AllWereSent'
    <3>1. Sent(NoMsg.req)
      BY NoMsgFields DEF Sent, EndpointTypeOK, Threads
    <3> QED
      BY <2>1, <2>4, <2>5, <3>1 DEF OrderInv, AllWereSent, Sent
  <2>9. QueueInOrder' /\ RunningIsOldest'
    <3>1. \A i \in DOMAIN queue : queue[i].req[2] \in Nat /\ queue[i].req[2] # 0
      BY MsgIsNotNoMsg, RequestPairs, EndpointAssumption DEF EndpointTypeOK
    <3> QED
      BY <2>1, <3>1, NoMsgFields DEF OrderInv, QueueInOrder, RunningIsOldest, Precedes
  <2> QED
    BY <1>1, <2>6, <2>7, <2>8, <2>9 DEF OrderInv
<1>6. CASE ClientPanics \/ DropManager
  <2>1. /\ made' = made /\ executed' = executed
        /\ running' \in {running, NoMsg}
        /\ queue' \in {queue, << >>}
    BY <1>6 DEF ClientPanics, DropManager
  <2>2. Sent(NoMsg.req)
    BY NoMsgFields DEF Sent, EndpointTypeOK, Threads
  <2>3. \A i \in DOMAIN queue : Precedes(NoMsg.req, queue[i].req)
    <3>1. \A i \in DOMAIN queue : queue[i].req[2] \in Nat /\ queue[i].req[2] # 0
      BY MsgIsNotNoMsg, RequestPairs, EndpointAssumption DEF EndpointTypeOK
    <3> QED
      BY <3>1, NoMsgFields DEF Precedes
  <2>4. AllWereSent'
    BY <2>1, <2>2 DEF OrderInv, AllWereSent, Sent
  <2>5. QueueInOrder' /\ RunningIsOldest'
    BY <2>1, <2>3 DEF OrderInv, QueueInOrder, RunningIsOldest
  <2>6. ExecutedCameFirst' /\ InOrder'
    BY <2>1 DEF OrderInv, ExecutedCameFirst, InOrder
  <2> QED
    BY <1>1, <2>4, <2>5, <2>6 DEF OrderInv
<1> QED
  BY <1>2, <1>3, <1>4, <1>5, <1>6, MovingSteps

-----------------------------------------------------------------------------
(* Fates: what is done stays done, what is lost stays lost. *)

(* A request that was sent stays sent. *)
LEMMA SentStays ==
    ASSUME EndpointTypeOK, [EndpointNext]_endpointVars, NEW r \in Requests, Sent(r)
    PROVE  Sent(r)'
<1>1. r[1] \in Threads /\ made[r[1]] \in Nat /\ r[2] \in Nat
  BY RequestPairs, EndpointAssumption DEF EndpointTypeOK
<1>2. CASE made' = made
  BY <1>2 DEF Sent
<1>3. ASSUME NEW t \in Threads, NEW blocking \in BOOLEAN, SendMsg(t, blocking)
      PROVE  Sent(r)'
  <2>1. \A u \in Threads : made'[u] = IF u = t THEN made[t] + 1 ELSE made[u]
    BY <1>3, SendMsgType
  <2> QED
    BY <1>1, <2>1 DEF Sent
<1> QED
  BY <1>2, <1>3, MovingSteps DEF TryRecv, ClosureReturns, ClientPanics, DropManager

(* What ran stays recorded. *)
LEMMA ExecutedStays ==
    ASSUME EndpointTypeOK, LoopHolds, [EndpointNext]_endpointVars, NEW r, Executed(r)
    PROVE  Executed(r)'
<1>1. CASE executed' = executed
  BY <1>1 DEF Executed
<1>2. CASE ClosureReturns
  <2>1. executed \in Seq(Requests) /\ running.req \in Requests
    BY <1>2, MsgIsNotNoMsg DEF ClosureReturns, LoopHolds, EndpointTypeOK
  <2>2. /\ DOMAIN executed = 1..Len(executed) /\ Len(executed) \in Nat
        /\ DOMAIN executed' = 1..(Len(executed) + 1)
        /\ \A i \in DOMAIN executed : executed'[i] = executed[i]
    BY <1>2, <2>1, AppendElements DEF ClosureReturns
  <2> QED
    BY <2>2 DEF Executed
<1> QED
  BY <1>1, <1>2, MovingSteps DEF SendMsg, TryRecv, ClientPanics, DropManager

(* Only the closure that returned is added to the history. *)
LEMMA ExecutedGrows ==
    ASSUME EndpointTypeOK, LoopHolds, [EndpointNext]_endpointVars, NEW r, Executed(r)', ~Executed(r)
    PROVE  ClosureReturns /\ running.req = r
<1>1. executed' # executed
  BY DEF Executed
<1>2. ClosureReturns
  BY <1>1, MovingSteps DEF SendMsg, TryRecv, ClientPanics, DropManager
<1>3. executed \in Seq(Requests) /\ running.req \in Requests
  BY <1>2, MsgIsNotNoMsg DEF ClosureReturns, LoopHolds, EndpointTypeOK
<1>4. /\ DOMAIN executed = 1..Len(executed) /\ Len(executed) \in Nat
      /\ DOMAIN executed' = 1..(Len(executed) + 1)
      /\ \A i \in DOMAIN executed : executed'[i] = executed[i]
      /\ executed'[Len(executed) + 1] = running.req
  BY <1>2, <1>3, AppendElements DEF ClosureReturns
<1>5. \A i \in DOMAIN executed' : i \in DOMAIN executed \/ i = Len(executed) + 1
  BY <1>4
<1> QED
  BY <1>2, <1>4, <1>5 DEF Executed

(* Only a request just sent is added to the channel. *)
LEMMA QueuedGrows ==
    ASSUME EndpointTypeOK, LoopHolds, [EndpointNext]_endpointVars, NEW r \in Requests, Queued(r)', ~Queued(r)
    PROVE  ~Sent(r) /\ Sent(r)' /\ lpc # "gone"
<1>1. CASE queue' = queue \/ queue' = << >>
  BY <1>1 DEF Queued
<1>2. CASE TryRecv
  <2>1. queue \in Seq(FnMsg) /\ queue # << >>
    BY <1>2 DEF TryRecv, EndpointTypeOK
  <2>2. \A i \in DOMAIN Tail(queue) : i + 1 \in DOMAIN queue /\ Tail(queue)[i] = queue[i + 1]
    BY <2>1, TailElements
  <2> QED
    BY <1>2, <2>2 DEF Queued, TryRecv
<1>3. ASSUME NEW t \in Threads, NEW blocking \in BOOLEAN, SendMsg(t, blocking), queue' # queue
      PROVE  ~Sent(r) /\ Sent(r)' /\ lpc # "gone"
  <2> DEFINE msg == [req |-> Current(t)', sender |-> blocking]
  <2>1. /\ Current(t)' = <<t, made[t] + 1>> /\ msg \in FnMsg /\ made[t] \in Nat /\ made'[t] = made[t] + 1
    BY <1>3, SendMsgType
  <2>2. queue' = Append(queue, msg) /\ lpc # "gone"
    BY <1>3 DEF SendMsg
  <2>3. /\ DOMAIN queue = 1..Len(queue) /\ Len(queue) \in Nat
        /\ DOMAIN queue' = 1..(Len(queue) + 1)
        /\ \A i \in DOMAIN queue : queue'[i] = queue[i]
        /\ queue'[Len(queue) + 1] = msg
    BY <2>1, <2>2, AppendElements DEF EndpointTypeOK
  <2>4. \A i \in DOMAIN queue' : i \in DOMAIN queue \/ i = Len(queue) + 1
    BY <2>3
  <2>5. r = Current(t)'
    BY <2>3, <2>4 DEF Queued
  <2> QED
    BY <2>1, <2>2, <2>5 DEF Sent
<1> QED
  BY <1>1, <1>2, <1>3, MovingSteps DEF ClosureReturns, ClientPanics, DropManager

(* Only a request taken from the channel starts to run. *)
LEMMA RunningComesFromQueue ==
    ASSUME EndpointTypeOK, [EndpointNext]_endpointVars, NEW r \in Requests,
           running'.req = r, running.req # r
    PROVE  TryRecv /\ Queued(r)
<1>1. NoMsg.req # r
  BY RequestPairs, NoMsgFields
<1>2. TryRecv
  BY <1>1, MovingSteps DEF SendMsg, ClosureReturns, ClientPanics, DropManager
<1>3. queue \in Seq(FnMsg) /\ queue # << >>
  BY <1>2 DEF TryRecv, EndpointTypeOK
<1>4. Head(queue) = queue[1] /\ 1 \in DOMAIN queue
  BY <1>3, TailElements
<1> QED
  BY <1>2, <1>4 DEF TryRecv, Queued

(* What was lost stays lost. *)
LEMMA LostStays ==
    ASSUME EndpointTypeOK, OrderInv, [EndpointNext]_endpointVars, NEW r \in Requests,
           Sent(r), Nowhere(r)
    PROVE  Sent(r)' /\ Nowhere(r)'
<1>1. ~Executed(r)'
  BY ExecutedGrows DEF Nowhere, OrderInv
<1>2. ~Queued(r)'
  BY QueuedGrows DEF Nowhere, OrderInv
<1>3. running'.req # r
  BY RunningComesFromQueue DEF Nowhere
<1> QED
  BY <1>1, <1>2, <1>3, SentStays DEF Nowhere

(* A request is in one place at a time. *)
LEMMA OnePlace ==
    ASSUME EndpointTypeOK, OrderInv, NEW r \in Requests
    PROVE  /\ Executed(r) => ~Queued(r) /\ running.req # r
           /\ Queued(r) => running.req # r
           /\ Executed(r) \/ Queued(r) \/ running.req = r => Sent(r)
<1>1. r[2] \in Nat /\ r[2] # 0 /\ ~Precedes(r, r)
  BY RequestPairs, EndpointAssumption DEF Precedes
<1>2. running.req = r => running # NoMsg
  BY <1>1, NoMsgFields
<1>3. Executed(r) => ~Queued(r) /\ running.req # r
  BY <1>1, <1>2 DEF Executed, Queued, OrderInv, ExecutedCameFirst
<1>4. Queued(r) => running.req # r
  BY <1>1 DEF Queued, OrderInv, RunningIsOldest
<1>5. Executed(r) \/ Queued(r) \/ running.req = r => Sent(r)
  BY DEF Executed, Queued, OrderInv, AllWereSent
<1> QED
  BY <1>3, <1>4, <1>5

-----------------------------------------------------------------------------
(* Answers. *)

(* The request a thread is in is a request. *)
LEMMA CurrentIsRequest ==
    ASSUME EndpointTypeOK, InsideOfRequest, NEW t \in Threads, tpc[t] # "ready"
    PROVE  Current(t) \in Requests /\ Current(t)[1] = t /\ Current(t)[2] = made[t]
BY EndpointAssumption DEF EndpointTypeOK, InsideOfRequest, Current, Requests

(* The steps that answer, and those that tell. *)
LEMMA AnsweringSteps ==
    ASSUME [EndpointNext]_endpointVars
    PROVE  replies' = replies \/ ClosureReturns \/ ClientPanics \/ DropManager
<1>1. ASSUME NEW t \in Threads, EndpointStep(t)
      PROVE  replies' = replies
  BY <1>1 DEF EndpointStep, CallBlocking, Fire, SendMsg, WriteEventFd, WriteEventFdFails, RecvReply, Kick
<1>2. ASSUME LoopStep \/ AllDone
      PROVE  replies' = replies \/ ClosureReturns \/ ClientPanics \/ DropManager
  BY <1>2 DEF LoopStep, AllDone, endpointVars, PollSignaled, PollOther, DispatchEndpointEvent,
              TryRecv, TryRecvEmpty, CatchUnwind
<1> QED
  BY <1>1, <1>2 DEF EndpointNext, endpointVars

(* The steps that move a caller or tell it something. *)
LEMMA TellingSteps ==
    ASSUME [EndpointNext]_endpointVars
    PROVE  \/ UNCHANGED <<told, tpc, made>>
           \/ \E t \in Threads : \/ \E blocking \in BOOLEAN : SendMsg(t, blocking)
                                 \/ WriteEventFd(t) \/ WriteEventFdFails(t) \/ RecvReply(t)
<1>1. ASSUME NEW t \in Threads, EndpointStep(t)
      PROVE  \/ UNCHANGED <<told, tpc, made>>
             \/ \E blocking \in BOOLEAN : SendMsg(t, blocking)
             \/ WriteEventFd(t) \/ WriteEventFdFails(t) \/ RecvReply(t)
  BY <1>1 DEF EndpointStep, CallBlocking, Fire, Kick
<1>2. ASSUME LoopStep \/ AllDone
      PROVE  UNCHANGED <<told, tpc, made>>
  BY <1>2 DEF LoopStep, AllDone, endpointVars, PollSignaled, PollOther, DispatchEndpointEvent,
              TryRecv, TryRecvEmpty, ClosureReturns, ClientPanics, CatchUnwind, DropManager
<1> QED
  BY <1>1, <1>2 DEF EndpointNext, endpointVars

(* An answer is sent by the closure that ran; the one-shot channel is      *)
(* dropped without one only with the message.                              *)
LEMMA NextRepliesAreTrue ==
    ASSUME EndpointTypeOK, OrderInv, RepliesAreTrue, [EndpointNext]_endpointVars
    PROVE  RepliesAreTrue'
<1> SUFFICES ASSUME NEW r \in Requests
             PROVE  /\ replies'[r] = "value" => Executed(r)'
                    /\ replies'[r] = "hangup" => Sent(r)' /\ Nowhere(r)'
  BY DEF RepliesAreTrue
<1>1. CASE replies'[r] = replies[r]
  BY <1>1, ExecutedStays, LostStays DEF RepliesAreTrue, OrderInv
<1>2. CASE ClosureReturns /\ replies'[r] # replies[r]
  <2>1. replies'[r] = "value" /\ running.req = r
    BY <1>2 DEF ClosureReturns, Answer, EndpointTypeOK
  <2>2. executed \in Seq(Requests)
    BY DEF EndpointTypeOK
  <2>3. DOMAIN executed' = 1..(Len(executed) + 1) /\ executed'[Len(executed) + 1] = r /\ Len(executed) \in Nat
    BY <1>2, <2>1, <2>2, AppendElements DEF ClosureReturns
  <2>4. Executed(r)'
    BY <2>3 DEF Executed
  <2> QED
    BY <2>1, <2>4
<1>3. CASE ClientPanics /\ replies'[r] # replies[r]
  <2>1. replies'[r] = "hangup" /\ running.req = r
    BY <1>3 DEF ClientPanics, Answer, EndpointTypeOK
  <2>2. Sent(r) /\ ~Executed(r) /\ ~Queued(r)
    BY <2>1, OnePlace
  <2>3. running'.req # r
    BY <1>3, RequestPairs, NoMsgFields DEF ClientPanics
  <2>4. Sent(r)' /\ Nowhere(r)'
    BY <1>3, <2>2, <2>3 DEF ClientPanics, Sent, Nowhere, Executed, Queued
  <2> QED
    BY <2>1, <2>4
<1>4. CASE DropManager /\ replies'[r] # replies[r]
  <2>1. replies'[r] = "hangup" /\ AwaitsReply(r)
    BY <1>4 DEF DropManager
  <2>2. Queued(r)
    BY <2>1 DEF AwaitsReply, Queued
  <2>3. Sent(r) /\ ~Executed(r) /\ running.req # r
    BY <2>2, OnePlace
  <2>4. Sent(r)' /\ Nowhere(r)'
    BY <1>4, <2>3 DEF DropManager, Sent, Nowhere, Executed, Queued
  <2> QED
    BY <2>1, <2>4
<1> QED
  BY <1>1, <1>2, <1>3, <1>4, AnsweringSteps

(* A thread enters a request as its number is given out, and leaves it as  *)
(* it is told.                                                             *)
LEMMA NextToldWhenDone ==
    ASSUME EndpointTypeOK, ToldWhenDone, InsideOfRequest, [EndpointNext]_endpointVars
    PROVE  ToldWhenDone' /\ InsideOfRequest'
<1>0. \A r \in Requests : r = <<r[1], r[2]>> /\ r[1] \in Threads /\ r[2] \in Nat /\ r[2] # 0
  BY RequestPairs, EndpointAssumption
<1>1. CASE UNCHANGED <<told, tpc, made>>
  BY <1>1 DEF ToldWhenDone, InsideOfRequest
<1>2. ASSUME NEW t \in Threads, NEW blocking \in BOOLEAN, SendMsg(t, blocking)
      PROVE  ToldWhenDone' /\ InsideOfRequest'
  <2>1. /\ Current(t)' = <<t, made[t] + 1>> /\ Current(t)' \in Requests /\ made[t] \in Nat
        /\ \A u \in Threads : made[u] \in Nat /\ made'[u] = IF u = t THEN made[t] + 1 ELSE made[u]
    BY <1>2, SendMsgType
  <2>2. tpc[t] = "ready"
    BY <1>2 DEF SendMsg, RunsClientCode
  <2>3. CASE lpc = "gone"
    <3>1. tpc' = tpc /\ told' = [told EXCEPT ![Current(t)'] = "ChannelSend"]
      BY <1>2, <2>3 DEF SendMsg
    <3>2. \A r \in Requests : told'[r] = IF r = <<t, made[t] + 1>> THEN "ChannelSend" ELSE told[r]
      BY <2>1, <3>1 DEF EndpointTypeOK
    <3>3. ToldWhenDone'
      BY <1>0, <2>1, <2>2, <3>1, <3>2 DEF ToldWhenDone
    <3>4. InsideOfRequest'
      BY <2>1, <3>1 DEF InsideOfRequest
    <3> QED
      BY <3>3, <3>4
  <2>4. CASE lpc # "gone"
    <3>1. told' = told /\ tpc'[t] # "ready" /\ \A u \in Threads \ {t} : tpc'[u] = tpc[u]
      BY <1>2, <2>4 DEF SendMsg, EndpointTypeOK
    <3>2. ToldWhenDone'
      BY <1>0, <2>1, <2>2, <3>1 DEF ToldWhenDone
    <3>3. InsideOfRequest'
      BY <2>1, <3>1 DEF InsideOfRequest
    <3> QED
      BY <3>2, <3>3
  <2> QED
    BY <2>3, <2>4
<1>3. ASSUME NEW t \in Threads, WriteEventFd(t) \/ WriteEventFdFails(t) \/ RecvReply(t)
      PROVE  ToldWhenDone' /\ InsideOfRequest'
  <2>1. /\ made' = made /\ tpc[t] # "ready"
        /\ \A u \in Threads \ {t} : tpc'[u] = tpc[u]
        /\ \/ tpc'[t] = "ready" /\ \E a \in {"Ok", "EventFd", "Value", "ChannelRecv"} :
                                     told' = [told EXCEPT ![Current(t)] = a]
           \/ tpc'[t] # "ready" /\ told' = told
    BY <1>3 DEF WriteEventFd, WriteEventFdFails, RecvReply, EndpointTypeOK
  <2>2. Current(t) \in Requests /\ Current(t) = <<t, made[t]>>
    BY <2>1, CurrentIsRequest DEF Current
  <2>3. InsideOfRequest'
    BY <2>1 DEF InsideOfRequest
  <2>4. CASE tpc'[t] # "ready"
    <3>1. told' = told /\ made' = made
      BY <2>1, <2>4
    <3>2. \A u \in Threads : tpc'[u] = "ready" <=> tpc[u] = "ready"
      BY <2>1, <2>4
    <3>3. \A r \in Requests : r[1] \in Threads
      BY <1>0
    <3> QED
      BY <2>3, <3>1, <3>2, <3>3 DEF ToldWhenDone
  <2>5. CASE tpc'[t] = "ready"
    <3>1. \A r \in Requests : IF r = <<t, made[t]>> THEN told'[r] # "none" ELSE told'[r] = told[r]
      <4>1. PICK a \in {"Ok", "EventFd", "Value", "ChannelRecv"} : told' = [told EXCEPT ![Current(t)] = a]
        BY <2>1, <2>5
      <4> QED
        BY <2>2, <4>1 DEF EndpointTypeOK
    <3>2. \A r \in Requests : r[1] = t /\ r[2] = made[t] => r = <<t, made[t]>>
      BY <1>0
    <3> QED
      BY <1>0, <2>1, <2>3, <2>5, <3>1, <3>2 DEF ToldWhenDone
  <2> QED
    BY <2>3, <2>4, <2>5
<1> QED
  BY <1>1, <1>2, <1>3, TellingSteps

(* What a thread is told is what the one-shot channel or the closed        *)
(* channel says, and that is final.                                        *)
LEMMA NextHonestAnswers ==
    ASSUME EndpointInv, [EndpointNext]_endpointVars
    PROVE  HonestAnswers'
<1> USE DEF EndpointInv, AnswerInv
<1> SUFFICES ASSUME NEW r \in Requests
             PROVE  /\ told'[r] = "Value" => Executed(r)'
                    /\ told'[r] \in {"ChannelSend", "ChannelRecv"} => Nowhere(r)'
  BY DEF HonestAnswers, Executed, Nowhere
<1>1. CASE told'[r] = told[r]
  <2>1. told[r] = "Value" => Executed(r)'
    BY ExecutedStays DEF HonestAnswers, Executed, OrderInv
  <2>2. told[r] \in {"ChannelSend", "ChannelRecv"} => Sent(r) /\ Nowhere(r)
    <3>1. r[2] \in Nat /\ made[r[1]] \in Nat
      BY RequestPairs, EndpointAssumption DEF EndpointTypeOK
    <3>2. told[r] # "none" => r[2] <= made[r[1]]
      BY <3>1 DEF ToldWhenDone
    <3> QED
      BY <3>2 DEF HonestAnswers, Nowhere, Executed, Sent
  <2> QED
    BY <1>1, <2>1, <2>2, LostStays
<1>2. ASSUME NEW t \in Threads, NEW blocking \in BOOLEAN, SendMsg(t, blocking), told'[r] # told[r]
      PROVE  told'[r] = "ChannelSend" /\ Nowhere(r)'
  <2>1. Current(t)' = <<t, made[t] + 1>> /\ Current(t)' \in Requests /\ made[t] \in Nat
    BY <1>2, SendMsgType
  <2>2. told' = [told EXCEPT ![Current(t)'] = "ChannelSend"]
    BY <1>2 DEF SendMsg
  <2>3. told'[r] = "ChannelSend" /\ r = Current(t)'
    BY <1>2, <2>1, <2>2 DEF EndpointTypeOK
  <2>4. ~Sent(r)
    BY <2>1, <2>3 DEF Sent
  <2>5. UNCHANGED <<queue, running, executed>>
    BY <1>2 DEF SendMsg
  <2> QED
    BY <2>3, <2>4, <2>5, OnePlace DEF Nowhere, Executed, Queued
<1>3. ASSUME NEW t \in Threads, WriteEventFd(t) \/ WriteEventFdFails(t), told'[r] # told[r]
      PROVE  told'[r] \in {"Ok", "EventFd"}
  BY <1>3 DEF WriteEventFd, WriteEventFdFails, EndpointTypeOK
<1>4. ASSUME NEW t \in Threads, RecvReply(t), told'[r] # told[r]
      PROVE  /\ told'[r] = "Value" => Executed(r)'
             /\ told'[r] \in {"ChannelSend", "ChannelRecv"} => Nowhere(r)'
  <2>1. /\ r = Current(t) /\ replies[r] # "none"
        /\ told'[r] = IF replies[r] = "value" THEN "Value" ELSE "ChannelRecv"
    BY <1>4 DEF RecvReply, EndpointTypeOK
  <2>2. replies[r] = "value" \/ replies[r] = "hangup"
    BY <2>1 DEF EndpointTypeOK
  <2>3. CASE replies[r] = "value"
    BY <2>1, <2>3, ExecutedStays DEF RepliesAreTrue, OrderInv
  <2>4. CASE replies[r] = "hangup"
    BY <2>1, <2>4, LostStays DEF RepliesAreTrue
  <2> QED
    BY <2>2, <2>3, <2>4
<1> QED
  BY <1>1, <1>2, <1>3, <1>4, TellingSteps

(* A queued message with a sender keeps it until the loop takes or drops   *)
(* the message.                                                            *)
LEMMA AwaitsReplyStays ==
    ASSUME EndpointTypeOK, LoopHolds, [EndpointNext]_endpointVars, NEW r \in Requests, AwaitsReply(r)
    PROVE  \/ AwaitsReply(r)'
           \/ TryRecv /\ running' = [req |-> r, sender |-> TRUE]
           \/ DropManager
<1>1. CASE queue' = queue
  BY <1>1 DEF AwaitsReply
<1>2. ASSUME NEW t \in Threads, NEW blocking \in BOOLEAN, SendMsg(t, blocking), queue' # queue
      PROVE  AwaitsReply(r)'
  <2> DEFINE msg == [req |-> Current(t)', sender |-> blocking]
  <2>1. msg \in FnMsg
    BY <1>2, SendMsgType
  <2>2. queue \in Seq(FnMsg) /\ queue' = Append(queue, msg)
    BY <1>2 DEF SendMsg, EndpointTypeOK
  <2>3. /\ DOMAIN queue = 1..Len(queue) /\ Len(queue) \in Nat
        /\ DOMAIN queue' = 1..(Len(queue) + 1)
        /\ \A i \in DOMAIN queue : queue'[i] = queue[i]
    BY <2>1, <2>2, AppendElements
  <2> QED
    BY <2>3 DEF AwaitsReply
<1>3. CASE TryRecv
  <2>1. PICK i \in DOMAIN queue : queue[i].req = r /\ queue[i].sender
    BY DEF AwaitsReply
  <2>2. queue \in Seq(FnMsg) /\ queue # << >> /\ queue' = Tail(queue) /\ running' = Head(queue)
    BY <1>3 DEF TryRecv, EndpointTypeOK
  <2>3. queue[i] \in FnMsg
    BY <2>2
  <2>4. queue[i] = [req |-> r, sender |-> TRUE]
    BY <2>1, <2>3 DEF FnMsg
  <2>5. CASE i = 1
    BY <1>3, <2>2, <2>4, <2>5, TailElements
  <2>6. CASE i # 1
    <3>1. i - 1 \in DOMAIN queue' /\ queue'[i - 1] = queue[i]
      BY <2>2, <2>6, HeadOrTail
    <3> QED
      BY <2>1, <3>1 DEF AwaitsReply
  <2> QED
    BY <2>5, <2>6
<1> QED
  BY <1>1, <1>2, <1>3, MovingSteps DEF ClosureReturns, ClientPanics

(* For a call under way, the promise that an answer comes is passed from   *)
(* the channel to the loop to the one-shot channel.                        *)
LEMMA HeldStays ==
    ASSUME EndpointTypeOK, LoopHolds, [EndpointNext]_endpointVars, NEW r \in Requests,
           AwaitsReply(r) \/ running = [req |-> r, sender |-> TRUE] \/ replies[r] # "none"
    PROVE  AwaitsReply(r)' \/ running' = [req |-> r, sender |-> TRUE] \/ replies'[r] # "none"
<1>1. CASE AwaitsReply(r)
  <2>1. CASE DropManager
    BY <1>1, <2>1 DEF DropManager
  <2> QED
    BY <1>1, <2>1, AwaitsReplyStays
<1>2. CASE replies[r] # "none"
  <2>1. CASE ClosureReturns
    BY <1>2, <2>1 DEF ClosureReturns, Answer, EndpointTypeOK
  <2>2. CASE ClientPanics
    BY <1>2, <2>2 DEF ClientPanics, Answer, EndpointTypeOK
  <2>3. CASE DropManager
    BY <1>2, <2>3 DEF DropManager
  <2> QED
    BY <1>2, <2>1, <2>2, <2>3, AnsweringSteps
<1>3. CASE running = [req |-> r, sender |-> TRUE]
  <2>1. running.sender /\ running.req = r /\ running # NoMsg
    BY <1>3, NoMsgFields
  <2>2. CASE ClosureReturns
    BY <2>1, <2>2 DEF ClosureReturns, Answer, EndpointTypeOK
  <2>3. CASE ClientPanics
    BY <2>1, <2>3 DEF ClientPanics, Answer, EndpointTypeOK
  <2>4. CASE running' = running
    BY <1>3, <2>4
  <2>5. ~TryRecv
    BY <2>1 DEF TryRecv, LoopHolds
  <2> QED
    BY <2>2, <2>3, <2>4, <2>5, MovingSteps DEF SendMsg, DropManager
<1> QED
  BY <1>1, <1>2, <1>3

(* Every step keeps the request of a blocked caller in the queue, with the *)
(* loop, or answered.                                                      *)
LEMMA NextCallIsHeld ==
    ASSUME EndpointInv, [EndpointNext]_endpointVars
    PROVE  CallIsHeld'
<1> USE DEF EndpointInv, AnswerInv
<1> SUFFICES ASSUME NEW u \in Threads, tpc'[u] \in {"calling", "waiting"}
             PROVE  \/ AwaitsReply(Current(u))'
                    \/ running' = [req |-> Current(u)', sender |-> TRUE]
                    \/ replies'[Current(u)'] # "none"
  BY DEF CallIsHeld
<1>1. CASE tpc[u] \in {"calling", "waiting"} /\ made'[u] = made[u]
  <2>1. Current(u) \in Requests /\ Current(u)' = Current(u)
    BY <1>1, CurrentIsRequest DEF Current
  <2>2. \/ AwaitsReply(Current(u)) \/ running = [req |-> Current(u), sender |-> TRUE]
        \/ replies[Current(u)] # "none"
    BY <1>1 DEF CallIsHeld
  <2>3. ASSUME NEW r \in Requests, r = Current(u), r = Current(u)'
        PROVE  \/ AwaitsReply(Current(u))'
               \/ running' = [req |-> Current(u)', sender |-> TRUE]
               \/ replies'[Current(u)'] # "none"
    <3>1. AwaitsReply(r)' \/ running' = [req |-> r, sender |-> TRUE] \/ replies'[r] # "none"
      BY <2>2, <2>3, HeldStays DEF OrderInv
    <3> QED
      BY <2>3, <3>1 DEF AwaitsReply
  <2> QED
    BY <2>1, <2>3
<1>2. ASSUME NEW t \in Threads, NEW blocking \in BOOLEAN, SendMsg(t, blocking)
      PROVE  \/ AwaitsReply(Current(u))'
             \/ running' = [req |-> Current(u)', sender |-> TRUE]
             \/ replies'[Current(u)'] # "none"
  <2>1. CASE u # t
    <3>1. tpc'[u] = tpc[u]
      BY <1>2, <2>1 DEF SendMsg, EndpointTypeOK
    <3>2. made'[u] = made[u]
      BY <1>2, <2>1, SendMsgType
    <3> QED
      BY <1>1, <3>1, <3>2
  <2>2. CASE u = t
    <3> DEFINE msg == [req |-> Current(t)', sender |-> blocking]
    <3>1. msg \in FnMsg
      BY <1>2, SendMsgType
    <3>2. queue \in Seq(FnMsg) /\ queue' = Append(queue, msg) /\ blocking
      <4>1. tpc[t] = "ready"
        BY <1>2 DEF SendMsg, RunsClientCode
      <4>2. lpc # "gone"
        BY <1>2, <2>2, <4>1 DEF SendMsg
      <4>3. tpc'[t] = IF blocking THEN "calling" ELSE "firing"
        BY <1>2, <4>2 DEF SendMsg, EndpointTypeOK
      <4> QED
        BY <1>2, <2>2, <4>2, <4>3 DEF SendMsg, EndpointTypeOK
    <3>3. Len(queue) + 1 \in DOMAIN queue' /\ queue'[Len(queue) + 1] = msg
      BY <3>1, <3>2, AppendElements
    <3>4. msg.req = Current(u)' /\ msg.sender
      BY <2>2, <3>2
    <3> QED
      BY <3>3, <3>4 DEF AwaitsReply
  <2> QED
    BY <2>1, <2>2
<1>3. ASSUME NEW t \in Threads, WriteEventFd(t) \/ WriteEventFdFails(t) \/ RecvReply(t)
      PROVE  tpc[u] \in {"calling", "waiting"} /\ made'[u] = made[u]
  BY <1>3 DEF WriteEventFd, WriteEventFdFails, RecvReply, EndpointTypeOK
<1> QED
  BY <1>1, <1>2, <1>3, TellingSteps

-----------------------------------------------------------------------------
(* The theorems. *)

(* A new endpoint satisfies the invariant. *)
LEMMA InitEndpointInv == EndpointInit => EndpointInv
<1> SUFFICES ASSUME EndpointInit PROVE EndpointInv
  OBVIOUS
<1>1. EndpointTypeOK
  <2>1. 0 \in 0..MaxRequests /\ 0 \in 0..MaxCounter
    BY EndpointAssumption
  <2>2. made \in [Threads -> 0..MaxRequests] /\ counter \in 0..MaxCounter
    BY <2>1 DEF EndpointInit
  <2>3. tpc \in [Threads -> {"ready", "calling", "firing", "waiting"}]
    BY DEF EndpointInit
  <2>4. replies \in [Requests -> {"none", "value", "hangup"}]
    BY DEF EndpointInit
  <2>5. told \in [Requests -> {"none", "Ok", "Value", "ChannelSend", "EventFd", "ChannelRecv"}]
    BY DEF EndpointInit
  <2>6. queue \in Seq(FnMsg) /\ executed \in Seq(Requests)
    BY DEF EndpointInit
  <2>7. lpc = "wait" /\ noted = FALSE /\ running = NoMsg
    BY DEF EndpointInit
  <2> QED
    BY <2>2, <2>3, <2>4, <2>5, <2>6, <2>7 DEF EndpointTypeOK
<1>2. OrderInv
  <2>1. queue = << >> /\ executed = << >> /\ running = NoMsg /\ lpc = "wait"
    BY DEF EndpointInit
  <2>2. Sent(running.req)
    BY <2>1, NoMsgFields DEF EndpointInit, Sent, Threads
  <2> QED
    BY <2>1, <2>2 DEF OrderInv, QueueInOrder, RunningIsOldest, ExecutedCameFirst, InOrder,
                      AllWereSent, LoopHolds
<1>3. AnswerInv
  <2>1. RepliesAreTrue /\ InsideOfRequest /\ CallIsHeld /\ HonestAnswers
    BY DEF EndpointInit, RepliesAreTrue, InsideOfRequest, CallIsHeld, HonestAnswers
  <2>2. \A r \in Requests : r[1] \in Threads /\ r[2] \in Nat \ {0}
    BY RequestPairs, EndpointAssumption
  <2>3. ToldWhenDone
    BY <2>2 DEF EndpointInit, ToldWhenDone
  <2> QED
    BY <2>1, <2>3 DEF AnswerInv
<1> QED
  BY <1>1, <1>2, <1>3 DEF EndpointInv

(* The invariant is inductive. *)
LEMMA NextEndpointInv == EndpointInv /\ [EndpointNext]_endpointVars => EndpointInv'
<1> SUFFICES ASSUME EndpointInv, [EndpointNext]_endpointVars PROVE EndpointInv'
  OBVIOUS
<1>1. EndpointTypeOK'
  BY NextEndpointTypeOK DEF EndpointInv, OrderInv
<1>2. OrderInv'
  BY NextOrderInv DEF EndpointInv
<1>3. RepliesAreTrue' /\ ToldWhenDone' /\ InsideOfRequest'
  BY NextRepliesAreTrue, NextToldWhenDone DEF EndpointInv, AnswerInv
<1>4. CallIsHeld' /\ HonestAnswers'
  BY NextCallIsHeld, NextHonestAnswers
<1> QED
  BY <1>1, <1>2, <1>3, <1>4 DEF EndpointInv, AnswerInv

(* The invariant holds in every reachable state, however many threads,     *)
(* requests and wakeups there are, with and without caught panics.         *)
THEOREM EndpointInvariant == EndpointSpec => []EndpointInv
BY InitEndpointInv, NextEndpointInv, PTL DEF EndpointSpec

(* Types of the endpoint; the history holds requests because a closure     *)
(* runs only with a message taken from the channel.                        *)
THEOREM EndpointTypes == EndpointSpec => []EndpointTypeOK
<1>1. EndpointInv => EndpointTypeOK
  BY DEF EndpointInv
<1> QED
  BY <1>1, EndpointInvariant, PTL

(* The closures of one thread run in the order it sent them, none twice:   *)
(* the channel is a queue and the loop runs one message at a time.         *)
THEOREM ClosuresInOrder == EndpointSpec => []InOrder
<1>1. EndpointInv => InOrder
  BY DEF EndpointInv, OrderInv
<1> QED
  BY <1>1, EndpointInvariant, PTL

(* What call_blocking and fire return is true for good. *)
THEOREM AnswersAreHonest == EndpointSpec => []HonestAnswers
<1>1. EndpointInv => HonestAnswers
  BY DEF EndpointInv, AnswerInv
<1> QED
  BY <1>1, EndpointInvariant, PTL

(* A thread blocked in call_blocking is never forgotten, whichever way its *)
(* message goes: run, panicked, or dropped with the manager.               *)
THEOREM CallersNotForgotten == EndpointSpec => []CallerNotForgotten
<1>1. EndpointInv => CallerNotForgotten
  <2> SUFFICES ASSUME EndpointInv, NEW t \in Threads, tpc[t] = "waiting"
               PROVE  \/ Queued(Current(t)) /\ lpc # "gone"
                      \/ lpc = "closure" /\ running.req = Current(t)
                      \/ replies[Current(t)] # "none"
    BY DEF CallerNotForgotten
  <2>1. CASE AwaitsReply(Current(t))
    BY <2>1 DEF EndpointInv, OrderInv, LoopHolds, AwaitsReply, Queued
  <2>2. CASE running = [req |-> Current(t), sender |-> TRUE]
    BY <2>2, NoMsgFields DEF EndpointInv, OrderInv, LoopHolds
  <2> QED
    BY <2>1, <2>2 DEF EndpointInv, AnswerInv, CallIsHeld
<1> QED
  BY <1>1, EndpointInvariant, PTL

(* No wakeup is lost, unless the owner goes on after a panic: `send`       *)
(* writes the eventfd after it queued, and the loop reads it before it     *)
(* drains.  (With caught panics it is false: run stranded.)                *)
THEOREM WakeupsNotLost ==
    ASSUME ~CatchesPanics
    PROVE  EndpointSpec => []NoLostWakeup
<1>1. EndpointInit => NoLostWakeup
  BY DEF EndpointInit, NoLostWakeup
<1>2. EndpointInv /\ NoLostWakeup /\ [EndpointNext]_endpointVars => NoLostWakeup'
  <2> SUFFICES ASSUME EndpointTypeOK, NoLostWakeup, [EndpointNext]_endpointVars,
                      lpc' \in {"wait", "process"}, queue' # << >>
               PROVE  counter' > 0 \/ \E t \in Threads : tpc'[t] \in {"calling", "firing"}
    BY DEF EndpointInv, NoLostWakeup
  <2>0. counter \in Nat /\ MaxCounter > 0
    BY EndpointAssumption DEF EndpointTypeOK
  <2>1. ASSUME NEW t \in Threads, NEW blocking \in BOOLEAN, SendMsg(t, blocking)
        PROVE  counter' > 0 \/ \E u \in Threads : tpc'[u] \in {"calling", "firing"}
    <3>1. lpc # "gone"
      BY <2>1 DEF SendMsg
    <3>2. tpc'[t] \in {"calling", "firing"}
      BY <2>1, <3>1 DEF SendMsg, EndpointTypeOK
    <3> QED
      BY <3>2
  <2>2. ASSUME NEW t \in Threads, WriteEventFd(t)
        PROVE  counter' > 0
    BY <2>0, <2>2 DEF WriteEventFd
  <2>3. ASSUME NEW t \in Threads, WriteEventFdFails(t)
        PROVE  counter' > 0
    BY <2>0, <2>3 DEF WriteEventFdFails
  <2>4. ASSUME NEW t \in Threads, RecvReply(t)
        PROVE  counter' > 0 \/ \E u \in Threads : tpc'[u] \in {"calling", "firing"}
    BY <2>4 DEF RecvReply, NoLostWakeup, EndpointTypeOK
  <2>5. ASSUME NEW t \in Threads, Kick(t)
        PROVE  counter' > 0
    BY <2>0, <2>5 DEF Kick
  <2>6. CASE LoopStep
    BY <2>6 DEF LoopStep, PollSignaled, PollOther, DispatchEndpointEvent, TryRecv, TryRecvEmpty,
                ClosureReturns, ClientPanics, CatchUnwind, DropManager, NoLostWakeup
  <2>7. CASE UNCHANGED endpointVars
    BY <2>7 DEF endpointVars, NoLostWakeup
  <2> QED
    BY <2>1, <2>2, <2>3, <2>4, <2>5, <2>6, <2>7
       DEF EndpointNext, AllDone, EndpointStep, CallBlocking, Fire
<1> QED
  BY <1>1, <1>2, EndpointInvariant, PTL DEF EndpointSpec

-----------------------------------------------------------------------------
(* Refinement of RemoteCall. *)

(* The abstract stage of a request, in the terms of the invariant. *)
StageIsPlace ==
    \A r \in Requests :
        /\ StageOf(r) = "unsent" <=> ~Sent(r)
        /\ StageOf(r) = "queued" <=> Queued(r)
        /\ StageOf(r) = "running" <=> running.req = r
        /\ StageOf(r) = "done" <=> Executed(r)
        /\ StageOf(r) = "lost" <=> Sent(r) /\ Nowhere(r)

(* The stage the mapping computes is where the request is. *)
LEMMA StageMeans == EndpointInv => StageIsPlace
<1> SUFFICES ASSUME EndpointTypeOK, OrderInv, NEW r \in Requests
             PROVE  /\ StageOf(r) = "unsent" <=> ~Sent(r)
                    /\ StageOf(r) = "queued" <=> Queued(r)
                    /\ StageOf(r) = "running" <=> running.req = r
                    /\ StageOf(r) = "done" <=> Executed(r)
                    /\ StageOf(r) = "lost" <=> Sent(r) /\ Nowhere(r)
  BY DEF EndpointInv, StageIsPlace
<1>1. r[2] > made[r[1]] <=> ~Sent(r)
  BY RequestPairs, EndpointAssumption DEF Sent, EndpointTypeOK
<1>2. StageOf(r) = CASE ~Sent(r)          -> "unsent"
                     [] Queued(r)         -> "queued"
                     [] running.req = r   -> "running"
                     [] Executed(r)       -> "done"
                     [] OTHER             -> "lost"
  BY <1>1 DEF StageOf, Executed
<1>3. CASE ~Sent(r)
  BY <1>2, <1>3, OnePlace
<1>4. CASE Queued(r)
  BY <1>2, <1>4, OnePlace DEF Nowhere
<1>5. CASE running.req = r
  BY <1>2, <1>5, OnePlace DEF Nowhere
<1>6. CASE Executed(r)
  BY <1>2, <1>6, OnePlace DEF Nowhere
<1>7. CASE Sent(r) /\ Nowhere(r)
  BY <1>2, <1>7 DEF Nowhere
<1> QED
  BY <1>3, <1>4, <1>5, <1>6, <1>7 DEF Nowhere

(* A step that leaves a request where it is leaves its stage. *)
LEMMA SameStage ==
    ASSUME StageIsPlace, StageIsPlace', NEW r \in Requests,
           Sent(r)' <=> Sent(r), Queued(r)' <=> Queued(r),
           running'.req = r <=> running.req = r, Executed(r)' <=> Executed(r)
    PROVE  StageOf(r)' = StageOf(r)
BY DEF StageIsPlace, Nowhere

(* Steps that move nothing. *)
LEMMA StillStages ==
    ASSUME UNCHANGED <<queue, running, executed, made>>, NEW r \in Requests
    PROVE  StageOf(r)' = StageOf(r)
BY DEF StageOf, Queued

(* Abstract closures are requests. *)
LEMMA ClosuresAreRequests == Call!Closures = Requests
BY DEF Call!Closures, Requests

(* The function of stages changes at one request only. *)
LEMMA OneStageMoves ==
    ASSUME NEW r \in Requests, NEW to, StageOf(r)' = to,
           \A q \in Requests \ {r} : StageOf(q)' = StageOf(q)
    PROVE  [q \in Requests |-> StageOf(q)]' = [[q \in Requests |-> StageOf(q)] EXCEPT ![r] = to]
OBVIOUS

(* The first half of `send`: the closure is handed over, or refused. *)
LEMMA SendMsgRefines ==
    ASSUME EndpointInv, StageIsPlace, StageIsPlace', NEW t \in Threads, NEW blocking \in BOOLEAN,
           SendMsg(t, blocking)
    PROVE  Call!Next
<1>0. PICK r \in Requests : r = Current(t)'
  BY SendMsgType DEF EndpointInv
<1>1. /\ r = <<t, made[t] + 1>> /\ made[t] \in Nat
      /\ \A u \in Threads : made[u] \in Nat /\ made'[u] = IF u = t THEN made[t] + 1 ELSE made[u]
      /\ [req |-> r, sender |-> blocking] \in FnMsg
  BY <1>0, SendMsgType DEF EndpointInv
<1>2. running' = running /\ executed' = executed /\ lpc' = lpc /\ tpc[t] = "ready"
  BY DEF SendMsg, RunsClientCode
<1>3. \A q \in Requests : q[1] \in Threads /\ q[2] \in Nat /\ q = <<q[1], q[2]>>
  BY RequestPairs, EndpointAssumption
<1>4. ~Sent(r) /\ made'[t] = made[t] + 1 /\ \A q \in Requests \ {r} : Sent(q)' <=> Sent(q)
  BY <1>1, <1>3 DEF Sent
<1>5. \A q \in Requests : Executed(q)' <=> Executed(q)
  BY <1>2 DEF Executed
<1>6. ~Executed(r) /\ ~Queued(r) /\ running.req # r
  BY <1>1, <1>4, OnePlace DEF EndpointInv
<1>7. StageOf(r) = "unsent"
  BY <1>1, <1>4 DEF StageIsPlace
<1>8. \A q \in Call!Earlier(r) : told[q] # "none"
  <2>1. \A q \in Call!Earlier(r) : q \in Requests /\ q[1] = t /\ q[2] < made[t] + 1
    BY <1>1, ClosuresAreRequests DEF Call!Earlier
  <2> QED
    BY <1>1, <1>2, <1>3, <2>1 DEF EndpointInv, AnswerInv, ToldWhenDone
<1>9. CASE lpc = "gone"
  <2>1. queue' = queue /\ told' = [told EXCEPT ![r] = "ChannelSend"]
    BY <1>0, <1>9 DEF SendMsg
  <2>2. \A q \in Requests : Queued(q)' <=> Queued(q)
    BY <2>1 DEF Queued
  <2>3. \A q \in Requests \ {r} : StageOf(q)' = StageOf(q)
    BY <1>2, <1>4, <1>5, <2>2, SameStage
  <2>4. StageOf(r)' = "lost"
    <3>1. Sent(r)' /\ Nowhere(r)'
      BY <1>1, <1>2, <1>4, <1>5, <1>6, <2>2 DEF Sent, Nowhere
    <3> QED
      BY <3>1 DEF StageIsPlace
  <2>5. [q \in Requests |-> StageOf(q)]' = [[q \in Requests |-> StageOf(q)] EXCEPT ![r] = "lost"]
    BY <2>3, <2>4, OneStageMoves
  <2>6. Call!Refuse(r)
    BY <1>2, <1>7, <1>8, <1>9, <2>1, <2>5 DEF Call!Refuse, Call!MaySubmit
  <2> QED
    BY <2>6, ClosuresAreRequests DEF Call!Next
<1>10. CASE lpc # "gone"
  <2> DEFINE msg == [req |-> r, sender |-> blocking]
  <2>1. queue \in Seq(FnMsg) /\ queue' = Append(queue, msg) /\ told' = told
    BY <1>0, <1>10 DEF SendMsg, EndpointInv, EndpointTypeOK
  <2>2. /\ DOMAIN queue = 1..Len(queue) /\ Len(queue) \in Nat
        /\ DOMAIN queue' = 1..(Len(queue) + 1)
        /\ \A i \in DOMAIN queue : queue'[i] = queue[i]
        /\ queue'[Len(queue) + 1] = msg
    BY <1>1, <2>1, AppendElements
  <2>3. \A i \in DOMAIN queue' : i \in DOMAIN queue \/ i = Len(queue) + 1
    BY <2>2
  <2>4. msg.req = r
    OBVIOUS
  <2>5. Queued(r)' /\ \A q \in Requests \ {r} : Queued(q)' <=> Queued(q)
    BY <2>2, <2>3, <2>4 DEF Queued
  <2>6. \A q \in Requests \ {r} : StageOf(q)' = StageOf(q)
    BY <1>2, <1>4, <1>5, <2>5, SameStage
  <2>7. StageOf(r)' = "queued"
    BY <2>5 DEF StageIsPlace
  <2>8. [q \in Requests |-> StageOf(q)]' = [[q \in Requests |-> StageOf(q)] EXCEPT ![r] = "queued"]
    BY <2>6, <2>7, OneStageMoves
  <2>9. Call!Submit(r)
    BY <1>2, <1>7, <1>8, <1>10, <2>1, <2>8 DEF Call!Submit, Call!MaySubmit, Call!Move
  <2> QED
    BY <2>9, ClosuresAreRequests DEF Call!Next
<1> QED
  BY <1>9, <1>10

(* The loop takes the oldest message: the oldest waiting closure starts. *)
LEMMA TryRecvRefines ==
    ASSUME EndpointInv, StageIsPlace, StageIsPlace', TryRecv
    PROVE  Call!Next
<1>1. queue \in Seq(FnMsg) /\ queue # << >> /\ queue' = Tail(queue) /\ running' = Head(queue)
  BY DEF TryRecv, EndpointInv, EndpointTypeOK
<1>2. PICK r \in Requests : r = queue[1].req
  BY <1>1, TailElements, MsgIsNotNoMsg
<1>3. running'.req = r /\ 1 \in DOMAIN queue /\ DOMAIN queue \subseteq Nat \ {0}
  BY <1>1, <1>2, TailElements
<1>4. \A q \in Requests : Sent(q)' <=> Sent(q)
  BY DEF TryRecv, Sent
<1>5. \A q \in Requests : Executed(q)' <=> Executed(q)
  BY DEF TryRecv, Executed
<1>6. \A q \in Requests \ {r} : Queued(q)' <=> Queued(q)
  <2>1. \A i \in DOMAIN queue' : i + 1 \in DOMAIN queue /\ queue'[i] = queue[i + 1]
    BY <1>1, TailElements
  <2>2. \A i \in DOMAIN queue : i = 1 \/ (i - 1 \in DOMAIN queue' /\ queue'[i - 1] = queue[i])
    BY <1>1, HeadOrTail
  <2> QED
    BY <1>2, <2>1, <2>2 DEF Queued
<1>7. running = NoMsg /\ \A q \in Requests : running.req # q
  BY NoMsgFields, RequestPairs DEF TryRecv, EndpointInv, OrderInv, LoopHolds
<1>8. \A q \in Requests \ {r} : StageOf(q)' = StageOf(q)
  BY <1>3, <1>4, <1>5, <1>6, <1>7, SameStage
<1>9. StageOf(r) = "queued" /\ StageOf(r)' = "running"
  BY <1>2, <1>3 DEF StageIsPlace, Queued
<1>10. \A q \in Requests : StageOf(q) # "running"
  BY <1>7 DEF StageIsPlace
<1>11. \A q \in Call!Earlier(r) : StageOf(q) # "queued"
  <2> SUFFICES ASSUME NEW q \in Requests, q[1] = r[1], q[2] < r[2], Queued(q)
               PROVE  FALSE
    BY ClosuresAreRequests DEF Call!Earlier, StageIsPlace
  <2>1. PICK i \in DOMAIN queue : queue[i].req = q
    BY DEF Queued
  <2>2. q[2] \in Nat /\ r[2] \in Nat
    BY RequestPairs, EndpointAssumption
  <2>3. i = 1 \/ 1 < i
    BY <1>3
  <2> QED
    BY <1>2, <1>3, <2>1, <2>2, <2>3 DEF EndpointInv, OrderInv, QueueInOrder, Precedes
<1>12. [q \in Requests |-> StageOf(q)]' = [[q \in Requests |-> StageOf(q)] EXCEPT ![r] = "running"]
  BY <1>8, <1>9, OneStageMoves
<1>13. (lpc # "gone")' = (lpc # "gone") /\ told' = told
  BY DEF TryRecv
<1>14. \A q \in Call!Earlier(r) : q \in Requests
  BY ClosuresAreRequests DEF Call!Earlier
<1>15. Call!Start(r)
  BY <1>9, <1>10, <1>11, <1>12, <1>13, <1>14, ClosuresAreRequests DEF Call!Start, Call!Move
<1> QED
  BY <1>15, ClosuresAreRequests DEF Call!Next, Call!Executes

(* A closure ends: it is done, or with a panic lost. *)
LEMMA ClosureEndsRefines ==
    ASSUME EndpointInv, EndpointInv', [EndpointNext]_endpointVars, StageIsPlace, StageIsPlace',
           lpc = "closure", ClosureReturns \/ ClientPanics
    PROVE  Call!Next
<1>1. PICK r \in Requests : r = running.req
  BY MsgIsNotNoMsg DEF EndpointInv, EndpointTypeOK, OrderInv, LoopHolds
<1>2. /\ queue' = queue /\ made' = made /\ told' = told
      /\ running' = NoMsg /\ (lpc # "gone")' = (lpc # "gone")
  BY DEF ClosureReturns, ClientPanics
<1>3. \A q \in Requests : (Sent(q)' <=> Sent(q)) /\ (Queued(q)' <=> Queued(q)) /\ running'.req # q
  BY <1>2, NoMsgFields, RequestPairs DEF Sent, Queued
<1>4. \A q \in Requests \ {r} : Executed(q)' <=> Executed(q)
  BY <1>1, ExecutedStays, ExecutedGrows DEF EndpointInv, OrderInv
<1>5. \A q \in Requests \ {r} : StageOf(q)' = StageOf(q)
  BY <1>1, <1>3, <1>4, SameStage
<1>6. StageOf(r) = "running"
  BY <1>1 DEF StageIsPlace
<1>7. CASE ClosureReturns
  <2>1. executed \in Seq(Requests) /\ executed' = Append(executed, r)
    BY <1>1, <1>7 DEF ClosureReturns, EndpointInv, EndpointTypeOK
  <2>2. DOMAIN executed' = 1..(Len(executed) + 1) /\ executed'[Len(executed) + 1] = r /\ Len(executed) \in Nat
    BY <2>1, AppendElements
  <2>3. StageOf(r)' = "done"
    BY <2>2 DEF StageIsPlace, Executed
  <2>4. [q \in Requests |-> StageOf(q)]' = [[q \in Requests |-> StageOf(q)] EXCEPT ![r] = "done"]
    BY <1>5, <2>3, OneStageMoves
  <2>5. Call!Finish(r)
    BY <1>2, <1>6, <2>4 DEF Call!Finish, Call!Move
  <2> QED
    BY <2>5, ClosuresAreRequests DEF Call!Next, Call!Executes
<1>8. CASE ClientPanics
  <2>1. Sent(r)' /\ Nowhere(r)'
    <3>1. Sent(r) /\ ~Executed(r) /\ ~Queued(r)
      BY <1>1, OnePlace DEF EndpointInv
    <3>2. executed' = executed
      BY <1>8 DEF ClientPanics
    <3> QED
      BY <1>3, <3>1, <3>2 DEF Nowhere, Executed
  <2>2. StageOf(r)' = "lost"
    BY <2>1 DEF StageIsPlace
  <2>3. [q \in Requests |-> StageOf(q)]' = [[q \in Requests |-> StageOf(q)] EXCEPT ![r] = "lost"]
    BY <1>5, <2>2, OneStageMoves
  <2>4. Call!Fail(r)
    BY <1>2, <1>6, <2>3 DEF Call!Fail, Call!Move
  <2> QED
    BY <2>4, ClosuresAreRequests DEF Call!Next, Call!Executes
<1> QED
  BY <1>7, <1>8

(* The manager is dropped, never in a closure, with all that waits. *)
LEMMA DropManagerRefines ==
    ASSUME EndpointInv, StageIsPlace, StageIsPlace', DropManager
    PROVE  Call!Next
<1>1. /\ queue' = << >> /\ running' = running /\ executed' = executed /\ made' = made /\ told' = told
      /\ lpc # "gone" /\ lpc' = "gone" /\ running = NoMsg
  BY DEF DropManager, EndpointInv, OrderInv, LoopHolds
<1>2. \A q \in Requests : running.req # q
  BY <1>1, NoMsgFields, RequestPairs
<1>3. \A q \in Requests : /\ Sent(q)' <=> Sent(q)
                          /\ Executed(q)' <=> Executed(q)
                          /\ ~Queued(q)'
  BY <1>1 DEF Sent, Executed, Queued
<1>4. \A q \in Requests : StageOf(q)' = IF StageOf(q) = "queued" THEN "lost" ELSE StageOf(q)
  <2> SUFFICES ASSUME NEW q \in Requests
               PROVE  StageOf(q)' = IF StageOf(q) = "queued" THEN "lost" ELSE StageOf(q)
    OBVIOUS
  <2>1. CASE Queued(q)
    <3>1. Sent(q) /\ ~Executed(q)
      BY <2>1, OnePlace DEF EndpointInv
    <3>2. Sent(q)' /\ Nowhere(q)'
      BY <1>1, <1>2, <1>3, <3>1 DEF Nowhere
    <3> QED
      BY <2>1, <3>2 DEF StageIsPlace
  <2>2. CASE ~Queued(q)
    <3>1. StageOf(q)' = StageOf(q)
      BY <1>1, <1>3, <2>2, SameStage
    <3> QED
      BY <2>2, <3>1 DEF StageIsPlace
  <2> QED
    BY <2>1, <2>2
<1>5. \A q \in Requests : StageOf(q) # "running"
  BY <1>2 DEF StageIsPlace
<1>6. Call!Vanish
  BY <1>1, <1>4, <1>5, ClosuresAreRequests DEF Call!Vanish
<1> QED
  BY <1>6 DEF Call!Next

(* An operation returns: its thread is told, and told the truth. *)
LEMMA ReturnRefines ==
    ASSUME EndpointInv, StageIsPlace, NEW t \in Threads,
           \/ WriteEventFd(t) /\ tpc[t] # "calling"
           \/ WriteEventFdFails(t)
           \/ RecvReply(t)
    PROVE  Call!Next
<1>1. tpc[t] # "ready"
  BY DEF WriteEventFd, WriteEventFdFails, RecvReply
<1>2. PICK r \in Requests : r = Current(t) /\ r[1] = t /\ r[2] = made[t]
  BY <1>1, CurrentIsRequest DEF EndpointInv, AnswerInv
<1>3. Sent(r) /\ told[r] = "none"
  <2>1. made[t] \in Nat
    BY EndpointAssumption DEF EndpointInv, EndpointTypeOK
  <2> QED
    BY <1>1, <1>2, <2>1 DEF Sent, EndpointInv, AnswerInv, ToldWhenDone
<1>4. StageOf(r) # "unsent"
  BY <1>3 DEF StageIsPlace
<1>5. UNCHANGED <<queue, running, executed, made, lpc>>
  BY DEF WriteEventFd, WriteEventFdFails, RecvReply
<1>6. [q \in Requests |-> StageOf(q)]' = [q \in Requests |-> StageOf(q)]
  BY <1>5, StillStages
<1>7. \/ told' = [told EXCEPT ![r] = "Ok"]
      \/ told' = [told EXCEPT ![r] = "EventFd"]
      \/ StageOf(r) = "done" /\ told' = [told EXCEPT ![r] = "Value"]
      \/ StageOf(r) = "lost" /\ told' = [told EXCEPT ![r] = "ChannelRecv"]
  <2>1. CASE WriteEventFd(t) /\ tpc[t] # "calling"
    BY <1>2, <2>1 DEF WriteEventFd
  <2>2. CASE WriteEventFdFails(t)
    BY <1>2, <2>2 DEF WriteEventFdFails
  <2>3. CASE RecvReply(t)
    <3>1. /\ replies[r] # "none"
          /\ told' = [told EXCEPT ![r] = IF replies[r] = "value" THEN "Value" ELSE "ChannelRecv"]
      BY <1>2, <2>3 DEF RecvReply
    <3>2. replies[r] \in {"value", "hangup"}
      BY <3>1 DEF EndpointInv, EndpointTypeOK
    <3>3. /\ replies[r] = "value" => StageOf(r) = "done"
          /\ replies[r] = "hangup" => StageOf(r) = "lost"
      BY DEF EndpointInv, AnswerInv, RepliesAreTrue, StageIsPlace
    <3> QED
      BY <3>1, <3>2, <3>3
  <2> QED
    BY <2>1, <2>2, <2>3
<1>8. Call!Tell(r)
  BY <1>3, <1>4, <1>5, <1>6, <1>7 DEF Call!Tell
<1> QED
  BY <1>8, ClosuresAreRequests DEF Call!Next

(* All other steps are invisible. *)
LEMMA OtherStepsStutter ==
    ASSUME UNCHANGED <<queue, running, executed, made, told>>, (lpc # "gone")' = (lpc # "gone")
    PROVE  UNCHANGED Call!callVars
<1>1. [q \in Requests |-> StageOf(q)]' = [q \in Requests |-> StageOf(q)]
  BY StillStages
<1> QED
  BY <1>1 DEF Call!callVars

(* Every step is a step of RemoteCall or changes no stage. *)
LEMMA NextRefines ==
    ASSUME EndpointInv, EndpointInv', StageIsPlace, StageIsPlace', [EndpointNext]_endpointVars
    PROVE  [Call!Next]_(Call!callVars)
<1>1. CASE UNCHANGED endpointVars
  BY <1>1, OtherStepsStutter DEF endpointVars
<1>2. ASSUME NEW t \in Threads, EndpointStep(t)
      PROVE  [Call!Next]_(Call!callVars)
  <2>1. CASE CallBlocking(t)
    BY <2>1, SendMsgRefines DEF CallBlocking
  <2>2. CASE Fire(t)
    BY <2>2, SendMsgRefines DEF Fire
  <2>3. CASE WriteEventFd(t) /\ tpc[t] = "calling"
    BY <2>3, OtherStepsStutter DEF WriteEventFd
  <2>4. CASE \/ WriteEventFd(t) /\ tpc[t] # "calling"
             \/ WriteEventFdFails(t)
             \/ RecvReply(t)
    BY <2>4, ReturnRefines
  <2>5. CASE Kick(t)
    BY <2>5, OtherStepsStutter DEF Kick
  <2> QED
    BY <1>2, <2>1, <2>2, <2>3, <2>4, <2>5 DEF EndpointStep
<1>3. CASE PollSignaled \/ PollOther \/ DispatchEndpointEvent \/ TryRecvEmpty \/ CatchUnwind
  BY <1>3, OtherStepsStutter
     DEF PollSignaled, PollOther, DispatchEndpointEvent, TryRecvEmpty, CatchUnwind
<1>4. CASE TryRecv
  BY <1>4, TryRecvRefines
<1>5. CASE ClosureReturns \/ (ClientPanics /\ lpc = "closure")
  BY <1>5, ClosureEndsRefines DEF ClosureReturns
<1>6. CASE ClientPanics /\ lpc # "closure"
  <2>1. running = NoMsg
    BY <1>6 DEF EndpointInv, OrderInv, LoopHolds
  <2> QED
    BY <1>6, <2>1, OtherStepsStutter DEF ClientPanics
<1>7. CASE DropManager
  BY <1>7, DropManagerRefines
<1> QED
  BY <1>1, <1>2, <1>3, <1>4, <1>5, <1>6, <1>7 DEF EndpointNext, LoopStep, AllDone

(* The endpoint implements RemoteCall: one closure at a time, each thread's *)
(* in order, each run once or lost for good, and every caller told the     *)
(* truth, for any number of threads and of requests.                       *)
THEOREM EndpointImplementsRemoteCall == EndpointSpec => ImplementsRemoteCall
<1>1. EndpointInit => Call!Init
  <2> SUFFICES ASSUME EndpointInit PROVE Call!Init
    OBVIOUS
  <2>1. \A r \in Requests : StageOf(r) = "unsent"
    <3>1. StageIsPlace
      BY InitEndpointInv, StageMeans
    <3>2. \A r \in Requests : ~Sent(r)
      BY RequestPairs, EndpointAssumption DEF EndpointInit, Sent
    <3> QED
      BY <3>1, <3>2 DEF StageIsPlace
  <2> QED
    BY <2>1, ClosuresAreRequests DEF EndpointInit, Call!Init
<1>2. EndpointInv /\ EndpointInv' /\ StageIsPlace /\ StageIsPlace' /\ [EndpointNext]_endpointVars
        => [Call!Next]_(Call!callVars)
  BY NextRefines
<1> QED
  BY <1>1, <1>2, StageMeans, EndpointInvariant, PTL DEF EndpointSpec, ImplementsRemoteCall, Call!Spec
=============================================================================
