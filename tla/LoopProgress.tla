---------------------------- MODULE LoopProgress ----------------------------
(***************************************************************************)
(* Who gets a turn: EventManager::new_with_capacity, `run` and the drain   *)
(* loop of src/src/manager.rs over epoll's ready list (EXTERNAL), which    *)
(* serves level-triggered sources in turn.  Subscribers are their          *)
(* descriptors here; registrations do not change (see EventManager).       *)
(***************************************************************************)
EXTENDS Naturals, Sequences, FiniteSets, SequencesExt

CONSTANTS
    Fds,         \* the subscribers' descriptors
    Channel,     \* the manager's own eventfd
    I32Max,      \* i32::MAX
    EventSize,   \* size_of::<EpollEvent>()
    MaxMessages  \* bound: closures sent, by other threads, callbacks or closures

ASSUME ProgressAssumption ==
    /\ IsFiniteSet(Fds)
    /\ Channel \notin Fds
    /\ I32Max \in Nat
    /\ EventSize \in Nat \ {0}
    /\ MaxMessages \in Nat

SourcesSet == Fds \cup {Channel}

MAX_READY_EVENTS_CAPACITY == I32Max \div EventSize

(* EP_MAX_EVENTS of the kernel: epoll_wait wants 1..EP_MAX_EVENTS slots.   *)
EpMaxEvents == I32Max \div EventSize

VARIABLES
    capacity,    \* ready_events.len()
    state,       \* "none" before the constructor, "refused" after its error,
                 \* "idle", "dispatch", "drain" in the loop, "error" after a failed run
    raised,      \* sources that are ready
    rdlist,      \* epoll's ready list, of sources that were ready when last looked at
    batch,       \* the collected events the loop has yet to look at
    noted,       \* endpoint_event is Some
    pending,     \* closures in the channel
    sent,        \* closures sent so far
    passed       \* history: [Fds -> Nat]: polls a ready descriptor was left out of in a row

progressVars == <<capacity, state, raised, rdlist, batch, noted, pending, sent, passed>>

ProgressTypeOK ==
    /\ capacity \in 0..(MAX_READY_EVENTS_CAPACITY + 1)
    /\ state \in {"none", "refused", "idle", "dispatch", "drain", "error"}
    /\ raised \in SUBSET SourcesSet
    /\ rdlist \in Seq(SourcesSet)
    /\ batch \in Seq(SourcesSet)
    /\ noted \in BOOLEAN
    /\ pending \in 0..MaxMessages
    /\ sent \in 0..MaxMessages
    /\ passed \in [Fds -> Nat]

ProgressInit ==
    /\ capacity = 0
    /\ state = "none"
    /\ raised = {}
    /\ rdlist = << >>
    /\ batch = << >>
    /\ noted = FALSE
    /\ pending = 0
    /\ sent = 0
    /\ passed = [fd \in Fds |-> 0]

-----------------------------------------------------------------------------
(* new_with_capacity.  Besides InvalidCapacity, creating the epoll         *)
(* instance or the eventfd may fail.                                       *)

(* Seeded fault: the limit is off by one. *)
NewWithCapacityOffByOne(n) ==
    /\ state = "none"
    /\ capacity' = n
    /\ IF n > MAX_READY_EVENTS_CAPACITY + 1
       THEN state' = "refused"
       ELSE state' \in {"idle", "refused"}
    /\ UNCHANGED <<raised, rdlist, batch, noted, pending, sent, passed>>

NewWithCapacity(n) ==
    /\ state = "none"
    /\ capacity' = n
    /\ IF n > MAX_READY_EVENTS_CAPACITY
       THEN state' = "refused"
       ELSE state' \in {"idle", "refused"}
    /\ UNCHANGED <<raised, rdlist, batch, noted, pending, sent, passed>>

-----------------------------------------------------------------------------
(* Sources.  A source that becomes ready is put at the end of the list,    *)
(* unless it is on it; one that is no longer ready is found out by the     *)
(* next poll.                                                              *)

Ready(s) == raised \cup {s}

Enlist(s) == IF Contains(rdlist, s) THEN rdlist ELSE Append(rdlist, s)

Exists == state \in {"idle", "dispatch", "drain"}

Raise(fd) ==
    /\ Exists
    /\ raised' = Ready(fd)
    /\ rdlist' = Enlist(fd)
    /\ UNCHANGED <<capacity, state, batch, noted, pending, sent, passed>>

(* `fire` or call_blocking, by any thread; `kick` when nothing is sent. *)
Send(n) ==
    /\ Exists
    /\ sent + n <= MaxMessages
    /\ sent' = sent + n
    /\ pending' = pending + n
    /\ raised' = Ready(Channel)
    /\ rdlist' = Enlist(Channel)
    /\ UNCHANGED <<capacity, state, batch, noted, passed>>

-----------------------------------------------------------------------------
(* epoll_wait: go through the list until `slots` ready sources are found;  *)
(* these go to the end of the list, the others on the way leave it.        *)

(* at[1], ..., at[n] are the places of the ready sources among the first k. *)
FindsReady(at, n, k) ==
    /\ \A i, j \in 1..n : i < j => at[i] < at[j]
    /\ {at[i] : i \in 1..n} = {i \in 1..k : rdlist[i] \in raised}

(* The search stops at the last slot's source, or else at the list's end.  *)
StopsAt(at, n, k, slots) ==
    IF n = slots THEN k = at[n] ELSE k = Len(rdlist)

Wait(slots) ==
    \E k \in 0..Len(rdlist), n \in 0..slots : \E at \in [1..n -> 1..k] :
        /\ FindsReady(at, n, k)
        /\ StopsAt(at, n, k, slots)
        /\ batch' = [i \in 1..n |-> rdlist[at[i]]]
        /\ rdlist' = SubSeq(rdlist, k + 1, Len(rdlist)) \o batch'
        /\ passed' = [fd \in Fds |-> IF fd \in raised /\ ~Contains(batch', fd)
                                     THEN passed[fd] + 1 ELSE 0]

(* Seeded fault: the buffer is not passed at its full length. *)
PollOneSlot ==
    /\ state = "idle"
    /\ capacity \in 1..EpMaxEvents
    /\ Wait(1)
    /\ state' = "dispatch"
    /\ UNCHANGED <<capacity, raised, noted, pending, sent>>

(* `poll` with the whole buffer. *)
Poll ==
    /\ state = "idle"
    /\ capacity \in 1..EpMaxEvents
    /\ Wait(capacity)
    /\ state' = "dispatch"
    /\ UNCHANGED <<capacity, raised, noted, pending, sent>>

(* Any other length is EINVAL, and `run` returns the error. *)
PollInvalid ==
    /\ state = "idle"
    /\ capacity \notin 1..EpMaxEvents
    /\ state' = "error"
    /\ UNCHANGED <<capacity, raised, rdlist, batch, noted, pending, sent, passed>>

-----------------------------------------------------------------------------
(* dispatch_events and handle_endpoint_calls. *)

(* Seeded fault: `break` for `continue` at the endpoint's event. *)
NoteEndpointEventAndStop ==
    /\ state = "dispatch"
    /\ batch # << >> /\ Head(batch) = Channel
    /\ noted' = TRUE
    /\ batch' = << >>
    /\ UNCHANGED <<capacity, state, raised, rdlist, pending, sent, passed>>

NoteEndpointEvent ==
    /\ state = "dispatch"
    /\ batch # << >> /\ Head(batch) = Channel
    /\ noted' = TRUE
    /\ batch' = Tail(batch)
    /\ UNCHANGED <<capacity, state, raised, rdlist, pending, sent, passed>>

(* `process` may or may not consume what made its descriptor ready. *)
Process(fd) ==
    /\ state = "dispatch"
    /\ batch # << >> /\ Head(batch) = fd
    /\ raised' \in {raised, raised \ {fd}}
    /\ batch' = Tail(batch)
    /\ UNCHANGED <<capacity, state, rdlist, noted, pending, sent, passed>>

(* The eventfd is read before the channel is drained.  The check that its  *)
(* event is IN is in EventManager.                                         *)
DispatchEnds ==
    /\ state = "dispatch"
    /\ batch = << >>
    /\ state' = IF noted THEN "drain" ELSE "idle"
    /\ raised' = IF noted THEN raised \ {Channel} ELSE raised
    /\ noted' = FALSE
    /\ UNCHANGED <<capacity, rdlist, batch, pending, sent, passed>>

(* Seeded fault: a message is taken for granted. *)
RunClosureUnchecked ==
    /\ state = "drain"
    /\ pending' = pending - 1
    /\ UNCHANGED <<capacity, state, raised, rdlist, batch, noted, sent, passed>>

(* Seeded fault: `if let` for `while let`. *)
RunOneClosure ==
    /\ state = "drain"
    /\ pending > 0
    /\ pending' = pending - 1
    /\ state' = "idle"
    /\ UNCHANGED <<capacity, raised, rdlist, batch, noted, sent, passed>>

(* One closure of the `while let`; closures it fires are Sends. *)
RunClosure ==
    /\ state = "drain"
    /\ pending > 0
    /\ pending' = pending - 1
    /\ UNCHANGED <<capacity, state, raised, rdlist, batch, noted, sent, passed>>

DrainEnds ==
    /\ state = "drain"
    /\ pending = 0
    /\ state' = "idle"
    /\ UNCHANGED <<capacity, raised, rdlist, batch, noted, pending, sent, passed>>

-----------------------------------------------------------------------------
(* A manager that was refused, or whose run fails, is given up. *)
GivenUp == state \in {"refused", "error"} /\ UNCHANGED progressVars

Dispatch ==
    \/ NoteEndpointEvent
    \/ \E fd \in Fds : Process(fd)
    \/ DispatchEnds

ProgressNext ==
    \/ \E n \in 0..(MAX_READY_EVENTS_CAPACITY + 1) : NewWithCapacity(n)
    \/ \E fd \in Fds : Raise(fd)
    \/ \E n \in 0..1 : Send(n)
    \/ Poll
    \/ PollInvalid
    \/ Dispatch
    \/ RunClosure
    \/ DrainEnds
    \/ GivenUp

ProgressSpec == ProgressInit /\ [][ProgressNext]_progressVars

(* The loop's thread runs and client code returns.  Nothing is assumed of  *)
(* who is served: that is the ready list's doing.                          *)
ProgressFairSpec ==
    /\ ProgressSpec
    /\ WF_progressVars(Poll \/ Dispatch \/ RunClosure \/ DrainEnds)

-----------------------------------------------------------------------------
(* Properties. *)

(* `run` fails with EINVAL for no capacity the constructor accepts but 0,  *)
(* which it does accept: MAX_READY_EVENTS_CAPACITY is the kernel's own     *)
(* limit, to the unit.                                                     *)
InvalidOnlyForZero == state = "error" => capacity = 0

(* However small the buffer, a ready descriptor is left out of no more     *)
(* polls in a row than it takes to serve everybody else once.              *)
BoundedBypass ==
    \A fd \in Fds : passed[fd] * capacity <= Cardinality(SourcesSet \ {fd})

(* A descriptor that stays ready gets its `process`, whatever its          *)
(* neighbours do, with the buffer always full, kicks in every round and    *)
(* closures that fire closures, as long as these come to an end.           *)
NoStarvation ==
    \A fd \in Fds :
        fd \in raised /\ capacity > 0 ~>
            (fd \notin raised \/ (state = "dispatch" /\ batch # << >> /\ Head(batch) = fd))

(* A closure in the channel is not left there, however busy the            *)
(* descriptors are.                                                        *)
ChannelIsDrained == pending > 0 /\ capacity > 0 ~> pending = 0
=============================================================================
