----------------------------- MODULE RemoteCall -----------------------------
(***************************************************************************)
(* What src/src/endpoint.rs promises its users, without channel, eventfd or *)
(* loop: a closure handed over is run by one executor, once, in the order   *)
(* its thread handed it over, or it is lost with the executor; and what a   *)
(* thread is told about it is true.                                         *)
(***************************************************************************)
EXTENDS Naturals

CONSTANTS
    Users,      \* threads that hand over closures
    Limit       \* bound: closures one thread hands over

Closures == Users \X (1..Limit)

VARIABLES
    alive,      \* the executor exists
    stage,      \* [Closures -> ...]: where a closure is
    verdict     \* [Closures -> ...]: what its thread was told, "none" before

callVars == <<alive, stage, verdict>>

Init ==
    /\ alive = TRUE
    /\ stage = [r \in Closures |-> "unsent"]
    /\ verdict = [r \in Closures |-> "none"]

Earlier(r) == {q \in Closures : q[1] = r[1] /\ q[2] < r[2]}

(* A thread hands over one closure at a time. *)
MaySubmit(r) ==
    /\ stage[r] = "unsent"
    /\ \A q \in Earlier(r) : verdict[q] # "none"

Move(r, from, to) ==
    /\ stage[r] = from
    /\ stage' = [stage EXCEPT ![r] = to]
    /\ UNCHANGED <<alive, verdict>>

Submit(r) == alive /\ MaySubmit(r) /\ Move(r, "unsent", "queued")

Refuse(r) ==
    /\ ~alive
    /\ MaySubmit(r)
    /\ stage' = [stage EXCEPT ![r] = "lost"]
    /\ verdict' = [verdict EXCEPT ![r] = "ChannelSend"]
    /\ UNCHANGED alive

(* One closure at a time, those of one thread in order. *)
Start(r) ==
    /\ \A q \in Closures : stage[q] # "running"
    /\ \A q \in Earlier(r) : stage[q] # "queued"
    /\ Move(r, "queued", "running")

Finish(r) == Move(r, "running", "done")

Fail(r) == Move(r, "running", "lost")

(* The executor goes, never in the middle of a closure, and takes the      *)
(* closures that wait with it.                                             *)
Vanish ==
    /\ alive
    /\ \A q \in Closures : stage[q] # "running"
    /\ alive' = FALSE
    /\ stage' = [r \in Closures |-> IF stage[r] = "queued" THEN "lost" ELSE stage[r]]
    /\ UNCHANGED verdict

(* Ok and EventFd say nothing of the closure's fate, only that it was      *)
(* handed over.                                                            *)
Tell(r) ==
    /\ stage[r] # "unsent"
    /\ verdict[r] = "none"
    /\ \/ verdict' = [verdict EXCEPT ![r] = "Ok"]
       \/ verdict' = [verdict EXCEPT ![r] = "EventFd"]
       \/ stage[r] = "done" /\ verdict' = [verdict EXCEPT ![r] = "Value"]
       \/ stage[r] = "lost" /\ verdict' = [verdict EXCEPT ![r] = "ChannelRecv"]
    /\ UNCHANGED <<alive, stage>>

Executes(r) == Start(r) \/ Finish(r) \/ Fail(r)

Next ==
    \/ Vanish
    \/ \E r \in Closures : Submit(r) \/ Refuse(r) \/ Executes(r) \/ Tell(r)

Spec == Init /\ [][Next]_callVars

(* The executor does not rest while closures wait, and nobody who handed   *)
(* one over is kept waiting once its fate is decided.                      *)
Fairness ==
    /\ WF_callVars(\E r \in Closures : Executes(r))
    /\ \A r \in Closures : WF_callVars(stage[r] \in {"done", "lost"} /\ Tell(r))

FairSpec == Spec /\ Fairness
=============================================================================
