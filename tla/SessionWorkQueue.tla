-------------------------- MODULE SessionWorkQueue --------------------------
(***************************************************************************)
(* packages/sdk/src/host/sessionWorkQueue.ts: in-process admission and     *)
(* single-writer ownership for host work.  A Job is one submit() call; the *)
(* caller's AbortSignal may fire at any time, and the callback may return, *)
(* throw, or keep running.  JavaScript runs each synchronous stretch to    *)
(* its next await, so one action is one such stretch: submit(), the abort  *)
(* listener, shutdown(), and execute() cut at its two awaits.              *)
(*                                                                         *)
(* The array `queued` is a set of jobs ordered by the stamp submit() gave  *)
(* them; splicing an element out keeps the order of the others.            *)
(***************************************************************************)
EXTENDS Integers, FiniteSets

CONSTANTS
    Sessions,             \* session ids
    Jobs,                 \* submit() calls
    SessionOf,            \* the sessionId each call passes
    NoJob,                \* absence of a key in the `active` map
    MaxActiveSessions, MaxQueued, MaxQueuedPerSession

ASSUME SessionOfAssumption == SessionOf \in [Jobs -> Sessions]
ASSUME NoJobAssumption == NoJob \notin Jobs
ASSUME FiniteAssumption == IsFiniteSet(Jobs) /\ IsFiniteSet(Sessions)
\* The constructor's RangeError checks.
ASSUME OptionsAssumption ==
    /\ MaxActiveSessions \in Nat \ {0}
    /\ MaxQueued \in Nat
    /\ MaxQueuedPerSession \in Nat

VARIABLES
    active,       \* Map sessionId -> Job
    queued,       \* the Jobs in the array `queued`
    stamp,        \* admission stamp of each job, 0 before submit()
    phase,        \* where each job's execute() stands
    outcome,      \* how each submit() promise settled
    aborted,      \* jobs whose own AbortController has fired
    closed,       \* shutdown() has been called
    shutdownDone  \* the shutdown promise has resolved

vars == <<active, queued, stamp, phase, outcome, aborted, closed, shutdownDone>>

\* "starting": reserved in `active`, before execute()'s first await resumes;
\* "running": inside the callback.
Phases == {"new", "queued", "starting", "running", "settled"}
Outcomes == {"pending", "resolved", "failed", "cancelled", "queue_full", "closed"}

TypeOK ==
    /\ active \in [Sessions -> Jobs \union {NoJob}]
    /\ queued \in SUBSET Jobs
    /\ stamp \in [Jobs -> Nat]
    /\ phase \in [Jobs -> Phases]
    /\ outcome \in [Jobs -> Outcomes]
    /\ aborted \in SUBSET Jobs
    /\ closed \in BOOLEAN
    /\ shutdownDone \in BOOLEAN

Busy(act) == {s \in Sessions : act[s] # NoJob}
Queued(s) == {j \in queued : SessionOf[j] = s}
Admitted == {j \in Jobs : stamp[j] # 0}

Init ==
    /\ active = [s \in Sessions |-> NoJob]
    /\ queued = {}
    /\ stamp = [j \in Jobs |-> 0]
    /\ phase = [j \in Jobs |-> "new"]
    /\ outcome = [j \in Jobs |-> "pending"]
    /\ aborted = {}
    /\ closed = FALSE
    /\ shutdownDone = FALSE

-----------------------------------------------------------------------------
(* drain(): repeatedly take the first queued job whose session is not      *)
(* active, while a slot is free.  A session that becomes active stays so   *)
(* for the rest of the loop, so the jobs taken are the first ones, in      *)
(* order, of the sessions idle when the loop began.                        *)

\* Mutant: the last job of a session instead of the first.
HeadsLast(act, q) ==
    {j \in q : /\ act[SessionOf[j]] = NoJob
               /\ \A k \in q : SessionOf[k] = SessionOf[j] => stamp[j] >= stamp[k]}

Heads(act, q) ==
    {j \in q : /\ act[SessionOf[j]] = NoJob
               /\ \A k \in q : SessionOf[k] = SessionOf[j] => stamp[j] <= stamp[k]}

Startable(act, q) ==
    {j \in Heads(act, q) :
        Cardinality(Busy(act)) + Cardinality({k \in Heads(act, q) : stamp[k] < stamp[j]})
            < MaxActiveSessions}

Reserve(act, S) ==
    [s \in Sessions |-> IF \E j \in S : SessionOf[j] = s
                        THEN CHOOSE j \in S : SessionOf[j] = s
                        ELSE act[s]]

\* Leaves `active`, `queued` and `phase` as drain() does when it is entered
\* with these values of the three.
Drain(act, q, ph) ==
    LET S == IF closed THEN {} ELSE Startable(act, q)
    IN  /\ active' = Reserve(act, S)
        /\ queued' = q \ S
        /\ phase' = [j \in Jobs |-> IF j \in S THEN "starting" ELSE ph[j]]

\* checkShutdown()
CheckShutdown ==
    shutdownDone' = (shutdownDone \/ (closed' /\ Busy(active') = {}))

-----------------------------------------------------------------------------
\* Mutant: a free slot is enough.
CanStartAnySession(s) == Cardinality(Busy(active)) < MaxActiveSessions

CanStart(s) == active[s] = NoJob /\ Cardinality(Busy(active)) < MaxActiveSessions

QueueFull(s) ==
    \/ Cardinality(queued) >= MaxQueued
    \/ Cardinality(Queued(s)) >= MaxQueuedPerSession

\* submit() that returns a rejected promise; preAborted: the caller's signal
\* had already fired.
SubmitRejected(j, preAborted) ==
    /\ phase[j] = "new"
    /\ \/ closed
       \/ preAborted
       \/ ~CanStart(SessionOf[j]) /\ QueueFull(SessionOf[j])
    /\ outcome' = [outcome EXCEPT ![j] = IF closed THEN "closed"
                                         ELSE IF preAborted THEN "cancelled"
                                         ELSE "queue_full"]
    /\ phase' = [phase EXCEPT ![j] = "settled"]
    /\ UNCHANGED <<active, queued, stamp, aborted, closed, shutdownDone>>

Stamp(j) == stamp' = [stamp EXCEPT ![j] = Cardinality(Admitted) + 1]

\* submit() that starts the job at once: start() reserves the session.
SubmitStart(j) ==
    /\ phase[j] = "new"
    /\ ~closed
    /\ CanStart(SessionOf[j])
    /\ Stamp(j)
    /\ active' = [active EXCEPT ![SessionOf[j]] = j]
    /\ phase' = [phase EXCEPT ![j] = "starting"]
    /\ UNCHANGED <<queued, outcome, aborted, closed, shutdownDone>>

\* submit() that queues the job.
SubmitQueue(j) ==
    /\ phase[j] = "new"
    /\ ~closed
    /\ ~CanStart(SessionOf[j])
    /\ ~QueueFull(SessionOf[j])
    /\ Stamp(j)
    /\ queued' = queued \union {j}
    /\ phase' = [phase EXCEPT ![j] = "queued"]
    /\ UNCHANGED <<active, outcome, aborted, closed, shutdownDone>>

\* The abort listener of a job that still waits in the queue.
AbortQueued(j) ==
    /\ j \in queued
    /\ aborted' = aborted \union {j}
    /\ outcome' = [outcome EXCEPT ![j] = "cancelled"]
    /\ Drain(active, queued \ {j}, [phase EXCEPT ![j] = "settled"])
    /\ UNCHANGED <<stamp, closed, shutdownDone>>

\* The abort listener of a started job only signals its controller.
AbortStarted(j) ==
    /\ phase[j] \in {"starting", "running"}
    /\ j \notin aborted
    /\ aborted' = aborted \union {j}
    /\ UNCHANGED <<active, queued, stamp, phase, outcome, closed, shutdownDone>>

\* execute() resumes from its first await and calls job.work.
Begin(j) ==
    /\ phase[j] = "starting"
    /\ j \notin aborted
    /\ phase' = [phase EXCEPT ![j] = "running"]
    /\ UNCHANGED <<active, queued, stamp, outcome, aborted, closed, shutdownDone>>

\* Mutant: the freed slot is not offered to the queue.
SettleNoDrain(j, result) ==
    /\ outcome' = [outcome EXCEPT ![j] = result]
    /\ active' = [active EXCEPT ![SessionOf[j]] = NoJob]
    /\ phase' = [phase EXCEPT ![j] = "settled"]
    /\ UNCHANGED <<queued, stamp, aborted, closed>>
    /\ CheckShutdown

\* Mutant: the last job does not resolve the shutdown promise.
SettleNoCheck(j, result) ==
    /\ outcome' = [outcome EXCEPT ![j] = result]
    /\ Drain([active EXCEPT ![SessionOf[j]] = NoJob], queued,
             [phase EXCEPT ![j] = "settled"])
    /\ UNCHANGED <<stamp, aborted, closed, shutdownDone>>

\* The tail of execute(): free the session, settle the promise, drain.
Settle(j, result) ==
    /\ outcome' = [outcome EXCEPT ![j] = result]
    /\ Drain([active EXCEPT ![SessionOf[j]] = NoJob], queued,
             [phase EXCEPT ![j] = "settled"])
    /\ UNCHANGED <<stamp, aborted, closed>>
    /\ CheckShutdown

\* execute() resumes from its first await and finds the job aborted.
CancelBeforeStart(j) ==
    /\ phase[j] = "starting"
    /\ j \in aborted
    /\ Settle(j, "cancelled")

\* The callback settles: `threw` if it threw; a return after an abort counts
\* as cancelled.
Finish(j, threw) ==
    /\ phase[j] = "running"
    /\ Settle(j, IF threw THEN "failed"
                 ELSE IF j \in aborted THEN "cancelled" ELSE "resolved")

\* shutdown(cancelRunning), first or later call.
Shutdown(cancelRunning) ==
    /\ closed' = TRUE
    /\ queued' = {}
    /\ phase' = [j \in Jobs |-> IF j \in queued THEN "settled" ELSE phase[j]]
    /\ outcome' = [j \in Jobs |-> IF j \in queued THEN "closed" ELSE outcome[j]]
    /\ aborted' = IF cancelRunning
                  THEN aborted \union {active[s] : s \in Busy(active)}
                  ELSE aborted
    /\ UNCHANGED <<active, stamp>>
    /\ CheckShutdown

Next ==
    \/ \E j \in Jobs :
        \/ \E preAborted \in BOOLEAN : SubmitRejected(j, preAborted)
        \/ SubmitStart(j)
        \/ SubmitQueue(j)
        \/ AbortQueued(j)
        \/ AbortStarted(j)
        \/ Begin(j)
        \/ CancelBeforeStart(j)
        \/ \E threw \in BOOLEAN : Finish(j, threw)
    \/ \E cancelRunning \in BOOLEAN : Shutdown(cancelRunning)

Spec == Init /\ [][Next]_vars
-----------------------------------------------------------------------------
(* Properties *)

Started == {j \in Jobs : phase[j] \in {"starting", "running"}}

\* "One callback at a time per session, bounded concurrent sessions and
\* queues": the started jobs belong to distinct sessions and each holds its
\* session's entry of the `active` map.
SingleWriter ==
    /\ \A j, k \in Started : SessionOf[j] = SessionOf[k] => j = k
    /\ \A s \in Sessions : active[s] # NoJob =>
           active[s] \in Started /\ SessionOf[active[s]] = s
    /\ \A j \in Started : active[SessionOf[j]] = j

\* Neither the active map nor the queue outgrows its options, also when drain()
\* starts jobs while others are being admitted.
Bounded ==
    /\ Cardinality(Busy(active)) <= MaxActiveSessions
    /\ Cardinality(queued) <= MaxQueued
    /\ \A s \in Sessions : Cardinality(Queued(s)) <= MaxQueuedPerSession

\* No lost wakeup: a job waits only while its session is active or every slot
\* is taken, whatever mix of completions, aborts and submits came before.
WorkConserving ==
    \A j \in queued : \/ active[SessionOf[j]] # NoJob
                       \/ Cardinality(Busy(active)) = MaxActiveSessions

\* A queued job is exactly one whose promise is pending and whose callback has
\* not been reached, and once shutdown() has closed admission there is none.
QueueConsistent ==
    /\ \A j \in Jobs : (j \in queued) <=> (phase[j] = "queued")
    /\ \A j \in Jobs : (outcome[j] = "pending") <=> (phase[j] # "settled")
    /\ closed => queued = {}

\* The shutdown promise joins all started callbacks: it has resolved exactly when
\* admission is closed and no callback is left to run, whichever mode, escalation
\* or completion came last.
ShutdownJoins == shutdownDone <=> (closed /\ Started = {})

\* Within a session jobs start in the order of their submit() calls: neither
\* drain() nor a submit() that finds the session idle overtakes a queued job.
FifoPerSession ==
    [][\A j, k \in Jobs :
        (/\ j \notin Started /\ j \in Started'
         /\ k \in queued /\ SessionOf[k] = SessionOf[j] /\ k # j)
        => (stamp[j] # 0 /\ stamp[j] < stamp[k])]_vars

\* A promise settles once; no late completion, abort or shutdown changes it or
\* starts its callback again.
SettlesOnce ==
    [][\A j \in Jobs : outcome[j] # "pending" =>
        outcome'[j] = outcome[j] /\ phase'[j] = "settled"]_vars
=============================================================================
