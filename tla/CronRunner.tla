----------------------------- MODULE CronRunner -----------------------------
(***************************************************************************)
(* The ticks of several processes over one jobs.json.  A tick takes        *)
(* .tick.lock (DirectoryLock), lists the jobs that are due and runs them   *)
(* one after the other; the run is recorded afterwards.  Each mutation of  *)
(* jobs.json is one step here: it is a synchronous load, modify and save   *)
(* under .jobs.lock, another directory lock.                               *)
(***************************************************************************)
EXTENDS DirectoryLock

CONSTANTS
    Jobs,
    NoJob,
    MaxDue,     \* bound: how often a job comes due
    MaxEvents   \* bound: crashes, stops, forced runs and failed records

ASSUME NoJobAssumption == NoJob \notin Jobs
ASSUME BoundsAssumption == {MaxDue, MaxEvents} \subseteq Nat

VARIABLES
    enabled,    \* jobs that are enabled
    due,        \* [Jobs -> BOOLEAN]: nextRunAt has passed
    dueCount,   \* [Jobs -> Nat]: times it came due
    starts,     \* [Jobs -> Nat]: runs started since it came due
    ticking,    \* processes in runDueJobs
    list,       \* [Procs -> SUBSET Jobs]: due jobs of the tick still to run
    job,        \* [Procs -> Jobs or NoJob]: the job being run
    forced,     \* the job a command line runs, or NoJob
    stopped,    \* processes whose runner was stopped
    events      \* mishaps so far

cronVars == <<enabled, due, dueCount, starts, ticking, list, job, forced, stopped, events>>
vars == <<lockVars, cronVars>>

Init ==
    /\ LockInit
    /\ enabled = Jobs
    /\ due = [j \in Jobs |-> FALSE]
    /\ dueCount = [j \in Jobs |-> 0]
    /\ starts = [j \in Jobs |-> 0]
    /\ ticking = {}
    /\ list = [p \in Procs |-> {}]
    /\ job = [p \in Procs |-> NoJob]
    /\ forced = NoJob
    /\ stopped = {}
    /\ events = 0

\* File system calls are synchronous: the rest of the process waits.
Settled(p) == pc[p] \in {"idle", "held"}

Mishap == events < MaxEvents /\ events' = events + 1

\* tick: not while a tick of this process is in flight; the timer is gone
\* after a stop.
Tick(p) ==
    /\ p \notin ticking \cup stopped
    /\ TryAcquire(p)
    /\ UNCHANGED cronVars

\* The lock is held: list the due jobs.
BeginTick(p) ==
    /\ pc[p] = "held"
    /\ p \notin ticking
    /\ ticking' = ticking \cup {p}
    /\ list' = [list EXCEPT ![p] = {j \in enabled : due[j]}]
    /\ UNCHANGED <<lockVars, enabled, due, dueCount, starts, job, forced, stopped, events>>

RunJob(p) ==
    /\ p \in ticking
    /\ Settled(p)
    /\ job[p] = NoJob
    /\ \E j \in list[p] :
          /\ job' = [job EXCEPT ![p] = j]
          /\ list' = [list EXCEPT ![p] = @ \ {j}]
          /\ starts' = [starts EXCEPT ![j] = @ + 1]
    /\ UNCHANGED <<lockVars, enabled, due, dueCount, ticking, forced, stopped, events>>

\* Mutant: the next run is not computed.
RecordJobRunWithoutNext(j) == UNCHANGED <<due, starts>>

\* recordJobRun: the next run is computed from this one.
RecordJobRun(j) ==
    /\ due' = [due EXCEPT ![j] = FALSE]
    /\ starts' = [starts EXCEPT ![j] = 0]

FinishJob(p) ==
    /\ Settled(p)
    /\ job[p] # NoJob
    /\ RecordJobRun(job[p])
    /\ job' = [job EXCEPT ![p] = NoJob]
    /\ UNCHANGED <<lockVars, enabled, dueCount, ticking, list, forced, stopped, events>>

\* The jobs lock cannot be had for a second: recordJobRun throws, and the
\* tick ends with the rest of its list.
RecordFails(p) ==
    /\ Settled(p)
    /\ job[p] # NoJob
    /\ Mishap
    /\ job' = [job EXCEPT ![p] = NoJob]
    /\ list' = [list EXCEPT ![p] = {}]
    /\ UNCHANGED <<lockVars, enabled, due, dueCount, starts, ticking, forced, stopped>>

\* The finally of tick: inFlight is reset and the lock released, unless
\* stop() has already released it.
EndTick(p) ==
    /\ p \in ticking
    /\ Settled(p)
    /\ job[p] = NoJob
    /\ list[p] = {}
    /\ ticking' = ticking \ {p}
    /\ IF pc[p] = "held" THEN ReleaseLock(p) ELSE UNCHANGED lockVars
    /\ UNCHANGED <<enabled, due, dueCount, starts, list, job, forced, stopped, events>>

\* Mutant: the timer stays.
StopKeepsTimer(p) ==
    /\ p \in Live \ stopped
    /\ pc[p] = "idle" \/ p \in ticking
    /\ Mishap
    /\ IF pc[p] = "held" THEN ReleaseLock(p) ELSE UNCHANGED lockVars
    /\ UNCHANGED <<enabled, due, dueCount, starts, ticking, list, job, forced, stopped>>

\* stop: the timer is cleared and the lock released, a tick in flight or not.
Stop(p) ==
    /\ p \in Live \ stopped
    /\ pc[p] = "idle" \/ p \in ticking
    /\ Mishap
    /\ stopped' = stopped \cup {p}
    /\ IF pc[p] = "held" THEN ReleaseLock(p) ELSE UNCHANGED lockVars
    /\ UNCHANGED <<enabled, due, dueCount, starts, ticking, list, job, forced>>

\* The process dies, between a job's run and its record too.
Crash(p) ==
    /\ Mishap
    /\ Die(p)
    /\ ticking' = ticking \ {p}
    /\ list' = [list EXCEPT ![p] = {}]
    /\ job' = [job EXCEPT ![p] = NoJob]
    /\ UNCHANGED <<enabled, due, dueCount, starts, forced, stopped>>

\* forceRunJob of `sov cron run`: no lock, whatever the schedule says.
ForceRun(j) ==
    /\ forced = NoJob
    /\ Mishap
    /\ forced' = j
    /\ starts' = [starts EXCEPT ![j] = @ + 1]
    /\ UNCHANGED <<lockVars, enabled, due, dueCount, ticking, list, job, stopped>>

\* Its record too is made under the jobs lock, and fails without it.
FinishForced ==
    /\ forced # NoJob
    /\ \/ RecordJobRun(forced) /\ UNCHANGED events
       \/ Mishap /\ UNCHANGED <<due, starts>>
    /\ forced' = NoJob
    /\ UNCHANGED <<lockVars, enabled, dueCount, ticking, list, job, stopped>>

ComeDue(j) ==
    /\ ~due[j]
    /\ dueCount[j] < MaxDue
    /\ due' = [due EXCEPT ![j] = TRUE]
    /\ dueCount' = [dueCount EXCEPT ![j] = @ + 1]
    /\ starts' = [starts EXCEPT ![j] = 0]
    /\ UNCHANGED <<lockVars, enabled, ticking, list, job, forced, stopped, events>>

\* pauseJob and resumeJob; a deleted job is one that is not resumed.
Toggle(j) ==
    /\ Mishap
    /\ enabled' = IF j \in enabled THEN enabled \ {j} ELSE enabled \cup {j}
    /\ UNCHANGED <<lockVars, due, dueCount, starts, ticking, list, job, forced, stopped>>

Work(p) ==
    \/ Contend(p) /\ UNCHANGED cronVars
    \/ BeginTick(p) \/ RunJob(p) \/ FinishJob(p) \/ EndTick(p)

Next ==
    \/ \E p \in Procs :
          \/ (Start(p) \/ ReusePid(p)) /\ UNCHANGED cronVars
          \/ Tick(p) \/ Work(p) \/ RecordFails(p) \/ Stop(p) \/ Crash(p)
    \/ \E j \in Jobs : ForceRun(j) \/ ComeDue(j) \/ Toggle(j)
    \/ FinishForced
    \/ Age /\ UNCHANGED cronVars

Spec == Init /\ [][Next]_vars

\* Processes start and keep ticking, jobs end, and the ceiling passes.
FairSpec ==
    /\ Spec
    /\ \A p \in Procs :
          /\ WF_vars(Start(p) /\ UNCHANGED cronVars)
          /\ WF_vars(Tick(p))
          /\ WF_vars(Work(p))
    /\ WF_vars(FinishForced)
    /\ WF_vars(Age /\ UNCHANGED cronVars)

-----------------------------------------------------------------------------
(* Properties.                                                               *)

TypeOK ==
    /\ LockTypeOK
    /\ enabled \subseteq Jobs
    /\ due \in [Jobs -> BOOLEAN]
    /\ dueCount \in [Jobs -> 0..MaxDue]
    /\ starts \in [Jobs -> Nat]
    /\ ticking \subseteq Procs
    /\ list \in [Procs -> SUBSET Jobs]
    /\ job \in [Procs -> Jobs \cup {NoJob}]
    /\ forced \in Jobs \cup {NoJob}
    /\ stopped \subseteq Procs
    /\ events \in 0..MaxEvents

\* A tick that was not stopped is under a lock its process took and has not
\* given back: no release is forgotten, none is made twice, and a stop leaves
\* no tick to come.
TicksHold ==
    /\ \A p \in ticking \ stopped : pc[p] = "held"
    /\ \A p \in stopped : pc[p] \in {"idle", "rmdir", "dead"}

\* The types, and the ticks under the lock.
TicksSafe == TypeOK /\ TicksHold

\* A job is started once each time it comes due; every further start is
\* owed to a crash, a stop, a failed record or a forced run; or, once a lock
\* was moved away unjudged, to a second tick.
OncePerDue == ~moved => \A j \in Jobs : starts[j] <= 1 + events

\* A job that is due and stays enabled is run while processes are left to
\* tick, although others die with the lock or in the middle of a reclaim,
\* have their pids reused, or lose their release to a restore.  The exception:
\* two contenders that take turns at moving each other's snapshot away, for
\* ever; ticks a minute apart do not keep that up.
EveryDueJobRuns ==
    \/ []<>(\E p \in Procs : pc[p] = "restore")
    \/ \A j \in Jobs :
          due[j] ~> \/ ~due[j] \/ j \notin enabled
                    \/ \A p \in Procs : pc[p] = "dead" \/ p \in stopped
=============================================================================
