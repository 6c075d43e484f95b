# A TLA+ model of the Sovereign AI SDK

Specifications of the concurrent and durable core of the SDK and of the harness around
it, the TLC runs that check them on small instances, and TLAPS proofs of the main safety
properties for every instance. `PROJECT.json` links every definition to its source lines
and lists the runs, the properties, the hazards they are for and the theorems.

## 1. The system

The SDK (`packages/sdk`) is an agent-loop engine; the harness (`src/`) is a set of
programs over it: a terminal client with a loopback server, a native line driver
(`sov run`), an OpenAI-compatible API, a multi-session HTTP gateway with channels, a cron
runner and a daemon. Code runs in JavaScript event loops: a stretch between two awaits is
atomic in its process. Several processes share SQLite, lock files and credential files.

| Component | State | Operations | What is hard | Correct when | Module |
|---|---|---|---|---|---|
| Session work queue (`host/sessionWorkQueue.ts`) | `active`, `queued`, `closed` | submit, abort, completion, drain, shutdown | completion, abort and submit race for a slot; shutdown escalates | one writer per session, order, bounds, no lost wakeup, shutdown joins | `SessionWorkQueue` |
| Logical turn (`agent/logicalTurn.ts`, `sessionDb.ts`) | a durable row, its lease, receipts; per call a copy, a budget, counters | create, resume, acquire, save, heartbeat, segment, retry, finish, migrate | suspended owners, crashes, two processes between two statements, a displaced supervisor | one outcome, no rewound counter, migrations kept, no start over an unfinished tool, every call returns | `LogicalTurn` |
| Sub-agent scheduler, tree budget, banners (`runtime/scheduler.ts`, `treeBudget.ts`, `router/progressEvents.ts`) | child counts, events, open banners | delegate | nested calls that hold what their children need; aborts and throws between reservations | no clash of writers, reservations conserved, banners that match, nobody waits without a cause | `SubagentScheduler` |
| Lane semaphores, path lock (`runtime/semaphore.ts`, `pathLock.ts`) | slots, scopes, waiters | acquire, release, abort | hand-over against abort; one release wakes several | slots conserved, scopes disjoint, no waiter forgotten | `LaneSemaphores`, `PathLock` |
| Credential lock (`providers/subscription/lock.ts`) | ticket files, a promise chain per process | lock, wait, cancel, time out | a bakery over a listing that is no snapshot; death detection | critical sections exclude each other, a waiter is served | `CredentialLock` |
| Token refresh (`tokens.ts`, `login.ts`, `attempt.ts`, `refresh.ts`) | stored record, generation, the server's tokens | load, refresh, bind, login, logout, send | a refresh token consumed before its successor is stored | one exchange per record, no login over a newer record, no unsaved token used | `SubscriptionTokens` |
| Directory lock, cron (`src/cron`) | lock directory with pid and mtime, `jobs.json` | acquire, judge, reclaim, restore, release, tick, run-now, stop | stale reclaim against a live owner; crash between run and record | a live owner keeps its lock, a due job runs once, and does run | `DirectoryLock`, `CronRunner` |
| Gateway (`server/eventBus.ts`, `routes/`, `approvalQueue.ts`, `sessionSupervisor.ts`, `runtime.ts`) | sequence number, ring, subscribers, abort controller, pending approvals, contexts | post turn, publish, subscribe, cancel, approve, time out, sweep, delete, shut down | overlapping turns, late answers, disposal awaits between test and close | streams without gap or repeat, no orphaned bus, no permission without an answer, everything ends | `SessionGateway` |
| Query loop, orchestrator, agent facade, native host (`core/`, `createAgent.ts`, `nativeRunOutcome.ts`) | model history, message rows, tool receipts, batches, steering file | prompt, stream, run tools, persist, repair, hydrate, microcompact | a crash or failed write between a call, its effect, its receipt and its row | every request well formed and truthful, receipts never understate, each message stored once | `AgentRun` |
| Background tasks (`src/tasks`, `awaitOwnedTasks`) | task rows, controllers, the owner's map | create, finalize, stop, poll | stop against the task's own end; swallowed writes | one terminal state with the right cause, an honest owner | `OwnedTasks` |

The rest is in section 7.

## 2. The modules

`MC…` modules give the constants of a run. `…Proofs` modules hold theorems. A definition
called "Mutant" in its comment is a wrong variant of the one that follows; nothing uses
it, and it shows that a property can fail.

**SessionWorkQueue.** A job is one `submit()` call; `active`, `queued`, `closed` are the
code's fields, `phase` is where `execute()` stands, `outcome` how the promise settled.
Actions: `SubmitRejected`, `SubmitStart`, `SubmitQueue`; `AbortQueued`, `AbortStarted`;
`Begin`, `CancelBeforeStart`; `Finish` with `drain` and `checkShutdown`; `Shutdown` in
both modes. The array is a set ordered by admission stamps; `Drain` states which jobs the
loop of `drain()` starts.

**LogicalTurn.** A worker is one `superviseLogicalTurn` call: the creator inserts the row,
others resume it. One action is the code from one SQL statement or await to the next.
`renew` and `write` are the two statements of `save()`, `after` is where the call goes
then; `held` is the copy of the row, `budget` the counter children charge, `seg` the
segment on the async stack, which outlives an unwound supervisor. Time is the ticks left
on the lease and whether the deadline has passed. `Events` says what the environment may
do, so that each run explores one kind of trouble in depth. The lease check of a journal
write and its INSERT are two steps (`WriteCheck`, `WriteCommit`); within a process nothing
comes between them, and from another process anything may. A receipt whose INSERT comes
after the lease has passed on is kept as `late`, which no code can tell from a started one.
A renewal, the read of the
boundary and the renewal after it are one action (`ResumeBoundary`, `Retry`), and so are a
migration's load and save after its acquire.

**LaneSemaphores, PathLock, SubagentScheduler.** A waiters array is a set with, for each
waiter, the waiters in front of it. `Drained` characterises the scan of `drainQueue`. A
scope is the whole tree or a set of bounding directories. `SubagentScheduler` is
`delegate()` cut at its awaits (`Delegate`, `LaneGranted`, `LockGranted`, `Prepared`,
`RunEnds`, `Close`, `Abort`), composed with lanes, lock, tree budget and banners. A throw
where no await stands before the outer `finally` runs `Finally` in the same step. `plans`
and `displaced` record which banners are open and which delegators lost theirs to another
delegator; `Timed` are the calls whose cost lane or host gives them a timeout.

**CredentialLock, CredentialMutex.** A caller goes through the process's promise chain
(`tails`), publishes a choosing ticket, reads the other ticket files one by one, publishes
its number by rename, and scans until nobody stands before it. Cancellation, time-out and
crash are possible at every point; the dead are recognised by their pid. `CredentialMutex`
is what it promises: callers that wait, one inside at a time.

**SubscriptionTokens.** Composes the users of the lock, with the lock abstracted to its
promise. Model requests load a fresh record, send, meet a 401, refresh and send again; a
user signs in with a device approval and signs out. The generation file and the record
are written one after the other. `minted` and `spent` are the server's side. The login
epoch file is written by `login.ts` and read by nobody, so it is left out.

**DirectoryLock, CronRunner.** Every file-system call of `lockUtil.ts` is a step: install
by rename, stat, read of the pid, move to the graveyard, restore, release. Stamps stand
for the directory's identity, `old` for an age past the ceiling; a pid may be reused.
`CronRunner` is `tick`, `runDueJobs`, `recordJobRun`, run-now, enable and disable, `stop`,
on top. `moved` records that a reclaim ever took away a lock it had not judged; it guards
no action. `jobs.json` is changed under its own lock in one step, and a tick is assumed
shorter than the six-hour ceiling, which the code chooses for that reason.

**SessionGateway.** One session: its bus with ring and sequence number, overlapping turns,
the one current abort controller, streams that replay, follow and reconnect, approvals
that await their body, and three ways to dispose of the session (sweep, DELETE, shutdown),
each cut at its awaits. The `filter` of `subscribe` is the events at the wanted places of
the ring, in ring order (`Filtered`).

**AgentRun.** A native session over several processes: opening row, hydration with repair
and merge, the recovery gate, streaming, the loop guard, the receipts written before the
tools, waves of tools, the message of results, steering, microcompaction, the final write.
A message keeps its role, its calls, its results and the kinds of text beside them; a
result says whether the tool ran.

**OwnedTasks.** `TaskManager` and its table, and a turn that polls for the tasks it
created. Swallowed updates, a deleted session and a crash are explicit.

## 3. The runs

| Run | Instance | States | Shows |
|---|---|---|---|
| `session_work_queue` | 5 jobs (3 of one session), 2 slots, queue 3, 2 per session | 641 000 | `SingleWriter`, `WorkConserving`, `ShutdownJoins`, `FifoPerSession` |
| `logical_turn` | creator and resume in two processes, limit 2, crashes, faults | 2 345 000 | `TerminalSticky`, `CallsNeverRewind`, `SafeStart` |
| `logical_turn_live` | two supervisors of one process, no limit, every outcome, stops, deadline, children, a migration | 634 000 | `MigrationSurvives`, `EveryCallReturns` |
| `subagents` | seven calls, four writers, three delegators, two-slot lane, cap 2, tree limit 4 | 534 000 | `NoWriteClash`, `ReservationsConserved`, `BannersClose`, `EveryCallReturns`, `V0Mutex` |
| `credential_lock` | two processes with two calls each | 82 000 | `LockSafe`, `ImplementsMutex`, `EveryCallerServed` |
| `subscription_tokens` | two requests of two sends, one user | 1 600 000 | `ExchangedOnce`, `TokensSafe`, `LoginNeverOverwrites`, `LineageKept`, `HandedIsStored` |
| `cron` | three processes, two at a time, one job, one mishap | 487 000 | `TicksSafe`, `OncePerDue`, `LocksStay`, `EveryDueJobRuns` |
| `cron_lock` | three processes at a time, no job | violated | `MutualExclusion` |
| `gateway` | two turns, one client that connects twice, ring 2, one mishap | 883 000 | `GatewayConsistent`, `NoGapNoRepeat`, `AllowedByUser`, `Quiesces` |
| `gateway_sweep` | the same | violated | `EvictsOnlyIdle` |
| `agent_run` | two runs of two model calls, two tools side by side, any two upsets | 2 750 000 | `RequestWellFormed`, `RequestTruthful`, `ReceiptsTellTheTruth`, `NoPathRace`, `JournalSafe` |
| `owned_tasks` | two tasks, two turns, any two faults | 49 000 | `OwnerHonest`, `ControllersExact`, `StopIsCancel`, `TerminalStays`, `OwnerReturns` |

`LockSafe`, `TokensSafe`, `TicksSafe`, `GatewayConsistent`, `JournalSafe` and
`ReservationsConserved` are conjunctions of named parts. In the first five a part is the
type invariant; the other modules' type invariants are proved and in no run.

*Bounds.* Five jobs over two slots are the fewest with a full queue, a full session share,
an overtaking candidate and a slot contested by two sessions. Two workers give every race
between an owner and its successor, a lease of one tick every expiry, a limit of 2 a
segment cut after its first call. `MaxUpsets` bounds what else happens to a turn (a stop,
a passed deadline, a migration, a second call counts for two), and `Uncounted` the calls
of a turn without a limit, whose number decides nothing. Seven delegations put two waiters
behind one holder of the path lock, the case in which the order of the scan matters, leave
the root and a delegator at their caps and fill the lane and the tree; a writer calls a
writer, and a delegator has another one below it and a third beside it, so that plans are
replaced in every order. Two processes with two calls each let a ticket be read while it
changes and the chain hold one back. Three processes of which two live at a time give an
owner that dies, one that judges it and one that installs meanwhile; three live ones are
the fewest that can hold the lock twice. A ring of two is passed by one turn's events, and
two connections are one reconnect. Two upsets in a native session are the least at which a
failed write meets a crash, or a cancellation a steer; two runs are one recovery. Three
tasks give no new kind of state (the run then takes minutes).

*Deadlock* is checked in `agent_run` and `owned_tasks`, which say when a session rests. The
other instances make a fixed number of calls and then stop.

*Fairness.* `LogicalTurn`: a supervisor runs to its next await, `prepare()` and the retry
timer end, a store write ends, and a segment of a lease holder returns; no stop, deadline,
heartbeat, expiry or crash is forced. `SubagentScheduler`: granted continuations run, a
run ends once its child calls have returned, and a call in `Timed` is aborted in the end
if it stays. No other call has a deadline: the scheduler infers none
(`scheduler.ts:275-276`), the host sets none, and only cost lanes come with a default.
`EveryCallReturns` therefore ends in a `Knot`: what waits for ever are calls that wait for
each other only, a writer for the scope of its own ancestor, and a timeout of any call
above breaks them all. `CredentialLock`: a caller that has not given up polls, reads and
returns. `CronRunner`: processes are started while some are left, a tick's timer fires,
file-system calls return, jobs end and time passes, so that an orphaned lock gets old.
`SessionGateway`: the server's own steps happen, the approval timer included; no client,
mishap or answer is forced. `OwnedTasks`: the poll is a timer, and `finalize` follows the
end of a delegation; no delegation is assumed to end.

*Refinement.* `ImplementsMutex`: the bakery with its chain implements `CredentialMutex`.
`V0Mutex`: with whole-tree scopes the path lock, driven by the whole scheduler, implements
a one-slot `LaneSemaphores`, the mutex it replaced, order included.

## 4. Where code and words part

Two disagreements have a run that shows them. `gateway_sweep`: the sweep judges a session
idle, awaits `disposeSession`, and closes the bus without a second look, so a turn or a
stream that began during the await loses it. `cron_lock`: `lockUtil.ts` says that a live lock
met by a reclaim is restored "instead of stealing it" and calls the race closed, but from the
rename to the restore the path is empty, and a third process installs its lock: two hold it.
A tick then runs beside another, so `OncePerDue` speaks of the time before a reclaim first
moved a lock it had not judged. The rest is carried by the models and named by the
properties that have to make an exception for it:

* Calls of a segment that a crash cuts short are not counted; the resume spends them again.
* The journal's lease check and its INSERT are two statements (`sessionDb.ts:907`): a
  dispossessed process can still store a started receipt, though such writes "must fail
  closed" (`logicalTurn.ts:287`), and a resume that read its boundary before does not see it.
  `SafeStart` excepts exactly these receipts.
* A resume's children charge a counter read before the lease (`logicalTurn.ts:471`), and a
  creator suspended between insert and acquire reads no boundary; `SafeStart` is about
  resumes.
* Causes that alternate between segments reset the no-progress rule; `EveryCallReturns`
  makes that exception.
* A throw after `delegation_started` and before the dispatch leaves the start without its
  end. A nested or second delegator replaces the active one, whose plan then never
  completes, although `progressEvents.ts:130-131` and `195-196` say nested ones are ignored.
* A child that writes holds its scope while it waits for the writers it calls. With no
  timeout on any of them they wait for ever; so does a background task that writes and
  awaits a writer task of its own.
* A free scope is granted past waiting ones: a stream of disjoint writers can hold back a
  whole-tree writer.
* An answer that comes after its approval timed out is still reported with 200.
* The end of one of two overlapping turns clears the other's abort controller.
* Hydration folds only plain neighbours, so a prompt can follow a message of results: two
  user messages in a row. Text merged into such a message moves microcompaction's boundary.
* A steer taken from its file is lost in a crash before its message is stored.
* A task update that fails is swallowed: the row stays active, a waiting turn waits until it
  is cancelled, and `stop` finds nothing to stop. A turn also waits for a task that never
  ends, since `TaskManager` gives its delegations no timeout (`manager.ts:167-179`).
  `OwnerReturns` and `ControllersExact` say so.
* No host hands the supervisor a task manager and `rememberLogicalTurnOwnedTask` has no
  caller, so a resumed turn does not wait for the tasks of the process that died.

## 5. The proofs

The theorems hold for every value of the constants under the modules' assumptions: types,
finiteness of the sets that are counted, positive limits where the code checks them. They
use no fairness.

* `SessionWorkQueueProofs`. `IInv` joins the state properties and `StampInv` (admitted jobs
  have distinct stamps up to their number). The crux is `DrainEffect`: after `drain()`
  either no slot is free or no queued job has an idle session, by the job of least stamp.
  From it `TypeCorrect`, `SingleWriterHolds`, `WorkConservingHolds`, `BoundedHolds`,
  `QueueConsistentHolds`, `ShutdownJoinsHolds`; with `DrainIsFifo` also `FifoHolds`, and
  `SettlesOnceHolds`.
* `LogicalTurnProofs`. No action property is inductive, because a save writes a copy read
  long before. `Fresh` supplies the link: while a worker owns the lease and has not stored
  its outcome, the stored row is not final, has the limit of the copy and at most its calls.
  `Closing` says that a copy with a final status is about to be stored, `Unborn` that
  nothing precedes the insert. A step of the row is then a `RowStep`, which gives
  `TerminalStickyHolds`, `CallsNeverRewindHolds`, `MigrationSurvivesHolds`. Expiry, crashes
  and displacement need no case of their own: they only remove owners. For
  `SafeStartHolds` a second invariant, `ReceiptInv`: as long as a resume that has read its
  boundary owns the lease, no other worker has a started receipt that is not late, and none
  of its own process is between a write's check and the write. `Loop` renews before a
  segment. The theorem assumes only that the host supplies `readBoundary` (`UseBoundary`;
  `sov run`, the only host that resumes, does).
* `SubagentSchedulerProofs`. `LockInv` (held scopes disjoint, waiters ordered, each in the
  way of a holder) and `LaneInv` (free slots plus users is the cap, waiters only on a full
  lane) are kept by each operation; `Place` ties a call's control point to what it holds,
  `Counted` its parent's count to the live calls. `TypeCorrect`, `NoWriteClashHolds`,
  `ReservationsConservedHolds` and `NoLostWakeupHolds` follow. `Banners` adds that a call
  starts and completes once, at known control points, and that an open atom is no
  delegator, and that the plans not displaced are the active one: `BannersCloseHolds`.
  `FirstCome` says that the waiters array is a queue; with
  it and `AllWhole` (every scope the whole tree, the hypothesis of back-compatibility)
  each operation is one of a one-slot semaphore: `V0MutexHolds`.
* `SessionRunProofs`, the loop. The difficulty is that a run may end anywhere and the next
  one rebuilds its history from what became rows. `Line`, the rows followed by the messages
  not stored yet, has a `Shape` that every step keeps and every failed write cuts to a
  prefix: results stand behind the answer they belong to and tell which of its calls ran,
  and only a prompt follows a message of its own role. A history to be sent is `Talk`: every
  call is answered too, which `HydrateTalk` derives from the shape of the rows, the recovery
  gate and `ReceiptsTellTheTruth`, through `RepairShape` (repair answers exactly the calls
  without results) and `MergeTalk`. `Slot` ties each call of a batch to its receipt, its
  result and whether it ran, `Apart` says that a wave holds no conflicting calls
  (`WavesApart`, for every batch and cap), `Keyed` that receipts belong to stored rows, so
  that a new answer has none. `RequestTruthfulHolds`, `RequestWellFormedHolds`,
  `ReceiptsTellTheTruthHolds`, `NoPathRaceHolds`, `JournalSafeHolds`. Repair, merge and the
  cut into waves walk a sequence; they are recursive functions, and `SetInduction`, which
  takes a set where the library's theorem takes an operator, gives their equations
  (`RepairLoop`, `MergeLoop`, `LotsLoop`) and what they return for every input.
* `SessionRunProofs`, the tasks. `Unmade` says that a fresh number is nobody's task,
  `Settled` that a terminal row belongs to a finalized delegation and names its cause,
  `Accounted` that the turn's map holds each of its tasks it has not seen complete, and
  `Heard` that a stopped turn has signalled all it started, also tasks created after the
  stop and tasks whose rows are gone. `TaskTypeCorrect`, `OwnerHonestHolds`,
  `ControllersExactHolds`, `StopIsCancelHolds`, `TerminalStaysHolds` follow.
* `CredentialLockProofs`. `Ordered` carries the bakery: whoever a caller has got past is
  numbered behind it, or will be, because while it still chooses it has that ticket to read
  or has counted it in. `Tells` says that the file of a contender shows how far it is,
  `Chain` and `Lives` that it heads its process's promise chain and its process runs, and
  `Private` that without a lock directory there is one process. `LockSafeHolds`; and each
  step is one of `CredentialMutex` or a stutter, `ImplementsMutexHolds`.
* `SubscriptionTokensProofs`. `Held` identifies the mutex holder with the operation between
  its read and its write. `Carries` says what that operation has in hand, `Fresh` that the
  tokens about to be stored are new to the store, to the server and to every other
  operation, `Tries` and `Spent` that the stored record was exchanged only by an operation
  that is still at it or failed, `Logins` that a login which began earlier knows of any
  change since. `TokensSafeHolds`, `ExchangedOnceHolds`, `LoginNeverOverwritesHolds`,
  `LineageKeptHolds`, `HandedIsStoredHolds`.
* `CronRunnerProofs`. `Orderly` holds whatever is moved: a lock has an owner that was started
  and a time (`Owners`), the time of a lock in a graveyard is no other lock's (`Times`), what
  was too old when it was judged is too old still (`Dated`), and the verdict of
  `judgeStaleLock` stands when it is acted on, because a process that is not alive stays so
  (`Judged`). So a lock that matches its snapshot is nobody's (`JudgedIsNobodys`), which with
  `LossStep`, one case per step, gives `LocksStayHolds`. That a holder's directory is in
  place (`Holder`) needs that no lock was moved unjudged. `Ticks` says that an unstopped tick
  is between its acquire and its release, `Counted` that every start so far and every start
  to come, but for the unstopped tick's, is owed to a mishap; it counts processes, so the set
  of them is assumed finite. `TicksSafeHolds`, `OncePerDueHolds`.
* `SessionGatewayProofs`. `BusPart` says what a ring holds (the last events, as many as fit,
  in order), `StreamPart` that the subscribers of a bus are the open streams on it and that
  what each has read and has queued is gapless up to the bus's sequence number, `TurnPart`
  that the abort controller belongs to a turn at work on that bus, `RestPart` that the
  answers account for every permission. The crux is `subscribe`: the filtered ring is a run
  of consecutive events that ends with the last one published. `GatewayConsistentHolds`,
  `NoGapNoRepeatHolds`, `AllowedByUserHolds`.

Every one of these invariants was checked by TLC on the instances of section 3 (and on
larger ones where that took a reasonable time) before it was proved.

Proved and in no run: the type invariants of the work queue, the logical turn, the
scheduler and the tasks, `Bounded`, `QueueConsistent`, `SettlesOnce` and `NoLostWakeup`.

Only model-checked: liveness (`EveryCallReturns`, `EveryCallerServed`, `EveryDueJobRuns`,
`Quiesces`, `OwnerReturns`), because the prover has no fairness reasoning. Every other
property of a passing run is a theorem.

## 6. Plan

The plan is carried out for the components above: what the runs check is proved, but for
liveness. What is worth doing next:

1. The hazards without a property (`PROJECT.json`), each of which needs a wider model: the
   counters of a segment cut short, starvation in the path lock, a stream that reconnects
   with the sequence number of a bus that is gone, tasks of a resumed turn.
2. The components of section 7 that have actors of their own: missions, the rate guard, the
   channel pipeline.

## 7. Not modelled

Most of the repository parses, formats, configures or presents: provider wire formats, the
OpenAI translation, configuration catalogue and operations, bundles, skills, plugins,
commands, permission matching and shell semantics, terminal interface, evaluations. They
hold most of its hundred thousand lines, have no interaction between actors, and are
functions of text that a model would have to transliterate; their tests are the better
check. The mapped lines are therefore a small share (about six in a hundred), concentrated
where several actors meet. Also left out:

* Channel pipeline: a promise chain per session, the shape `SessionWorkQueue` has.
* Credential pool and rate guard: a merge over one file that can lose a cooldown.
* Workflow engine: phases of delegations over the scheduler, decided by a plan file.
* Missions: a state machine under the directory lock, with a heartbeat (`touchLock`).
* Summarising compaction and the lineage of sessions it starts.
* Review manager and learning layer: counters that start sub-agents without waiting.
* Attestation evidence (append-only files), daemon and subprocess executor (process
  supervision by the operating system).
* In modelled parts: depth, token and cost reservations of the tree budget, tool pools,
  result shaping, the text of globs and schedules, the output guard, context managers
  (no host passes one), previews, usage and cost.
* Smaller simplifications. In `AgentRun` a stream fails before its answer is stored, not
  between the answer and the end of the generator (`query.ts:958-1013`), and the loop guard
  of warn mode says nothing after its last strike. In `SessionGateway` the awaits of a
  shutdown between two closes are one step, and a turn's throw before its `try` is left out.
  In `DirectoryLock` a lock at work never gets as old as the ceiling.
