----------------------------- MODULE OwnedTasks -----------------------------
(***************************************************************************)
(* Background tasks: TaskManager over the tasks table, and the turns that  *)
(* own them.  task_create delegates to a sub-agent and returns at once; a  *)
(* turn whose final answer has come waits, polling the table, until every  *)
(* task it created has completed.  Only the table is durable: the          *)
(* controllers and a turn's map of owned tasks die with the process, and   *)
(* no later process takes the rows over.                                   *)
(*                                                                         *)
(* Tasks are numbered in creation order, the order of the owner's map.     *)
(* What the sub-agent does is the scheduler's business: here a delegation  *)
(* ends, in its own time, in one of the terminals the manager tells apart. *)
(***************************************************************************)
EXTENDS Naturals, FiniteSetsExt

CONSTANTS MaxTasks,         \* bound on the tasks created
          MaxSessionTurns,  \* bound on the turns of the session
          MaxFaults         \* bound on lost writes, crashes and session deletions

ASSUME OwnedTasksAssumption ==
  MaxTasks \in Nat /\ MaxSessionTurns \in Nat \ {0} /\ MaxFaults \in Nat

Tasks == 1..MaxTasks

VARIABLES
  row,          \* durable: tasks.state, "none" before the insert, "gone" after
                \* the session's deletion
  made,         \* tasks created so far
  of,           \* the turn that created a task
  controllers,  \* TaskManager.controllers
  userAborted,  \* the tasks whose controller says so
  signalled,    \* the tasks whose signal has fired
  ended,        \* a delegation's terminal: "live" until it has one
  lost,         \* the tasks with a state update that failed and was swallowed
  phase,        \* the owner: "turn", "await", how it returned, or "left"
  owned,        \* loopState.ownedTasks
  stopped,      \* the turn's signal
  turns, faults

manager == <<row, made, of, controllers, userAborted, signalled, ended, lost>>
owner == <<phase, owned, stopped>>
taskVars == <<manager, owner, turns, faults>>

Active == {"queued", "running"}
Terminal == {"completed", "failed", "cancelled", "timed_out"}

\* What delegate() resolves to, or "throw"; a subprocess reports its timeout
\* and its cancellation as errors that only their messages tell apart.
Reasons == {"completed", "checkin", "max_turns", "max_tokens", "interrupted",
            "error", "error_timeout", "error_cancel", "throw"}

Fault == faults < MaxFaults /\ faults' = faults + 1

NoFault == UNCHANGED faults

-----------------------------------------------------------------------------
(* TaskManager.                                                            *)

\* Mutant: an interrupted child timed out, whoever interrupted it.
MapTerminalToStateTimeout(reason, byUser) ==
  CASE reason \in {"completed", "checkin"} -> "completed"
    [] reason = "interrupted" -> "timed_out"
    [] OTHER -> IF byUser THEN "cancelled" ELSE "failed"

\* mapTerminalToState, mapSubprocessErrorTerminal and the catch of
\* runDelegation.
MapTerminalToState(reason, byUser) ==
  CASE reason \in {"completed", "checkin"} -> "completed"
    [] reason \in {"max_turns", "max_tokens"} -> "failed"
    [] reason \in {"interrupted", "error_timeout", "error_cancel"} ->
         IF byUser THEN "cancelled" ELSE "timed_out"
    [] reason \in {"error", "throw"} -> IF byUser THEN "cancelled" ELSE "failed"

\* TaskStore.insert and updateState, which follows it without a gap.
UpdateState(t, state) == row' = [row EXCEPT ![t] = state]

\* TaskStore.updateOnComplete: a row that is gone stays gone.
UpdateOnComplete(t, state) == row' = [row EXCEPT ![t] = IF @ = "gone" THEN @ ELSE state]

\* create: the row, the controller, the "running" update and the delegation.
\* An update that fails drops the controller and nothing is delegated; the
\* caller has its task all the same.  A turn already stopped marks the task.
\* An insert that fails, as each does once the session is deleted, throws and
\* leaves nothing behind.
Create ==
  LET t == made + 1
  IN  /\ phase = "turn" /\ made < MaxTasks /\ \A u \in Tasks : row[u] # "gone"
      /\ made' = t
      /\ of' = [of EXCEPT ![t] = turns]
      /\ owned' = owned \cup {t}
      /\ \/ /\ UpdateState(t, "running")
            /\ controllers' = controllers \cup {t}
            /\ ended' = [ended EXCEPT ![t] = "live"]
            /\ userAborted' = IF stopped THEN userAborted \cup {t} ELSE userAborted
            /\ signalled' = IF stopped THEN signalled \cup {t} ELSE signalled
            /\ NoFault /\ UNCHANGED lost
         \/ /\ UpdateState(t, "queued")
            /\ lost' = lost \cup {t}
            /\ Fault /\ UNCHANGED <<controllers, ended, userAborted, signalled>>
      /\ UNCHANGED <<phase, stopped, turns>>

Live == {t \in Tasks : ended[t] = "live"}

\* The delegation ends; it may end by itself after its signal has fired.
ChildEnds(t) ==
  /\ t \in Live
  /\ \E r \in Reasons : ended' = [ended EXCEPT ![t] = r]
  /\ UNCHANGED <<row, made, of, controllers, userAborted, signalled, lost, owner,
                 turns, faults>>

\* Mutant: a terminal write that fails escapes before the clean-up.
FinalizeThrows(t) ==
  /\ t \in controllers /\ ended[t] \in Reasons
  /\ \/ /\ UpdateOnComplete(t, MapTerminalToState(ended[t], t \in userAborted))
        /\ controllers' = controllers \ {t}
        /\ ended' = [ended EXCEPT ![t] = "done"]
        /\ NoFault /\ UNCHANGED lost
     \/ /\ row[t] # "gone"
        /\ lost' = lost \cup {t}
        /\ ended' = [ended EXCEPT ![t] = "done"]
        /\ Fault /\ UNCHANGED <<row, controllers>>
  /\ UNCHANGED <<made, of, userAborted, signalled, owner, turns>>

\* finalize: the terminal state, if the row is still there and can be written;
\* the controller is dropped either way.
Finalize(t) ==
  /\ t \in controllers /\ ended[t] \in Reasons
  /\ controllers' = controllers \ {t}
  /\ ended' = [ended EXCEPT ![t] = "done"]
  /\ \/ /\ UpdateOnComplete(t, MapTerminalToState(ended[t], t \in userAborted))
        /\ NoFault /\ UNCHANGED lost
     \/ /\ row[t] # "gone"
        /\ lost' = lost \cup {t}
        /\ Fault /\ UNCHANGED row
  /\ UNCHANGED <<made, of, userAborted, signalled, owner, turns>>

\* What stop does to a set of tasks: those that have a controller are marked
\* and signalled.
Signal(ts) == /\ userAborted' = userAborted \cup (ts \cap controllers)
              /\ signalled' = signalled \cup (ts \cap controllers)

\* Mutant: stop settles the row itself.
StopWrites(t) ==
  /\ t \in controllers \ userAborted
  /\ Signal({t})
  /\ UpdateOnComplete(t, "cancelled")
  /\ UNCHANGED <<made, of, controllers, ended, lost, owner, turns, faults>>

\* stop, from task_stop, the /tasks command or the host's disposal; for a task
\* without a controller it does nothing.
Stop(t) ==
  /\ t \in controllers \ userAborted
  /\ Signal({t})
  /\ UNCHANGED <<row, made, of, controllers, ended, lost, owner, turns, faults>>

-----------------------------------------------------------------------------
(* The turn that owns the tasks.                                           *)

\* The user cancels the turn: every delegation it started hears of it.
CancelTurn ==
  /\ phase \in {"turn", "await"} /\ ~stopped
  /\ stopped' = TRUE
  /\ Signal({t \in controllers : of[t] = turns})
  /\ UNCHANGED <<row, made, of, controllers, ended, lost, phase, owned, turns, faults>>

\* The final answer; awaitOwnedTasks begins.
AwaitOwnedTasks ==
  /\ phase = "turn" /\ phase' = "await"
  /\ UNCHANGED <<manager, owned, stopped, turns, faults>>

\* Any other end of a turn: a limit, an error, a check-in.  Nothing is awaited.
LeaveTurn ==
  /\ phase = "turn" /\ phase' = "left"
  /\ UNCHANGED <<manager, owned, stopped, turns, faults>>

Completed == {t \in owned : row[t] = "completed"}

\* Owned tasks that cannot complete any more: ended otherwise, or missing.
Failed == {t \in owned : row[t] \notin Active \cup {"completed"}}

\* A stopped turn stops what it owns and is still under way, and returns.
PollStopped ==
  /\ phase = "await" /\ owned # {} /\ stopped
  /\ Signal({t \in owned : row[t] \in Active})
  /\ phase' = "interrupted"
  /\ UNCHANGED <<row, made, of, controllers, ended, lost, owned, stopped, turns, faults>>

\* Mutant: a task that has ended is done, however it ended.
PollLax ==
  /\ phase = "await" /\ ~(stopped /\ owned # {})
  /\ owned' = {t \in owned : row[t] \in Active}
  /\ phase' = IF owned' = {} THEN "completed" ELSE "await"
  /\ UNCHANGED <<manager, stopped, turns, faults>>

\* Mutant: a task whose row is missing is looked for again.
PollPatient ==
  /\ phase = "await" /\ ~(stopped /\ owned # {})
  /\ LET bad == {t \in Failed : row[t] # "gone"}
     IN  IF bad # {}
           THEN /\ phase' = "error"
                /\ owned' = owned \ {t \in Completed : t < Min(bad)}
           ELSE /\ owned' = owned \ Completed
                /\ phase' = IF owned' = {} THEN "completed" ELSE "await"
  /\ UNCHANGED <<manager, stopped, turns, faults>>

\* One pass over the owned tasks, in order: completed ones are dropped, one
\* that cannot complete is an error, and with none left the turn completes.
Poll ==
  /\ phase = "await" /\ ~(stopped /\ owned # {})
  /\ IF Failed # {}
       THEN /\ phase' = "error"
            /\ owned' = owned \ {t \in Completed : t < Min(Failed)}
       ELSE /\ owned' = owned \ Completed
            /\ phase' = IF owned' = {} THEN "completed" ELSE "await"
  /\ UNCHANGED <<manager, stopped, turns, faults>>

\* The next prompt: a new loop state, which owns nothing yet.  Tasks left
\* behind by an earlier turn run on.
NextTurn ==
  /\ phase \notin {"turn", "await"} /\ turns < MaxSessionTurns
  /\ turns' = turns + 1
  /\ phase' = "turn" /\ owned' = {} /\ stopped' = FALSE
  /\ UNCHANGED <<manager, faults>>

-----------------------------------------------------------------------------
(* The surroundings.                                                       *)

\* DELETE /sessions/:id takes the task rows with it.
DeleteSession ==
  /\ \E t \in Tasks : row[t] \notin {"none", "gone"}
  /\ row' = [t \in Tasks |-> IF row[t] = "none" THEN "none" ELSE "gone"]
  /\ Fault
  /\ UNCHANGED <<made, of, controllers, userAborted, signalled, ended, lost, owner, turns>>

\* The process dies with its delegations and starts again; the turn is resumed
\* without them, for no host hands the supervisor a task manager.
ProcessDies ==
  /\ turns < MaxSessionTurns /\ turns' = turns + 1
  /\ controllers' = {}
  /\ ended' = [t \in Tasks |-> IF t \in controllers THEN "dead" ELSE ended[t]]
  /\ phase' = "turn" /\ owned' = {} /\ stopped' = FALSE
  /\ Fault
  /\ UNCHANGED <<row, made, of, userAborted, signalled, lost>>

TaskInit ==
  /\ row = [t \in Tasks |-> "none"] /\ made = 0 /\ of = [t \in Tasks |-> 0]
  /\ controllers = {} /\ userAborted = {} /\ signalled = {} /\ lost = {}
  /\ ended = [t \in Tasks |-> "none"]
  /\ phase = "turn" /\ owned = {} /\ stopped = FALSE
  /\ turns = 1 /\ faults = 0

\* The bound on turns is reached and every delegation is over.
TaskRest ==
  /\ phase \notin {"turn", "await"} /\ turns = MaxSessionTurns /\ controllers = {}
  /\ UNCHANGED taskVars

TaskNext ==
  \/ Create \/ CancelTurn \/ AwaitOwnedTasks \/ LeaveTurn \/ PollStopped \/ Poll
  \/ NextTurn \/ DeleteSession \/ ProcessDies \/ TaskRest
  \/ \E t \in Tasks : ChildEnds(t) \/ Finalize(t) \/ Stop(t)

\* The poll is a timer, and finalize follows the end of its delegation.  That
\* a delegation ends is not promised: the manager gives it no deadline, and
\* the scheduler infers none.
TaskFairness ==
  /\ WF_taskVars(Poll) /\ WF_taskVars(PollStopped)
  /\ \A t \in Tasks : WF_taskVars(Finalize(t))

TaskSpec == TaskInit /\ [][TaskNext]_taskVars /\ TaskFairness

-----------------------------------------------------------------------------
(* Properties.                                                             *)

TaskTypeOK ==
  /\ row \in [Tasks -> {"none", "gone"} \cup Active \cup Terminal]
  /\ made \in 0..MaxTasks /\ of \in [Tasks -> 0..MaxSessionTurns]
  /\ ended \in [Tasks -> {"none", "live", "done", "dead"} \cup Reasons]
  /\ {controllers, userAborted, signalled, lost, owned} \subseteq SUBSET Tasks
  /\ phase \in {"turn", "await", "completed", "interrupted", "error", "left"}
  /\ stopped \in BOOLEAN /\ turns \in 1..MaxSessionTurns /\ faults \in 0..MaxFaults

\* A turn that reports "completed" has no work pending: each task it created,
\* in this process, has come to its end and completed, though tasks fail, are
\* stopped or lose their rows while the turn sleeps between two polls.
OwnerHonest ==
  phase = "completed" =>
    \A t \in Tasks : of[t] = turns =>
      ended[t] = "done" /\ row[t] \in {"completed", "gone"}

\* A controller is kept for exactly the delegations that have not been
\* finalized, so none leaks and none can be stopped in vain; and a row reads as
\* active without one only after a swallowed write or a dead process.
ControllersExact ==
  /\ controllers = {t \in Tasks : ended[t] \in {"live"} \cup Reasons}
  /\ \A t \in Tasks : row[t] \in Active /\ t \notin controllers =>
       t \in lost \/ ended[t] = "dead"

\* Cancellation and timeout are told apart: a task somebody stopped, or whose
\* turn was cancelled, never reads "timed_out", and only such a task reads
\* "cancelled"; a turn that returned "interrupted" leaves no task unsignalled.
StopIsCancel ==
  /\ \A t \in Tasks : /\ row[t] = "timed_out" => t \notin userAborted
                      /\ row[t] = "cancelled" => t \in userAborted
  /\ phase = "interrupted" => \A t \in Live : of[t] = turns => t \in signalled

\* A task that has reached a terminal state keeps it, but for the deletion of
\* its session: what a reader of the table was told stays true.
TerminalStays ==
  [][\A t \in Tasks : row[t] \in Terminal => row'[t] \in {row[t], "gone"}]_taskVars

\* A turn that waits for its tasks returns: always when it is cancelled, and
\* else unless one of them runs for ever or its state could not be written,
\* when nothing but a cancellation ends the wait.
OwnerReturns ==
  /\ phase = "await" /\ stopped ~> phase # "await"
  /\ \/ phase = "await" ~> (phase # "await" \/ lost # {})
     \/ \E t \in Tasks : <>[](t \in owned \cap Live)

=============================================================================
