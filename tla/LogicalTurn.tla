---------------------------- MODULE LogicalTurn ----------------------------
(***************************************************************************)
(* superviseLogicalTurn (packages/sdk/src/agent/logicalTurn.ts) over the   *)
(* SQLite store of src/agent/sessionDb.ts: one durable logical turn, driven *)
(* by several supervisor calls ("workers") that hold a short lease in turn. *)
(* The creator inserts the row; every other worker resumes it.  Workers of  *)
(* different processes interleave between any two SQL statements, so one    *)
(* action is the code from one statement or await to the next.              *)
(*                                                                          *)
(* Time is abstracted to what the code compares: the ticks left on the      *)
(* lease (0: due) and whether the deadline has passed.  A worker that takes *)
(* no step while Tick does is a blocked thread or a suspended machine.      *)
(***************************************************************************)
EXTENDS Integers, FiniteSets

CONSTANTS
    Workers,       \* superviseLogicalTurn calls; each draws a fresh lease owner
    Creator,       \* the call that inserts the row
    Migrators,     \* migrateLogicalTurnPolicy calls
    Process,       \* the OS process each worker runs in
    Nobody,        \* NULL lease_owner; also an absent activeSegments entry
    LeaseTicks,    \* LOGICAL_TURN_LEASE_MS
    Limit,         \* logicalModelCallLimit of the new row; NoLimit for null
    NoLimit,
    NewLimit,      \* the limit a migration stores
    Reasons,       \* terminal reasons a segment may return
    Prints,        \* progress fingerprints a segment may leave
    UseBoundary,   \* the host supplies readBoundary
    Uncounted,     \* bound: model calls followed when the turn has no limit
    MaxUpsets,     \* bound: what befalls the creator's call, see Upsets
    Events         \* what the environment may do: see EventKinds

ASSUME CreatorAssumption == Creator \in Workers
ASSUME OwnersAssumption ==
    Nobody \notin Workers /\ Nobody \notin Migrators /\ Workers \intersect Migrators = {}
ASSUME LeaseAssumption == LeaseTicks \in Nat \ {0}
\* validateLogicalModelCallLimit
ASSUME LimitAssumption ==
    /\ Limit \in (Nat \ {0}) \union {NoLimit}
    /\ NewLimit \in (Nat \ {0}) \union {NoLimit}
    /\ NoLimit \notin Nat
\* stop: the caller aborts; deadline: deadlineAt passes; crash: a process dies;
\* fault: prepare() or a segment throws; child: segments delegate.
EventKinds == {"stop", "deadline", "crash", "fault", "child"}
ASSUME BoundsAssumption == Uncounted \in Nat /\ MaxUpsets \in Nat
ASSUME HostAssumption == UseBoundary \in BOOLEAN /\ Events \subseteq EventKinds

VARIABLES
    record,     \* the logical_turns row; status "absent" before the insert
    lease,      \* lease_owner and the ticks to lease_expires_at
    receipts,   \* the durable tool receipt each worker wrote last
    due,        \* deadlineAt has passed
    pc, after,  \* where each worker stands, and where it goes after a save
    held,       \* held.record, the worker's copy of the row
    budget,     \* modelCallBudget
    seg,        \* the segment in flight on the worker's async stack
    lost,       \* binding.lost
    sig,        \* the caller's abort signal has fired
    attempts,   \* transientAttempts
    safeBit,    \* ~unsafeResume
    registered, \* activeSegments of each process
    migrating   \* migrators between their acquire and their save

store == <<record, lease, receipts>>
local == <<budget, seg, lost, sig, attempts, safeBit, registered>>
vars == <<store, due, pc, after, held, local, migrating>>

Statuses == {"absent", "admitted", "running", "continuing", "completed",
             "waiting_user", "cancelled", "failed", "exhausted", "stalled"}

\* Statuses a resume answers from the row.  A failed row would reopen only with
\* a cause of SAFE_TRANSIENT_FAILURES, which no path of the supervisor stores.
Final == {"completed", "waiting_user", "cancelled", "failed"}

AllReasons == {"completed", "checkin", "interrupted", "error", "transient",
               "max_turns", "max_tokens"}
ASSUME ReasonsAssumption == Reasons \subseteq AllReasons
NoPrint == "none"

Row(status, limit) ==
    [status |-> status, calls |-> 0, limit |-> limit,
     cause |-> "none", print |-> NoPrint, noProgress |-> 0]

Rows == [status : Statuses, calls : Nat, limit : Nat \union {NoLimit},
         cause : AllReasons \union {"none"}, print : Prints \union {NoPrint},
         noProgress : Nat]

\* The worker is inside withHeartbeat.
Beating == {"preparing", "segment", "retrywait"}
\* The worker has acquired the lease and has neither stored a terminal nor
\* unwound.
Working == Beating \union {"boundary", "renew", "write", "admit", "loop", "retry", "continue", "resume"}
PCs == Working \union {"idle", "loaded", "acquire", "reload", "stop", "release", "returned", "dead"}

NewBudget == [limit |-> Limit, used |-> 0]
IdleSegment == [on |-> FALSE, iters |-> 0, calls |-> 0, pend |-> "none"]
\* late: a started receipt whose INSERT came after the lease had passed to another
\* owner.  The journal does not tell it from any other started one.
ReceiptStates == {"none", "started", "late", "completed"}

StoreTypes ==
    /\ record \in Rows
    /\ lease \in [owner : Workers \union Migrators \union {Nobody}, ttl : 0 .. LeaseTicks]
    /\ receipts \in [Workers -> ReceiptStates]
    /\ due \in BOOLEAN
    /\ migrating \in SUBSET Migrators

ControlTypes ==
    /\ pc \in [Workers -> PCs]
    /\ after \in [Workers -> PCs]
    /\ held \in [Workers -> Rows]

LocalTypes ==
    /\ budget \in [Workers -> [limit : Nat \union {NoLimit}, used : Nat]]
    /\ seg \in [Workers -> [on : BOOLEAN, iters : Nat, calls : Nat, pend : ReceiptStates]]
    /\ lost \in [Workers -> BOOLEAN]
    /\ sig \in [Workers -> BOOLEAN]
    /\ attempts \in [Workers -> 0 .. 2]
    /\ safeBit \in [Workers -> BOOLEAN]
    /\ registered \in [{Process[w] : w \in Workers} -> Workers \union {Nobody}]

TypeOK == StoreTypes /\ ControlTypes /\ LocalTypes

Init ==
    /\ record = Row("absent", Limit)
    /\ lease = [owner |-> Nobody, ttl |-> 0]
    /\ receipts = [w \in Workers |-> "none"]
    /\ due = FALSE
    /\ pc = [w \in Workers |-> "idle"]
    /\ after = [w \in Workers |-> "idle"]
    /\ held = [w \in Workers |-> Row("absent", Limit)]
    /\ budget = [w \in Workers |-> NewBudget]
    /\ seg = [w \in Workers |-> IdleSegment]
    /\ lost = [w \in Workers |-> FALSE]
    /\ sig = [w \in Workers |-> FALSE]
    /\ attempts = [w \in Workers |-> 0]
    /\ safeBit = [w \in Workers |-> TRUE]
    /\ registered = [p \in {Process[w] : w \in Workers} |-> Nobody]
    /\ migrating = {}

-----------------------------------------------------------------------------
(* The store's lease statements *)

\* acquireLogicalTurnLease: ... WHERE lease_owner IS NULL OR lease_expires_at <= now
\* (no caller ever finds its own fresh owner there).
CanAcquire == lease.owner = Nobody \/ lease.ttl = 0
\* renewLogicalTurnLease: ... WHERE lease_owner = ? AND lease_expires_at > now
CanRenew(w) == lease.owner = w /\ lease.ttl > 0
Leased(o) == [owner |-> o, ttl |-> LeaseTicks]
\* Mutant: UPDATE ... WHERE logical_turn_id = ? alone.
CanSaveUnfenced(w) == TRUE

\* saveLogicalTurn: ... WHERE lease_owner = ?
CanSave(w) == lease.owner = w
\* releaseLogicalTurnLease: ... WHERE lease_owner = ?
Released(o) == IF lease.owner = o THEN [owner |-> Nobody, ttl |-> 0] ELSE lease

\* hasNativeRecoveryTarget: no receipt is started or unknown.
RecoverySafe == \A w \in Workers : receipts[w] \notin {"started", "late"}

AtLimit(r) == r.limit # NoLimit /\ r.calls >= r.limit

-----------------------------------------------------------------------------
(* Control *)

\* A process is one thread: between a fenced write's check and the write nothing
\* else of that process runs.
ThreadFree(w) == \A v \in Workers : Process[v] = Process[w] => seg[v].pend = "none"

At(w, p) == pc[w] = p /\ ThreadFree(w)

Goto(w, p) == pc' = [pc EXCEPT ![w] = p] /\ UNCHANGED <<after, held>>

SaveThen(w, r, p) ==
    /\ pc' = [pc EXCEPT ![w] = "renew"]
    /\ after' = [after EXCEPT ![w] = p]
    /\ held' = [held EXCEPT ![w] = r]

\* finish(status, ...): store the terminal, then fire the deferred Stop hook.
Finish(w, r, status) == SaveThen(w, [r EXCEPT !.status = status], "stop")

\* A throw, or a return, inside the outer try.
Unwind(w) == Goto(w, "release")

\* Stops, a passed deadline, migrations, and resumes, which count for two.
Upsets ==
    2 * Cardinality({w \in Workers \ {Creator} : pc[w] # "idle"})
    + Cardinality({w \in Workers : sig[w]}) + Cardinality(migrating)
    + (IF due THEN 1 ELSE 0) + (IF record.limit = Limit THEN 0 ELSE 1)

-----------------------------------------------------------------------------
(* Admission *)

\* A new turn: insert the row.
Create(w) ==
    /\ At(w, "idle") /\ w = Creator
    /\ record' = Row("admitted", Limit)
    /\ pc' = [pc EXCEPT ![w] = "loaded"]
    /\ held' = [held EXCEPT ![w] = record']
    /\ UNCHANGED <<lease, receipts, due, after, local, migrating>>

\* A resume: load the row; a missing or final one is answered at once.
Load(w) ==
    /\ At(w, "idle") /\ w # Creator
    /\ Upsets + 2 <= MaxUpsets
    /\ IF record.status \in Final \union {"absent"}
       THEN Goto(w, "returned") /\ UNCHANGED budget
       ELSE /\ pc' = [pc EXCEPT ![w] = "loaded"]
            /\ held' = [held EXCEPT ![w] = record]
            /\ budget' = [budget EXCEPT ![w] = [limit |-> record.limit, used |-> record.calls]]
            /\ UNCHANGED after
    /\ UNCHANGED <<store, due, seg, lost, sig, attempts, safeBit, registered, migrating>>

\* A foreign lease that is not due refuses the call.  Without readBoundary the
\* safety of the resume is decided here, before the lease.
ReadLease(w) ==
    /\ At(w, "loaded")
    /\ Goto(w, IF CanAcquire THEN "acquire" ELSE "release")
    /\ safeBit' = [safeBit EXCEPT ![w] = (w = Creator \/ UseBoundary \/ RecoverySafe)]
    /\ UNCHANGED <<store, due, budget, seg, lost, sig, attempts, registered, migrating>>

\* Take the lease and displace this process's previous segment of the turn.
Acquire(w) ==
    /\ At(w, "acquire")
    /\ IF CanAcquire
       THEN LET p == Process[w] IN
            /\ Goto(w, "reload")
            /\ lease' = Leased(w)
            /\ registered' = [registered EXCEPT ![p] = w]
            /\ lost' = [v \in Workers |-> lost[v] \/ v = registered[p]]
       ELSE Unwind(w) /\ UNCHANGED <<lease, registered, lost>>
    /\ UNCHANGED <<record, receipts, due, budget, seg, sig, attempts, safeBit, migrating>>

\* Mutant: the copy loaded before the lease is kept.
ReloadSkipped(w) ==
    /\ At(w, "reload")
    /\ SaveThen(w, [held[w] EXCEPT !.status = "running"], "admit")
    /\ UNCHANGED <<store, due, local, migrating>>

\* Read the row again under the lease: another owner may have finished it.
Reload(w) ==
    /\ At(w, "reload")
    /\ IF record.status \in Final
       THEN Unwind(w)
       ELSE CASE w # Creator /\ UseBoundary ->
                    /\ pc' = [pc EXCEPT ![w] = "boundary"]
                    /\ held' = [held EXCEPT ![w] = record]
                    /\ UNCHANGED after
              [] w # Creator /\ ~UseBoundary /\ ~safeBit[w] -> Finish(w, record, "failed")
              [] OTHER -> SaveThen(w, [record EXCEPT !.status = "running"], "admit")
    /\ UNCHANGED <<store, due, local, migrating>>

\* Mutant: the safety bit decided before the lease is used.
ResumeBoundaryEarly(w) ==
    /\ At(w, "boundary")
    /\ IF CanRenew(w)
       THEN /\ lease' = Leased(w)
            /\ IF safeBit[w]
               THEN SaveThen(w, [held[w] EXCEPT !.status = "running"], "admit")
               ELSE Finish(w, held[w], "failed")
       ELSE Unwind(w) /\ UNCHANGED lease
    /\ UNCHANGED <<record, receipts, due, local, migrating>>

\* readOwnedBoundary on a resume: renew around one read of the transcript.
ResumeBoundary(w) ==
    /\ At(w, "boundary")
    /\ IF CanRenew(w)
       THEN /\ lease' = Leased(w)
            /\ IF RecoverySafe
               THEN SaveThen(w, [held[w] EXCEPT !.status = "running"], "admit")
               ELSE Finish(w, held[w], "failed")
       ELSE Unwind(w) /\ UNCHANGED lease
    /\ UNCHANGED <<record, receipts, due, local, migrating>>

-----------------------------------------------------------------------------
(* save() *)

SaveRenew(w) ==
    /\ At(w, "renew")
    /\ IF CanRenew(w)
       THEN Goto(w, "write") /\ lease' = Leased(w)
       ELSE Unwind(w) /\ UNCHANGED lease
    /\ UNCHANGED <<record, receipts, due, local, migrating>>

SaveWrite(w) ==
    /\ At(w, "write")
    /\ IF CanSave(w)
       THEN /\ record' = held[w]
            /\ pc' = [pc EXCEPT ![w] = after[w]]
            /\ after' = [after EXCEPT ![w] = "idle"]
            /\ UNCHANGED held
       ELSE Unwind(w) /\ UNCHANGED record
    /\ UNCHANGED <<lease, receipts, due, local, migrating>>

-----------------------------------------------------------------------------
(* The segment loop *)

\* Before the paid work of prepare().
Admit(w) ==
    /\ At(w, "admit")
    /\ IF due \/ AtLimit(held[w])
       THEN Finish(w, held[w], "exhausted")
       ELSE Goto(w, IF lost[w] THEN "release" ELSE "preparing")
    /\ UNCHANGED <<store, due, local, migrating>>

\* prepare() returns, or throws: only a passed deadline turns the throw into a
\* stored terminal.
PrepareEnds(w) ==
    /\ At(w, "preparing")
    /\ \/ Goto(w, IF lost[w] THEN "release" ELSE "loop")
       \/ "fault" \in Events /\ Unwind(w)
       \/ ~lost[w] /\ due /\ Finish(w, held[w], "exhausted")
    /\ UNCHANGED <<store, due, local, migrating>>

\* Top of the loop: deadline, then a stop, then the cap, then the lease.
Loop(w) ==
    /\ At(w, "loop")
    /\ \/ /\ due
          /\ Finish(w, held[w], "exhausted")
          /\ UNCHANGED <<lease, seg>>
       \/ /\ ~due /\ sig[w]
          /\ Finish(w, held[w], "cancelled")
          /\ UNCHANGED <<lease, seg>>
       \/ /\ ~due /\ ~sig[w] /\ AtLimit(held[w])
          /\ Finish(w, held[w], "exhausted")
          /\ UNCHANGED <<lease, seg>>
       \/ /\ ~due /\ ~sig[w] /\ ~AtLimit(held[w])
          /\ IF CanRenew(w)
             THEN /\ lease' = Leased(w)
                  /\ Goto(w, IF lost[w] THEN "release" ELSE "segment")
                  /\ seg' = [seg EXCEPT ![w] = [IdleSegment EXCEPT !.on = ~lost[w]]]
             ELSE Unwind(w) /\ UNCHANGED <<lease, seg>>
    /\ UNCHANGED <<record, receipts, due, budget, lost, sig,
                   attempts, safeBit, registered, migrating>>

CanCharge(w) ==
    /\ ~(held[w].limit # NoLimit /\ seg[w].calls >= held[w].limit - held[w].calls)
    /\ ~(budget[w].limit # NoLimit /\ budget[w].used >= budget[w].limit)

Charged(s, own) ==
    [on |-> s.on, pend |-> s.pend, calls |-> s.calls + 1,
     iters |-> IF own THEN s.iters + 1 ELSE s.iters]

\* chargeModelCall: the run's own ceiling is what was left at the segment's
\* start, and the turn's budget is charged with it.  own: a call of the segment's
\* query loop; otherwise a call of a child it delegated to.
ModelCall(w, own) ==
    /\ At(w, "segment") /\ seg[w].on /\ ~lost[w] /\ ~sig[w]
    /\ held[w].limit # NoLimit \/ budget[w].used < Uncounted
    /\ own \/ ("child" \in Events /\ seg[w].iters > 0)
    /\ CanCharge(w)
    /\ seg' = [seg EXCEPT ![w] = Charged(@, own)]
    /\ budget' = [budget EXCEPT ![w].used = @ + 1]
    /\ UNCHANGED <<store, due, pc, after, held, lost, sig, attempts, safeBit, registered, migrating>>

\* saveToolExecution: assertLogicalTurnWriteLease checks the owner, not the
\* expiry, and the INSERT follows as a statement of its own.  A segment whose
\* supervisor has unwound still runs this code.
WriteCheck(w) ==
    /\ seg[w].on /\ ThreadFree(w)
    /\ receipts[w] # "completed"
    /\ IF lost[w] \/ lease.owner # w
       THEN seg' = [seg EXCEPT ![w].on = FALSE]
       ELSE seg' = [seg EXCEPT ![w].pend = IF receipts[w] = "none" THEN "started" ELSE "completed"]
    /\ UNCHANGED <<store, due, pc, after, held, budget, lost, sig, attempts,
                   safeBit, registered, migrating>>

\* The INSERT does not look at the lease again.
WriteCommit(w) ==
    /\ seg[w].pend # "none"
    /\ receipts' = [receipts EXCEPT ![w] =
                       IF seg[w].pend = "started" /\ lease.owner # w THEN "late" ELSE seg[w].pend]
    /\ seg' = [seg EXCEPT ![w].pend = "none"]
    /\ UNCHANGED <<record, lease, due, pc, after, held, budget, lost, sig,
                   attempts, safeBit, registered, migrating>>

\* rememberOwnedTask: save() from inside the segment, before the tool's receipt.
\* It is exported for tools; none of the repository's calls it.
\* Without the lease it throws into the tool and stores nothing.
RememberTask(w) ==
    /\ At(w, "segment") /\ seg[w].on /\ ~lost[w] /\ CanRenew(w)
    /\ lease' = Leased(w)
    /\ record' = held[w]
    /\ UNCHANGED <<receipts, due, pc, after, held, local, migrating>>

\* The heartbeat's renewal: failure loses the lease and rejects the wait.
Beat(w) ==
    /\ pc[w] \in Beating /\ ~lost[w] /\ ThreadFree(w)
    /\ IF CanRenew(w)
       THEN lease' = Leased(w) /\ UNCHANGED <<pc, after, held, lost>>
       ELSE Unwind(w) /\ lost' = [lost EXCEPT ![w] = TRUE] /\ UNCHANGED lease
    /\ UNCHANGED <<record, receipts, due, budget, seg, sig,
                   attempts, safeBit, registered, migrating>>

\* Mutant: loseLease does not reject the wait.
DisplacedUnheard(w) == FALSE /\ pc[w] = "segment"

\* loseLease called by the worker that displaced this one.
Displaced(w) ==
    /\ pc[w] \in Beating /\ lost[w] /\ ThreadFree(w)
    /\ Unwind(w)
    /\ UNCHANGED <<store, due, local, migrating>>

MaxOf(a, b) == IF a >= b THEN a ELSE b

\* runSegment returns: account for it and decide.
SegmentReturns(w, reason, print) ==
    LET calls == MaxOf(held[w].calls + seg[w].iters, budget[w].used)
        r == [held[w] EXCEPT !.calls = calls, !.cause = reason]
        same == held[w].print = print /\ held[w].cause = reason
        stuck == IF same THEN r.noProgress + 1 ELSE 0
        next == [r EXCEPT !.print = print, !.noProgress = stuck]
        open == reason \notin {"completed", "checkin"}
        stopped == reason = "interrupted" \/ sig[w]
        fatal == reason = "error" \/ (reason = "transient" /\ attempts[w] >= 2)
    IN  /\ At(w, "segment") /\ ~lost[w]
        /\ seg[w].on
        \* A run that made no call was stopped, failed, or found no budget.
        /\ \/ seg[w].iters > 0 \/ (held[w].limit = NoLimit /\ budget[w].used >= Uncounted)
           \/ reason \in {"interrupted", "error", "transient"}
           \/ reason = "max_turns" /\ ~CanCharge(w)
        /\ seg' = [seg EXCEPT ![w] = IdleSegment]
        /\ budget' = [budget EXCEPT ![w].used = calls]
        /\ \/ /\ \/ reason = "completed" /\ Finish(w, r, "completed")
                 \/ reason = "checkin" /\ Finish(w, r, "waiting_user")
                 \/ open /\ due /\ Finish(w, r, "exhausted")
                 \/ open /\ ~due /\ stopped /\ Finish(w, r, "cancelled")
                 \/ open /\ ~due /\ ~stopped /\ fatal /\ Finish(w, r, "failed")
                 \/ open /\ ~due /\ ~stopped /\ ~fatal /\ AtLimit(r) /\ Finish(w, r, "exhausted")
              /\ UNCHANGED attempts
           \/ /\ ~due /\ ~stopped /\ ~fatal /\ ~AtLimit(r) /\ reason = "transient"
              /\ pc' = [pc EXCEPT ![w] = "retry"]
              /\ held' = [held EXCEPT ![w] = r]
              /\ UNCHANGED <<after, attempts>>
           \/ /\ ~due /\ ~stopped /\ ~AtLimit(r) /\ reason \in {"max_turns", "max_tokens"}
              /\ pc' = [pc EXCEPT ![w] = "continue"]
              /\ held' = [held EXCEPT ![w] = next]
              /\ attempts' = [attempts EXCEPT ![w] = 0]
              /\ UNCHANGED after
        /\ UNCHANGED <<store, due, lost, sig, safeBit, registered, migrating>>

\* runSegment rejects.  A lease error or a storage fault leaves the row alone; a
\* passed deadline or a stop is stored, without the calls this segment made; any
\* other error propagates.
SegmentThrows(w) ==
    /\ At(w, "segment") /\ ~lost[w]
    /\ seg' = [seg EXCEPT ![w] = IdleSegment]
    /\ \/ (~seg[w].on \/ "fault" \in Events) /\ Unwind(w)
       \/ seg[w].on /\ due /\ Finish(w, held[w], "exhausted")
       \/ seg[w].on /\ ~due /\ sig[w] /\ Finish(w, held[w], "cancelled")
    /\ UNCHANGED <<store, due, budget, lost, sig, attempts, safeBit, registered, migrating>>

\* The segment of an unwound supervisor ends.
OrphanEnds(w) ==
    /\ pc[w] # "segment" /\ seg[w].on /\ ThreadFree(w)
    /\ seg' = [seg EXCEPT ![w] = IdleSegment]
    /\ UNCHANGED <<store, due, pc, after, held, budget, lost, sig, attempts,
                   safeBit, registered, migrating>>

\* A transient provider error: check the receipts, count the retry, save, wait.
Retry(w) ==
    /\ At(w, "retry")
    /\ IF UseBoundary /\ ~CanRenew(w)
       THEN Unwind(w) /\ UNCHANGED <<lease, attempts>>
       ELSE /\ lease' = IF UseBoundary THEN Leased(w) ELSE lease
            /\ IF RecoverySafe
               THEN /\ SaveThen(w, held[w], "retrywait")
                    /\ attempts' = [attempts EXCEPT ![w] = @ + 1]
               ELSE Finish(w, held[w], "failed") /\ UNCHANGED attempts
    /\ UNCHANGED <<record, receipts, due, budget, seg, lost, sig,
                   safeBit, registered, migrating>>

\* The wait ends, early on a stop.  The checks after it are those of Loop.
RetryWaitEnds(w) ==
    /\ At(w, "retrywait")
    /\ Goto(w, IF lost[w] THEN "release" ELSE "loop")
    /\ UNCHANGED <<store, due, local, migrating>>

\* Mutant: continuing resets repeatedNoProgress.
ContinueStuck(w) ==
    /\ At(w, "continue")
    /\ IF held[w].noProgress >= 2
       THEN Finish(w, held[w], "stalled")
       ELSE SaveThen(w, [held[w] EXCEPT !.status = "continuing", !.noProgress = 0], "resume")
    /\ UNCHANGED <<store, due, local, migrating>>

\* An exhausted segment: renew around the boundary read, check the receipts and
\* the progress, then save "continuing".  (The max_tokens marker row this leaves in
\* the transcript is written under the lease just renewed.)
Continue(w) ==
    /\ At(w, "continue")
    /\ IF CanRenew(w)
       THEN /\ lease' = Leased(w)
            /\ \/ ~RecoverySafe /\ Finish(w, held[w], "failed")
               \/ RecoverySafe /\ held[w].noProgress >= 2 /\ Finish(w, held[w], "stalled")
               \/ /\ RecoverySafe /\ held[w].noProgress < 2
                  /\ SaveThen(w, [held[w] EXCEPT !.status = "continuing"], "resume")
       ELSE Unwind(w) /\ UNCHANGED lease
    /\ UNCHANGED <<record, receipts, due, local, migrating>>

\* Rehydrate and save "running" again.
Resume(w) ==
    /\ At(w, "resume")
    /\ SaveThen(w, [held[w] EXCEPT !.status = "running"], "loop")
    /\ UNCHANGED <<store, due, local, migrating>>

\* fireTerminalStop, then the return.
Stop(w) ==
    /\ At(w, "stop")
    /\ Goto(w, "release")
    /\ UNCHANGED <<store, due, local, migrating>>

Forget(W) ==
    /\ after' = [w \in Workers |-> IF w \in W THEN "idle" ELSE after[w]]
    /\ held' = [w \in Workers |-> IF w \in W THEN Row("absent", Limit) ELSE held[w]]
    /\ budget' = [w \in Workers |-> IF w \in W THEN NewBudget ELSE budget[w]]
    /\ attempts' = [w \in Workers |-> IF w \in W THEN 0 ELSE attempts[w]]

\* The finally block.  The call's locals die with it; an orphan segment still has
\* the binding.
Release(w) ==
    /\ At(w, "release")
    /\ pc' = [pc EXCEPT ![w] = "returned"]
    /\ Forget({w})
    /\ lease' = Released(w)
    /\ registered' = [p \in DOMAIN registered |->
                         IF registered[p] = w THEN Nobody ELSE registered[p]]
    /\ UNCHANGED <<record, receipts, due, seg, lost, sig, safeBit, migrating>>

-----------------------------------------------------------------------------
(* migrateLogicalTurnPolicy *)

MigrateAcquire(m) ==
    /\ m \notin migrating
    /\ Upsets < MaxUpsets
    /\ record.status # "absent" /\ CanAcquire
    /\ lease' = Leased(m)
    /\ migrating' = migrating \union {m}
    /\ UNCHANGED <<record, receipts, due, pc, after, held, local>>

\* Load, check, save and release.  A save by m implies m held the lease since
\* its load, so nothing it read has changed.
MigrateSave(m) ==
    /\ m \in migrating
    /\ record' = IF /\ CanSave(m)
                    /\ record.status \notin {"cancelled", "completed", "waiting_user"}
                    /\ RecoverySafe
                 THEN [record EXCEPT !.limit = NewLimit]
                 ELSE record
    /\ lease' = Released(m)
    /\ migrating' = migrating \ {m}
    /\ UNCHANGED <<receipts, due, pc, after, held, local>>

-----------------------------------------------------------------------------
(* The environment *)

\* The caller's signal; segmentAbort follows it.
Abort(w) ==
    /\ "stop" \in Events
    /\ ~sig[w] /\ pc[w] \notin {"returned", "dead"}
    /\ Upsets < MaxUpsets
    /\ sig' = [sig EXCEPT ![w] = TRUE]
    /\ UNCHANGED <<store, due, pc, after, held, budget, seg, lost, attempts,
                   safeBit, registered, migrating>>

DeadlinePasses ==
    /\ "deadline" \in Events
    /\ ~due
    /\ Upsets < MaxUpsets
    /\ due' = TRUE
    /\ UNCHANGED <<store, pc, after, held, local, migrating>>

Tick ==
    /\ lease.owner # Nobody /\ lease.ttl > 0
    /\ lease' = [lease EXCEPT !.ttl = @ - 1]
    /\ UNCHANGED <<record, receipts, due, pc, after, held, local, migrating>>

\* A process dies: nothing it was doing is stored, and its lease stays.
Crash(p) ==
    LET alive == {w \in Workers : Process[w] = p /\ pc[w] \notin {"idle", "returned", "dead"}}
    IN  /\ "crash" \in Events
        /\ alive # {}
        /\ pc' = [w \in Workers |-> IF w \in alive THEN "dead" ELSE pc[w]]
        /\ Forget(alive)
        /\ seg' = [w \in Workers |-> IF Process[w] = p THEN IdleSegment ELSE seg[w]]
        /\ registered' = [registered EXCEPT ![p] = Nobody]
        /\ UNCHANGED <<store, due, lost, sig, safeBit, migrating>>

-----------------------------------------------------------------------------
\* What a supervisor does by itself once started.
Supervise(w) ==
    \/ ReadLease(w) \/ Acquire(w) \/ Reload(w) \/ ResumeBoundary(w)
    \/ SaveRenew(w) \/ SaveWrite(w) \/ Admit(w) \/ PrepareEnds(w) \/ Loop(w)
    \/ Displaced(w) \/ Retry(w) \/ RetryWaitEnds(w) \/ Continue(w) \/ Resume(w)
    \/ Stop(w) \/ Release(w)

\* How a segment moves toward its end.
Segment(w) ==
    \/ ModelCall(w, TRUE)
    \/ \E reason \in Reasons, print \in Prints : SegmentReturns(w, reason, print)
    \/ SegmentThrows(w)

Next ==
    \/ \E w \in Workers :
         \/ Create(w) \/ Load(w) \/ Supervise(w)
         \/ Segment(w) \/ ModelCall(w, FALSE) \/ WriteCheck(w) \/ WriteCommit(w)
         \/ RememberTask(w) \/ OrphanEnds(w) \/ Beat(w) \/ Abort(w)
    \/ \E m \in Migrators : MigrateAcquire(m) \/ MigrateSave(m)
    \/ \E p \in {Process[w] : w \in Workers} : Crash(p)
    \/ DeadlinePasses \/ Tick

Spec == Init /\ [][Next]_vars

\* The supervisor's own code runs to its next await, prepare() and the retry
\* timer end, a store write ends, and a segment that holds its lease returns.
\* Stops, deadlines, crashes, expiries and heartbeats are not assumed to happen.
Fairness == \A w \in Workers :
    WF_vars(Supervise(w)) /\ WF_vars(Segment(w)) /\ WF_vars(WriteCommit(w))

FairSpec == Spec /\ Fairness

-----------------------------------------------------------------------------
(* Properties *)

\* A stored outcome that a resume answers from the row is never replaced: no
\* late writer, expired owner, migration or second resume reopens it.
TerminalSticky == [][record.status \in Final => record'.status = record.status]_record

\* saveLogicalTurn's fence: a supervisor that was suspended past its lease never
\* writes its older copy of the counters over those of the next owner.
CallsNeverRewind == [][record'.calls >= record.calls]_record

\* A policy migration is not a lost update: no supervisor that loaded the row
\* before it stores the limit the migration replaced.
MigrationSurvives == [][record.limit = NewLimit => record'.limit = NewLimit]_record

\* No resumed or continued segment starts while another worker's tool receipt is
\* unfinished, whichever processes ran, died or were suspended in between.  What the
\* code leaves open is a receipt that lands late: its write was checked under the
\* lease, and in another process the lease passed on before the INSERT.
SafeStart == [][\A w \in Workers \ {Creator} :
                  pc[w] = "loop" /\ pc'[w] = "segment"
                      => \A v \in Workers \ {w} :
                            /\ receipts[v] # "started"
                            /\ Process[v] = Process[w] => receipts[v] # "late"]_pc

\* Every superviseLogicalTurn call ends, whatever stops, expires or dies around it,
\* even with no limit and no deadline (repeatedNoProgress, transientAttempts), unless
\* its segments for ever differ in what they leave or in why they end.
EveryCallReturns == \A w \in Workers :
    \/ []<>(pc[w] \in {"idle", "returned", "dead"})
    \/ []<><<held'[w].print # held[w].print \/ held'[w].cause # held[w].cause>>_held
=============================================================================
