--------------------------- MODULE DirectoryLock ---------------------------
(***************************************************************************)
(* The lock directory of the cron runner, of jobs.json and of a mission:   *)
(* a directory with a pid file, put in place by one rename, taken away by  *)
(* its holder, or by a contender that judged it stale and renamed it to a  *)
(* graveyard.  A contender's file system calls interleave with those of    *)
(* the other processes; its process can die between any two.               *)
(***************************************************************************)
EXTENDS Integers, FiniteSets

CONSTANTS
    Procs,      \* processes, each started once
    NoProc,
    MaxLive     \* bound: processes that run at the same time

ASSUME NoProcAssumption == NoProc \notin Procs
ASSUME ProcsAssumption == IsFiniteSet(Procs)
ASSUME MaxLiveAssumption == MaxLive \in Nat \ {0}

VARIABLES
    dir,        \* what is at the lock path
    pids,       \* pids that isPidAlive finds: live processes, and reused pids
    pc,         \* [Procs -> Phases]
    tries,      \* [Procs -> 0..1]: the attempts of tryAcquireOnce
    snap,       \* [Procs -> Locks]: mtime and owner as judged
    grave,      \* [Procs -> Locks]: the directory a contender moved away
    moved       \* whether a lock other than the judged one was ever moved

lockVars == <<dir, pids, pc, tries, snap, grave, moved>>

Phases == {"unborn", "idle", "install", "stat", "readpid", "reclaim", "restore",
           "held", "rmdir", "dead"}

\* stamp is the mtime, 0 if there is none; old: beyond the staleness ceiling.
NoLock == [owner |-> NoProc, stamp |-> 0, old |-> FALSE]
Locks == [owner : Procs \cup {NoProc}, stamp : Nat, old : BOOLEAN]

\* The clock moves on: an mtime no lock and no snapshot has.
InUse == {dir.stamp} \cup {snap[p].stamp : p \in Procs} \cup {grave[p].stamp : p \in Procs}
NewStamp == CHOOSE n \in 1..(2 * Cardinality(Procs) + 2) : n \notin InUse

Live == {p \in Procs : pc[p] \notin {"unborn", "dead"}}
Goto(p, phase) == pc' = [pc EXCEPT ![p] = phase]

LockInit ==
    /\ dir = NoLock
    /\ pids = {}
    /\ pc = [p \in Procs |-> "unborn"]
    /\ tries = [p \in Procs |-> 0]
    /\ snap = [p \in Procs |-> NoLock]
    /\ grave = [p \in Procs |-> NoLock]
    /\ moved = FALSE

Start(p) ==
    /\ pc[p] = "unborn"
    /\ Cardinality(Live) < MaxLive
    /\ pids' = pids \cup {p}
    /\ Goto(p, "idle")
    /\ UNCHANGED <<dir, tries, snap, grave, moved>>

-----------------------------------------------------------------------------
(* tryAcquireOnce.                                                          *)

TryAcquire(p) ==
    /\ pc[p] = "idle"
    /\ Goto(p, "install")
    /\ tries' = [tries EXCEPT ![p] = 0]
    /\ UNCHANGED <<dir, pids, snap, grave, moved>>

\* tryAcquireOnce returns false.
GiveUp(p) ==
    /\ Goto(p, "idle")
    /\ snap' = [snap EXCEPT ![p] = NoLock]

\* installLock: the rename succeeds onto nothing, and onto a directory that
\* a release has emptied.
Install(p) ==
    /\ pc[p] = "install"
    /\ \/ /\ dir.owner = NoProc
          /\ dir' = [owner |-> p, stamp |-> NewStamp, old |-> FALSE]
          /\ Goto(p, "held")
       \/ /\ dir.owner # NoProc
          /\ Goto(p, "stat")
          /\ UNCHANGED dir
    /\ UNCHANGED <<pids, tries, snap, grave, moved>>

\* judgeStaleLock, lockMtimeMs.
Stat(p) ==
    /\ pc[p] = "stat"
    /\ snap' = [snap EXCEPT ![p] = [owner |-> NoProc, stamp |-> dir.stamp, old |-> dir.old]]
    /\ Goto(p, "readpid")
    /\ UNCHANGED <<dir, pids, tries, grave, moved>>

\* Mutant: no ceiling.
StaleWhenDead(p) == dir.owner = NoProc \/ dir.owner \notin pids

\* The verdict of judgeStaleLock: too old, no pid file, or a dead owner.
Stale(p) == snap[p].old \/ dir.owner = NoProc \/ dir.owner \notin pids

\* judgeStaleLock, readLockOwner and the verdict.
ReadPid(p) ==
    /\ pc[p] = "readpid"
    /\ IF Stale(p)
       THEN /\ snap' = [snap EXCEPT ![p].owner = dir.owner]
            /\ Goto(p, "reclaim")
       ELSE GiveUp(p)
    /\ UNCHANGED <<dir, pids, tries, grave, moved>>

\* Mutant: whatever was moved away is taken to be the stale lock.
MatchesAnything(p) == TRUE

\* matchesSnapshot of the directory just moved.
MatchesSnapshot(p) == dir.owner = snap[p].owner /\ dir.stamp = snap[p].stamp

\* reclaimStaleLock: the rename, the comparison, and the removal of a lock
\* that is the judged one.  Another one stays in the graveyard to be restored.
Reclaim(p) ==
    /\ pc[p] = "reclaim"
    /\ \/ /\ dir.stamp = 0
          /\ GiveUp(p)
          /\ UNCHANGED <<dir, tries, grave, moved>>
       \/ /\ dir.stamp # 0
          /\ dir' = NoLock
          /\ IF MatchesSnapshot(p)
             THEN /\ tries' = [tries EXCEPT ![p] = @ + 1]
                  /\ snap' = [snap EXCEPT ![p] = NoLock]
                  /\ Goto(p, IF tries[p] = 0 THEN "install" ELSE "idle")
                  /\ UNCHANGED <<grave, moved>>
             ELSE /\ grave' = [grave EXCEPT ![p] = dir]
                  /\ moved' = TRUE
                  /\ Goto(p, "restore")
                  /\ UNCHANGED <<tries, snap>>
    /\ UNCHANGED pids

\* The restoring rename fails if a lock with a pid file is there by now, and
\* the directory then stays in the graveyard for good.
Restore(p) ==
    /\ pc[p] = "restore"
    /\ dir' = IF dir.owner = NoProc THEN grave[p] ELSE dir
    /\ grave' = [grave EXCEPT ![p] = NoLock]
    /\ GiveUp(p)
    /\ UNCHANGED <<pids, tries, moved>>

-----------------------------------------------------------------------------
(* The holder.                                                              *)

\* releaseLock: the pid file goes first, which also moves the mtime ...
ReleaseLock(p) ==
    /\ pc[p] = "held"
    /\ dir' = IF dir.stamp = 0 THEN dir ELSE [owner |-> NoProc, stamp |-> NewStamp, old |-> FALSE]
    /\ Goto(p, "rmdir")
    /\ UNCHANGED <<pids, tries, snap, grave, moved>>

\* ... then the directory, unless it is no longer empty.
RemoveDirectory(p) ==
    /\ pc[p] = "rmdir"
    /\ dir' = IF dir.owner = NoProc THEN NoLock ELSE dir
    /\ Goto(p, "idle")
    /\ UNCHANGED <<pids, tries, snap, grave, moved>>

-----------------------------------------------------------------------------
(* The environment.                                                         *)

\* The ceiling passes.  A tick at work is faster.
Age ==
    /\ dir.stamp # 0
    /\ ~dir.old
    /\ ~(dir.owner \in Procs /\ pc[dir.owner] = "held")
    /\ dir' = [dir EXCEPT !.old = TRUE]
    /\ UNCHANGED <<pids, pc, tries, snap, grave, moved>>

\* A process dies; another one may later be given its pid.
Die(p) ==
    /\ p \in Live
    /\ Goto(p, "dead")
    /\ pids' = pids \ {p}
    /\ tries' = [tries EXCEPT ![p] = 0]
    /\ snap' = [snap EXCEPT ![p] = NoLock]
    /\ grave' = [grave EXCEPT ![p] = NoLock]
    /\ UNCHANGED <<dir, moved>>

ReusePid(p) ==
    /\ pc[p] = "dead"
    /\ dir.owner = p
    /\ pids' = pids \cup {p}
    /\ UNCHANGED <<dir, pc, tries, snap, grave, moved>>

Contend(p) ==
    \/ Install(p) \/ Stat(p) \/ ReadPid(p) \/ Reclaim(p) \/ Restore(p) \/ RemoveDirectory(p)

LockTypeOK ==
    /\ dir \in Locks
    /\ pids \subseteq Procs
    /\ pc \in [Procs -> Phases]
    /\ tries \in [Procs -> 0..2]
    /\ snap \in [Procs -> Locks]
    /\ grave \in [Procs -> Locks]
    /\ moved \in BOOLEAN

\* At most one process believes that it holds the lock: "if a live lock
\* swapped in, we restore it and report the lock held instead of stealing
\* it" (lockUtil.ts 35-37).  It is false: between the rename and the restore
\* another process installs its own.
MutualExclusion == \A p, q \in Procs : pc[p] = "held" /\ pc[q] = "held" => p = q

\* The holder's directory is in place, and in time.
Holds(p) == pc[p] = "held" /\ dir.owner = p /\ ~dir.old

\* A contender finds in its graveyard a lock it did not judge.
MovesAnother(q) == pc[q] = "reclaim" /\ pc'[q] = "restore"

\* A process whose own directory is gone releases the one it finds:
\* releaseLock does not look whose it is.
ReleasesAnother(q) == pc[q] = "held" /\ ~Holds(q) /\ pc'[q] = "rmdir"

\* What the code does keep: a holder's directory stays in place while it is
\* held, whoever judges, reclaims, installs, restores, dies or has a dead
\* process's pid, but for these two steps of another process.
LocksStay ==
    [][\A p \in Procs : Holds(p) /\ pc'[p] = "held" /\ ~Holds(p)' =>
          \E q \in Procs \ {p} : MovesAnother(q) \/ ReleasesAnother(q)]_lockVars

\* No two processes believe it until a contender has moved away a lock it did
\* not judge.
ExclusiveUnlessMoved == ~moved => MutualExclusion
=============================================================================
