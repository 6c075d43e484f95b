--------------------------- MODULE CronRunnerProofs ---------------------------
(***************************************************************************)
(* Proofs about the directory lock and the ticks under it, for any number  *)
(* of processes and jobs.  The invariant says why a contender that moves   *)
(* away the very lock it judged moves away nobody's: modification times    *)
(* tell two locks of one path apart, and a judged lock is old, has no pid  *)
(* file or belongs to a dead process.                                      *)
(***************************************************************************)
EXTENDS CronRunner, FiniteSetTheorems, TLAPS

\* Where a contender still has a try; isPidAlive finds every running process.
Retries ==
    /\ \A p \in Procs : pc[p] \in {"install", "stat", "readpid", "reclaim"} => tries[p] \in 0..1
    /\ Live \subseteq pids

\* The owner of a lock has been started, and a lock has its time.
Owned(lock) ==
    /\ lock.owner # NoProc => pc[lock.owner] # "unborn"
    /\ lock.stamp = 0 => lock.owner = NoProc /\ ~lock.old

\* So it is with the lock in place and with those in graveyards.
Owners == Owned(dir) /\ \A q \in Procs : Owned(grave[q])

\* The time of a lock in a graveyard is no other lock's.
Times ==
    \A q \in Procs : grave[q].stamp # 0 =>
        /\ grave[q].stamp # dir.stamp
        /\ \A r \in Procs : r # q => grave[r].stamp # grave[q].stamp

\* While no graveyard was used, the holder's directory is in place, and in time.
Holder ==
    \A p \in Procs :
        /\ pc[p] # "restore"
        /\ pc[p] = "held" => dir.owner = p /\ ~dir.old

\* What a contender judged to be too old is so wherever it still is.
Dated ==
    \A p \in Procs :
        pc[p] \in {"readpid", "reclaim"} /\ snap[p].old =>
            /\ snap[p].stamp # 0
            /\ snap[p].stamp = dir.stamp => dir.old
            /\ \A q \in Procs : snap[p].stamp = grave[q].stamp => grave[q].old

\* The verdict of judgeStaleLock stands.
Judged ==
    \A p \in Procs : pc[p] = "reclaim" =>
        \/ snap[p].owner = NoProc
        \/ snap[p].owner \in Procs /\ pc[snap[p].owner] = "dead"
        \/ snap[p].old

\* All this always, but for the holder's directory.
Orderly == Owners /\ Times /\ Dated /\ Judged
LockInv == Retries /\ Orderly /\ (~moved => Holder)

\* A tick that was not stopped holds the lock; a stopped process takes none.
Ticks ==
    /\ \A p \in ticking : p \notin stopped => pc[p] = "held"
    /\ \A p \in stopped : pc[p] \in {"idle", "rmdir", "dead"}
    /\ \A p \in Procs : list[p] # {} \/ job[p] # NoJob => p \in ticking

\* The processes about to start job j, and whether an unstopped tick has it.
Holding(j) == {p \in Procs : j \in list[p]}
Busy(j) == \E p \in ticking \ stopped : j \in list[p] \/ job[p] = j
Slack(j) == IF Busy(j) THEN 1 ELSE 0

\* Every start and every start to come, but for the unstopped tick's, is
\* owed to a mishap.
Counted ==
    /\ Cardinality(stopped) <= events
    /\ ~moved => \A j \in Jobs : starts[j] + Cardinality(Holding(j)) <= events + Slack(j)

Inv == TypeOK /\ LockInv /\ Ticks /\ Counted

-----------------------------------------------------------------------------
(* Modification times.                                                      *)

\* The values of a function on the processes are no more than the processes.
LEMMA ImageBound ==
    ASSUME NEW f, f \in [Procs -> Nat]
    PROVE  /\ IsFiniteSet({f[p] : p \in Procs})
           /\ Cardinality({f[p] : p \in Procs}) <= Cardinality(Procs)
  <1>1. f \in Surjection(Procs, {f[p] : p \in Procs}) BY DEF Surjection
  <1>. QED BY <1>1, ProcsAssumption, FS_Surjection

\* The clock gives every new lock a time no lock and no snapshot has.
LEMMA NewStampFresh ==
    ASSUME LockTypeOK
    PROVE  NewStamp \in Nat /\ NewStamp # 0 /\ NewStamp \notin InUse
  <1>. DEFINE n == Cardinality(Procs)
              f == [p \in Procs |-> snap[p].stamp]
              g == [p \in Procs |-> grave[p].stamp]
              A == {f[p] : p \in Procs}
              B == {g[p] : p \in Procs}
              C == {dir.stamp}
              T == 1..(2 * n + 2)
  <1>1. f \in [Procs -> Nat] /\ g \in [Procs -> Nat] BY DEF LockTypeOK, Locks
  <1>2. n \in Nat BY ProcsAssumption, FS_CardinalityType
  <1>3. InUse = C \cup A \cup B BY DEF InUse
  <1>. HIDE DEF n, f, g
  <1>4. /\ IsFiniteSet(A) /\ Cardinality(A) <= n
        /\ IsFiniteSet(B) /\ Cardinality(B) <= n
    BY <1>1, ImageBound DEF n
  <1>5. IsFiniteSet(C) /\ Cardinality(C) = 1 BY FS_Singleton
  <1>. HIDE DEF A, B, C, T
  <1>6. IsFiniteSet(C \cup A) /\ Cardinality(C \cup A) <= n + 1
    <2>1. Cardinality(C \cap A) \in Nat BY <1>5, FS_Intersection, FS_CardinalityType
    <2>2. Cardinality(A) \in Nat BY <1>4, FS_CardinalityType
    <2>3. IsFiniteSet(C \cup A) /\ Cardinality(C \cup A) = Cardinality(C) + Cardinality(A) - Cardinality(C \cap A)
      BY <1>4, <1>5, FS_Union
    <2>. QED BY <1>2, <1>4, <1>5, <2>1, <2>2, <2>3
  <1>7. IsFiniteSet(InUse) /\ Cardinality(InUse) <= 2 * n + 1
    <2>1. Cardinality((C \cup A) \cap B) \in Nat BY <1>6, FS_Intersection, FS_CardinalityType
    <2>2. Cardinality(B) \in Nat /\ Cardinality(C \cup A) \in Nat BY <1>4, <1>6, FS_CardinalityType
    <2>3. IsFiniteSet((C \cup A) \cup B)
            /\ Cardinality((C \cup A) \cup B) = Cardinality(C \cup A) + Cardinality(B) - Cardinality((C \cup A) \cap B)
      BY <1>4, <1>6, FS_Union
    <2>. QED BY <1>2, <1>3, <1>4, <1>6, <2>1, <2>2, <2>3
  <1>8. IsFiniteSet(T) /\ Cardinality(T) = 2 * n + 2
    <2>1. 2 * n + 2 \in Int /\ ~(1 > 2 * n + 2) BY <1>2
    <2>2. Cardinality(T) = (2 * n + 2) - 1 + 1 /\ IsFiniteSet(T) BY <2>1, FS_Interval DEF T
    <2>. QED BY <1>2, <2>2
  <1>9. \E m \in T : m \notin InUse
    <2>. SUFFICES ASSUME T \subseteq InUse PROVE FALSE OBVIOUS
    <2>1. Cardinality(T) <= Cardinality(InUse) BY <1>7, FS_Subset
    <2>2. Cardinality(InUse) \in Nat BY <1>7, FS_CardinalityType
    <2>. QED BY <1>2, <1>7, <1>8, <2>1, <2>2
  <1>10. NewStamp \in T /\ NewStamp \notin InUse BY <1>9 DEF NewStamp, T, n
  <1>. QED BY <1>2, <1>10 DEF T

-----------------------------------------------------------------------------
(* The lock.                                                                *)

\* A step of one process between its renames: it disturbs no lock.
LEMMA WalkLock ==
    ASSUME LockTypeOK, LockInv, NEW p \in Procs, NEW to \in {"idle", "install", "stat"},
           pc' = [pc EXCEPT ![p] = to], pc[p] \notin {"held", "dead"},
           snap' \in {snap, [snap EXCEPT ![p] = NoLock]},
           tries' = tries \/ (tries' = [tries EXCEPT ![p] = 0]),
           to = "stat" => pc[p] = "install",
           to = "install" => pc[p] = "idle" /\ tries' = [tries EXCEPT ![p] = 0],
           pids' = pids \cup {p}, UNCHANGED <<dir, grave, moved>>
    PROVE  LockTypeOK' /\ LockInv'
  <1>1. NoLock \in Locks BY DEF NoLock, Locks
  <1>2. LockTypeOK' BY <1>1 DEF LockTypeOK, Phases
  <1>3. Retries' BY DEF LockInv, LockTypeOK, Retries, Live
  <1>4. \A q \in Procs : q # p => snap'[q] = snap[q] /\ pc'[q] = pc[q] BY DEF LockTypeOK
  <1>5. pc'[p] = to BY DEF LockTypeOK
  <1>6. Owners' /\ Times' BY <1>4, <1>5 DEF LockTypeOK, Locks, LockInv, Orderly, Owners, Owned, Times
  <1>7. Dated' BY <1>4, <1>5 DEF LockInv, Orderly, Dated
  <1>8. Judged' BY <1>4, <1>5 DEF LockInv, Orderly, Judged
  <1>9. ~moved => Holder' BY <1>4, <1>5 DEF LockInv, Holder
  <1>. QED BY <1>2, <1>3, <1>6, <1>7, <1>8, <1>9 DEF LockInv, Orderly

\* A process starts; a tick tries for the lock; a contender gives up.
LEMMA WalksLock ==
    ASSUME LockTypeOK, LockInv, NEW p \in Procs,
           \/ Start(p) \/ TryAcquire(p)
           \/ ReadPid(p) /\ ~Stale(p)
           \/ Install(p) /\ dir.owner # NoProc
           \/ Reclaim(p) /\ dir.stamp = 0
    PROVE  LockTypeOK' /\ LockInv'
  <1>. USE DEF Goto
  <1>1. pc[p] \notin {"unborn", "dead"} => pids = pids \cup {p} BY DEF LockInv, Retries, Live
  <1>2. CASE Start(p) BY <1>2, WalkLock DEF Start
  <1>3. CASE TryAcquire(p) BY <1>1, <1>3, WalkLock DEF TryAcquire
  <1>4. CASE ReadPid(p) /\ ~Stale(p) BY <1>1, <1>4, WalkLock DEF ReadPid, GiveUp
  <1>5. CASE Install(p) /\ dir.owner # NoProc BY <1>1, <1>5, WalkLock DEF Install
  <1>6. CASE Reclaim(p) /\ dir.stamp = 0 BY <1>1, <1>6, WalkLock DEF Reclaim, GiveUp
  <1>. QED BY <1>2, <1>3, <1>4, <1>5, <1>6

\* The rename succeeds only where no lock with a pid file is.
LEMMA InstallLock ==
    ASSUME LockTypeOK, LockInv, NEW p \in Procs, Install(p), dir.owner = NoProc PROVE LockTypeOK' /\ LockInv'
  <1>1. /\ dir' = [owner |-> p, stamp |-> NewStamp, old |-> FALSE] /\ pc' = [pc EXCEPT ![p] = "held"]
        /\ pc[p] = "install" /\ UNCHANGED <<pids, tries, snap, grave, moved>>
    BY DEF Install, Goto
  <1>2. dir'.owner = p /\ dir'.stamp = NewStamp /\ dir'.old = FALSE BY <1>1
  <1>3. NewStamp \in Nat /\ NewStamp # 0 /\ \A q \in Procs : snap[q].stamp # NewStamp
    BY NewStampFresh DEF InUse
  <1>4. LockTypeOK'
    <2>1. dir' \in Locks BY <1>1, <1>3 DEF Locks
    <2>. QED BY <1>1, <2>1 DEF LockTypeOK, Phases
  <1>5. Retries' BY <1>1 DEF LockInv, LockTypeOK, Retries, Live
  <1>6. Orderly BY DEF LockInv
  <1>7. \A q \in Procs : grave[q].stamp # NewStamp BY NewStampFresh DEF InUse
  <1>8. Owners' BY <1>1, <1>2, <1>3, <1>6 DEF LockTypeOK, Locks, Orderly, Owners, Owned
  <1>9. Times' BY <1>1, <1>2, <1>6, <1>7 DEF Orderly, Times
  <1>10. Dated' BY <1>1, <1>2, <1>3, <1>6 DEF LockTypeOK, Orderly, Dated
  <1>11. Judged' BY <1>1, <1>6 DEF LockTypeOK, Orderly, Judged
  <1>12. ~moved => Holder' BY <1>1, <1>2, NoProcAssumption DEF LockTypeOK, LockInv, Holder
  <1>. QED BY <1>1, <1>4, <1>5, <1>8, <1>9, <1>10, <1>11, <1>12 DEF LockInv, Orderly

\* The modification time is read before the owner.
LEMMA StatLock == ASSUME LockTypeOK, LockInv, NEW p \in Procs, Stat(p) PROVE LockTypeOK' /\ LockInv'
  <1>1. /\ pc[p] = "stat" /\ pc' = [pc EXCEPT ![p] = "readpid"] /\ UNCHANGED <<dir, pids, tries, grave, moved>>
        /\ snap' = [snap EXCEPT ![p] = [owner |-> NoProc, stamp |-> dir.stamp, old |-> dir.old]]
    BY DEF Stat, Goto
  <1>2. /\ snap'[p].stamp = dir.stamp /\ snap'[p].old = dir.old
        /\ \A q \in Procs : q # p => snap'[q] = snap[q]
    BY <1>1 DEF LockTypeOK
  <1>3. LockTypeOK'
    <2>1. [owner |-> NoProc, stamp |-> dir.stamp, old |-> dir.old] \in Locks BY DEF LockTypeOK, Locks
    <2>. QED BY <1>1, <2>1 DEF LockTypeOK, Phases
  <1>4. Retries' BY <1>1 DEF LockInv, LockTypeOK, Retries, Live
  <1>5. Orderly BY DEF LockInv
  <1>6. Owners' /\ Times' BY <1>1, <1>5 DEF LockTypeOK, Locks, Orderly, Owners, Owned, Times
  <1>7. Dated'
    <2>1. dir.old => dir.stamp # 0 BY <1>5 DEF Orderly, Owners, Owned
    <2>2. \A q \in Procs : dir.stamp # 0 => grave[q].stamp # dir.stamp BY <1>5 DEF Orderly, Times
    <2>. QED BY <1>1, <1>2, <1>5, <2>1, <2>2 DEF LockTypeOK, Orderly, Dated
  <1>8. Judged' BY <1>1, <1>2, <1>5 DEF LockTypeOK, Orderly, Judged
  <1>9. ~moved => Holder' BY <1>1 DEF LockTypeOK, LockInv, Holder
  <1>. QED BY <1>1, <1>3, <1>4, <1>6, <1>7, <1>8, <1>9 DEF LockInv, Orderly

\* The verdict: too old, no owner, or an owner that is not running and, since
\* it once held the lock, never will again.
LEMMA ReadPidLock ==
    ASSUME LockTypeOK, LockInv, NEW p \in Procs, ReadPid(p), Stale(p) PROVE LockTypeOK' /\ LockInv'
  <1>1. /\ pc[p] = "readpid" /\ UNCHANGED <<dir, pids, tries, grave, moved>>
        /\ snap' = [snap EXCEPT ![p].owner = dir.owner] /\ pc' = [pc EXCEPT ![p] = "reclaim"]
    BY DEF ReadPid, Goto
  <1>2. /\ snap'[p].owner = dir.owner /\ snap'[p].stamp = snap[p].stamp /\ snap'[p].old = snap[p].old
        /\ snap' \in [Procs -> Locks] /\ \A q \in Procs : q # p => snap'[q] = snap[q]
    BY <1>1 DEF LockTypeOK, Locks
  <1>3. LockTypeOK' BY <1>1, <1>2 DEF LockTypeOK, Phases
  <1>4. Retries' BY <1>1 DEF LockInv, LockTypeOK, Retries, Live
  <1>5. Orderly BY DEF LockInv
  <1>6. Owners' /\ Times' BY <1>1, <1>5 DEF LockTypeOK, Locks, Orderly, Owners, Owned, Times
  <1>7. Dated' BY <1>1, <1>2, <1>5 DEF LockTypeOK, Orderly, Dated
  <1>8. ~moved => Holder' BY <1>1 DEF LockTypeOK, LockInv, Holder
  <1>9. dir.owner = NoProc \/ (dir.owner \in Procs /\ pc[dir.owner] = "dead") \/ snap[p].old
    BY <1>5 DEF Stale, LockInv, LockTypeOK, Locks, Orderly, Owners, Owned, Retries, Live
  <1>10. \A q \in Procs : pc[q] = "dead" => pc'[q] = "dead" BY <1>1 DEF LockTypeOK
  <1>11. Judged'
    <2>. SUFFICES ASSUME NEW q \in Procs, pc'[q] = "reclaim"
                  PROVE  \/ snap'[q].owner = NoProc
                         \/ snap'[q].owner \in Procs /\ pc'[snap'[q].owner] = "dead"
                         \/ snap'[q].old
      BY DEF Judged
    <2>1. CASE q = p BY <1>2, <1>9, <1>10, <2>1
    <2>2. CASE q # p
      <3>1. pc[q] = "reclaim" /\ snap'[q] = snap[q] BY <1>1, <1>2, <2>2 DEF LockTypeOK
      <3>. QED BY <1>5, <1>10, <3>1 DEF Orderly, Judged
    <2>. QED BY <2>1, <2>2
  <1>. QED BY <1>1, <1>3, <1>4, <1>6, <1>7, <1>8, <1>11 DEF LockInv, Orderly

\* The judged lock is nobody's: no live process can have installed it since,
\* because it would have a new time.
LEMMA JudgedIsNobodys ==
    ASSUME LockInv, NEW p \in Procs, pc[p] = "reclaim", MatchesSnapshot(p), NEW q \in Procs
    PROVE  ~Holds(q)
  <1>. SUFFICES ASSUME pc[q] = "held", dir.owner = q, ~dir.old PROVE FALSE BY DEF Holds
  <1>1. Dated /\ Judged BY DEF LockInv, Orderly
  <1>2. snap[p].owner = q /\ snap[p].stamp = dir.stamp BY DEF MatchesSnapshot
  <1>3. snap[p].old BY <1>1, <1>2, NoProcAssumption DEF Judged
  <1>. QED BY <1>1, <1>2, <1>3 DEF Dated

\* Moving away the very lock that was judged takes it from nobody; another one
\* is in the graveyard, and nowhere else.
LEMMA ReclaimLock ==
    ASSUME LockTypeOK, LockInv, NEW p \in Procs, Reclaim(p), dir.stamp # 0 PROVE LockTypeOK' /\ LockInv'
  <1>1. pc[p] = "reclaim" /\ dir' = NoLock /\ pids' = pids BY DEF Reclaim
  <1>2. NoLock \in Locks /\ NoLock.owner = NoProc /\ NoLock.stamp = 0 /\ NoLock.old = FALSE
    BY DEF NoLock, Locks
  <1>3. Orderly BY DEF LockInv
  <1>4. CASE MatchesSnapshot(p)
    <2>. DEFINE to == IF tries[p] = 0 THEN "install" ELSE "idle"
    <2>1. /\ tries' = [tries EXCEPT ![p] = @ + 1] /\ snap' = [snap EXCEPT ![p] = NoLock]
          /\ pc' = [pc EXCEPT ![p] = to] /\ UNCHANGED <<grave, moved>>
      BY <1>4 DEF Reclaim, Goto
    <2>2. tries[p] \in 0..1 BY <1>1 DEF LockInv, Retries
    <2>3. LockTypeOK'
      <3>1. tries' \in [Procs -> 0..2] BY <2>1, <2>2 DEF LockTypeOK
      <3>. QED BY <1>1, <1>2, <2>1, <3>1 DEF LockTypeOK, Phases
    <2>4. Retries'
      <3>1. pc'[p] = "install" => tries'[p] = 1 BY <2>1, <2>2 DEF LockTypeOK
      <3>2. pc'[p] \in {"install", "idle"} BY <2>1 DEF LockTypeOK
      <3>3. \A q \in Procs : q # p => pc'[q] = pc[q] /\ tries'[q] = tries[q] BY <2>1 DEF LockTypeOK
      <3>. QED BY <1>1, <3>1, <3>2, <3>3 DEF LockInv, Retries, Live
    <2>5. pc'[p] \in {"install", "idle"} /\ \A q \in Procs : q # p => pc'[q] = pc[q] /\ snap'[q] = snap[q]
      BY <2>1 DEF LockTypeOK
    <2>6. Owners' BY <1>1, <1>2, <1>3, <2>1, <2>5 DEF LockTypeOK, Locks, Orderly, Owners, Owned
    <2>7. Times' BY <1>1, <1>2, <1>3, <2>1 DEF Orderly, Times
    <2>8. Dated' BY <1>1, <1>2, <1>3, <2>1, <2>5 DEF Orderly, Dated
    <2>9. Judged' BY <1>1, <1>3, <2>5 DEF Orderly, Judged
    <2>10. ~moved => Holder'
      <3>. SUFFICES ASSUME ~moved PROVE Holder' OBVIOUS
      <3>1. \A q \in Procs : pc[q] # "held" BY <1>1, <1>4, JudgedIsNobodys DEF LockInv, Holder, Holds
      <3>. QED BY <2>5, <3>1 DEF LockInv, Holder
    <2>. QED BY <2>1, <2>3, <2>4, <2>6, <2>7, <2>8, <2>9, <2>10 DEF LockInv, Orderly
  <1>5. CASE ~MatchesSnapshot(p)
    <2>1. /\ grave' = [grave EXCEPT ![p] = dir] /\ moved' = TRUE
          /\ pc' = [pc EXCEPT ![p] = "restore"] /\ UNCHANGED <<tries, snap>>
      BY <1>5 DEF Reclaim, Goto
    <2>2. LockTypeOK' BY <1>1, <1>2, <2>1 DEF LockTypeOK, Phases
    <2>3. Retries' BY <1>1, <2>1 DEF LockInv, LockTypeOK, Retries, Live
    <2>4. grave'[p] = dir /\ \A q \in Procs : q # p => grave'[q] = grave[q] BY <2>1 DEF LockTypeOK
    <2>5. Owners' BY <1>1, <1>2, <1>3, <2>1, <2>4 DEF LockTypeOK, Locks, Orderly, Owners, Owned
    <2>6. Times' BY <1>1, <1>2, <1>3, <2>4 DEF Orderly, Times
    <2>7. Dated' BY <1>1, <1>2, <1>3, <2>1, <2>4 DEF LockTypeOK, Orderly, Dated
    <2>8. Judged' BY <1>1, <1>3, <2>1 DEF LockTypeOK, Orderly, Judged
    <2>. QED BY <2>1, <2>2, <2>3, <2>5, <2>6, <2>7, <2>8 DEF LockInv, Orderly
  <1>. QED BY <1>4, <1>5

\* A restored lock is in place again, and no longer in the graveyard.
LEMMA RestoreLock == ASSUME LockTypeOK, LockInv, NEW p \in Procs, Restore(p) PROVE LockTypeOK' /\ LockInv'
  <1>1. /\ pc[p] = "restore" /\ dir' = (IF dir.owner = NoProc THEN grave[p] ELSE dir)
        /\ grave' = [grave EXCEPT ![p] = NoLock] /\ pc' = [pc EXCEPT ![p] = "idle"]
        /\ snap' = [snap EXCEPT ![p] = NoLock] /\ UNCHANGED <<pids, tries, moved>>
    BY DEF Restore, GiveUp, Goto
  <1>2. NoLock \in Locks /\ NoLock.owner = NoProc /\ NoLock.stamp = 0 /\ NoLock.old = FALSE
    BY DEF NoLock, Locks
  <1>3. LockTypeOK' BY <1>1, <1>2 DEF LockTypeOK, Phases
  <1>4. Retries' BY <1>1 DEF LockInv, LockTypeOK, Retries, Live
  <1>5. moved BY <1>1 DEF LockInv, Holder
  <1>6. Orderly BY DEF LockInv
  <1>7. /\ grave'[p].stamp = 0 /\ grave'[p].owner = NoProc /\ grave'[p].old = FALSE
        /\ \A q \in Procs : q # p => grave'[q] = grave[q]
    BY <1>1, <1>2 DEF LockTypeOK
  <1>8. \A q \in Procs : pc[q] # "unborn" => pc'[q] # "unborn" BY <1>1 DEF LockTypeOK
  <1>9. Owners'
    <2>1. Owned(dir)' BY <1>1, <1>6, <1>8 DEF LockTypeOK, Locks, Orderly, Owners, Owned
    <2>2. \A q \in Procs : Owned(grave[q])' BY <1>6, <1>7, <1>8 DEF LockTypeOK, Locks, Orderly, Owners, Owned
    <2>. QED BY <2>1, <2>2 DEF Owners
  <1>10. Times' BY <1>1, <1>6, <1>7 DEF Orderly, Times
  <1>11. Dated' BY <1>1, <1>6, <1>7 DEF LockTypeOK, Orderly, Dated
  <1>12. Judged' BY <1>1, <1>6 DEF LockTypeOK, Orderly, Judged
  <1>. QED BY <1>1, <1>3, <1>4, <1>5, <1>9, <1>10, <1>11, <1>12 DEF LockInv, Orderly

\* The holder empties its directory, which gives it a new time.
LEMMA ReleaseLockLock ==
    ASSUME LockTypeOK, LockInv, NEW p \in Procs, ReleaseLock(p) PROVE LockTypeOK' /\ LockInv'
  <1>1. /\ pc[p] = "held" /\ pc' = [pc EXCEPT ![p] = "rmdir"] /\ UNCHANGED <<pids, tries, snap, grave, moved>>
        /\ dir' = IF dir.stamp = 0 THEN dir ELSE [owner |-> NoProc, stamp |-> NewStamp, old |-> FALSE]
    BY DEF ReleaseLock, Goto
  <1>2. NewStamp \in Nat /\ NewStamp # 0 /\ \A q \in Procs : snap[q].stamp # NewStamp
    BY NewStampFresh DEF InUse
  <1>3. LockTypeOK'
    <2>1. dir' \in Locks BY <1>1, <1>2 DEF Locks, LockTypeOK
    <2>. QED BY <1>1, <2>1 DEF LockTypeOK, Phases
  <1>4. Retries' BY <1>1 DEF LockInv, LockTypeOK, Retries, Live
  <1>5. Orderly BY DEF LockInv
  <1>6. \A q \in Procs : grave[q].stamp # NewStamp BY NewStampFresh DEF InUse
  <1>7. dir' = dir \/ (dir'.owner = NoProc /\ dir'.stamp = NewStamp /\ dir'.old = FALSE) BY <1>1
  <1>8. Owners' BY <1>1, <1>2, <1>5, <1>7 DEF LockTypeOK, Locks, Orderly, Owners, Owned
  <1>9. Times' BY <1>1, <1>5, <1>6, <1>7 DEF Orderly, Times
  <1>10. Dated' BY <1>1, <1>2, <1>5, <1>7 DEF LockTypeOK, Orderly, Dated
  <1>11. Judged' BY <1>1, <1>5 DEF LockTypeOK, Orderly, Judged
  <1>12. ~moved => Holder' BY <1>1 DEF LockTypeOK, LockInv, Holder
  <1>. QED BY <1>1, <1>3, <1>4, <1>8, <1>9, <1>10, <1>11, <1>12 DEF LockInv, Orderly

\* An empty directory is removed, and only an empty one.
LEMMA RemoveDirectoryLock ==
    ASSUME LockTypeOK, LockInv, NEW p \in Procs, RemoveDirectory(p) PROVE LockTypeOK' /\ LockInv'
  <1>1. /\ pc[p] = "rmdir" /\ pc' = [pc EXCEPT ![p] = "idle"] /\ UNCHANGED <<pids, tries, snap, grave, moved>>
        /\ dir' = IF dir.owner = NoProc THEN NoLock ELSE dir
    BY DEF RemoveDirectory, Goto
  <1>2. NoLock \in Locks /\ NoLock.owner = NoProc /\ NoLock.stamp = 0 /\ NoLock.old = FALSE
    BY DEF NoLock, Locks
  <1>3. LockTypeOK' BY <1>1, <1>2 DEF LockTypeOK, Phases
  <1>4. Retries' BY <1>1 DEF LockInv, LockTypeOK, Retries, Live
  <1>5. Orderly BY DEF LockInv
  <1>6. dir' = dir \/ (dir'.owner = NoProc /\ dir'.stamp = 0 /\ dir'.old = FALSE) BY <1>1, <1>2
  <1>7. Owners' BY <1>1, <1>5, <1>6 DEF LockTypeOK, Locks, Orderly, Owners, Owned
  <1>8. Times' BY <1>1, <1>5, <1>6 DEF Orderly, Times
  <1>9. Dated' BY <1>1, <1>5, <1>6 DEF LockTypeOK, Orderly, Dated
  <1>10. Judged' BY <1>1, <1>5 DEF LockTypeOK, Orderly, Judged
  <1>11. ~moved => Holder' BY <1>1, NoProcAssumption DEF LockTypeOK, LockInv, Holder
  <1>. QED BY <1>1, <1>3, <1>4, <1>7, <1>8, <1>9, <1>10, <1>11 DEF LockInv, Orderly

\* The ceiling passes for a lock that is not held.
LEMMA AgeLock == ASSUME LockTypeOK, LockInv, Age PROVE LockTypeOK' /\ LockInv'
  <1>1. /\ dir.stamp # 0 /\ ~(dir.owner \in Procs /\ pc[dir.owner] = "held")
        /\ dir' = [dir EXCEPT !.old = TRUE] /\ UNCHANGED <<pids, pc, tries, snap, grave, moved>>
    BY DEF Age
  <1>2. dir' \in Locks /\ dir'.owner = dir.owner /\ dir'.stamp = dir.stamp /\ dir'.old = TRUE
    BY <1>1 DEF LockTypeOK, Locks
  <1>3. LockTypeOK' BY <1>1, <1>2 DEF LockTypeOK
  <1>4. Retries' BY <1>1 DEF LockInv, Retries, Live
  <1>5. Orderly BY DEF LockInv
  <1>6. Owners' /\ Times' BY <1>1, <1>2, <1>5 DEF LockTypeOK, Locks, Orderly, Owners, Owned, Times
  <1>7. Dated' /\ Judged' BY <1>1, <1>2, <1>5 DEF Orderly, Dated, Judged
  <1>8. ~moved => Holder' BY <1>1, <1>2 DEF LockInv, Holder
  <1>. QED BY <1>1, <1>3, <1>4, <1>6, <1>7, <1>8 DEF LockInv, Orderly

\* A process dies, or its pid is given to another one.
LEMMA DieLock == ASSUME LockTypeOK, LockInv, NEW p \in Procs, Die(p) \/ ReusePid(p) PROVE LockTypeOK' /\ LockInv'
  <1>1. CASE Die(p)
    <2>1. /\ pc' = [pc EXCEPT ![p] = "dead"] /\ pids' = pids \ {p} /\ UNCHANGED <<dir, moved>>
          /\ tries' = [tries EXCEPT ![p] = 0] /\ snap' = [snap EXCEPT ![p] = NoLock]
          /\ grave' = [grave EXCEPT ![p] = NoLock] /\ p \in Live
      BY <1>1 DEF Die, Goto
    <2>2. NoLock \in Locks /\ NoLock.owner = NoProc /\ NoLock.stamp = 0 /\ NoLock.old = FALSE
      BY DEF NoLock, Locks
    <2>3. LockTypeOK' BY <2>1, <2>2 DEF LockTypeOK, Phases
    <2>4. Retries' BY <2>1 DEF LockInv, LockTypeOK, Retries, Live
    <2>5. Orderly BY DEF LockInv
    <2>6. /\ grave'[p].stamp = 0 /\ grave'[p].owner = NoProc /\ grave'[p].old = FALSE
          /\ \A q \in Procs : q # p => grave'[q] = grave[q]
      BY <2>1, <2>2 DEF LockTypeOK
    <2>7. \A q \in Procs : pc[q] # "unborn" => pc'[q] # "unborn" BY <2>1 DEF LockTypeOK
    <2>8. Owners' BY <2>1, <2>5, <2>6, <2>7 DEF LockTypeOK, Locks, Orderly, Owners, Owned
    <2>9. Times' BY <2>1, <2>5, <2>6 DEF Orderly, Times
    <2>10. Dated' BY <2>1, <2>5, <2>6 DEF LockTypeOK, Orderly, Dated
    <2>11. Judged' BY <2>1, <2>5 DEF LockTypeOK, Orderly, Judged
    <2>12. ~moved => Holder' BY <2>1 DEF LockTypeOK, LockInv, Holder
    <2>. QED BY <2>1, <2>3, <2>4, <2>8, <2>9, <2>10, <2>11, <2>12 DEF LockInv, Orderly
  <1>2. CASE ReusePid(p)
    BY <1>2 DEF ReusePid, LockTypeOK, LockInv, Retries, Live, Orderly, Owners, Owned, Times, Holder, Dated, Judged
  <1>. QED BY <1>1, <1>2

\* Every file system call keeps what the lock rests on.
LEMMA ContendLock == ASSUME LockTypeOK, LockInv, NEW p \in Procs, Contend(p) PROVE LockTypeOK' /\ LockInv'
  <1>1. CASE Install(p) BY <1>1, InstallLock, WalksLock
  <1>2. CASE ReadPid(p) BY <1>2, ReadPidLock, WalksLock
  <1>3. CASE Reclaim(p) BY <1>3, ReclaimLock, WalksLock
  <1>. QED BY <1>1, <1>2, <1>3, StatLock, RestoreLock, RemoveDirectoryLock DEF Contend

\* A step that leaves the lock alone leaves its invariant alone.
LEMMA IdleLock == ASSUME LockTypeOK, LockInv, UNCHANGED lockVars PROVE LockTypeOK' /\ LockInv'
  BY DEF lockVars, LockTypeOK, LockInv, Retries, Live, Orderly, Owners, Owned, Times, Holder, Dated, Judged

\* One holder, until a lock goes astray.
LEMMA Exclusive == LockInv => ExclusiveUnlessMoved
  BY DEF LockInv, Holder, ExclusiveUnlessMoved, MutualExclusion

-----------------------------------------------------------------------------
(* The ticks.                                                               *)

CronTypeOK ==
    /\ enabled \subseteq Jobs
    /\ due \in [Jobs -> BOOLEAN]
    /\ dueCount \in [Jobs -> 0..MaxDue]
    /\ starts \in [Jobs -> Nat]
    /\ ticking \subseteq Procs
    /\ list \in [Procs -> SUBSET Jobs]
    /\ job \in [Procs -> Jobs \cup {NoJob}]
    /\ forced \in Jobs \cup {NoJob}
    /\ stopped \subseteq Procs
    /\ events \in 0..MaxEvents

\* The type invariant in its two halves.
LEMMA TypeHalves == TypeOK <=> LockTypeOK /\ CronTypeOK
  BY DEF TypeOK, CronTypeOK

\* At most one tick is unstopped, as long as no lock went astray.
LEMMA OneTick ==
    ASSUME LockInv, Ticks, CronTypeOK, ~moved, NEW p \in ticking \ stopped, NEW q \in ticking \ stopped
    PROVE  p = q
  <1>1. p \in Procs /\ q \in Procs /\ pc[p] = "held" /\ pc[q] = "held" BY DEF Ticks, CronTypeOK
  <1>. QED BY <1>1, Exclusive DEF ExclusiveUnlessMoved, MutualExclusion

\* A set of processes is finite.
LEMMA Countable ==
    ASSUME NEW S, S \subseteq Procs PROVE IsFiniteSet(S) /\ Cardinality(S) \in Nat
  <1>1. IsFiniteSet(S) BY ProcsAssumption, FS_Subset
  <1>. QED BY <1>1, FS_CardinalityType

\* All but one of the processes about to start a job have been stopped.
LEMMA HoldingBound ==
    LockInv /\ Ticks /\ CronTypeOK /\ ~moved =>
      \A j \in Jobs : Cardinality(Holding(j)) <= Cardinality(stopped) + Slack(j)
  <1>. SUFFICES ASSUME LockInv, Ticks, CronTypeOK, ~moved, NEW j \in Jobs
                PROVE  Cardinality(Holding(j)) <= Cardinality(stopped) + Slack(j)
    OBVIOUS
  <1>1. IsFiniteSet(stopped) /\ Cardinality(stopped) \in Nat BY Countable DEF CronTypeOK
  <1>2. IsFiniteSet(Holding(j)) /\ Cardinality(Holding(j)) \in Nat BY Countable DEF Holding
  <1>3. \A p \in Holding(j) : p \in ticking BY DEF Holding, Ticks
  <1>4. CASE Holding(j) \subseteq stopped
    <2>1. Cardinality(Holding(j)) <= Cardinality(stopped) BY <1>1, <1>4, FS_Subset
    <2>. QED BY <1>1, <1>2, <2>1 DEF Slack
  <1>5. CASE ~(Holding(j) \subseteq stopped)
    <2>1. PICK p \in Holding(j) : p \notin stopped BY <1>5
    <2>2. p \in ticking \ stopped /\ j \in list[p] BY <1>3, <2>1 DEF Holding
    <2>3. Slack(j) = 1 BY <2>2 DEF Slack, Busy
    <2>4. Holding(j) \subseteq stopped \cup {p} BY <1>3, <2>2, OneTick
    <2>5. IsFiniteSet(stopped \cup {p}) /\ Cardinality(stopped \cup {p}) = Cardinality(stopped) + 1
      BY <1>1, <2>1, FS_AddElement
    <2>6. Cardinality(Holding(j)) <= Cardinality(stopped \cup {p}) BY <2>4, <2>5, FS_Subset
    <2>. QED BY <2>3, <2>5, <2>6
  <1>. QED BY <1>4, <1>5

\* What the counts are counts of.
LEMMA CountTypes ==
    ASSUME Inv
    PROVE  /\ events \in Nat
           /\ \A j \in Jobs : /\ starts[j] \in Nat /\ Slack(j) \in {0, 1}
                              /\ Cardinality(Holding(j)) \in Nat
           /\ Cardinality(stopped) \in Nat
  <1>1. CronTypeOK BY TypeHalves DEF Inv
  <1>2. Cardinality(stopped) \in Nat BY <1>1, Countable DEF CronTypeOK
  <1>3. \A j \in Jobs : Cardinality(Holding(j)) \in Nat BY Countable DEF Holding
  <1>. QED BY <1>1, <1>2, <1>3, BoundsAssumption DEF CronTypeOK, Slack

\* A step of the lock alone: no tick, no job.
LEMMA LockStepInv ==
    ASSUME Inv, UNCHANGED cronVars, LockTypeOK', LockInv', moved => moved',
           NEW p \in Procs, \A q \in Procs : q # p => pc'[q] = pc[q],
           pc'[p] = pc[p] \/ pc[p] # "held",
           p \in stopped => pc'[p] \in {"idle", "rmdir", "dead"}
    PROVE  Inv'
  <1>1. LockTypeOK /\ CronTypeOK BY TypeHalves DEF Inv
  <1>2. TypeOK' BY <1>1 DEF TypeOK, CronTypeOK, cronVars
  <1>3. Ticks'
    <2>1. \A q \in ticking : q \notin stopped => pc'[q] = "held" BY <1>1 DEF Inv, Ticks, CronTypeOK
    <2>2. \A q \in stopped : pc'[q] \in {"idle", "rmdir", "dead"} BY <1>1 DEF Inv, Ticks, CronTypeOK
    <2>. QED BY <2>1, <2>2 DEF Inv, Ticks, cronVars
  <1>4. Counted' BY DEF Inv, Counted, Slack, Busy, Holding, cronVars
  <1>. QED BY <1>2, <1>3, <1>4 DEF Inv

\* Processes start and have their pids reused, ticks try, contenders contend.
LEMMA LockStepsInv ==
    ASSUME Inv, NEW p \in Procs,
           \/ (Start(p) \/ ReusePid(p) \/ Contend(p)) /\ UNCHANGED cronVars
           \/ Tick(p)
    PROVE  Inv'
  <1>. USE DEF Goto
  <1>1. LockTypeOK /\ CronTypeOK /\ LockInv BY TypeHalves DEF Inv
  <1>2. LockTypeOK' /\ LockInv' BY <1>1, WalksLock, DieLock, ContendLock DEF Tick
  <1>3. UNCHANGED cronVars BY DEF Tick
  <1>4. moved => moved'
    BY DEF Start, ReusePid, Tick, TryAcquire, Contend, Install, Stat, ReadPid, Reclaim, Restore, RemoveDirectory
  <1>5. PICK to : pc' = [pc EXCEPT ![p] = to] \/ pc' = pc
    BY DEF Start, ReusePid, Tick, TryAcquire, Contend, Install, Stat, ReadPid, Reclaim, Restore,
           RemoveDirectory, GiveUp
  <1>6. \A q \in Procs : q # p => pc'[q] = pc[q] BY <1>1, <1>5 DEF LockTypeOK
  <1>7. pc'[p] = pc[p] \/ pc[p] # "held"
    BY DEF Start, ReusePid, Tick, TryAcquire, Contend, Install, Stat, ReadPid, Reclaim, Restore, RemoveDirectory
  <1>8. p \in stopped => pc'[p] \in {"idle", "rmdir", "dead"}
    <2>. SUFFICES ASSUME p \in stopped PROVE pc'[p] \in {"idle", "rmdir", "dead"} OBVIOUS
    <2>1. pc[p] \in {"idle", "rmdir", "dead"} BY DEF Inv, Ticks
    <2>2. ~Tick(p) /\ ~Start(p) BY <2>1 DEF Tick, Start
    <2>3. ~Install(p) /\ ~Stat(p) /\ ~ReadPid(p) /\ ~Reclaim(p) /\ ~Restore(p)
      BY <2>1 DEF Install, Stat, ReadPid, Reclaim, Restore
    <2>. QED BY <1>1, <2>1, <2>2, <2>3 DEF ReusePid, Contend, RemoveDirectory, LockTypeOK
  <1>. QED BY <1>2, <1>3, <1>4, <1>6, <1>7, <1>8, LockStepInv

\* The ceiling passes.
LEMMA AgeInv == ASSUME Inv, Age, UNCHANGED cronVars PROVE Inv'
  <1>1. LockTypeOK' /\ LockInv' /\ CronTypeOK BY TypeHalves, AgeLock DEF Inv
  <1>2. pc' = pc /\ moved' = moved BY DEF Age
  <1>3. TypeOK' BY <1>1 DEF TypeOK, CronTypeOK, cronVars
  <1>4. Ticks' BY <1>2 DEF Inv, Ticks, cronVars
  <1>5. Counted' BY <1>2 DEF Inv, Counted, Slack, Busy, Holding, cronVars
  <1>. QED BY <1>1, <1>3, <1>4, <1>5 DEF Inv

\* A tick lists what is due.  No other tick is unstopped, so every start so
\* far is owed to a mishap.
LEMMA BeginTickInv == ASSUME Inv, NEW p \in Procs, BeginTick(p) PROVE Inv'
  <1>1. LockTypeOK /\ CronTypeOK /\ LockInv /\ Ticks /\ Counted BY TypeHalves DEF Inv
  <1>2. /\ pc[p] = "held" /\ p \notin ticking /\ ticking' = ticking \cup {p}
        /\ list' = [list EXCEPT ![p] = {j \in enabled : due[j]}]
        /\ UNCHANGED <<lockVars, enabled, due, dueCount, starts, job, forced, stopped, events>>
    BY DEF BeginTick
  <1>3. LockTypeOK' /\ LockInv' BY <1>1, <1>2, IdleLock
  <1>4. TypeOK' BY <1>1, <1>2, <1>3 DEF TypeOK, CronTypeOK
  <1>5. p \notin stopped BY <1>1, <1>2 DEF Ticks
  <1>6. Ticks' BY <1>1, <1>2 DEF Ticks, CronTypeOK, lockVars
  <1>7. Counted'
    <2>. SUFFICES ASSUME ~moved, NEW j \in Jobs
                  PROVE  (starts[j] + Cardinality(Holding(j)) <= events + Slack(j))'
      BY <1>1, <1>2 DEF Counted, lockVars
    <2>1. ~Busy(j)
      <3>1. \A q \in ticking \ stopped : q = p
        BY <1>1, <1>2, Exclusive DEF Ticks, CronTypeOK, ExclusiveUnlessMoved, MutualExclusion
      <3>. QED BY <1>2, <3>1 DEF Busy
    <2>2. starts[j] + Cardinality(Holding(j)) <= events BY <1>1, <2>1, CountTypes DEF Counted, Slack
    <2>3. starts[j] \in Nat /\ events \in Nat /\ Cardinality(Holding(j)) \in Nat BY CountTypes
    <2>4. CASE j \in list'[p]
      <3>1. Busy(j)' BY <1>2, <1>5, <2>4 DEF Busy
      <3>2. Holding(j)' = Holding(j) \cup {p} BY <1>1, <1>2, <2>4 DEF Holding, CronTypeOK
      <3>3. IsFiniteSet(Holding(j)) BY Countable DEF Holding
      <3>4. Cardinality(Holding(j)') <= Cardinality(Holding(j)) + 1
        <4>1. Cardinality(Holding(j) \cup {p}) \in {Cardinality(Holding(j)), Cardinality(Holding(j)) + 1}
          BY <3>3, FS_AddElement
        <4>. QED BY <2>3, <3>2, <4>1
      <3>5. Cardinality(Holding(j)') \in Nat
        <4>1. Holding(j)' \subseteq Procs BY DEF Holding
        <4>. QED BY <4>1, Countable
      <3>. QED BY <1>2, <2>2, <2>3, <3>1, <3>4, <3>5 DEF Slack
    <2>5. CASE j \notin list'[p]
      <3>1. Holding(j)' \subseteq Holding(j) BY <1>1, <1>2, <2>5 DEF Holding, CronTypeOK
      <3>2. IsFiniteSet(Holding(j)) BY Countable DEF Holding
      <3>3. Cardinality(Holding(j)') <= Cardinality(Holding(j)) BY <3>1, <3>2, FS_Subset
      <3>4. Cardinality(Holding(j)') \in Nat /\ Slack(j)' \in {0, 1}
        <4>1. Holding(j)' \subseteq Procs BY DEF Holding
        <4>. QED BY <4>1, Countable DEF Slack
      <3>. QED BY <1>2, <2>2, <2>3, <3>3, <3>4
    <2>. QED BY <2>4, <2>5
  <1>. QED BY <1>3, <1>4, <1>6, <1>7 DEF Inv

\* A start uses up a place in a list.
LEMMA RunJobInv == ASSUME Inv, NEW p \in Procs, RunJob(p) PROVE Inv'
  <1>1. LockTypeOK /\ CronTypeOK /\ LockInv /\ Ticks /\ Counted BY TypeHalves DEF Inv
  <1>2. /\ p \in ticking /\ job[p] = NoJob
        /\ UNCHANGED <<lockVars, enabled, due, dueCount, ticking, forced, stopped, events>>
    BY DEF RunJob
  <1>3. PICK k \in list[p] : /\ job' = [job EXCEPT ![p] = k]
                             /\ list' = [list EXCEPT ![p] = @ \ {k}]
                             /\ starts' = [starts EXCEPT ![k] = @ + 1]
    BY DEF RunJob
  <1>4. k \in Jobs BY <1>1, <1>3 DEF CronTypeOK
  <1>5. LockTypeOK' /\ LockInv' BY <1>1, <1>2, IdleLock
  <1>6. TypeOK' BY <1>1, <1>2, <1>3, <1>4, <1>5 DEF TypeOK, CronTypeOK
  <1>7. Ticks' BY <1>1, <1>2, <1>3 DEF Ticks, CronTypeOK, lockVars
  <1>8. Counted'
    <2>. SUFFICES ASSUME ~moved, NEW j \in Jobs
                  PROVE  (starts[j] + Cardinality(Holding(j)) <= events + Slack(j))'
      BY <1>1, <1>2 DEF Counted, lockVars
    <2>1. starts[j] + Cardinality(Holding(j)) <= events + Slack(j) BY <1>1 DEF Counted
    <2>2. starts[j] \in Nat /\ events \in Nat /\ Cardinality(Holding(j)) \in Nat BY CountTypes
    <2>3. NoJob # j BY NoJobAssumption
    <2>4. Slack(j)' = Slack(j)
      <3>1. \A q \in ticking : (j \in list'[q] \/ job'[q] = j) <=> (j \in list[q] \/ job[q] = j)
        BY <1>1, <1>2, <1>3, <2>3 DEF CronTypeOK
      <3>2. Busy(j)' <=> Busy(j) BY <1>2, <3>1 DEF Busy
      <3>. QED BY <3>2 DEF Slack
    <2>5. CASE j = k
      <3>1. Holding(j)' = Holding(j) \ {p} BY <1>1, <1>3, <2>5 DEF Holding, CronTypeOK
      <3>2. p \in Holding(j) /\ IsFiniteSet(Holding(j)) BY <1>3, <2>5, Countable DEF Holding
      <3>3. Cardinality(Holding(j)') = Cardinality(Holding(j)) - 1 BY <3>1, <3>2, FS_RemoveElement
      <3>4. starts'[j] = starts[j] + 1 BY <1>1, <1>3, <2>5 DEF CronTypeOK
      <3>. QED BY <1>2, <2>1, <2>2, <2>4, <3>3, <3>4
    <2>6. CASE j # k
      <3>1. Holding(j)' = Holding(j) BY <1>1, <1>3, <2>6 DEF Holding, CronTypeOK
      <3>2. starts'[j] = starts[j] BY <1>1, <1>3, <1>4, <2>6 DEF CronTypeOK
      <3>. QED BY <1>2, <2>1, <2>4, <3>1, <3>2
    <2>. QED BY <2>5, <2>6
  <1>. QED BY <1>5, <1>6, <1>7, <1>8 DEF Inv

\* The bound on the processes about to start a job holds after a step as well.
LEMMA HoldingBoundNext ==
    LockInv' /\ Ticks' /\ CronTypeOK' /\ ~moved' =>
      \A j \in Jobs : Cardinality(Holding(j)') <= Cardinality(stopped') + Slack(j)'
  <1>1. (LockInv /\ Ticks /\ CronTypeOK /\ ~moved =>
           \A j \in Jobs : Cardinality(Holding(j)) <= Cardinality(stopped) + Slack(j))'
    BY HoldingBound, PTL
  <1>. QED BY <1>1

\* A step that makes a new start, or ends an unstopped tick with work to do,
\* costs a mishap; a step that forgets the starts may do so at any time.
LEMMA CountStep ==
    ASSUME Inv, LockInv', Ticks', CronTypeOK', moved' = moved,
           Cardinality(stopped') <= events',
           \A j \in Jobs :
               \/ starts'[j] = 0
               \/ /\ Holding(j)' \subseteq Holding(j)
                  /\ starts'[j] + Slack(j) + events <= starts[j] + Slack(j)' + events'
    PROVE  Counted'
  <1>. SUFFICES ASSUME ~moved, NEW j \in Jobs
                PROVE  starts'[j] + Cardinality(Holding(j)') <= events' + Slack(j)'
    BY DEF Counted
  <1>1. /\ events' \in Nat /\ starts'[j] \in Nat /\ Slack(j)' \in {0, 1} /\ stopped' \subseteq Procs
        /\ Holding(j)' \subseteq Procs
    BY BoundsAssumption DEF CronTypeOK, Slack, Holding
  <1>2. Cardinality(stopped') \in Nat /\ Cardinality(Holding(j)') \in Nat BY <1>1, Countable
  <1>3. CASE starts'[j] = 0
    <2>1. Cardinality(Holding(j)') <= Cardinality(stopped') + Slack(j)' BY HoldingBoundNext
    <2>. QED BY <1>1, <1>2, <1>3, <2>1
  <1>4. CASE /\ Holding(j)' \subseteq Holding(j)
             /\ starts'[j] + Slack(j) + events <= starts[j] + Slack(j)' + events'
    <2>1. IsFiniteSet(Holding(j)) BY Countable DEF Holding
    <2>2. Cardinality(Holding(j)') <= Cardinality(Holding(j)) BY <1>4, <2>1, FS_Subset
    <2>3. starts[j] + Cardinality(Holding(j)) <= events + Slack(j) BY DEF Inv, Counted
    <2>4. /\ starts[j] \in Nat /\ events \in Nat /\ Cardinality(Holding(j)) \in Nat
          /\ Slack(j) \in {0, 1}
      BY CountTypes
    <2>. QED BY <1>1, <1>2, <1>4, <2>2, <2>3, <2>4
  <1>. QED BY <1>3, <1>4

\* The run of a job is recorded, or the job comes due: its starts are forgotten.
LEMMA ForgetInv ==
    ASSUME Inv, NEW k \in Jobs, NEW d \in BOOLEAN, UNCHANGED <<lockVars, enabled, ticking, list, stopped, events>>,
           due' = [due EXCEPT ![k] = d], starts' = [starts EXCEPT ![k] = 0],
           dueCount' \in [Jobs -> 0..MaxDue], forced' \in Jobs \cup {NoJob},
           job' = job \/ \E p \in Procs : job[p] = k /\ job' = [job EXCEPT ![p] = NoJob]
    PROVE  Inv'
  <1>1. LockTypeOK /\ CronTypeOK /\ LockInv /\ Ticks /\ Counted BY TypeHalves DEF Inv
  <1>2. LockTypeOK' /\ LockInv' /\ moved' = moved BY <1>1, IdleLock DEF lockVars
  <1>3. job' \in [Procs -> Jobs \cup {NoJob}] BY <1>1 DEF CronTypeOK
  <1>4. CronTypeOK' BY <1>1, <1>3 DEF CronTypeOK
  <1>5. \A p \in Procs : job'[p] = NoJob \/ job'[p] = job[p] BY <1>1 DEF CronTypeOK
  <1>6. Ticks' BY <1>1, <1>5 DEF Ticks, lockVars
  <1>7. ASSUME NEW j \in Jobs PROVE \/ starts'[j] = 0
                                    \/ /\ Holding(j)' \subseteq Holding(j)
                                       /\ starts'[j] + Slack(j) + events <= starts[j] + Slack(j)' + events'
    <2>1. CASE j = k BY <1>1, <2>1 DEF CronTypeOK
    <2>2. CASE j # k
      <3>1. \A p \in Procs : job'[p] = j <=> job[p] = j BY <1>1, <2>2, NoJobAssumption DEF CronTypeOK
      <3>2. Busy(j)' <=> Busy(j) BY <1>1, <3>1 DEF Busy, CronTypeOK
      <3>3. Slack(j)' = Slack(j) BY <3>2 DEF Slack
      <3>4. starts'[j] = starts[j] /\ Holding(j)' = Holding(j) BY <1>1, <2>2 DEF CronTypeOK, Holding
      <3>5. starts[j] \in Nat /\ events \in Nat /\ Slack(j) \in {0, 1} BY CountTypes
      <3>. QED BY <3>3, <3>4, <3>5
    <2>. QED BY <2>1, <2>2
  <1>8. Cardinality(stopped') <= events' BY <1>1 DEF Counted
  <1>9. Counted' BY <1>2, <1>4, <1>6, <1>7, <1>8, CountStep
  <1>. QED BY <1>2, <1>4, <1>6, <1>9, TypeHalves DEF Inv, TypeOK, CronTypeOK

\* A job is recorded by its tick or by the command line, or it comes due.
LEMMA ForgetsInv ==
    ASSUME Inv, (FinishForced /\ RecordJobRun(forced) /\ UNCHANGED events) \/ (\E p \in Procs : FinishJob(p)) \/ (\E j \in Jobs : ComeDue(j)) PROVE Inv'
  <1>1. CronTypeOK BY TypeHalves DEF Inv
  <1>2. CASE FinishForced /\ RecordJobRun(forced) /\ UNCHANGED events
    BY <1>1, <1>2, ForgetInv DEF FinishForced, RecordJobRun, CronTypeOK
  <1>3. ASSUME NEW p \in Procs, FinishJob(p) PROVE Inv'
    <2>1. job[p] \in Jobs /\ UNCHANGED dueCount /\ UNCHANGED forced BY <1>1, <1>3 DEF FinishJob, CronTypeOK
    <2>. QED BY <1>1, <1>3, <2>1, ForgetInv DEF FinishJob, RecordJobRun, CronTypeOK
  <1>4. ASSUME NEW j \in Jobs, ComeDue(j) PROVE Inv'
    <2>1. dueCount' \in [Jobs -> 0..MaxDue]
      <3>1. dueCount[j] \in 0..MaxDue /\ dueCount[j] < MaxDue /\ MaxDue \in Nat
        BY <1>1, <1>4, BoundsAssumption DEF ComeDue, CronTypeOK
      <3>2. dueCount[j] + 1 \in 0..MaxDue BY <3>1
      <3>. QED BY <1>1, <1>4, <3>2 DEF ComeDue, CronTypeOK
    <2>. QED BY <1>1, <1>4, <2>1, ForgetInv DEF ComeDue, CronTypeOK
  <1>. QED BY <1>2, <1>3, <1>4

\* A step that ends work, or a forced run: lists get no longer, and a lost
\* run or a further start is paid for.
LEMMA LoseInv ==
    ASSUME Inv, LockTypeOK', LockInv', CronTypeOK', Ticks', moved' = moved,
           \A q \in Procs : list'[q] \subseteq list[q],
           Cardinality(stopped') <= events',
           \A j \in Jobs : starts'[j] + Slack(j) + events <= starts[j] + Slack(j)' + events'
    PROVE  Inv'
  <1>1. \A j \in Jobs : Holding(j)' \subseteq Holding(j) BY DEF Holding
  <1>2. Counted' BY <1>1, CountStep
  <1>. QED BY <1>2 DEF Inv, TypeOK, CronTypeOK

\* A mishap is counted within its bound.
LEMMA MishapCounts == ASSUME Inv, Mishap PROVE events' \in 0..MaxEvents /\ events' = events + 1 /\ events \in Nat
  <1>1. events \in 0..MaxEvents /\ MaxEvents \in Nat BY BoundsAssumption DEF Inv, TypeOK
  <1>. QED BY <1>1 DEF Mishap

\* A mishap that starts nothing pays for one lost run of every job.
LEMMA MishapPays ==
    ASSUME Inv, Mishap, UNCHANGED starts
    PROVE  \A j \in Jobs : starts'[j] + Slack(j) + events <= starts[j] + Slack(j)' + events'
  <1>1. \A j \in Jobs : Slack(j)' \in {0, 1} BY DEF Slack
  <1>2. events' = events + 1 BY MishapCounts
  <1>. QED BY <1>1, <1>2, CountTypes

\* A record fails and the tick ends with the rest of its list.
LEMMA RecordFailsInv == ASSUME Inv, NEW p \in Procs, RecordFails(p) PROVE Inv'
  <1>1. LockTypeOK /\ CronTypeOK /\ LockInv /\ Ticks /\ Counted BY TypeHalves DEF Inv
  <1>2. /\ Mishap /\ job' = [job EXCEPT ![p] = NoJob] /\ list' = [list EXCEPT ![p] = {}]
        /\ UNCHANGED <<lockVars, enabled, due, dueCount, starts, ticking, forced, stopped>>
    BY DEF RecordFails
  <1>3. LockTypeOK' /\ LockInv' /\ moved' = moved BY <1>1, <1>2, IdleLock DEF lockVars
  <1>4. events' \in 0..MaxEvents /\ events' = events + 1 /\ events \in Nat BY <1>2, MishapCounts
  <1>5. CronTypeOK' BY <1>1, <1>2, <1>4 DEF CronTypeOK
  <1>6. Ticks' BY <1>1, <1>2 DEF Ticks, CronTypeOK, lockVars
  <1>7. \A q \in Procs : list'[q] \subseteq list[q] BY <1>1, <1>2 DEF CronTypeOK
  <1>8. Cardinality(stopped') <= events' BY <1>1, <1>2, <1>4, CountTypes DEF Counted
  <1>. QED BY <1>2, <1>3, <1>5, <1>6, <1>7, <1>8, MishapPays, LoseInv

\* A forced run ends, with its record or without.
LEMMA FinishForcedInv == ASSUME Inv, FinishForced PROVE Inv'
  <1>1. CASE RecordJobRun(forced) /\ UNCHANGED events BY <1>1, ForgetsInv
  <1>2. CASE Mishap /\ UNCHANGED <<due, starts>>
    <2>1. LockTypeOK /\ CronTypeOK /\ LockInv /\ Ticks /\ Counted BY TypeHalves DEF Inv
    <2>2. forced' = NoJob /\ UNCHANGED <<lockVars, enabled, dueCount, ticking, list, job, stopped>>
      BY DEF FinishForced
    <2>3. LockTypeOK' /\ LockInv' /\ moved' = moved BY <2>1, <2>2, IdleLock DEF lockVars
    <2>4. events' \in 0..MaxEvents /\ events' = events + 1 /\ events \in Nat BY <1>2, MishapCounts
    <2>5. CronTypeOK' BY <1>2, <2>1, <2>2, <2>4 DEF CronTypeOK
    <2>6. Ticks' BY <2>1, <2>2 DEF Ticks, lockVars
    <2>7. Cardinality(stopped') <= events' BY <2>1, <2>2, <2>4, CountTypes DEF Counted
    <2>8. \A q \in Procs : list'[q] \subseteq list[q] BY <2>2
    <2>. QED BY <1>2, <2>3, <2>5, <2>6, <2>7, <2>8, MishapPays, LoseInv
  <1>. QED BY <1>1, <1>2 DEF FinishForced

\* The process dies.
LEMMA CrashInv == ASSUME Inv, NEW p \in Procs, Crash(p) PROVE Inv'
  <1>1. LockTypeOK /\ CronTypeOK /\ LockInv /\ Ticks /\ Counted BY TypeHalves DEF Inv
  <1>2. /\ Mishap /\ Die(p) /\ ticking' = ticking \ {p} /\ job' = [job EXCEPT ![p] = NoJob]
        /\ list' = [list EXCEPT ![p] = {}]
        /\ UNCHANGED <<enabled, due, dueCount, starts, forced, stopped>>
    BY DEF Crash
  <1>3. LockTypeOK' /\ LockInv' BY <1>1, <1>2, DieLock
  <1>4. events' \in 0..MaxEvents /\ events' = events + 1 /\ events \in Nat BY <1>2, MishapCounts
  <1>5. CronTypeOK' BY <1>1, <1>2, <1>4 DEF CronTypeOK
  <1>6. moved' = moved /\ pc' = [pc EXCEPT ![p] = "dead"] BY <1>2 DEF Die, Goto
  <1>7. Ticks' BY <1>1, <1>2, <1>6 DEF Ticks, CronTypeOK, LockTypeOK
  <1>8. \A q \in Procs : list'[q] \subseteq list[q] BY <1>1, <1>2 DEF CronTypeOK
  <1>9. Cardinality(stopped') <= events' BY <1>1, <1>2, <1>4, CountTypes DEF Counted
  <1>. QED BY <1>2, <1>3, <1>5, <1>6, <1>7, <1>8, <1>9, MishapPays, LoseInv

\* The runner is stopped: a tick in flight gives its lock away and goes on.
LEMMA StopInv == ASSUME Inv, NEW p \in Procs, Stop(p) PROVE Inv'
  <1>1. LockTypeOK /\ CronTypeOK /\ LockInv /\ Ticks /\ Counted BY TypeHalves DEF Inv
  <1>2. /\ Mishap /\ p \notin stopped /\ (pc[p] = "idle" \/ p \in ticking) /\ stopped' = stopped \cup {p}
        /\ UNCHANGED <<enabled, due, dueCount, starts, ticking, list, job, forced>>
    BY DEF Stop
  <1>3. pc[p] = "held" => ReleaseLock(p) BY DEF Stop
  <1>4. pc[p] # "held" => UNCHANGED lockVars BY DEF Stop
  <1>5. LockTypeOK' /\ LockInv' BY <1>1, <1>3, <1>4, ReleaseLockLock, IdleLock
  <1>6. events' \in 0..MaxEvents /\ events' = events + 1 /\ events \in Nat BY <1>2, MishapCounts
  <1>7. CronTypeOK' BY <1>1, <1>2, <1>6 DEF CronTypeOK
  <1>8. moved' = moved BY <1>3, <1>4 DEF ReleaseLock, lockVars
  <1>9. /\ pc'[p] \in {"idle", "rmdir"} /\ \A q \in Procs : q # p => pc'[q] = pc[q]
    BY <1>1, <1>2, <1>3, <1>4 DEF ReleaseLock, Goto, lockVars, LockTypeOK, Ticks
  <1>10. Ticks' BY <1>1, <1>2, <1>9 DEF Ticks, CronTypeOK
  <1>11. \A q \in Procs : list'[q] \subseteq list[q] BY <1>2
  <1>12. Cardinality(stopped') <= events'
    <2>1. IsFiniteSet(stopped) BY <1>1, Countable DEF CronTypeOK
    <2>2. Cardinality(stopped \cup {p}) = Cardinality(stopped) + 1 BY <1>2, <2>1, FS_AddElement
    <2>. QED BY <1>1, <1>2, <1>6, <2>2, CountTypes DEF Counted
  <1>. QED BY <1>2, <1>5, <1>7, <1>8, <1>10, <1>11, <1>12, MishapPays, LoseInv

\* A tick ends with nothing left to do.
LEMMA EndTickInv == ASSUME Inv, NEW p \in Procs, EndTick(p) PROVE Inv'
  <1>1. LockTypeOK /\ CronTypeOK /\ LockInv /\ Ticks /\ Counted BY TypeHalves DEF Inv
  <1>2. /\ p \in ticking /\ Settled(p) /\ job[p] = NoJob /\ list[p] = {} /\ ticking' = ticking \ {p}
        /\ UNCHANGED <<enabled, due, dueCount, starts, list, job, forced, stopped, events>>
    BY DEF EndTick
  <1>3. pc[p] = "held" => ReleaseLock(p) BY DEF EndTick
  <1>4. pc[p] # "held" => UNCHANGED lockVars BY DEF EndTick
  <1>5. LockTypeOK' /\ LockInv' BY <1>1, <1>3, <1>4, ReleaseLockLock, IdleLock
  <1>6. CronTypeOK' BY <1>1, <1>2 DEF CronTypeOK
  <1>7. moved' = moved BY <1>3, <1>4 DEF ReleaseLock, lockVars
  <1>8. /\ pc'[p] \in {"idle", "rmdir"} /\ \A q \in Procs : q # p => pc'[q] = pc[q]
    BY <1>1, <1>2, <1>3, <1>4 DEF Settled, ReleaseLock, Goto, lockVars, LockTypeOK
  <1>9. Ticks' BY <1>1, <1>2, <1>8 DEF Ticks, CronTypeOK
  <1>10. \A j \in Jobs : Slack(j)' = Slack(j)
    <2>. SUFFICES ASSUME NEW j \in Jobs PROVE Busy(j)' <=> Busy(j) BY DEF Slack
    <2>. QED BY <1>2, NoJobAssumption DEF Busy
  <1>11. \A j \in Jobs : starts'[j] + Slack(j) + events <= starts[j] + Slack(j)' + events'
    BY <1>2, <1>10, CountTypes
  <1>12. Cardinality(stopped') <= events' BY <1>1, <1>2 DEF Counted
  <1>. QED BY <1>2, <1>5, <1>6, <1>7, <1>9, <1>11, <1>12, LoseInv

\* A forced run is a start that is paid for; pausing and resuming start nothing.
LEMMA ForceRunInv == ASSUME Inv, NEW k \in Jobs, ForceRun(k) \/ Toggle(k) PROVE Inv'
  <1>1. LockTypeOK /\ CronTypeOK /\ LockInv /\ Ticks /\ Counted BY TypeHalves DEF Inv
  <1>2. Mishap /\ UNCHANGED <<lockVars, due, dueCount, ticking, list, job, stopped>> BY DEF ForceRun, Toggle
  <1>3. LockTypeOK' /\ LockInv' /\ moved' = moved BY <1>1, <1>2, IdleLock DEF lockVars
  <1>4. events' \in 0..MaxEvents /\ events' = events + 1 /\ events \in Nat BY <1>2, MishapCounts
  <1>5. starts' \in [Jobs -> Nat] /\ \A j \in Jobs : starts'[j] \in {starts[j], starts[j] + 1}
    BY <1>1 DEF ForceRun, Toggle, CronTypeOK
  <1>6. CronTypeOK' BY <1>1, <1>2, <1>4, <1>5 DEF CronTypeOK, ForceRun, Toggle
  <1>7. Ticks' BY <1>1, <1>2 DEF Ticks, lockVars
  <1>8. \A j \in Jobs : Slack(j)' = Slack(j) BY <1>2 DEF Slack, Busy
  <1>9. \A j \in Jobs : starts'[j] + Slack(j) + events <= starts[j] + Slack(j)' + events'
    BY <1>4, <1>5, <1>8, CountTypes
  <1>10. Cardinality(stopped') <= events' BY <1>1, <1>2, <1>4, CountTypes DEF Counted
  <1>. QED BY <1>2, <1>3, <1>6, <1>7, <1>9, <1>10, LoseInv

-----------------------------------------------------------------------------
(* The theorems.                                                            *)

\* Nothing runs yet.
LEMMA InitInv == Init => Inv
  <1>. SUFFICES ASSUME Init PROVE Inv OBVIOUS
  <1>. USE DEF Init, LockInit
  <1>1. 0 \in 0..MaxDue /\ 0 \in 0..MaxEvents BY BoundsAssumption
  <1>2. NoLock \in Locks /\ NoLock.owner = NoProc /\ NoLock.stamp = 0 /\ NoLock.old = FALSE
    BY DEF NoLock, Locks
  <1>3. LockTypeOK
    <2>1. tries \in [Procs -> 0..2] /\ pc \in [Procs -> Phases] BY DEF Phases
    <2>2. snap \in [Procs -> Locks] /\ grave \in [Procs -> Locks] /\ dir \in Locks BY <1>2
    <2>. QED BY <2>1, <2>2 DEF LockTypeOK
  <1>4. CronTypeOK BY <1>1 DEF CronTypeOK
  <1>5. LockInv BY <1>2 DEF LockInv, Retries, Live, Orderly, Owners, Owned, Times, Holder, Dated, Judged
  <1>6. Ticks BY DEF Ticks
  <1>7. Counted
    <2>1. \A j \in Jobs : Holding(j) = {} BY DEF Holding
    <2>2. \A j \in Jobs : Slack(j) \in {0, 1} BY DEF Slack
    <2>3. Cardinality({}) = 0 BY FS_EmptySet
    <2>. QED BY <2>1, <2>2, <2>3 DEF Counted
  <1>. QED BY <1>3, <1>4, <1>5, <1>6, <1>7, TypeHalves DEF Inv

\* Every step keeps the invariant.
LEMMA NextInv == ASSUME Inv, [Next]_vars PROVE Inv'
  <1>1. ASSUME NEW p \in Procs, ((Start(p) \/ ReusePid(p)) /\ UNCHANGED cronVars) \/ Tick(p) PROVE Inv'
    BY <1>1, LockStepsInv
  <1>2. ASSUME NEW p \in Procs, Work(p) PROVE Inv'
    BY <1>2, LockStepsInv, BeginTickInv, RunJobInv, ForgetsInv, EndTickInv DEF Work
  <1>3. ASSUME NEW p \in Procs, RecordFails(p) \/ Stop(p) \/ Crash(p) PROVE Inv'
    BY <1>3, RecordFailsInv, StopInv, CrashInv
  <1>4. ASSUME NEW j \in Jobs, ForceRun(j) \/ ComeDue(j) \/ Toggle(j) PROVE Inv'
    BY <1>4, ForceRunInv, ForgetsInv
  <1>5. CASE FinishForced BY <1>5, FinishForcedInv
  <1>6. CASE Age /\ UNCHANGED cronVars BY <1>6, AgeInv
  <1>7. CASE UNCHANGED vars
    <2>1. LockTypeOK' /\ LockInv' /\ CronTypeOK BY <1>7, IdleLock, TypeHalves DEF Inv, vars
    <2>2. pc' = pc /\ moved' = moved /\ UNCHANGED cronVars BY <1>7 DEF vars, lockVars
    <2>3. TypeOK' BY <2>1, <2>2 DEF TypeOK, CronTypeOK, cronVars
    <2>4. Ticks' BY <2>2 DEF Inv, Ticks, cronVars
    <2>5. Counted' BY <2>2 DEF Inv, Counted, Slack, Busy, Holding, cronVars
    <2>. QED BY <2>1, <2>3, <2>4, <2>5 DEF Inv
  <1>. QED BY <1>1, <1>2, <1>3, <1>4, <1>5, <1>6, <1>7 DEF Next

\* The invariant holds in every reachable state.
LEMMA Invariance == Spec => []Inv
  BY InitInv, NextInv, PTL DEF Spec

\* However ticks begin, run, are stopped and end, a tick of the cron runner
\* that was not stopped is under a lock its process took and has not given
\* back, and a process that was stopped takes none (runner.ts).
THEOREM TicksSafeHolds == Spec => []TicksSafe
  <1>1. Inv => TicksSafe BY DEF Inv, Ticks, TicksSafe, TicksHold
  <1>. QED BY <1>1, Invariance, PTL

\* One step of the locks takes a directory from its holder only in the two
\* ways that are allowed.
LEMMA LossStep ==
    ASSUME Inv, [Next]_vars, NEW p \in Procs, Holds(p), pc'[p] = "held", ~Holds(p)'
    PROVE  \E q \in Procs \ {p} : MovesAnother(q) \/ ReleasesAnother(q)
  <1>. USE DEF Goto
  <1>1. LockTypeOK /\ LockInv BY TypeHalves DEF Inv
  <1>2. pc[p] = "held" /\ dir.owner = p /\ p # NoProc /\ dir' # dir BY NoProcAssumption DEF Holds
  <1>3. ASSUME NEW q \in Procs, Contend(q) PROVE q # p /\ MovesAnother(q)
    <2>1. q # p BY <1>2, <1>3 DEF Contend, Install, Stat, ReadPid, Reclaim, Restore, RemoveDirectory
    <2>2. Reclaim(q)
      BY <1>2, <1>3 DEF Contend, Install, Stat, ReadPid, Restore, RemoveDirectory
    <2>3. ~MatchesSnapshot(q) BY <1>1, <2>2, JudgedIsNobodys DEF Reclaim
    <2>4. pc[q] = "reclaim" /\ pc' = [pc EXCEPT ![q] = "restore"] BY <1>2, <2>2, <2>3 DEF Reclaim
    <2>. QED BY <1>1, <2>1, <2>4 DEF MovesAnother, LockTypeOK
  <1>4. ASSUME NEW q \in Procs, ReleaseLock(q) PROVE q # p /\ ReleasesAnother(q)
    <2>1. pc[q] = "held" /\ pc' = [pc EXCEPT ![q] = "rmdir"] BY <1>4 DEF ReleaseLock
    <2>2. pc'[q] = "rmdir" BY <1>1, <2>1 DEF LockTypeOK
    <2>. QED BY <1>2, <2>1, <2>2 DEF ReleasesAnother, Holds
  <1>5. ~UNCHANGED lockVars BY <1>2 DEF lockVars
  <1>6. PICK q \in Procs : Contend(q) \/ ReleaseLock(q)
    <2>1. \A q \in Procs : ~Start(q) /\ ~ReusePid(q) /\ ~TryAcquire(q) /\ ~Die(q)
      BY <1>2 DEF Start, ReusePid, TryAcquire, Die
    <2>2. ~Age BY <1>2 DEF Age
    <2>3. \A q \in Procs : /\ ~Tick(q) /\ ~BeginTick(q) /\ ~RunJob(q) /\ ~FinishJob(q)
                          /\ ~RecordFails(q) /\ ~Crash(q)
      BY <1>5, <2>1 DEF Tick, BeginTick, RunJob, FinishJob, RecordFails, Crash
    <2>4. \A j \in Jobs : ~ForceRun(j) /\ ~ComeDue(j) /\ ~Toggle(j) BY <1>5 DEF ForceRun, ComeDue, Toggle
    <2>5. ~FinishForced /\ ~UNCHANGED vars BY <1>5 DEF FinishForced, vars
    <2>6. PICK q \in Procs : Contend(q) \/ EndTick(q) \/ Stop(q)
      BY <2>1, <2>2, <2>3, <2>4, <2>5 DEF Next, Work
    <2>. QED BY <1>5, <2>6 DEF EndTick, Stop
  <1>. QED BY <1>3, <1>4, <1>6

\* Whatever the interleaving of installing, judging, moving away, restoring,
\* releasing and dying, a holder's lock directory (lockUtil.ts) is lost only
\* to a contender that moved away a lock it did not judge, or to the release
\* of a process that had lost its own.
THEOREM LocksStayHolds == Spec => LocksStay
  <1>1. Inv /\ [Next]_vars =>
          [\A p \in Procs : Holds(p) /\ pc'[p] = "held" /\ ~Holds(p)' =>
              \E q \in Procs \ {p} : MovesAnother(q) \/ ReleasesAnother(q)]_lockVars
    BY LossStep
  <1>. QED BY <1>1, Invariance, PTL DEF Spec, LocksStay

\* However many processes tick, a job is started once each time it comes due;
\* every further start of it is owed to a crash, a stop, a failed record or a
\* forced run.
THEOREM OncePerDueHolds == Spec => []OncePerDue
  <1>1. Inv => OncePerDue
    <2>. SUFFICES ASSUME Inv, ~moved, NEW j \in Jobs PROVE starts[j] <= 1 + events BY DEF OncePerDue
    <2>1. starts[j] + Cardinality(Holding(j)) <= events + Slack(j) BY DEF Inv, Counted
    <2>. QED BY <2>1, CountTypes
  <1>. QED BY <1>1, Invariance, PTL
=============================================================================
