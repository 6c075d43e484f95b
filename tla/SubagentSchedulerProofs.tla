---------------------- MODULE SubagentSchedulerProofs -----------------------
(***************************************************************************)
(* Proofs about the sub-agent scheduler, for every finite tree of          *)
(* delegations, every scope, cap and limit.  The path lock, the lanes and  *)
(* the reservations each have an invariant of their own; Place ties them   *)
(* to the program counters of the calls.  The banners and the order of the *)
(* waiters are two further invariants on top of these.                     *)
(***************************************************************************)
EXTENDS SubagentScheduler, FiniteSetTheorems, TLAPS

\* Any two waiters of the path lock are ordered.
Ordered == \A c, d \in waiters : c # d => c \in ahead[d] \/ d \in ahead[c]

\* The path lock by itself.
LockInv ==
    /\ Lock!LockTypes
    /\ held \intersect waiters = {}
    /\ Ordered
    /\ \A c, d \in held : c # d => ~Lock!Clash(c, d)
    /\ \A c \in waiters : \E h \in held : Lock!Clash(h, c)

\* Overlap is symmetric.
LEMMA ClashSymmetric == ASSUME NEW c, NEW d, Lock!Clash(c, d) PROVE Lock!Clash(d, c)
  BY DEF Lock!Clash, Lock!ScopesOverlap, Lock!PrefixesTouch

\* acquire keeps the lock's invariant.
LEMMA AcquireLockInv == ASSUME LockInv, NEW c \in Children, Lock!AcquireLock(c) PROVE LockInv'
  BY ClashSymmetric DEF LockInv, Lock!LockTypes, Lock!AcquireLock, Lock!OverlapsHeld, Ordered

\* abort handlers keep it.
LEMMA AbortLockInv == ASSUME LockInv, NEW S, Lock!AbortLock(S) PROVE LockInv'
  BY DEF LockInv, Lock!LockTypes, Lock!AbortLock, Lock!Leave, Ordered

\* a release with its drain keeps it.
LEMMA ReleaseLockInv == ASSUME LockInv, NEW c \in Children, Lock!ReleaseLock(c) PROVE LockInv'
  BY ClashSymmetric DEF LockInv, Lock!LockTypes, Lock!ReleaseLock, Lock!Drained, Lock!Leave, Ordered

-----------------------------------------------------------------------------

Users(l) == {c \in inLane : LaneOf[c] = l}

\* The lanes by themselves.
LaneInv ==
    /\ Lane!LaneTypes
    /\ inLane \intersect queued = {}
    /\ \A c \in queued : Cap[LaneOf[c]] # Unbounded /\ available[LaneOf[c]] = 0
    /\ \A l \in Lanes : Cap[l] # Unbounded => available[l] + Cardinality(Users(l)) = Cap[l]

\* Adding and removing one caller.
LEMMA Count ==
    ASSUME NEW S \in SUBSET Children, NEW c \in Children
    PROVE  /\ IsFiniteSet(S) /\ Cardinality(S) \in Nat
           /\ c \notin S => Cardinality(S \union {c}) = Cardinality(S) + 1
           /\ c \in S => Cardinality(S \ {c}) = Cardinality(S) - 1
  <1>1. IsFiniteSet(S) BY FiniteAssumption, FS_Subset
  <1>. QED BY <1>1, FS_CardinalityType, FS_AddElement, FS_RemoveElement

\* acquire keeps the lanes' invariant.
LEMMA AcquireLaneInv == ASSUME LaneInv, NEW c \in Children, Lane!AcquireLane(c) PROVE LaneInv'
  <1>1. LaneOf[c] \in Lanes /\ Cap \in [Lanes -> Nat \union {Unbounded}] /\ LaneOf \in [Children -> Lanes]
    BY SchedulerAssumption
  <1>2. Lane!LaneTypes'
    BY <1>1 DEF LaneInv, Lane!LaneTypes, Lane!AcquireLane, Lane!Queue
  <1>3. (inLane \intersect queued = {})'
    BY DEF LaneInv, Lane!AcquireLane
  <1>4. \A d \in queued' : Cap[LaneOf[d]] # Unbounded /\ available'[LaneOf[d]] = 0
    BY <1>1 DEF LaneInv, Lane!LaneTypes, Lane!AcquireLane, Lane!Capped
  <1>5. ASSUME NEW l \in Lanes, Cap[l] # Unbounded
        PROVE  available'[l] + Cardinality(Users(l)') = Cap[l]
    <2>1. available[l] + Cardinality(Users(l)) = Cap[l] /\ available[l] \in Nat
      BY <1>5 DEF LaneInv, Lane!LaneTypes
    <2>2. Users(l) \in SUBSET Children /\ c \notin Users(l)
      BY DEF LaneInv, Lane!LaneTypes, Lane!AcquireLane, Users
    <2>3. CASE l = LaneOf[c] /\ c \in inLane'
      <3>1. Users(l)' = Users(l) \union {c} BY <2>3 DEF Users, Lane!AcquireLane
      <3>2. available'[l] = available[l] - 1
        BY <1>5, <2>3 DEF Lane!AcquireLane, Lane!Capped, LaneInv, Lane!LaneTypes
      <3>. QED BY <2>1, <2>2, <3>1, <3>2, Count
    <2>4. CASE ~(l = LaneOf[c] /\ c \in inLane')
      <3>1. Users(l)' = Users(l) BY <2>4 DEF Users, Lane!AcquireLane
      <3>2. available'[l] = available[l]
        BY <1>5, <2>4 DEF Lane!AcquireLane, Lane!Capped, LaneInv, Lane!LaneTypes
      <3>. QED BY <2>1, <3>1, <3>2
    <2>. QED BY <2>3, <2>4
  <1>. QED BY <1>2, <1>3, <1>4, <1>5 DEF LaneInv

\* abort handlers keep it.
LEMMA AbortLaneInv == ASSUME LaneInv, NEW S, Lane!AbortLane(S) PROVE LaneInv'
  BY DEF LaneInv, Lane!LaneTypes, Lane!AbortLane, Lane!Dequeue, Users

\* a release with its handover keeps it.
LEMMA ReleaseLaneInv == ASSUME LaneInv, NEW c \in Children, Lane!ReleaseLane(c) PROVE LaneInv'
  <1>1. LaneOf[c] \in Lanes /\ Cap \in [Lanes -> Nat \union {Unbounded}] /\ LaneOf \in [Children -> Lanes]
    BY SchedulerAssumption
  <1>2. c \in inLane BY DEF Lane!ReleaseLane
  <1>3. CASE \E n \in Lane!Queue(LaneOf[c]) :
                /\ inLane' = (inLane \ {c}) \union {n} /\ Lane!Dequeue({n}) /\ UNCHANGED available
    <2>1. PICK n \in Lane!Queue(LaneOf[c]) :
                inLane' = (inLane \ {c}) \union {n} /\ Lane!Dequeue({n}) /\ UNCHANGED available
      BY <1>3
    <2>2. n \in queued /\ n \in Children /\ LaneOf[n] = LaneOf[c] /\ n \notin inLane
      BY <2>1 DEF Lane!Queue, LaneInv, Lane!LaneTypes
    <2>3. Lane!LaneTypes' /\ (inLane \intersect queued = {})'
      BY <2>1, <2>2 DEF LaneInv, Lane!LaneTypes, Lane!Dequeue
    <2>4. \A d \in queued' : Cap[LaneOf[d]] # Unbounded /\ available'[LaneOf[d]] = 0
      BY <2>1 DEF LaneInv, Lane!Dequeue
    <2>5. ASSUME NEW l \in Lanes, Cap[l] # Unbounded
          PROVE  available'[l] + Cardinality(Users(l)') = Cap[l]
      <3>1. available'[l] + Cardinality(Users(l)) = Cap[l] BY <2>1, <2>5 DEF LaneInv
      <3>2. Users(l) \in SUBSET Children BY DEF LaneInv, Lane!LaneTypes, Users
      <3>3. CASE l = LaneOf[c]
        <4>1. Users(l)' = (Users(l) \ {c}) \union {n} BY <2>1, <2>2, <3>3 DEF Users
        <4>2. c \in Users(l) /\ n \notin Users(l) \ {c} BY <1>2, <2>2, <3>3 DEF Users
        <4>3. Cardinality(Users(l) \ {c}) = Cardinality(Users(l)) - 1 /\ Cardinality(Users(l)) \in Nat
          BY <3>2, <4>2, Count
        <4>4. Cardinality((Users(l) \ {c}) \union {n}) = Cardinality(Users(l) \ {c}) + 1
          BY <2>2, <3>2, <4>2, Count
        <4>. QED BY <3>1, <4>1, <4>3, <4>4
      <3>4. CASE l # LaneOf[c]
        <4>1. Users(l)' = Users(l) BY <2>1, <2>2, <3>4 DEF Users
        <4>. QED BY <3>1, <4>1
      <3>. QED BY <3>3, <3>4
    <2>. QED BY <2>3, <2>4, <2>5 DEF LaneInv
  <1>4. CASE /\ Lane!Queue(LaneOf[c]) = {} /\ inLane' = inLane \ {c} /\ UNCHANGED <<queued, inFront>>
             /\ available' = IF Lane!Capped(LaneOf[c]) THEN [available EXCEPT ![LaneOf[c]] = @ + 1] ELSE available
    <2>1. Lane!LaneTypes' /\ (inLane \intersect queued = {})'
      BY <1>1, <1>4 DEF LaneInv, Lane!LaneTypes
    <2>2. \A d \in queued' : Cap[LaneOf[d]] # Unbounded /\ available'[LaneOf[d]] = 0
      BY <1>1, <1>4 DEF LaneInv, Lane!LaneTypes, Lane!Queue
    <2>3. ASSUME NEW l \in Lanes, Cap[l] # Unbounded
          PROVE  available'[l] + Cardinality(Users(l)') = Cap[l]
      <3>1. available[l] + Cardinality(Users(l)) = Cap[l] /\ available[l] \in Nat
        BY <2>3 DEF LaneInv, Lane!LaneTypes
      <3>2. Users(l) \in SUBSET Children BY DEF LaneInv, Lane!LaneTypes, Users
      <3>3. CASE l = LaneOf[c]
        <4>1. Users(l)' = Users(l) \ {c} /\ c \in Users(l) BY <1>2, <1>4, <3>3 DEF Users
        <4>2. available'[l] = available[l] + 1
          BY <1>1, <1>4, <2>3, <3>3 DEF Lane!Capped, LaneInv, Lane!LaneTypes
        <4>3. Cardinality(Users(l) \ {c}) = Cardinality(Users(l)) - 1 /\ Cardinality(Users(l)) \in Nat
          BY <3>2, <4>1, Count
        <4>. QED BY <3>1, <4>1, <4>2, <4>3
      <3>4. CASE l # LaneOf[c]
        <4>1. Users(l)' = Users(l) BY <1>4, <3>4 DEF Users
        <4>2. available'[l] = available[l] BY <1>1, <1>4, <3>4 DEF LaneInv, Lane!LaneTypes
        <4>. QED BY <3>1, <4>1, <4>2
      <3>. QED BY <3>3, <3>4
    <2>. QED BY <2>1, <2>2, <2>3 DEF LaneInv
  <1>. QED BY <1>3, <1>4 DEF Lane!ReleaseLane

-----------------------------------------------------------------------------

Ctl ==
    /\ pc \in [Children -> PCs]
    /\ aborted \in SUBSET Children
    /\ totalChildren \in Nat /\ totalChildren <= MaxTotal
    /\ started \in SUBSET Children /\ completed \in SUBSET Children
    /\ active \in Children \union {Nobody}
    /\ atomOpen \in SUBSET Children
    /\ plans \in SUBSET Children /\ displaced \in SUBSET Children

\* Where a call can stand while it is in the lanes or in the path lock.
Place == \A c \in Children :
    /\ c \in inLane => pc[c] \notin {"idle", "done"}
    /\ c \in queued => pc[c] = "lane"
    /\ c \in held => pc[c] \in {"lock", "preparing", "running", "closing"}
    /\ c \in waiters => pc[c] = "lock"
    /\ Working(c) => c \in held

LiveOf(p) == {c \in Live : Parent[c] = p}

\* The reservations are the live calls.
Counted ==
    /\ childCounts \in [Children \union {Root} -> Int]
    /\ \A p \in Children \union {Root} :
        childCounts[p] = Cardinality(LiveOf(p)) /\ childCounts[p] <= MaxChildren
    /\ activeChildren = Cardinality(Live) /\ activeChildren <= MaxActive

Inv == Ctl /\ LockInv /\ LaneInv /\ Place /\ Counted

\* The reservations when the set of live calls stays, grows by c or loses c.
LEMMA CountedSame ==
    ASSUME Counted, Live' = Live, UNCHANGED <<childCounts, activeChildren>> PROVE Counted'
  BY DEF Counted, LiveOf

\* One more live call, within the cap.
LEMMA CountedMore ==
    ASSUME Counted, NEW c \in Children, c \notin Live, Live' = Live \union {c}, CapOpen(c), TreeAdmits,
           childCounts' = [childCounts EXCEPT ![Parent[c]] = @ + 1],
           activeChildren' = activeChildren + 1
    PROVE  Counted'
  <1>1. Parent[c] \in Children \union {Root} /\ MaxChildren \in Nat BY SchedulerAssumption
  <1>2. Live \in SUBSET Children BY DEF Live
  <1>3. activeChildren' = Cardinality(Live') /\ activeChildren' <= MaxActive
    BY <1>2, Count DEF Counted, TreeAdmits
  <1>4. childCounts' \in [Children \union {Root} -> Int] BY <1>1 DEF Counted
  <1>5. ASSUME NEW p \in Children \union {Root}
        PROVE  childCounts'[p] = Cardinality(LiveOf(p)') /\ childCounts'[p] <= MaxChildren
    <2>1. LiveOf(p) \in SUBSET Children /\ c \notin LiveOf(p) BY <1>2 DEF LiveOf
    <2>2. CASE p = Parent[c]
      <3>1. LiveOf(p)' = LiveOf(p) \union {c} BY <2>2 DEF LiveOf
      <3>2. childCounts'[p] = childCounts[p] + 1 BY <2>2 DEF Counted
      <3>3. Cardinality(LiveOf(p) \union {c}) = Cardinality(LiveOf(p)) + 1 /\ Cardinality(LiveOf(p)) \in Nat
        BY <2>1, Count
      <3>. QED BY <1>1, <2>2, <3>1, <3>2, <3>3 DEF Counted, CapOpen
    <2>3. CASE p # Parent[c]
      <3>1. LiveOf(p)' = LiveOf(p) BY <2>3 DEF LiveOf
      <3>. QED BY <2>3, <3>1 DEF Counted
    <2>. QED BY <2>2, <2>3
  <1>. QED BY <1>3, <1>4, <1>5 DEF Counted

\* One live call less.
LEMMA CountedLess ==
    ASSUME Counted, NEW c \in Children, c \in Live, Live' = Live \ {c},
           childCounts' = [childCounts EXCEPT ![Parent[c]] = @ - 1],
           activeChildren' = activeChildren - 1
    PROVE  Counted'
  <1>1. Parent[c] \in Children \union {Root} /\ MaxChildren \in Nat BY SchedulerAssumption
  <1>2. Live \in SUBSET Children BY DEF Live
  <1>3. activeChildren' = Cardinality(Live') /\ activeChildren' <= MaxActive
    <2>1. Cardinality(Live) \in Nat /\ MaxActive \in Nat BY <1>2, Count, SchedulerAssumption
    <2>. QED BY <1>2, <2>1, Count DEF Counted
  <1>4. childCounts' \in [Children \union {Root} -> Int] BY <1>1 DEF Counted
  <1>5. ASSUME NEW p \in Children \union {Root}
        PROVE  childCounts'[p] = Cardinality(LiveOf(p)') /\ childCounts'[p] <= MaxChildren
    <2>1. LiveOf(p) \in SUBSET Children BY <1>2 DEF LiveOf
    <2>2. CASE p = Parent[c]
      <3>1. LiveOf(p)' = LiveOf(p) \ {c} /\ c \in LiveOf(p) BY <2>2 DEF LiveOf
      <3>2. childCounts'[p] = childCounts[p] - 1 BY <2>2 DEF Counted
      <3>3. Cardinality(LiveOf(p) \ {c}) = Cardinality(LiveOf(p)) - 1 /\ Cardinality(LiveOf(p)) \in Nat
        BY <2>1, <3>1, Count
      <3>. QED BY <1>1, <3>1, <3>2, <3>3 DEF Counted
    <2>3. CASE p # Parent[c]
      <3>1. LiveOf(p)' = LiveOf(p) BY <2>3 DEF LiveOf
      <3>. QED BY <2>3, <3>1 DEF Counted
    <2>. QED BY <2>2, <2>3
  <1>. QED BY <1>3, <1>4, <1>5 DEF Counted

\* The banner events keep their types.
LEMMA BannerTypes ==
    ASSUME Ctl, NEW c \in Children, BannerStarts(c) \/ BannerCompletes(c)
    PROVE  /\ active' \in Children \union {Nobody} /\ atomOpen' \in SUBSET Children /\ plans' \in SUBSET Children
           /\ displaced' \in SUBSET Children
  BY DEF Ctl, BannerStarts, BannerCompletes, banner

\* The finally block, from any place where the call is in no queue.
LEMMA FinallyInv ==
    ASSUME Inv, NEW c \in Children, c \in Live, c \notin queued, c \notin waiters, Finally(c),
           UNCHANGED events, UNCHANGED aborted
    PROVE  Inv'
  <1>1. pc' = [pc EXCEPT ![c] = "done"] /\ totalChildren' = totalChildren
    BY DEF Finally, Goto
  <1>2. Live' = Live \ {c} BY <1>1 DEF Live, Inv, Ctl
  <1>3. Ctl' BY <1>1 DEF Inv, Ctl, PCs, events, banner
  <1>4. LockInv'
    BY ReleaseLockInv DEF Finally, lock, Inv, LockInv, Lock!LockTypes, Ordered
  <1>5. LaneInv'
    BY ReleaseLaneInv DEF Finally, lane, Inv, LaneInv, Lane!LaneTypes, Users
  <1>6. Counted' BY <1>2, CountedLess DEF Finally, Inv
  <1>7. Place'
    <2>1. c \notin held' /\ held' \subseteq held \union waiters /\ waiters' \subseteq waiters
      BY DEF Finally, lock, Lock!ReleaseLock, Lock!Leave, Inv, LockInv, Lock!LockTypes
    <2>2. c \notin inLane' /\ inLane' \subseteq inLane \union queued /\ queued' \subseteq queued
      BY DEF Finally, lane, Lane!ReleaseLane, Lane!Dequeue, Lane!Queue, Inv, LaneInv, Lane!LaneTypes
    <2>3. held \ {c} \subseteq held'
      BY DEF Finally, lock, Lock!ReleaseLock
    <2>. QED BY <1>1, <2>1, <2>2, <2>3 DEF Inv, Place, Ctl, Working
  <1>. QED BY <1>3, <1>4, <1>5, <1>6, <1>7 DEF Inv

\* createChildSession, for a writer that holds its scope or a reader.
LEMMA StartInv ==
    ASSUME Inv, NEW c \in Children, c \in Live, c \notin queued, c \notin waiters, Start(c),
           c \in Writing => c \in held, UNCHANGED aborted
    PROVE  Inv'
  <1>1. CASE Faults /\ Finally(c) /\ UNCHANGED events BY <1>1, FinallyInv
  <1>2. CASE /\ Goto(c, "preparing") /\ started' = started \union {c} /\ BannerStarts(c)
             /\ UNCHANGED <<completed, childCounts, tree, lane, lock>>
    <2>1. pc' = [pc EXCEPT ![c] = "preparing"] BY <1>2 DEF Goto
    <2>2. Live' = Live BY <2>1 DEF Live, Inv, Ctl
    <2>3. Ctl' BY <1>2, <2>1, BannerTypes DEF Inv, Ctl, PCs, tree
    <2>4. LockInv' BY <1>2 DEF lock, Inv, LockInv, Lock!LockTypes, Ordered
    <2>5. LaneInv' BY <1>2 DEF lane, Inv, LaneInv, Lane!LaneTypes, Users
    <2>6. Counted' BY <1>2, <2>2, CountedSame DEF Inv, tree
    <2>7. Place' BY <1>2, <2>1 DEF Inv, Place, Ctl, Working, lane, lock
    <2>. QED BY <2>3, <2>4, <2>5, <2>6, <2>7 DEF Inv
  <1>. QED BY <1>1, <1>2 DEF Start

\* The invariant survives Delegate.
LEMMA DelegateInv == ASSUME Inv, NEW c \in Children, Delegate(c) PROVE Inv'
  <1>1. pc[c] = "idle" /\ UNCHANGED <<aborted, lock, events>> BY DEF Delegate, At
  <1>2. LockInv' BY <1>1 DEF lock, Inv, LockInv, Lock!LockTypes, Ordered
  <1>3. CASE /\ Goto(c, "done") /\ UNCHANGED <<childCounts, activeChildren, lane>>
             /\ totalChildren' \in Nat /\ totalChildren' <= MaxTotal
    <2>1. Live' = Live BY <1>1, <1>3 DEF Live, Goto, Inv, Ctl
    <2>2. Ctl' BY <1>1, <1>3 DEF Inv, Ctl, PCs, Goto, events, banner
    <2>3. LaneInv' BY <1>3 DEF lane, Inv, LaneInv, Lane!LaneTypes, Users
    <2>4. Counted' BY <1>3, <2>1, CountedSame DEF Inv
    <2>5. Place' BY <1>1, <1>3 DEF Inv, Place, Ctl, Working, Goto, lane, lock
    <2>. QED BY <1>2, <2>2, <2>3, <2>4, <2>5 DEF Inv
  <1>4. CASE /\ CapOpen(c) /\ TreeAdmits /\ Goto(c, "lane") /\ Lane!AcquireLane(c)
             /\ childCounts' = [childCounts EXCEPT ![Parent[c]] = @ + 1]
             /\ activeChildren' = activeChildren + 1 /\ totalChildren' = totalChildren + 1
    <2>1. Live' = Live \union {c} /\ c \notin Live BY <1>1, <1>4 DEF Live, Goto, Inv, Ctl
    <2>2. Ctl' BY <1>1, <1>4 DEF Inv, Ctl, PCs, Goto, events, banner, TreeAdmits
    <2>3. LaneInv' BY <1>4, AcquireLaneInv DEF Inv
    <2>4. Counted' BY <1>4, <2>1, CountedMore DEF Inv
    <2>5. inLane' \subseteq inLane \union {c} /\ queued' \subseteq queued \union {c}
      BY <1>4 DEF Lane!AcquireLane
    <2>6. Place' BY <1>1, <1>4, <2>5 DEF Inv, Place, Ctl, Working, Goto, lock
    <2>. QED BY <1>2, <2>2, <2>3, <2>4, <2>6 DEF Inv
  <1>. QED BY <1>3, <1>4 DEF Delegate, TreeAdmits, tree, Inv, Ctl

\* The invariant survives LaneGranted.
LEMMA LaneGrantedInv == ASSUME Inv, NEW c \in Children, LaneGranted(c) PROVE Inv'
  <1>1. pc[c] = "lane" /\ c \in inLane /\ UNCHANGED aborted BY DEF LaneGranted, At
  <1>2. c \in Live /\ c \notin queued /\ c \notin waiters BY <1>1 DEF Live, Inv, LaneInv, Place
  <1>3. CASE Finally(c) /\ UNCHANGED events BY <1>1, <1>2, <1>3, FinallyInv
  <1>4. CASE c \notin Writing /\ Start(c) BY <1>1, <1>2, <1>4, StartInv
  <1>5. CASE /\ c \in Writing /\ Goto(c, "lock") /\ Lock!AcquireLock(c)
             /\ UNCHANGED <<childCounts, tree, lane, events>>
    <2>1. Live' = Live BY <1>1, <1>5 DEF Live, Goto, Inv, Ctl
    <2>2. Ctl' BY <1>1, <1>5 DEF Inv, Ctl, PCs, Goto, events, banner, tree
    <2>3. LockInv' BY <1>5, AcquireLockInv DEF Inv
    <2>4. LaneInv' BY <1>5 DEF lane, Inv, LaneInv, Lane!LaneTypes, Users
    <2>5. Counted' BY <1>5, <2>1, CountedSame DEF Inv, tree
    <2>6. held' \subseteq held \union {c} /\ waiters' \subseteq waiters \union {c} /\ held \subseteq held'
      BY <1>5 DEF Lock!AcquireLock
    <2>7. Place' BY <1>1, <1>2, <1>5, <2>6 DEF Inv, Place, Ctl, Working, Goto, lane
    <2>. QED BY <2>2, <2>3, <2>4, <2>5, <2>7 DEF Inv
  <1>. QED BY <1>3, <1>4, <1>5 DEF LaneGranted

\* The invariant survives LockGranted.
LEMMA LockGrantedInv == ASSUME Inv, NEW c \in Children, LockGranted(c) PROVE Inv'
  <1>1. pc[c] = "lock" /\ c \in held /\ UNCHANGED aborted BY DEF LockGranted, At
  <1>2. c \in Live /\ c \notin queued /\ c \notin waiters BY <1>1 DEF Live, Inv, LockInv, Place
  <1>. QED BY <1>1, <1>2, FinallyInv, StartInv DEF LockGranted

\* A step between the acquires and the finally block that only moves pc and events.
LEMMA MoveInv ==
    ASSUME Inv, NEW c \in Children, NEW p \in {"running", "closing"},
           pc[c] \in {"preparing", "running"}, Goto(c, p), Ctl',
           UNCHANGED <<childCounts, tree, lane, lock>>
    PROVE  Inv'
  <1>1. Live' = Live BY DEF Live, Goto, Inv, Ctl
  <1>2. LockInv' BY DEF lock, Inv, LockInv, Lock!LockTypes, Ordered
  <1>3. LaneInv' BY DEF lane, Inv, LaneInv, Lane!LaneTypes, Users
  <1>4. Counted' BY <1>1, CountedSame DEF Inv, tree
  <1>5. Place' BY DEF Inv, Place, Ctl, Working, Goto, lane, lock
  <1>. QED BY <1>2, <1>3, <1>4, <1>5 DEF Inv

\* The invariant survives Prepared and RunEnds.
LEMMA RunInv == ASSUME Inv, NEW c \in Children, Prepared(c) \/ RunEnds(c) PROVE Inv'
  <1>1. Ctl' BY BannerTypes DEF Prepared, RunEnds, Inv, Ctl, Goto, PCs, events, banner, tree
  <1>. QED BY <1>1, MoveInv DEF Prepared, RunEnds, At

\* The invariant survives Close.
LEMMA CloseInv == ASSUME Inv, NEW c \in Children, Close(c) PROVE Inv'
  <1>1. pc[c] = "closing" /\ Finally(c) /\ UNCHANGED <<aborted, events>> BY DEF Close, At
  <1>2. c \in Live /\ c \notin queued /\ c \notin waiters BY <1>1 DEF Live, Inv, Place
  <1>. QED BY <1>1, <1>2, FinallyInv

\* The invariant survives Abort.
LEMMA AbortInv == ASSUME Inv, NEW c \in Children, Abort(c) PROVE Inv'
  <1>. DEFINE S == Below[c]
  <1>1. S \subseteq Children BY DEF Below
  <1>. HIDE DEF S
  <1>2. /\ aborted' = aborted \union S
        /\ pc' = [d \in Children |-> IF d \in S \intersect (queued \union waiters) THEN "closing" ELSE pc[d]]
        /\ Lane!AbortLane(S \intersect queued) /\ Lock!AbortLock(S \intersect waiters)
        /\ UNCHANGED <<childCounts, tree, events>>
    BY DEF Abort, S
  <1>3. Live' = Live BY <1>2 DEF Live, Inv, Ctl, Place
  <1>4. Ctl' BY <1>1, <1>2 DEF Inv, Ctl, PCs, events, banner, tree
  <1>5. LockInv' BY <1>2, AbortLockInv DEF Inv
  <1>6. LaneInv' BY <1>2, AbortLaneInv DEF Inv
  <1>7. Counted' BY <1>2, <1>3, CountedSame DEF Inv, tree
  <1>8. /\ inLane' = inLane /\ queued' = queued \ S
        /\ held' = held /\ waiters' = waiters \ S
    BY <1>2 DEF Lane!AbortLane, Lane!Dequeue, Lock!AbortLock, Lock!Leave
  <1>9. Place' BY <1>2, <1>8 DEF Inv, Ctl, Place, Working, LockInv, LaneInv
  <1>. QED BY <1>4, <1>5, <1>6, <1>7, <1>9 DEF Inv

\* The initial state satisfies the invariant.
LEMMA InitInv == ASSUME Init PROVE Inv
  <1>1. Live = {} /\ \A p \in Children \union {Root} : LiveOf(p) = {} BY DEF Init, Live, LiveOf
  <1>2. \A l \in Lanes : Users(l) = {} BY DEF Init, Lane!LaneInit, Users
  <1>3. Ctl BY SchedulerAssumption DEF Init, Ctl, PCs
  <1>4. LockInv BY DEF Init, Lock!LockInit, LockInv, Lock!LockTypes, Ordered
  <1>5. Cardinality({}) = 0 BY FS_EmptySet
  <1>6. LaneInv
    <2>1. Cap \in [Lanes -> Nat \union {Unbounded}] BY SchedulerAssumption
    <2>2. /\ available = [l \in Lanes |-> IF Cap[l] = Unbounded THEN 0 ELSE Cap[l]]
          /\ inLane = {} /\ queued = {} /\ inFront = [c \in Children |-> {}]
      BY DEF Init, Lane!LaneInit
    <2>3. available \in [Lanes -> Nat] BY <2>1, <2>2
    <2>4. ASSUME NEW l \in Lanes, Cap[l] # Unbounded
          PROVE  available[l] + Cardinality(Users(l)) = Cap[l]
      <3>1. available[l] = Cap[l] /\ Cap[l] \in Nat BY <2>1, <2>2, <2>4
      <3>2. Cardinality(Users(l)) = 0 BY <1>2, <1>5
      <3>. QED BY <3>1, <3>2
    <2>. QED BY <2>2, <2>3, <2>4 DEF LaneInv, Lane!LaneTypes
  <1>7. Place BY DEF Init, Lane!LaneInit, Lock!LockInit, Place, Working
  <1>8. Counted
    <2>1. /\ childCounts = [p \in Children \union {Root} |-> 0] /\ activeChildren = 0
          /\ MaxChildren \in Nat /\ MaxActive \in Nat
      BY SchedulerAssumption DEF Init
    <2>2. activeChildren = Cardinality(Live) /\ activeChildren <= MaxActive BY <1>1, <1>5, <2>1
    <2>. QED BY <1>1, <1>5, <2>1, <2>2 DEF Counted
  <1>. QED BY <1>3, <1>4, <1>6, <1>7, <1>8 DEF Inv

\* Every step preserves the invariant.
LEMMA NextInv == Inv /\ [Next]_vars => Inv'
  <1>. SUFFICES ASSUME Inv, [Next]_vars PROVE Inv' OBVIOUS
  <1>1. CASE UNCHANGED vars
    <2>1. Live' = Live /\ \A p : LiveOf(p)' = LiveOf(p) BY <1>1 DEF vars, Live, LiveOf
    <2>2. Ctl' /\ Place' BY <1>1 DEF vars, tree, lane, lock, events, banner, Inv, Ctl, Place, Working
    <2>3. LockInv' BY <1>1 DEF vars, lock, Inv, LockInv, Lock!LockTypes, Ordered
    <2>4. LaneInv' BY <1>1 DEF vars, lane, Inv, LaneInv, Lane!LaneTypes, Users
    <2>5. Counted' BY <1>1, <2>1, CountedSame DEF vars, tree, Inv
    <2>. QED BY <2>2, <2>3, <2>4, <2>5 DEF Inv
  <1>2. ASSUME NEW c \in Children,
               \/ Delegate(c) \/ LaneGranted(c) \/ LockGranted(c) \/ Prepared(c)
               \/ RunEnds(c) \/ Close(c) \/ Abort(c)
        PROVE  Inv'
    BY <1>2, DelegateInv, LaneGrantedInv, LockGrantedInv, RunInv, CloseInv, AbortInv
  <1>. QED BY <1>1, <1>2 DEF Next

\* The invariant holds in every reachable state.
LEMMA Invariance == Spec => []Inv
  BY InitInv, NextInv, PTL DEF Spec

\* Type correctness: in particular no reservation is given back twice.
THEOREM TypeCorrect == Spec => []TypeOK
  <1>1. Inv => TypeOK
    <2>. SUFFICES ASSUME Inv PROVE TypeOK OBVIOUS
    <2>1. Live \in SUBSET Children /\ \A p : LiveOf(p) \in SUBSET Children BY DEF Live, LiveOf
    <2>2. activeChildren \in Nat /\ \A p \in Children \union {Root} : childCounts[p] \in Nat
      <3>1. IsFiniteSet(Live) BY <2>1, FiniteAssumption, FS_Subset
      <3>2. \A p : IsFiniteSet(LiveOf(p)) BY <2>1, FiniteAssumption, FS_Subset
      <3>. QED BY <3>1, <3>2, FS_CardinalityType DEF Inv, Counted
    <2>. QED BY <2>2 DEF Inv, Ctl, LockInv, LaneInv, Counted, TypeOK
  <1>. QED BY <1>1, Invariance, PTL

\* Children whose write scopes overlap never work at the same time.
THEOREM NoWriteClashHolds == Spec => []NoWriteClash
  <1>1. Inv => NoWriteClash BY DEF Inv, Place, LockInv, NoWriteClash
  <1>. QED BY <1>1, Invariance, PTL

\* No lane slot, no count of a parent's children and no slot of the tree budget is
\* lost or made, whatever aborts or throws, and no limit is exceeded.
THEOREM ReservationsConservedHolds == Spec => []ReservationsConserved
  <1>1. Inv => SlotsConserved
    <2>. SUFFICES ASSUME Inv, NEW l \in Lanes, Cap[l] # Unbounded
         PROVE available[l] + Cardinality({c \in Live : LaneOf[c] = l /\ c \in inLane}) = Cap[l]
      BY DEF SlotsConserved
    <2>1. {c \in Live : LaneOf[c] = l /\ c \in inLane} = Users(l)
      BY DEF Inv, Place, Live, Users, LaneInv, Lane!LaneTypes
    <2>. QED BY <2>1 DEF Inv, LaneInv
  <1>2. Inv => ChildrenCounted BY DEF Inv, Counted, LiveOf, ChildrenCounted
  <1>3. Inv => TreeCounted BY DEF Inv, Ctl, Counted, TreeCounted
  <1>4. Inv => ReservationsConserved BY <1>1, <1>2, <1>3 DEF ReservationsConserved
  <1>. QED BY <1>4, Invariance, PTL

\* A queued call waits for something that a live call uses.
THEOREM NoLostWakeupHolds == Spec => []NoLostWakeup
  <1>1. Inv => NoLostWakeup BY DEF Inv, LockInv, Lock!LockTypes, LaneInv, Place, Live, NoLostWakeup
  <1>. QED BY <1>1, Invariance, PTL

-----------------------------------------------------------------------------

\* The banners and the program counters: a call is started once, after its acquires,
\* and completed once, when its run ends; an open atom is no delegator.
Banners ==
    /\ AtomsClose /\ PlansClose
    /\ \A c \in Children : c \in started => pc[c] \notin {"idle", "lane", "lock"}
    /\ \A c \in Children : c \in completed => pc[c] \in {"closing", "done"}
    /\ atomOpen \intersect Delegators = {}
    /\ plans \subseteq started /\ displaced \subseteq started

\* A step that leaves the events alone and moves no call back.
LEMMA QuietBanners ==
    ASSUME Inv, Banners, UNCHANGED events,
           \A c \in Children : \/ pc'[c] = pc[c]
                               \/ pc[c] = "idle" /\ pc'[c] = "lane"
                               \/ pc[c] = "lane" /\ pc'[c] = "lock"
                               \/ pc[c] = "preparing" /\ pc'[c] = "running"
                               \/ pc[c] # "done" /\ pc'[c] \in {"closing", "done"}
    PROVE  Banners'
  <1>1. /\ started' = started /\ completed' = completed /\ active' = active
        /\ atomOpen' = atomOpen /\ plans' = plans /\ displaced' = displaced
    BY DEF events, banner
  <1>2. atomOpen \subseteq Children BY DEF Inv, Ctl
  <1>3. AtomsClose' BY <1>1, <1>2 DEF Banners, AtomsClose
  <1>4. PlansClose' BY <1>1 DEF Banners, PlansClose
  <1>. QED BY <1>1, <1>3, <1>4 DEF Banners

\* The finally block is such a step.
LEMMA FinallyBanners ==
    ASSUME Inv, Banners, NEW c \in Children, pc[c] # "done", Finally(c), UNCHANGED events
    PROVE  Banners'
  BY QuietBanners DEF Finally, Goto, Inv, Ctl

\* A call that has not started yet opens its banner.
LEMMA StartBanners ==
    ASSUME Inv, Banners, NEW c \in Children, pc[c] \in {"lane", "lock"}, Start(c)
    PROVE  Banners'
  <1>0. pc \in [Children -> PCs] /\ atomOpen \subseteq Children BY DEF Inv, Ctl
  <1>1. CASE Faults /\ Finally(c) /\ UNCHANGED events
    BY <1>0, <1>1, FinallyBanners
  <1>2. CASE /\ Goto(c, "preparing") /\ started' = started \union {c} /\ BannerStarts(c)
             /\ UNCHANGED <<completed, childCounts, tree, lane, lock>>
    <2>1. pc' = [pc EXCEPT ![c] = "preparing"] /\ completed' = completed BY <1>2 DEF Goto
    <2>2. c \notin started /\ c \notin completed /\ c # Nobody BY SchedulerAssumption DEF Banners
    <2>3. CASE c \in Delegators
      <3>1. /\ active' = c /\ plans' = plans \union {c} /\ atomOpen' = atomOpen
            /\ displaced' = displaced \union ({active} \ {Nobody})
        BY <2>3, <1>2 DEF BannerStarts
      <3>2. AtomsClose' BY <1>0, <1>2, <2>1, <2>2, <3>1 DEF Banners, AtomsClose
      <3>3. PlansClose' BY <1>2, <2>1, <2>2, <2>3, <3>1 DEF Banners, PlansClose
      <3>. QED BY <1>0, <1>2, <2>1, <3>1, <3>2, <3>3 DEF Banners, PlansClose
    <2>4. CASE c \notin Delegators
      <3>1. /\ active' = active /\ plans' = plans /\ displaced' = displaced
            /\ \/ atomOpen' = atomOpen \union {c} /\ active # Nobody /\ active = Parent[c]
               \/ atomOpen' = atomOpen
        BY <2>4, <1>2 DEF BannerStarts, banner
      <3>2. active # Nobody => active \in started \ completed BY DEF Banners, PlansClose
      <3>3. AtomsClose' BY <1>0, <1>2, <2>1, <2>2, <3>1, <3>2 DEF Banners, AtomsClose
      <3>4. PlansClose' BY <1>2, <2>1, <2>2, <2>4, <3>1 DEF Banners, PlansClose
      <3>. QED BY <1>0, <1>2, <2>1, <2>4, <3>1, <3>3, <3>4 DEF Banners
    <2>. QED BY <2>3, <2>4
  <1>. QED BY <1>1, <1>2 DEF Start

\* The atoms of a run that ends are done, and its own banner as an atom is closed.
LEMMA RunEndsAtoms ==
    ASSUME Inv, Banners, NEW c \in Children, RunEnds(c), atomOpen' = atomOpen \ {c}
    PROVE  AtomsClose'
  <1>0. pc \in [Children -> PCs] /\ atomOpen \subseteq Children BY DEF Inv, Ctl
  <1>1. /\ pc[c] = "running" /\ pc' = [pc EXCEPT ![c] = "closing"]
        /\ completed' = completed \union {c} /\ started' = started
        /\ \A d \in Children : Parent[d] = c => pc[d] \in {"idle", "done"}
    BY DEF RunEnds, At, Goto, Live
  <1>2. \A d \in atomOpen : pc[d] # "idle" BY <1>0 DEF Banners, AtomsClose
  <1>. QED BY <1>0, <1>1, <1>2 DEF Banners, AtomsClose

\* A run that ends closes its banner: it is an open atom or the active delegator,
\* never both; and all it had called is done.
LEMMA RunEndsBanners == ASSUME Inv, Banners, NEW c \in Children, RunEnds(c) PROVE Banners'
  <1>0. pc \in [Children -> PCs] /\ atomOpen \subseteq Children BY DEF Inv, Ctl
  <1>1. /\ pc[c] = "running" /\ pc' = [pc EXCEPT ![c] = "closing"]
        /\ completed' = completed \union {c} /\ started' = started /\ BannerCompletes(c)
    BY DEF RunEnds, At, Goto
  <1>2. atomOpen' = atomOpen \ {c} /\ displaced' = displaced
    BY <1>1 DEF BannerCompletes, banner
  <1>3. AtomsClose' BY <1>2, RunEndsAtoms
  <1>4. PlansClose'
    <2>1. CASE c = active
      <3>1. c \in Delegators /\ c # Nobody BY <2>1, SchedulerAssumption DEF Banners, PlansClose
      <3>2. active' = Nobody /\ plans' = plans \ {c}
        BY <1>1, <2>1, <3>1 DEF BannerCompletes, Banners
      <3>. QED BY <1>1, <1>2, <2>1, <3>1, <3>2 DEF Banners, PlansClose
    <2>2. CASE c # active
      <3>1. active' = active /\ plans' = plans
        BY <1>1, <2>2 DEF BannerCompletes, banner
      <3>. QED BY <1>1, <1>2, <2>2, <3>1 DEF Banners, PlansClose
    <2>. QED BY <2>1, <2>2
  <1>5. plans' \subseteq plans BY <1>1 DEF BannerCompletes, banner
  <1>. QED BY <1>0, <1>1, <1>2, <1>3, <1>4, <1>5 DEF Banners

\* Every step keeps the banners in order.
LEMMA NextBanners == Inv /\ Banners /\ [Next]_vars => Banners'
  <1>. SUFFICES ASSUME Inv, Banners, [Next]_vars PROVE Banners' OBVIOUS
  <1>0. pc \in [Children -> PCs] BY DEF Inv, Ctl
  <1>1. CASE UNCHANGED vars BY <1>1, QuietBanners DEF vars
  <1>2. ASSUME NEW c \in Children, LaneGranted(c) \/ LockGranted(c) PROVE Banners'
    <2>1. CASE Start(c) BY <1>2, <2>1, StartBanners DEF LaneGranted, LockGranted, At
    <2>2. CASE Finally(c) /\ UNCHANGED events
      BY <1>2, <2>2, FinallyBanners DEF LaneGranted, LockGranted, At
    <2>3. CASE pc[c] = "lane" /\ Goto(c, "lock") /\ UNCHANGED events
      BY <1>0, <2>3, QuietBanners DEF Goto
    <2>. QED BY <1>2, <2>1, <2>2, <2>3 DEF LaneGranted, LockGranted, At
  <1>3. ASSUME NEW c \in Children, Delegate(c) PROVE Banners'
    <2>1. /\ pc[c] = "idle" /\ UNCHANGED events
          /\ pc' = [pc EXCEPT ![c] = "lane"] \/ pc' = [pc EXCEPT ![c] = "done"]
      BY <1>3 DEF Delegate, At, Goto
    <2>. QED BY <1>0, <2>1, QuietBanners
  <1>4. ASSUME NEW c \in Children, Prepared(c) \/ Close(c) PROVE Banners'
    BY <1>0, <1>4, QuietBanners DEF Prepared, Close, Finally, At, Goto
  <1>5. ASSUME NEW c \in Children, Abort(c) PROVE Banners'
    <2>1. /\ UNCHANGED events
          /\ \A d \in Children : pc'[d] = pc[d] \/ (pc[d] # "done" /\ pc'[d] = "closing")
      BY <1>5 DEF Abort, Inv, Place
    <2>. QED BY <2>1, QuietBanners
  <1>. QED BY <1>1, <1>2, <1>3, <1>4, <1>5, RunEndsBanners DEF Next

\* Atom banners close before their delegator's, and every delegator that no other one
\* replaced has its plan open exactly while it runs, in every order of starts and ends.
THEOREM BannersCloseHolds == Spec => []BannersClose
  <1>1. Init => Banners
    BY SchedulerAssumption DEF Init, Banners, AtomsClose, PlansClose
  <1>2. Banners => BannersClose BY DEF Banners, BannersClose
  <1>. QED BY <1>1, <1>2, NextBanners, Invariance, PTL DEF Spec

-----------------------------------------------------------------------------

\* The waiters array as a queue: whoever is in front waits, and not the other way round.
FirstCome ==
    /\ \A c \in Children : ahead[c] \subseteq waiters \ {c}
    /\ \A c, d \in Children : d \in ahead[c] => c \notin ahead[d]

\* What a step does to the path lock.
LockStep ==
    \/ \E c \in Children : Lock!AcquireLock(c) \/ Lock!ReleaseLock(c)
    \/ \E S \in SUBSET waiters : Lock!AbortLock(S)
    \/ UNCHANGED lock

\* Every step is at most one operation of the path lock.
LEMMA NextLockStep == ASSUME [Next]_vars PROVE LockStep
  <1>1. CASE UNCHANGED vars BY <1>1 DEF vars, LockStep
  <1>2. ASSUME NEW c \in Children, Finally(c) PROVE LockStep
    BY <1>2 DEF Finally, LockStep
  <1>3. ASSUME NEW c \in Children, Start(c) PROVE LockStep
    BY <1>2, <1>3 DEF Start, LockStep, lock
  <1>4. ASSUME NEW c \in Children, Abort(c) PROVE LockStep
    BY <1>4 DEF Abort, LockStep
  <1>5. ASSUME NEW c \in Children, LaneGranted(c) \/ LockGranted(c) \/ Close(c) PROVE LockStep
    BY <1>2, <1>3, <1>5 DEF LaneGranted, LockGranted, Close, LockStep
  <1>6. ASSUME NEW c \in Children, Delegate(c) \/ Prepared(c) \/ RunEnds(c) PROVE LockStep
    BY <1>6 DEF Delegate, Prepared, RunEnds, LockStep, lock
  <1>. QED BY <1>1, <1>4, <1>5, <1>6 DEF Next

\* The queue stays a queue.
LEMMA NextFirstCome == Inv /\ FirstCome /\ [Next]_vars => FirstCome'
  <1>. SUFFICES ASSUME Inv, FirstCome, LockStep PROVE FirstCome' BY NextLockStep
  <1>0. Lock!LockTypes BY DEF Inv, LockInv
  <1>1. ASSUME NEW c \in Children, Lock!AcquireLock(c) PROVE FirstCome'
    BY <1>0, <1>1 DEF Lock!AcquireLock, Lock!LockTypes, FirstCome
  <1>2. ASSUME NEW S, Lock!Leave(S) PROVE FirstCome'
    BY <1>0, <1>2 DEF Lock!Leave, Lock!LockTypes, FirstCome
  <1>3. CASE UNCHANGED lock BY <1>3 DEF lock, FirstCome
  <1>. QED BY <1>1, <1>2, <1>3 DEF LockStep, Lock!ReleaseLock, Lock!AbortLock

\* Every scope is the whole tree: the v0 configuration.
AllWhole == \A c \in Children : Scope[c].all

\* Then any two scopes overlap, and a waiter is granted alone, when nobody is in front.
LEMMA ReleaseOne ==
    ASSUME AllWhole, Inv, FirstCome, NEW c \in Children, Lock!ReleaseLock(c)
    PROVE  /\ held = {c}
           /\ \/ \E n \in waiters : ahead[n] = {} /\ held' = {n} /\ Lock!Leave({n})
              \/ waiters = {} /\ held' = {} /\ UNCHANGED <<waiters, ahead>>
  <1>1. \A d, e \in Children : Lock!Clash(d, e) BY DEF AllWhole, Lock!Clash, Lock!ScopesOverlap
  <1>2. Lock!LockTypes /\ Ordered BY DEF Inv, LockInv
  <1>3. held = {c} BY <1>1, <1>2 DEF Inv, LockInv, Lock!LockTypes, Lock!ReleaseLock
  <1>4. PICK G \in SUBSET waiters : Lock!Drained({}, G) /\ held' = G /\ Lock!Leave(G)
    BY <1>3 DEF Lock!ReleaseLock
  <1>5. \A d \in waiters : d \in G <=> G \intersect ahead[d] = {}
    BY <1>1, <1>2, <1>4 DEF Lock!Drained, Lock!LockTypes
  <1>6. CASE waiters = {}
    <2>1. G = {} /\ waiters' = waiters /\ ahead' = ahead
      BY <1>2, <1>4, <1>6 DEF Lock!Leave, Lock!LockTypes
    <2>. QED BY <1>3, <1>4, <1>6, <2>1
  <1>7. CASE waiters # {}
    <2>1. PICK n : n \in G BY <1>5, <1>7
    <2>2. G = {n} BY <1>2, <1>4, <1>5, <2>1 DEF Ordered
    <2>3. ahead[n] = {} BY <1>2, <1>4, <1>5, <2>1, <2>2 DEF FirstCome, Lock!LockTypes
    <2>. QED BY <1>3, <1>4, <2>1, <2>2, <2>3
  <1>. QED BY <1>6, <1>7

\* Each operation of the path lock is one of a semaphore with one slot.
LEMMA NextV0 == AllWhole /\ Inv /\ FirstCome /\ [Next]_vars => [V0!LaneNext]_(V0!laneVars)
  <1>. SUFFICES ASSUME AllWhole, Inv, FirstCome, LockStep
       PROVE  V0!LaneNext \/ UNCHANGED (V0!laneVars)
    BY NextLockStep
  <1>. DEFINE free == [l \in {"write"} |-> IF held = {} THEN 1 ELSE 0]
  <1>0. Lock!LockTypes /\ held \subseteq Children /\ waiters \subseteq Children
    BY DEF Inv, LockInv, Lock!LockTypes
  <1>1. ASSUME NEW c \in Children, Lock!AcquireLock(c) PROVE V0!AcquireLane(c)
    <2>1. Lock!OverlapsHeld(c) <=> held # {}
      BY <1>0 DEF AllWhole, Lock!OverlapsHeld, Lock!Clash, Lock!ScopesOverlap
    <2>2. V0!Queue("write") = waiters BY <1>0 DEF V0!Queue
    <2>3. CASE held = {}
      <3>1. held' = {c} /\ UNCHANGED <<waiters, ahead>> BY <1>1, <2>1, <2>3 DEF Lock!AcquireLock
      <3>2. free' = [free EXCEPT !["write"] = @ - 1] BY <2>3, <3>1
      <3>. QED BY <1>1, <2>3, <3>1, <3>2 DEF V0!AcquireLane, V0!Capped, Lock!AcquireLock
    <2>4. CASE held # {}
      <3>1. /\ held' = held /\ waiters' = waiters \union {c} /\ ahead' = [ahead EXCEPT ![c] = waiters]
        BY <1>1, <2>1, <2>4 DEF Lock!AcquireLock
      <3>2. free' = free /\ free["write"] = 0 BY <2>4, <3>1
      <3>3. c \notin held \union waiters /\ V0!Capped("write")
        BY <1>1 DEF Lock!AcquireLock, V0!Capped
      <3>4. [x \in Children |-> "write"][c] = "write" OBVIOUS
      <3>. QED BY <2>2, <3>1, <3>2, <3>3, <3>4 DEF V0!AcquireLane
    <2>. QED BY <2>3, <2>4
  <1>2. ASSUME NEW c \in Children, Lock!ReleaseLock(c) PROVE V0!ReleaseLane(c)
    <2>1. held = {c} BY <1>2, ReleaseOne
    <2>2. V0!Queue("write") = waiters BY <1>0 DEF V0!Queue
    <2>3. ASSUME NEW n \in waiters, ahead[n] = {}, held' = {n}, Lock!Leave({n}) PROVE V0!ReleaseLane(c)
      <3>1. free' = free BY <2>1, <2>3
      <3>2. V0!Dequeue({n}) BY <2>3 DEF Lock!Leave, V0!Dequeue
      <3>3. held' = (held \ {c}) \union {n} BY <2>1, <2>3
      <3>. QED BY <2>1, <2>2, <2>3, <3>1, <3>2, <3>3 DEF V0!ReleaseLane
    <2>4. ASSUME waiters = {}, held' = {}, UNCHANGED <<waiters, ahead>> PROVE V0!ReleaseLane(c)
      <3>1. free' = [free EXCEPT !["write"] = @ + 1] BY <2>1, <2>4
      <3>. QED BY <2>1, <2>2, <2>4, <3>1 DEF V0!ReleaseLane, V0!Capped
    <2>. QED BY <1>2, <2>3, <2>4, ReleaseOne
  <1>3. ASSUME NEW S \in SUBSET waiters, Lock!AbortLock(S) PROVE V0!AbortLane(S)
    BY <1>3 DEF Lock!AbortLock, Lock!Leave, V0!AbortLane, V0!Dequeue
  <1>4. CASE UNCHANGED lock BY <1>4 DEF lock, V0!laneVars
  <1>. QED BY <1>1, <1>2, <1>3, <1>4 DEF LockStep, V0!LaneNext

\* Back-compatibility: with whole-tree scopes only, the path lock is the v0 write
\* mutex, a semaphore of one slot served in order of arrival.
THEOREM V0MutexHolds == ASSUME AllWhole PROVE Spec => V0Mutex
  <1>1. Init => FirstCome BY DEF Init, Lock!LockInit, FirstCome
  <1>2. Init => V0!LaneInit
    BY DEF Init, Lock!LockInit, V0!LaneInit
  <1>3. Spec => []FirstCome BY <1>1, NextFirstCome, Invariance, PTL DEF Spec
  <1>. QED BY <1>2, <1>3, NextV0, Invariance, PTL DEF Spec, V0Mutex, V0!LaneSpec
=============================================================================
