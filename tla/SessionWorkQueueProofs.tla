----------------------- MODULE SessionWorkQueueProofs -----------------------
(* Proofs about SessionWorkQueue for any number of sessions and jobs and    *)
(* any values of the three options.                                         *)
EXTENDS SessionWorkQueue, FiniteSetTheorems, WellFoundedInduction, TLAPS

-----------------------------------------------------------------------------
(* drain() starts at most one job                                           *)

\* A nonempty set of jobs has one with the least stamp.
LEMMA LeastStamp ==
  ASSUME NEW f \in [Jobs -> Nat], NEW T \in SUBSET Jobs, T # {}
  PROVE  \E h \in T : \A k \in T : f[h] <= f[k]
<1> DEFINE N == {f[j] : j \in T}
<1>1. N \in SUBSET Nat /\ N # {}
  OBVIOUS
<1>2. PICK n \in N : \A m \in N : ~ (<<m, n>> \in OpToRel(<, Nat))
  BY <1>1, NatLessThanWellFounded, WFMin
<1>3. \A m \in N : ~ (m < n)
  BY <1>1, <1>2 DEF OpToRel
<1>4. PICK h \in T : f[h] = n
  OBVIOUS
<1> QED
  BY <1>1, <1>3, <1>4

\* The part of an inductive invariant that the stamps satisfy: they count the
\* admitted jobs and no two admitted jobs share one.
StampInv ==
    /\ \A j \in Jobs : stamp[j] <= Cardinality(Admitted)
    /\ \A j, k \in Admitted : stamp[j] = stamp[k] => j = k
    /\ \A j \in Jobs : phase[j] \in {"queued", "starting", "running"} => j \in Admitted
    /\ \A j \in Jobs : phase[j] = "new" => j \notin Admitted

Idle(act, q) == {k \in q : act[SessionOf[k]] = NoJob}

\* When drain() is entered, either at most one slot is free or the queued jobs
\* of idle sessions all belong to one session.
DrainReady(act, q) ==
    \/ Cardinality(Busy(act)) >= MaxActiveSessions - 1
    \/ \A j, k \in Idle(act, q) : SessionOf[j] = SessionOf[k]

\* The set of sessions in the active map is finite.
LEMMA BusyFinite ==
  ASSUME NEW act
  PROVE  IsFiniteSet(Busy(act)) /\ Cardinality(Busy(act)) \in Nat
<1>1. Busy(act) \in SUBSET Sessions
  BY DEF Busy
<1> QED
  BY <1>1, FiniteAssumption, FS_Subset, FS_CardinalityType

\* drain() entered in such a state starts no job if no slot is free or every
\* queued job's session is active, and the oldest idle one otherwise.
LEMMA DrainStartsOne ==
  ASSUME NEW act \in [Sessions -> Jobs \union {NoJob}], NEW q \in SUBSET Jobs,
         stamp \in [Jobs -> Nat],
         \A j, k \in q : stamp[j] = stamp[k] => j = k,
         DrainReady(act, q)
  PROVE  \/ /\ Startable(act, q) = {}
            /\ Idle(act, q) = {} \/ Cardinality(Busy(act)) >= MaxActiveSessions
         \/ \E h \in Idle(act, q) :
               /\ Startable(act, q) = {h}
               /\ \A k \in Idle(act, q) : stamp[h] <= stamp[k]
               /\ Cardinality(Busy(act)) < MaxActiveSessions
               /\ \/ Cardinality(Busy(act)) = MaxActiveSessions - 1
                  \/ \A k \in Idle(act, q) : SessionOf[k] = SessionOf[h]
<1> DEFINE B == Cardinality(Busy(act))
           Before(j) == {k \in Heads(act, q) : stamp[k] < stamp[j]}
<1>1. B \in Nat
  BY BusyFinite
<1>2. \A j : IsFiniteSet(Before(j)) /\ Cardinality(Before(j)) \in Nat
  <2> SUFFICES ASSUME NEW j PROVE IsFiniteSet(Before(j)) /\ Cardinality(Before(j)) \in Nat
    OBVIOUS
  <2>1. Before(j) \in SUBSET Jobs
    BY DEF Heads
  <2> QED
    BY <2>1, FiniteAssumption, FS_Subset, FS_CardinalityType
<1>3. Startable(act, q) = {j \in Heads(act, q) : B + Cardinality(Before(j)) < MaxActiveSessions}
  BY DEF Startable
<1>4. Heads(act, q) \subseteq Idle(act, q)
  BY DEF Heads, Idle
<1>5. CASE Idle(act, q) = {} \/ B >= MaxActiveSessions
  <2>1. Startable(act, q) = {}
    <3> SUFFICES ASSUME NEW j \in Startable(act, q) PROVE FALSE
      OBVIOUS
    <3>1. j \in Idle(act, q) /\ B + Cardinality(Before(j)) < MaxActiveSessions
      BY <1>3, <1>4
    <3>2. Cardinality(Before(j)) \in Nat
      BY <1>2
    <3> QED
      BY <1>5, <3>1, <3>2, <1>1, OptionsAssumption
  <2> QED
    BY <2>1, <1>5
<1>6. CASE Idle(act, q) # {} /\ B < MaxActiveSessions
  <2>1. PICK h \in Idle(act, q) : \A k \in Idle(act, q) : stamp[h] <= stamp[k]
    <3>1. Idle(act, q) \in SUBSET Jobs
      BY DEF Idle
    <3> QED
      BY <3>1, <1>6, LeastStamp
  <2>2. h \in q /\ act[SessionOf[h]] = NoJob /\ h \in Jobs
    BY DEF Idle
  <2>3. h \in Heads(act, q)
    BY <2>1, <2>2 DEF Heads, Idle
  <2>4. Before(h) = {}
    <3> SUFFICES ASSUME NEW k \in Before(h) PROVE FALSE
      OBVIOUS
    <3>1. k \in Idle(act, q) /\ stamp[k] < stamp[h] /\ k \in Jobs
      BY <1>4 DEF Idle
    <3> QED
      BY <3>1, <2>1, <2>2
  <2>5. h \in Startable(act, q)
    BY <2>3, <2>4, <1>1, <1>3, <1>6, FS_EmptySet
  <2>6. ASSUME NEW j \in Startable(act, q) PROVE j = h
    <3>1. j \in Heads(act, q) /\ j \in Idle(act, q) /\ j \in q /\ j \in Jobs
          /\ B + Cardinality(Before(j)) < MaxActiveSessions
      BY <1>3, <1>4 DEF Idle
    <3>2. stamp[h] <= stamp[j]
      BY <2>1, <3>1
    <3>3. CASE B >= MaxActiveSessions - 1
      <4>0. Cardinality(Before(j)) \in Nat
        BY <1>2
      <4>1. Cardinality(Before(j)) = 0
        BY <4>0, <1>1, <3>1, <3>3, OptionsAssumption
      <4>2. Before(j) = {}
        BY <4>1, <1>2, FS_EmptySet
      <4>3. ~ (stamp[h] < stamp[j])
        BY <4>2, <2>3
      <4> QED
        BY <4>3, <3>1, <3>2, <2>2
    <3>4. CASE SessionOf[j] = SessionOf[h]
      <4>1. stamp[j] <= stamp[h]
        BY <3>1, <3>4, <2>2 DEF Heads
      <4> QED
        BY <4>1, <3>1, <3>2, <2>2
    <3> QED
      BY <3>1, <3>3, <3>4 DEF DrainReady
  <2>7. Startable(act, q) = {h}
    BY <2>5, <2>6
  <2>8. B = MaxActiveSessions - 1 \/ \A k \in Idle(act, q) : SessionOf[k] = SessionOf[h]
    BY <1>1, <1>6, OptionsAssumption DEF DrainReady
  <2> QED
    BY <2>1, <2>7, <2>8, <1>6
<1> QED
  BY <1>1, <1>5, <1>6, OptionsAssumption

-----------------------------------------------------------------------------
(* What holds when drain() is entered, and what it establishes              *)

IsStarted(p) == p \in {"starting", "running"}

\* active, queued and phase agree with each other and respect the options.
Coherent(act, q, ph) ==
    /\ act \in [Sessions -> Jobs \union {NoJob}]
    /\ q \in SUBSET Jobs
    /\ ph \in [Jobs -> Phases]
    /\ \A s \in Sessions : act[s] # NoJob =>
           IsStarted(ph[act[s]]) /\ SessionOf[act[s]] = s
    /\ \A j \in Jobs : IsStarted(ph[j]) => act[SessionOf[j]] = j
    /\ \A j \in Jobs : (j \in q) <=> (ph[j] = "queued")
    /\ Cardinality(Busy(act)) <= MaxActiveSessions
    /\ Cardinality(q) <= MaxQueued
    /\ \A s \in Sessions : Cardinality({j \in q : SessionOf[j] = s}) <= MaxQueuedPerSession

\* Taking jobs out of the queue raises no count the options bound.
LEMMA SmallerQueue ==
  ASSUME NEW q \in SUBSET Jobs, NEW r \in SUBSET q
  PROVE  /\ IsFiniteSet(r) /\ IsFiniteSet(q)
         /\ Cardinality(r) \in Nat /\ Cardinality(q) \in Nat
         /\ Cardinality(r) <= Cardinality(q)
         /\ \A s \in Sessions : /\ Cardinality({j \in r : SessionOf[j] = s}) \in Nat
                                /\ Cardinality({j \in q : SessionOf[j] = s}) \in Nat
                                /\ Cardinality({j \in r : SessionOf[j] = s}) <=
                                      Cardinality({j \in q : SessionOf[j] = s})
<1>1. IsFiniteSet(q) /\ IsFiniteSet(r)
  BY FiniteAssumption, FS_Subset
<1>2. ASSUME NEW s \in Sessions
      PROVE  /\ Cardinality({j \in r : SessionOf[j] = s}) \in Nat
             /\ Cardinality({j \in q : SessionOf[j] = s}) \in Nat
             /\ Cardinality({j \in r : SessionOf[j] = s}) <=
                   Cardinality({j \in q : SessionOf[j] = s})
  <2>1. {j \in q : SessionOf[j] = s} \in SUBSET q
    OBVIOUS
  <2>2. {j \in r : SessionOf[j] = s} \in SUBSET {j \in q : SessionOf[j] = s}
    OBVIOUS
  <2>3. IsFiniteSet({j \in q : SessionOf[j] = s})
    BY <1>1, <2>1, FS_Subset
  <2> QED
    BY <2>2, <2>3, FS_Subset, FS_CardinalityType
<1> QED
  BY <1>1, <1>2, FS_Subset, FS_CardinalityType

\* What drain() leaves behind, relative to the values it was entered with.
DrainDone(act, q, ph) ==
    /\ Coherent(active', queued', phase')
    /\ \A j \in queued' : \/ active'[SessionOf[j]] # NoJob
                          \/ Cardinality(Busy(active')) = MaxActiveSessions
    /\ queued' \subseteq q
    /\ \A j \in Jobs : \/ phase'[j] = ph[j]
                       \/ ph[j] = "queued" /\ phase'[j] = "starting"
                          /\ \A k \in q : SessionOf[k] = SessionOf[j] => stamp[j] <= stamp[k]
    /\ closed => active' = act

\* The whole of drain(): it keeps the three variables coherent and leaves no
\* job waiting that could run.
LEMMA DrainEffect ==
  ASSUME NEW act, NEW q, NEW ph,
         Coherent(act, q, ph),
         stamp \in [Jobs -> Nat],
         \A j, k \in q : stamp[j] = stamp[k] => j = k,
         DrainReady(act, q),
         closed \in BOOLEAN,
         closed => q = {},
         Drain(act, q, ph)
  PROVE  DrainDone(act, q, ph)
<1> DEFINE B == Cardinality(Busy(act))
           S == IF closed THEN {} ELSE Startable(act, q)
<1>0. /\ act \in [Sessions -> Jobs \union {NoJob}] /\ q \in SUBSET Jobs
      /\ ph \in [Jobs -> Phases]
  BY DEF Coherent
<1>1. B \in Nat
  BY BusyFinite
<1>2. /\ active' = Reserve(act, S)
      /\ queued' = q \ S
      /\ phase' = [j \in Jobs |-> IF j \in S THEN "starting" ELSE ph[j]]
  BY DEF Drain
<1>3. CASE /\ S = {}
           /\ Idle(act, q) = {} \/ B >= MaxActiveSessions
  <2>1. active' = act
    BY <1>0, <1>2, <1>3 DEF Reserve
  <2>2. queued' = q /\ phase' = ph
    BY <1>0, <1>2, <1>3
  <2>3. ASSUME NEW j \in queued'
        PROVE active'[SessionOf[j]] # NoJob \/ Cardinality(Busy(active')) = MaxActiveSessions
    <3>1. CASE Idle(act, q) = {}
      BY <3>1, <2>1, <2>2 DEF Idle
    <3>2. CASE B >= MaxActiveSessions
      BY <3>2, <2>1, <1>1, OptionsAssumption DEF Coherent
    <3> QED
      BY <3>1, <3>2, <1>3
  <2> QED
    BY <1>0, <2>1, <2>2, <2>3 DEF DrainDone
<1>4. ASSUME NEW h \in Idle(act, q),
             ~closed,
             S = {h},
             \A k \in Idle(act, q) : stamp[h] <= stamp[k],
             B < MaxActiveSessions,
             \/ B = MaxActiveSessions - 1
             \/ \A k \in Idle(act, q) : SessionOf[k] = SessionOf[h]
      PROVE  /\ Coherent(active', queued', phase')
             /\ \A j \in queued' : \/ active'[SessionOf[j]] # NoJob
                                   \/ Cardinality(Busy(active')) = MaxActiveSessions
             /\ queued' \subseteq q
             /\ \A j \in Jobs : \/ phase'[j] = ph[j]
                                \/ ph[j] = "queued" /\ phase'[j] = "starting"
                                   /\ \A k \in q : SessionOf[k] = SessionOf[j] => stamp[j] <= stamp[k]
  <2>0. h \in q /\ h \in Jobs /\ act[SessionOf[h]] = NoJob /\ SessionOf[h] \in Sessions
        /\ ph[h] = "queued" /\ h # NoJob
    BY <1>0, SessionOfAssumption, NoJobAssumption DEF Idle, Coherent
  <2>1. active' = [act EXCEPT ![SessionOf[h]] = h]
    <3>1. Reserve(act, {h}) = [s \in Sessions |-> IF s = SessionOf[h] THEN h ELSE act[s]]
      BY <2>0 DEF Reserve
    <3> QED
      BY <3>1, <1>0, <1>2, <1>4
  <2>2. queued' = q \ {h} /\ phase' = [ph EXCEPT ![h] = "starting"]
    BY <1>0, <1>2, <1>4
  <2>3. Busy(active') = Busy(act) \union {SessionOf[h]} /\ SessionOf[h] \notin Busy(act)
    BY <1>0, <2>0, <2>1 DEF Busy
  <2>4. Cardinality(Busy(active')) = B + 1
    BY <2>3, BusyFinite, FS_AddElement
  <2>5. Coherent(active', queued', phase')
    <3>1. active' \in [Sessions -> Jobs \union {NoJob}] /\ queued' \in SUBSET Jobs
      BY <1>0, <2>0, <2>1, <2>2
    <3>2. phase' \in [Jobs -> Phases]
      BY <1>0, <2>2 DEF Phases
    <3>3. \A s \in Sessions : active'[s] # NoJob =>
             IsStarted(phase'[active'[s]]) /\ SessionOf[active'[s]] = s
      BY <1>0, <2>0, <2>1, <2>2 DEF Coherent, IsStarted
    <3>4. \A j \in Jobs : IsStarted(phase'[j]) => active'[SessionOf[j]] = j
      BY <1>0, <2>0, <2>1, <2>2, NoJobAssumption, SessionOfAssumption DEF Coherent, IsStarted
    <3>5. \A j \in Jobs : (j \in queued') <=> (phase'[j] = "queued")
      BY <1>0, <2>0, <2>2 DEF Coherent
    <3>6. Cardinality(Busy(active')) <= MaxActiveSessions
      BY <2>4, <1>1, <1>4, OptionsAssumption
    <3>7. queued' \in SUBSET q
      BY <2>2
    <3>8. Cardinality(queued') <= MaxQueued
      <4>1. /\ Cardinality(queued') \in Nat /\ Cardinality(q) \in Nat
            /\ Cardinality(queued') <= Cardinality(q)
        BY <1>0, <3>7, SmallerQueue
      <4>2. Cardinality(q) <= MaxQueued
        BY DEF Coherent
      <4> QED
        BY <4>1, <4>2, OptionsAssumption
    <3>9. ASSUME NEW s \in Sessions
          PROVE Cardinality({j \in queued' : SessionOf[j] = s}) <= MaxQueuedPerSession
      <4> DEFINE new == Cardinality({j \in queued' : SessionOf[j] = s})
                 old == Cardinality({j \in q : SessionOf[j] = s})
      <4>1. new \in Nat /\ old \in Nat /\ new <= old
        BY <1>0, <3>7, SmallerQueue
      <4>2. old <= MaxQueuedPerSession
        BY DEF Coherent
      <4> HIDE DEF new, old
      <4>3. new <= MaxQueuedPerSession
        BY <4>1, <4>2, OptionsAssumption
      <4> QED
        BY <4>3 DEF new
    <3> QED
      BY <3>1, <3>2, <3>3, <3>4, <3>5, <3>6, <3>8, <3>9 DEF Coherent
  <2>6. ASSUME NEW j \in queued'
        PROVE active'[SessionOf[j]] # NoJob \/ Cardinality(Busy(active')) = MaxActiveSessions
    <3>1. CASE B = MaxActiveSessions - 1
      BY <3>1, <2>4, OptionsAssumption
    <3>2. CASE j \notin Idle(act, q)
      BY <3>2, <1>0, <2>0, <2>1, <2>2, SessionOfAssumption DEF Idle
    <3>3. CASE SessionOf[j] = SessionOf[h]
      BY <3>3, <1>0, <2>0, <2>1
    <3> QED
      BY <3>1, <3>2, <3>3, <1>4
  <2>7. \A k \in q : SessionOf[k] = SessionOf[h] => stamp[h] <= stamp[k]
    BY <1>4, <2>0 DEF Idle
  <2> QED
    BY <1>0, <2>0, <2>2, <2>5, <2>6, <2>7
<1>5. CASE closed
  <2>1. S = {} /\ Idle(act, q) = {} /\ active' = act
    BY <1>0, <1>2, <1>5 DEF Idle, Reserve
  <2> QED
    BY <2>1, <1>3
<1>6. CASE ~closed
  <2>1. S = Startable(act, q)
    BY <1>6
  <2> QED
    BY <2>1, <1>0, <1>3, <1>4, <1>6, DrainStartsOne DEF DrainDone
<1> QED
  BY <1>5, <1>6

-----------------------------------------------------------------------------
(* The inductive invariant                                                  *)

IInv ==
    /\ TypeOK
    /\ SingleWriter
    /\ Bounded
    /\ WorkConserving
    /\ QueueConsistent
    /\ ShutdownJoins
    /\ StampInv

\* The same invariant, with the parts drain() works on put together.
LEMMA IInvCoherent ==
  ASSUME TypeOK
  PROVE  IInv <=> /\ Coherent(active, queued, phase)
                  /\ WorkConserving
                  /\ \A j \in Jobs : (outcome[j] = "pending") <=> (phase[j] # "settled")
                  /\ closed => queued = {}
                  /\ shutdownDone <=> (closed /\ Busy(active) = {})
                  /\ StampInv
<1>1. Coherent(active, queued, phase) <=>
        SingleWriter /\ Bounded /\ \A j \in Jobs : (j \in queued) <=> (phase[j] = "queued")
  BY NoJobAssumption, SessionOfAssumption
     DEF Coherent, TypeOK, SingleWriter, Bounded, Started, IsStarted, Queued
<1>2. SingleWriter => (Busy(active) = {} <=> Started = {})
  BY NoJobAssumption, SessionOfAssumption DEF SingleWriter, Busy, Started, TypeOK
<1> QED
  BY <1>1, <1>2 DEF IInv, QueueConsistent, ShutdownJoins

\* The converse direction for the state a step leads to.
LEMMA IInvFromParts ==
  ASSUME TypeOK',
         Coherent(active', queued', phase'),
         WorkConserving',
         \A j \in Jobs : (outcome'[j] = "pending") <=> (phase'[j] # "settled"),
         closed' => queued' = {},
         shutdownDone' <=> (closed' /\ Busy(active') = {}),
         StampInv'
  PROVE  IInv'
<1>1. SingleWriter' /\ Bounded' /\ \A j \in Jobs : (j \in queued') <=> (phase'[j] = "queued")
  BY NoJobAssumption, SessionOfAssumption
     DEF Coherent, TypeOK, SingleWriter, Bounded, Started, IsStarted, Queued
<1>2. Busy(active') = {} <=> Started' = {}
  BY <1>1, NoJobAssumption, SessionOfAssumption DEF SingleWriter, Busy, Started, TypeOK
<1> QED
  BY <1>1, <1>2 DEF IInv, QueueConsistent, ShutdownJoins

\* The initial state satisfies it.
LEMMA InitIInv == Init => IInv
<1> SUFFICES ASSUME Init PROVE IInv
  OBVIOUS
<1>1. TypeOK
  BY DEF Init, TypeOK, Phases, Outcomes
<1>2. Busy(active) = {} /\ Admitted = {} /\ Started = {}
  BY DEF Init, Busy, Admitted, Started
<1>3. Cardinality({}) = 0
  BY FS_EmptySet
<1>4. Bounded
  <2>1. \A s \in Sessions : Queued(s) = {}
    BY DEF Init, Queued
  <2> QED
    BY <1>2, <1>3, <2>1, OptionsAssumption DEF Init, Bounded
<1>5. SingleWriter /\ WorkConserving /\ QueueConsistent /\ ShutdownJoins
  BY <1>2 DEF Init, SingleWriter, WorkConserving, QueueConsistent, ShutdownJoins
<1>6. StampInv
  BY <1>2, <1>3 DEF Init, StampInv
<1> QED
  BY <1>1, <1>4, <1>5, <1>6 DEF IInv

-----------------------------------------------------------------------------
(* Stamps                                                                   *)

\* A step that gives no stamp and moves jobs forward keeps the stamps sound.
LEMMA StampKept ==
  ASSUME StampInv, UNCHANGED stamp,
         \A j \in Jobs : /\ phase'[j] \in {"queued", "starting", "running"} =>
                              phase[j] \in {"queued", "starting", "running"}
                         /\ phase'[j] = "new" => phase[j] = "new"
  PROVE  StampInv'
<1>1. Admitted' = Admitted
  BY DEF Admitted
<1> QED
  BY <1>1 DEF StampInv

\* submit() gives an accepted job a stamp above all others.
LEMMA StampGiven ==
  ASSUME TypeOK, StampInv, NEW j \in Jobs, phase[j] = "new", Stamp(j),
         NEW p \in {"queued", "starting"}, phase' = [phase EXCEPT ![j] = p]
  PROVE  StampInv' /\ stamp' \in [Jobs -> Nat]
<1> DEFINE N == Cardinality(Admitted)
<1>1. IsFiniteSet(Admitted) /\ N \in Nat
  <2>1. Admitted \in SUBSET Jobs
    BY DEF Admitted
  <2> QED
    BY <2>1, FiniteAssumption, FS_Subset, FS_CardinalityType
<1>2. stamp' = [stamp EXCEPT ![j] = N + 1] /\ stamp' \in [Jobs -> Nat]
  BY <1>1 DEF Stamp, TypeOK
<1>3. j \notin Admitted
  BY DEF StampInv
<1>4. Admitted' = Admitted \union {j}
  <2>1. stamp'[j] = N + 1 /\ N + 1 # 0 /\ \A k \in Jobs \ {j} : stamp'[k] = stamp[k]
    BY <1>1, <1>2 DEF TypeOK
  <2> QED
    BY <2>1 DEF Admitted
<1>5. Cardinality(Admitted') = N + 1
  BY <1>1, <1>3, <1>4, FS_AddElement
<1>6. \A k \in Jobs : stamp[k] <= N
  BY DEF StampInv
<1> HIDE DEF N
<1>7. \A k \in Jobs : stamp'[k] <= Cardinality(Admitted')
  BY <1>1, <1>2, <1>5, <1>6 DEF TypeOK
<1>8. \A k, l \in Admitted' : stamp'[k] = stamp'[l] => k = l
  <2>1. \A k \in Admitted : k \in Jobs /\ stamp'[k] = stamp[k] /\ stamp[k] < N + 1 /\ stamp[k] \in Nat
    BY <1>1, <1>2, <1>3, <1>6 DEF TypeOK, Admitted
  <2>2. stamp'[j] = N + 1
    BY <1>2 DEF TypeOK
  <2>3. \A k, l \in Admitted : stamp[k] = stamp[l] => k = l
    BY DEF StampInv
  <2> QED
    BY <1>1, <1>4, <2>1, <2>2, <2>3
<1>9. \A k \in Jobs : /\ phase'[k] \in {"queued", "starting", "running"} => k \in Admitted'
                      /\ phase'[k] = "new" => k \notin Admitted'
  BY <1>4 DEF StampInv, TypeOK
<1> QED
  BY <1>2, <1>7, <1>8, <1>9 DEF StampInv

-----------------------------------------------------------------------------
(* The steps that free a session or a queue place and then drain            *)

\* What settling a job and draining establishes, for execute()'s tail and the
\* abort of a queued job.
LEMMA SettleAndDrain ==
  ASSUME IInv, NEW j \in Jobs, NEW r \in Outcomes \ {"pending"},
         NEW act, NEW q,
         \/ IsStarted(phase[j]) /\ act = [active EXCEPT ![SessionOf[j]] = NoJob] /\ q = queued
         \/ j \in queued /\ act = active /\ q = queued \ {j},
         outcome' = [outcome EXCEPT ![j] = r],
         aborted' \in SUBSET Jobs,
         UNCHANGED <<stamp, closed>>,
         Drain(act, q, [phase EXCEPT ![j] = "settled"]),
         \/ shutdownDone' = (shutdownDone \/ (closed' /\ Busy(active') = {}))
         \/ j \in queued /\ UNCHANGED shutdownDone
  PROVE  IInv'
<1> DEFINE ph == [phase EXCEPT ![j] = "settled"]
<1>1. TypeOK /\ StampInv /\ WorkConserving /\ Coherent(active, queued, phase)
      /\ (\A k \in Jobs : (outcome[k] = "pending") <=> (phase[k] # "settled"))
      /\ (closed => queued = {}) /\ (shutdownDone <=> (closed /\ Busy(active) = {}))
  BY IInvCoherent DEF IInv
<1>2. SessionOf[j] \in Sessions
  BY SessionOfAssumption
<1>3. q \in SUBSET queued /\ q \in SUBSET Jobs
  BY <1>1 DEF TypeOK
<1>4. Busy(act) \in SUBSET Busy(active)
  BY <1>1 DEF Busy, TypeOK
<1>5. /\ Cardinality(Busy(act)) \in Nat /\ Cardinality(Busy(active)) \in Nat
      /\ Cardinality(Busy(act)) <= Cardinality(Busy(active))
  BY <1>4, BusyFinite, FS_Subset
<1>6. Coherent(act, q, ph)
  <2>1. act \in [Sessions -> Jobs \union {NoJob}] /\ ph \in [Jobs -> Phases]
    BY <1>1, <1>2 DEF TypeOK, Phases
  <2>2. \A s \in Sessions : act[s] # NoJob => IsStarted(ph[act[s]]) /\ SessionOf[act[s]] = s
    BY <1>1, <1>2, NoJobAssumption DEF Coherent, TypeOK, IsStarted
  <2>3. \A k \in Jobs : IsStarted(ph[k]) => act[SessionOf[k]] = k
    BY <1>1, <1>2, NoJobAssumption, SessionOfAssumption DEF Coherent, TypeOK, IsStarted
  <2>4. \A k \in Jobs : (k \in q) <=> (ph[k] = "queued")
    BY <1>1 DEF Coherent, TypeOK, IsStarted
  <2>5. Cardinality(Busy(act)) <= MaxActiveSessions
    <3>1. Cardinality(Busy(active)) <= MaxActiveSessions
      BY <1>1 DEF Coherent
    <3> QED
      BY <3>1, <1>5, OptionsAssumption
  <2>6. Cardinality(q) <= MaxQueued
    <3>1. /\ Cardinality(q) \in Nat /\ Cardinality(queued) \in Nat
          /\ Cardinality(q) <= Cardinality(queued)
      BY <1>1, <1>3, SmallerQueue DEF TypeOK
    <3>2. Cardinality(queued) <= MaxQueued
      BY <1>1 DEF Coherent
    <3> QED
      BY <3>1, <3>2, OptionsAssumption
  <2>7. ASSUME NEW s \in Sessions
        PROVE Cardinality({k \in q : SessionOf[k] = s}) <= MaxQueuedPerSession
    <3> DEFINE new == Cardinality({k \in q : SessionOf[k] = s})
               old == Cardinality({k \in queued : SessionOf[k] = s})
    <3>1. new \in Nat /\ old \in Nat /\ new <= old
      BY <1>1, <1>3, SmallerQueue DEF TypeOK
    <3>2. old <= MaxQueuedPerSession
      BY <1>1 DEF Coherent
    <3> HIDE DEF new, old
    <3>3. new <= MaxQueuedPerSession
      BY <3>1, <3>2, OptionsAssumption
    <3> QED
      BY <3>3 DEF new
  <2> QED
    BY <1>3, <2>1, <2>2, <2>3, <2>4, <2>5, <2>6, <2>7 DEF Coherent
<1>7. DrainReady(act, q)
  <2>1. CASE Cardinality(Busy(active)) >= MaxActiveSessions
    <3>1. Busy(act) = Busy(active) \ {SessionOf[j]} \/ Busy(act) = Busy(active)
      BY <1>1, <1>2 DEF Busy, TypeOK
    <3>2. Cardinality(Busy(act)) >= Cardinality(Busy(active)) - 1
      BY <3>1, <1>5, BusyFinite, FS_RemoveElement
    <3> QED
      BY <2>1, <3>2, <1>5, OptionsAssumption DEF DrainReady
  <2>2. CASE ~ (Cardinality(Busy(active)) >= MaxActiveSessions)
    <3>1. \A k \in queued : active[SessionOf[k]] # NoJob
      BY <1>1, <1>5, <2>2, OptionsAssumption DEF WorkConserving
    <3>2. \A k \in Idle(act, q) : SessionOf[k] = SessionOf[j]
      BY <1>1, <1>2, <1>3, <3>1, SessionOfAssumption DEF Idle, TypeOK
    <3> QED
      BY <3>2 DEF DrainReady
  <2> QED
    BY <2>1, <2>2
<1>8. \A k, l \in q : stamp[k] = stamp[l] => k = l
  BY <1>1, <1>3 DEF StampInv, Coherent
<1>9. DrainDone(act, q, ph)
  <2>1. stamp \in [Jobs -> Nat] /\ closed \in BOOLEAN /\ (closed => q = {})
    BY <1>1, <1>3 DEF TypeOK
  <2> QED
    BY <1>6, <1>7, <1>8, <2>1, DrainEffect
<1>10. TypeOK'
  BY <1>1, <1>9 DEF TypeOK, Coherent, Outcomes, DrainDone
<1>11. \A k \in Jobs : (outcome'[k] = "pending") <=> (phase'[k] # "settled")
  BY <1>1, <1>9 DEF TypeOK, DrainDone
<1>12. closed' => queued' = {}
  BY <1>1, <1>3, <1>9 DEF DrainDone
<1>13. shutdownDone' <=> (closed' /\ Busy(active') = {})
  <2>1. closed \in BOOLEAN /\ shutdownDone \in BOOLEAN
    BY <1>1 DEF TypeOK
  <2>2. CASE closed
    <3>1. shutdownDone => Busy(active') = {}
      BY <1>1, <1>4, <1>9, <2>2 DEF DrainDone
    <3>2. j \notin queued
      BY <1>1, <2>2
    <3> QED
      BY <2>1, <2>2, <3>1, <3>2
  <2>3. CASE ~ closed
    BY <1>1, <2>1, <2>3
  <2> QED
    BY <2>2, <2>3
<1>14. StampInv'
  BY <1>1, <1>9, StampKept DEF TypeOK, IsStarted, Coherent, DrainDone
<1>15. WorkConserving'
  BY <1>9 DEF WorkConserving, DrainDone
<1>16. Coherent(active', queued', phase')
  BY <1>9 DEF DrainDone
<1> QED
  BY <1>16, <1>10, <1>11, <1>12, <1>13, <1>14, <1>15, IInvFromParts

-----------------------------------------------------------------------------
(* One lemma per action                                                     *)

\* A rejected submit() changes nothing but its own promise.
LEMMA SubmitRejectedStep ==
  ASSUME IInv, NEW j \in Jobs, NEW b \in BOOLEAN, SubmitRejected(j, b)
  PROVE  IInv'
<1>1. TypeOK /\ StampInv
  BY DEF IInv
<1>2. TypeOK'
  BY <1>1 DEF TypeOK, SubmitRejected, Phases, Outcomes
<1>3. StampInv'
  BY <1>1, StampKept DEF SubmitRejected, TypeOK
<1>4. Coherent(active', queued', phase')
  BY <1>1, IInvCoherent DEF SubmitRejected, Coherent, TypeOK, IsStarted, Phases
<1> QED
  BY <1>1, <1>2, <1>3, <1>4, IInvCoherent, IInvFromParts
     DEF SubmitRejected, TypeOK, WorkConserving

\* submit() that starts its job: the slot it takes was free, and by
\* WorkConserving no queued job was waiting for it.
LEMMA SubmitStartStep ==
  ASSUME IInv, NEW j \in Jobs, SubmitStart(j)
  PROVE  IInv'
<1>1. TypeOK /\ StampInv /\ Coherent(active, queued, phase) /\ WorkConserving
  BY IInvCoherent DEF IInv
<1>2. SessionOf[j] \in Sessions /\ j # NoJob
  BY SessionOfAssumption, NoJobAssumption
<1>3. StampInv' /\ stamp' \in [Jobs -> Nat]
  BY <1>1, StampGiven DEF SubmitStart
<1>4. TypeOK'
  BY <1>1, <1>3 DEF TypeOK, SubmitStart, Phases
<1>5. Busy(active') = Busy(active) \union {SessionOf[j]} /\ SessionOf[j] \notin Busy(active)
  BY <1>1, <1>2 DEF Busy, SubmitStart, CanStart, TypeOK
<1>6. Cardinality(Busy(active')) = Cardinality(Busy(active)) + 1
  BY <1>5, BusyFinite, FS_AddElement
<1>7. Cardinality(Busy(active')) <= MaxActiveSessions
  BY <1>6, BusyFinite, OptionsAssumption DEF SubmitStart, CanStart
<1>8. Coherent(active', queued', phase')
  <2>1. \A s \in Sessions : active'[s] # NoJob =>
           IsStarted(phase'[active'[s]]) /\ SessionOf[active'[s]] = s
    BY <1>1, <1>2 DEF SubmitStart, Coherent, IsStarted, TypeOK
  <2>2. \A k \in Jobs : IsStarted(phase'[k]) => active'[SessionOf[k]] = k
    BY <1>1, <1>2, NoJobAssumption, SessionOfAssumption
       DEF SubmitStart, CanStart, Coherent, IsStarted, TypeOK
  <2>3. \A k \in Jobs : (k \in queued') <=> (phase'[k] = "queued")
    BY <1>1 DEF SubmitStart, Coherent, TypeOK
  <2> QED
    BY <1>1, <1>4, <1>7, <2>1, <2>2, <2>3 DEF SubmitStart, Coherent, TypeOK
<1>9. WorkConserving'
  <2>1. \A k \in queued : active[SessionOf[k]] # NoJob
    BY <1>1, BusyFinite, OptionsAssumption DEF SubmitStart, CanStart, WorkConserving
  <2> QED
    BY <1>1, <1>2, <2>1, SessionOfAssumption DEF SubmitStart, WorkConserving, TypeOK
<1>10. \A k \in Jobs : (outcome'[k] = "pending") <=> (phase'[k] # "settled")
  BY <1>1, IInvCoherent DEF SubmitStart, TypeOK
<1>11. (closed' => queued' = {}) /\ (shutdownDone' <=> (closed' /\ Busy(active') = {}))
  BY <1>1, IInvCoherent DEF SubmitStart
<1> QED
  BY <1>3, <1>4, <1>8, <1>9, <1>10, <1>11, IInvFromParts

\* submit() that queues its job stays within both queue options.
LEMMA SubmitQueueStep ==
  ASSUME IInv, NEW j \in Jobs, SubmitQueue(j)
  PROVE  IInv'
<1>1. TypeOK /\ StampInv /\ Coherent(active, queued, phase) /\ WorkConserving
  BY IInvCoherent DEF IInv
<1>2. SessionOf[j] \in Sessions /\ j \notin queued
  BY <1>1, SessionOfAssumption DEF SubmitQueue, Coherent
<1>3. StampInv' /\ stamp' \in [Jobs -> Nat]
  BY <1>1, StampGiven DEF SubmitQueue
<1>4. TypeOK'
  BY <1>1, <1>3 DEF TypeOK, SubmitQueue, Phases
<1>5. Cardinality(queued') <= MaxQueued
  <2>1. queued' = queued \union {j} /\ ~ (Cardinality(queued) >= MaxQueued)
    BY DEF SubmitQueue, QueueFull
  <2>2. IsFiniteSet(queued) /\ Cardinality(queued) \in Nat
    BY <1>1, SmallerQueue DEF TypeOK
  <2>3. Cardinality(queued') = Cardinality(queued) + 1
    BY <1>2, <2>1, <2>2, FS_AddElement
  <2> QED
    BY <2>1, <2>2, <2>3, OptionsAssumption
<1>6. ASSUME NEW s \in Sessions
      PROVE  Cardinality({k \in queued' : SessionOf[k] = s}) <= MaxQueuedPerSession
  <2> DEFINE Q == {k \in queued : SessionOf[k] = s}
  <2>1. Q \in SUBSET queued /\ IsFiniteSet(queued)
    BY <1>1, SmallerQueue DEF TypeOK
  <2>2. IsFiniteSet(Q) /\ Cardinality(Q) \in Nat
    BY <2>1, FS_Subset, FS_CardinalityType
  <2>3. CASE s = SessionOf[j]
    <3>1. {k \in queued' : SessionOf[k] = s} = Q \union {j} /\ j \notin Q
      BY <1>2, <2>3 DEF SubmitQueue
    <3>2. ~ (Cardinality(Q) >= MaxQueuedPerSession)
      BY <2>3 DEF SubmitQueue, QueueFull, Queued
    <3>3. Cardinality(Q \union {j}) = Cardinality(Q) + 1
      BY <2>2, <3>1, FS_AddElement
    <3> HIDE DEF Q
    <3>4. Cardinality(Q \union {j}) <= MaxQueuedPerSession
      BY <2>2, <3>2, <3>3, OptionsAssumption
    <3> QED
      BY <3>1, <3>4
  <2>4. CASE s # SessionOf[j]
    <3>1. {k \in queued' : SessionOf[k] = s} = Q
      BY <2>4 DEF SubmitQueue
    <3> QED
      BY <3>1, <1>1 DEF Coherent
  <2> QED
    BY <2>3, <2>4
<1>7. Coherent(active', queued', phase')
  <2>1. \A s \in Sessions : active'[s] # NoJob =>
           IsStarted(phase'[active'[s]]) /\ SessionOf[active'[s]] = s
    BY <1>1, NoJobAssumption DEF SubmitQueue, Coherent, IsStarted, TypeOK
  <2>2. \A k \in Jobs : /\ IsStarted(phase'[k]) => active'[SessionOf[k]] = k
                        /\ (k \in queued') <=> (phase'[k] = "queued")
    BY <1>1 DEF SubmitQueue, Coherent, IsStarted, TypeOK
  <2> QED
    BY <1>1, <1>4, <1>5, <1>6, <2>1, <2>2 DEF SubmitQueue, Coherent, TypeOK
<1>8. WorkConserving'
  <2>1. \/ active[SessionOf[j]] # NoJob
        \/ Cardinality(Busy(active)) = MaxActiveSessions
    BY <1>1, BusyFinite, OptionsAssumption DEF SubmitQueue, CanStart, Coherent
  <2> QED
    BY <1>1, <2>1 DEF SubmitQueue, WorkConserving
<1>9. \A k \in Jobs : (outcome'[k] = "pending") <=> (phase'[k] # "settled")
  BY <1>1, IInvCoherent DEF SubmitQueue, TypeOK
<1>10. (closed' => queued' = {}) /\ (shutdownDone' <=> (closed' /\ Busy(active') = {}))
  BY <1>1, IInvCoherent DEF SubmitQueue
<1> QED
  BY <1>3, <1>4, <1>7, <1>8, <1>9, <1>10, IInvFromParts

\* The abort of a queued job.
LEMMA AbortQueuedStep ==
  ASSUME IInv, NEW j \in Jobs, AbortQueued(j)
  PROVE  IInv'
<1>1. aborted' \in SUBSET Jobs /\ "cancelled" \in Outcomes \ {"pending"}
  BY DEF AbortQueued, IInv, TypeOK, Outcomes
<1> QED
  BY <1>1, SettleAndDrain DEF AbortQueued

\* execute()'s tail.
LEMMA SettleStep ==
  ASSUME IInv, NEW j \in Jobs, NEW r \in Outcomes \ {"pending"},
         IsStarted(phase[j]), Settle(j, r)
  PROVE  IInv'
<1>1. aborted' \in SUBSET Jobs
  BY DEF Settle, IInv, TypeOK
<1> QED
  BY <1>1, SettleAndDrain DEF Settle, CheckShutdown

\* The abort of a started job only marks its controller.
LEMMA AbortStartedStep ==
  ASSUME IInv, NEW j \in Jobs, AbortStarted(j)
  PROVE  IInv'
<1>1. TypeOK /\ StampInv
  BY DEF IInv
<1>2. TypeOK' /\ StampInv'
  BY <1>1, StampKept DEF TypeOK, AbortStarted
<1> QED
  BY <1>1, <1>2, IInvCoherent, IInvFromParts DEF AbortStarted, WorkConserving

\* The callback is entered.
LEMMA BeginStep ==
  ASSUME IInv, NEW j \in Jobs, Begin(j)
  PROVE  IInv'
<1>1. TypeOK /\ StampInv
  BY DEF IInv
<1>2. TypeOK' /\ StampInv'
  BY <1>1, StampKept DEF TypeOK, Begin, Phases
<1>3. Coherent(active', queued', phase')
  BY <1>1, <1>2, IInvCoherent DEF Begin, Coherent, TypeOK, IsStarted
<1>4. \A k \in Jobs : (outcome'[k] = "pending") <=> (phase'[k] # "settled")
  BY <1>1, IInvCoherent DEF Begin, TypeOK
<1> QED
  BY <1>1, <1>2, <1>3, <1>4, IInvCoherent, IInvFromParts DEF Begin, WorkConserving

\* shutdown() empties the queue and touches no started job.
LEMMA ShutdownStep ==
  ASSUME IInv, NEW b \in BOOLEAN, Shutdown(b)
  PROVE  IInv'
<1>1. TypeOK /\ StampInv /\ Coherent(active, queued, phase)
  BY IInvCoherent DEF IInv
<1>2. phase' \in [Jobs -> Phases] /\ outcome' \in [Jobs -> Outcomes] /\ aborted' \in SUBSET Jobs
  BY <1>1 DEF TypeOK, Shutdown, Phases, Outcomes, Busy
<1>3. TypeOK'
  BY <1>1, <1>2 DEF TypeOK, Shutdown, CheckShutdown
<1>4. StampInv'
  BY <1>1, StampKept DEF Shutdown, TypeOK
<1>5. Coherent(active', queued', phase')
  <2>1. \A s \in Sessions : Cardinality({j \in queued' : SessionOf[j] = s}) = 0
    <3>1. \A s \in Sessions : {j \in queued' : SessionOf[j] = s} = {}
      BY DEF Shutdown
    <3> QED
      BY <3>1, FS_EmptySet
  <2>2. Cardinality(queued') = 0
    BY FS_EmptySet DEF Shutdown
  <2>3. \A s \in Sessions : active'[s] # NoJob =>
           IsStarted(phase'[active'[s]]) /\ SessionOf[active'[s]] = s
    BY <1>1, NoJobAssumption DEF Shutdown, Coherent, IsStarted, TypeOK
  <2>4. \A k \in Jobs : /\ IsStarted(phase'[k]) => active'[SessionOf[k]] = k
                        /\ (k \in queued') <=> (phase'[k] = "queued")
    BY <1>1 DEF Shutdown, Coherent, IsStarted, TypeOK
  <2>5. /\ Cardinality(Busy(active')) <= MaxActiveSessions
        /\ Cardinality(queued') <= MaxQueued
        /\ \A s \in Sessions : Cardinality({j \in queued' : SessionOf[j] = s}) <= MaxQueuedPerSession
    BY <1>1, <2>1, <2>2, OptionsAssumption DEF Shutdown, Coherent
  <2>6. /\ active' \in [Sessions -> Jobs \union {NoJob}]
        /\ queued' \in SUBSET Jobs
    BY <1>3 DEF TypeOK
  <2> QED
    BY <1>2, <2>3, <2>4, <2>5, <2>6 DEF Coherent
<1>6. \A k \in Jobs : (outcome'[k] = "pending") <=> (phase'[k] # "settled")
  BY <1>1, IInvCoherent DEF Shutdown, TypeOK
<1>7. shutdownDone' <=> (closed' /\ Busy(active') = {})
  BY <1>1, IInvCoherent DEF Shutdown, CheckShutdown
<1>8. WorkConserving' /\ (closed' => queued' = {})
  BY DEF Shutdown, WorkConserving
<1> QED
  BY <1>3, <1>4, <1>5, <1>6, <1>7, <1>8, IInvFromParts

\* Every step preserves the inductive invariant.
LEMMA NextIInv == IInv /\ [Next]_vars => IInv'
<1> SUFFICES ASSUME IInv, [Next]_vars PROVE IInv'
  OBVIOUS
<1>1. ASSUME NEW j \in Jobs, NEW b \in BOOLEAN, SubmitRejected(j, b) PROVE IInv'
  BY <1>1, SubmitRejectedStep
<1>2. ASSUME NEW j \in Jobs, SubmitStart(j) PROVE IInv'
  BY <1>2, SubmitStartStep
<1>3. ASSUME NEW j \in Jobs, SubmitQueue(j) PROVE IInv'
  BY <1>3, SubmitQueueStep
<1>4. ASSUME NEW j \in Jobs, AbortQueued(j) PROVE IInv'
  BY <1>4, AbortQueuedStep
<1>5. ASSUME NEW j \in Jobs, AbortStarted(j) PROVE IInv'
  BY <1>5, AbortStartedStep
<1>6. ASSUME NEW j \in Jobs, Begin(j) PROVE IInv'
  BY <1>6, BeginStep
<1>7. ASSUME NEW j \in Jobs, CancelBeforeStart(j) PROVE IInv'
  BY <1>7, SettleStep DEF CancelBeforeStart, IsStarted, Outcomes
<1>8. ASSUME NEW j \in Jobs, NEW threw \in BOOLEAN, Finish(j, threw) PROVE IInv'
  BY <1>8, SettleStep DEF Finish, IsStarted, Outcomes
<1>9. ASSUME NEW b \in BOOLEAN, Shutdown(b) PROVE IInv'
  BY <1>9, ShutdownStep
<1>10. CASE UNCHANGED vars
  <2>1. TypeOK' /\ StampInv'
    BY <1>10 DEF IInv, TypeOK, StampInv, Admitted, vars
  <2> QED
    BY <1>10, <2>1, IInvCoherent, IInvFromParts DEF IInv, WorkConserving, vars
<1> QED
  BY <1>1, <1>2, <1>3, <1>4, <1>5, <1>6, <1>7, <1>8, <1>9, <1>10 DEF Next

-----------------------------------------------------------------------------
(* The theorems                                                             *)

\* The variables keep their types whatever calls are made.
THEOREM TypeCorrect == Spec => []TypeOK
<1>1. Init => IInv
  BY InitIInv
<1>2. IInv /\ [Next]_vars => IInv'
  BY NextIInv
<1>3. IInv => TypeOK
  BY DEF IInv
<1> QED
  BY <1>1, <1>2, <1>3, PTL DEF Spec

\* One callback at a time per session: execute() never runs two jobs of a
\* session at once, for any number of sessions, jobs and slots.
THEOREM SingleWriterHolds == Spec => []SingleWriter
<1>1. Init => IInv
  BY InitIInv
<1>2. IInv /\ [Next]_vars => IInv'
  BY NextIInv
<1>3. IInv => SingleWriter
  BY DEF IInv
<1> QED
  BY <1>1, <1>2, <1>3, PTL DEF Spec

\* drain() loses no wakeup: a job waits only while it could not run.
THEOREM WorkConservingHolds == Spec => []WorkConserving
<1>1. Init => IInv
  BY InitIInv
<1>2. IInv /\ [Next]_vars => IInv'
  BY NextIInv
<1>3. IInv => WorkConserving
  BY DEF IInv
<1> QED
  BY <1>1, <1>2, <1>3, PTL DEF Spec

\* The active map and the queue never outgrow maxActiveSessions, maxQueued and
\* maxQueuedPerSession.
THEOREM BoundedHolds == Spec => []Bounded
<1>1. Init => IInv
  BY InitIInv
<1>2. IInv /\ [Next]_vars => IInv'
  BY NextIInv
<1>3. IInv => Bounded
  BY DEF IInv
<1> QED
  BY <1>1, <1>2, <1>3, PTL DEF Spec

\* The array holds exactly the pending jobs whose callback was not reached, and none
\* once shutdown() has been called.
THEOREM QueueConsistentHolds == Spec => []QueueConsistent
<1>1. Init => IInv
  BY InitIInv
<1>2. IInv /\ [Next]_vars => IInv'
  BY NextIInv
<1>3. IInv => QueueConsistent
  BY DEF IInv
<1> QED
  BY <1>1, <1>2, <1>3, PTL DEF Spec

\* The shutdown promise has resolved exactly when admission is closed and the last
\* callback has settled: it is neither early nor forgotten.
THEOREM ShutdownJoinsHolds == Spec => []ShutdownJoins
<1>1. Init => IInv
  BY InitIInv
<1>2. IInv /\ [Next]_vars => IInv'
  BY NextIInv
<1>3. IInv => ShutdownJoins
  BY DEF IInv
<1> QED
  BY <1>1, <1>2, <1>3, PTL DEF Spec

\* A step that drains after settling j starts only the oldest queued job of a
\* session.
LEMMA DrainIsFifo ==
  ASSUME IInv, NEW act, NEW q, NEW ph, q \in SUBSET queued,
         Drain(act, q, ph),
         NEW h \in Jobs, NEW k \in q, h # k, SessionOf[k] = SessionOf[h],
         ~ IsStarted(ph[h]), IsStarted(phase'[h])
  PROVE  stamp[h] # 0 /\ stamp[h] < stamp[k]
<1>1. TypeOK /\ StampInv /\ QueueConsistent
  BY DEF IInv
<1>2. h \in Startable(act, q)
  BY DEF Drain, IsStarted
<1>3. h \in q /\ stamp[h] <= stamp[k]
  BY <1>2 DEF Startable, Heads
<1>4. h \in Admitted /\ k \in Admitted /\ stamp[h] # stamp[k]
  BY <1>1, <1>3 DEF StampInv, QueueConsistent, TypeOK
<1> QED
  BY <1>1, <1>3, <1>4 DEF Admitted, TypeOK

\* Jobs of a session start in submission order, whether drain() or submit()
\* starts them.
THEOREM FifoHolds == Spec => FifoPerSession
<1> DEFINE Fifo(j, k) ==
      (/\ j \notin Started /\ j \in Started'
       /\ k \in queued /\ SessionOf[k] = SessionOf[j] /\ k # j)
      => (stamp[j] # 0 /\ stamp[j] < stamp[k])
<1>1. Init => IInv
  BY InitIInv
<1>2. IInv /\ [Next]_vars => IInv'
  BY NextIInv
<1>3. IInv /\ [Next]_vars => [\A j, k \in Jobs : Fifo(j, k)]_vars
  <2> SUFFICES ASSUME IInv, Next, NEW h \in Jobs, NEW k \in Jobs,
                      h \notin Started, h \in Started',
                      k \in queued, SessionOf[k] = SessionOf[h], k # h
               PROVE  stamp[h] # 0 /\ stamp[h] < stamp[k]
    OBVIOUS
  <2>0. TypeOK /\ WorkConserving /\ QueueConsistent /\ ~ IsStarted(phase[h]) /\ IsStarted(phase'[h])
    BY DEF IInv, Started, IsStarted
  <2>1. ASSUME NEW j \in Jobs, SubmitStart(j) PROVE FALSE
    <3>1. h = j
      BY <2>0, <2>1 DEF SubmitStart, TypeOK, IsStarted
    <3>2. active[SessionOf[k]] = NoJob /\ Cardinality(Busy(active)) < MaxActiveSessions
      BY <2>1, <3>1 DEF SubmitStart, CanStart
    <3> QED
      BY <2>0, <3>2, BusyFinite, OptionsAssumption DEF WorkConserving
  <2>2. ASSUME NEW j \in Jobs, AbortQueued(j) PROVE FALSE
    <3> DEFINE q == queued \ {j}
               Before == {l \in Heads(active, q) : stamp[l] < stamp[h]}
    <3>1. h \in Startable(active, q)
      BY <2>0, <2>2 DEF AbortQueued, Drain, IsStarted, TypeOK
    <3>2. /\ h \in queued /\ active[SessionOf[h]] = NoJob
          /\ Cardinality(Busy(active)) + Cardinality(Before) < MaxActiveSessions
      BY <3>1 DEF Startable, Heads
    <3>3. Cardinality(Before) \in Nat
      <4>1. Before \in SUBSET Jobs
        BY <2>0 DEF Heads, TypeOK
      <4> QED
        BY <4>1, FiniteAssumption, FS_Subset, FS_CardinalityType
    <3>4. Cardinality(Busy(active)) = MaxActiveSessions
      BY <2>0, <3>2 DEF WorkConserving
    <3> QED
      BY <3>2, <3>3, <3>4, OptionsAssumption
  <2>4. ASSUME NEW j \in Jobs, NEW r, Settle(j, r) PROVE stamp[h] # 0 /\ stamp[h] < stamp[k]
    <3>1. Drain([active EXCEPT ![SessionOf[j]] = NoJob], queued, [phase EXCEPT ![j] = "settled"])
      BY <2>4 DEF Settle
    <3>2. ~ IsStarted([phase EXCEPT ![j] = "settled"][h])
      BY <2>0 DEF TypeOK, IsStarted
    <3> QED
      BY <2>0, <3>1, <3>2, DrainIsFifo
  <2>5. ASSUME NEW j \in Jobs, SubmitQueue(j) PROVE FALSE
    BY <2>0, <2>5 DEF SubmitQueue, TypeOK, IsStarted
  <2>6. ASSUME NEW j \in Jobs, NEW b \in BOOLEAN, SubmitRejected(j, b) PROVE FALSE
    BY <2>0, <2>6 DEF SubmitRejected, TypeOK, IsStarted
  <2>7. ASSUME NEW j \in Jobs, AbortStarted(j) \/ Begin(j) PROVE FALSE
    BY <2>0, <2>7 DEF AbortStarted, Begin, TypeOK, IsStarted
  <2>8. ASSUME NEW b \in BOOLEAN, Shutdown(b) PROVE FALSE
    BY <2>0, <2>8 DEF Shutdown, TypeOK, IsStarted
  <2> QED
    BY <2>1, <2>2, <2>4, <2>5, <2>6, <2>7, <2>8 DEF Next, CancelBeforeStart, Finish
<1> QED
  BY <1>1, <1>2, <1>3, PTL DEF Spec, FifoPerSession

\* A job that is not pending has its phase settled, and drain() touches only queued
\* jobs.
LEMMA SettledKept ==
  ASSUME IInv, NEW k \in Jobs, outcome[k] # "pending", Next
  PROVE  outcome'[k] = outcome[k] /\ phase'[k] = "settled"
<1>1. TypeOK /\ QueueConsistent
  BY DEF IInv
<1>2. phase[k] = "settled" /\ k \notin queued
  BY <1>1 DEF QueueConsistent, TypeOK
<1>3. ASSUME NEW act, NEW q, NEW ph, q \in SUBSET queued, Drain(act, q, ph)
      PROVE  phase'[k] = ph[k]
  BY <1>2, <1>3 DEF Drain, Startable, Heads
<1>4. ASSUME NEW j \in Jobs, NEW b \in BOOLEAN, SubmitRejected(j, b)
      PROVE  outcome'[k] = outcome[k] /\ phase'[k] = "settled"
  BY <1>1, <1>2, <1>4 DEF SubmitRejected, TypeOK
<1>5. ASSUME NEW j \in Jobs, SubmitStart(j) \/ SubmitQueue(j) \/ AbortStarted(j) \/ Begin(j)
      PROVE  outcome'[k] = outcome[k] /\ phase'[k] = "settled"
  BY <1>1, <1>2, <1>5 DEF SubmitStart, SubmitQueue, AbortStarted, Begin, TypeOK
<1>6. ASSUME NEW j \in Jobs, AbortQueued(j)
      PROVE  outcome'[k] = outcome[k] /\ phase'[k] = "settled"
  <2>1. Drain(active, queued \ {j}, [phase EXCEPT ![j] = "settled"]) /\ j # k
    BY <1>2, <1>6 DEF AbortQueued
  <2>2. phase'[k] = [phase EXCEPT ![j] = "settled"][k]
    BY <1>3, <2>1
  <2> QED
    BY <1>1, <1>2, <1>6, <2>1, <2>2 DEF AbortQueued, TypeOK
<1>7. ASSUME NEW j \in Jobs, NEW r, phase[j] \in {"starting", "running"}, Settle(j, r)
      PROVE  outcome'[k] = outcome[k] /\ phase'[k] = "settled"
  <2>1. /\ Drain([active EXCEPT ![SessionOf[j]] = NoJob], queued, [phase EXCEPT ![j] = "settled"])
        /\ j # k
    BY <1>2, <1>7 DEF Settle
  <2>2. phase'[k] = [phase EXCEPT ![j] = "settled"][k]
    BY <1>3, <2>1
  <2> QED
    BY <1>1, <1>2, <1>7, <2>1, <2>2 DEF Settle, TypeOK
<1>8. ASSUME NEW b \in BOOLEAN, Shutdown(b)
      PROVE  outcome'[k] = outcome[k] /\ phase'[k] = "settled"
  BY <1>1, <1>2, <1>8 DEF Shutdown, TypeOK
<1> QED
  BY <1>4, <1>5, <1>6, <1>7, <1>8 DEF Next, CancelBeforeStart, Finish

\* A submit() promise settles once: no late completion, abort or shutdown changes its
\* outcome or starts its callback again.
THEOREM SettlesOnceHolds == Spec => SettlesOnce
<1>1. Init => IInv
  BY InitIInv
<1>2. IInv /\ [Next]_vars => IInv'
  BY NextIInv
<1>3. IInv /\ [Next]_vars => [\A j \in Jobs : outcome[j] # "pending" =>
                               outcome'[j] = outcome[j] /\ phase'[j] = "settled"]_vars
  BY SettledKept
<1> QED
  BY <1>1, <1>2, <1>3, PTL DEF Spec, SettlesOnce
=============================================================================
