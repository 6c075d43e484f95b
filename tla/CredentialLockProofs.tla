------------------------ MODULE CredentialLockProofs ------------------------
(***************************************************************************)
(* Proofs about the credential lock, for every set of callers and          *)
(* processes: its critical sections exclude each other, and it implements  *)
(* CredentialMutex.  The chain of promises leaves one contender in each    *)
(* process; between processes the bakery decides, although its looks at    *)
(* the ticket files are spread over time and processes die in between.     *)
(***************************************************************************)
EXTENDS CredentialLock, TLAPS

Numbered(c) == pc[c] \in {"waiting", "scanning", "critical"}

\* The order of numbered tickets.
Before(c, d) ==
    \/ file[c].ticket < file[d].ticket
    \/ file[c].ticket = file[d].ticket /\ c < d

\* c has looked at the ticket of d and was not held up by it, or by any other.
Past(c, d) ==
    \/ pc[c] = "critical"
    \/ pc[c] = "scanning" /\ d \notin todo[c] /\ ~blocked[c]

\* A call under way is one of a process that runs.
Lives ==
    \A c \in Callers : Inside(c) \/ pc[c] = "queued" => ProcOf[c] \in alive

\* A contender is the head of its chain.
Chain == \A c \in Callers : Inside(c) => PreviousDone(c)

\* Without a directory one process runs, and nobody has a ticket.
Private ==
    ~lockDirectory =>
        /\ \A p, q \in alive : p = q
        /\ \A c \in Callers : pc[c] \notin {"choosing", "waiting", "scanning"}

\* The file of a contender says how far it is.
Tells ==
    lockDirectory =>
        \A c \in Callers :
            /\ Inside(c) => file[c].published
            /\ pc[c] = "choosing" => file[c].choosing
            /\ Numbered(c) => ~file[c].choosing

\* Whoever c has got past is numbered behind it, or will be: one that is still
\* choosing has c's ticket ahead of it, or has counted it in.
Ordered ==
    lockDirectory =>
        \A c, d \in Callers :
            c # d /\ Past(c, d) =>
                /\ Numbered(d) => Before(c, d)
                /\ pc[d] = "choosing" => c \in todo[d] \/ highest[d] >= file[c].ticket

Inv == TypeOK /\ Lives /\ Chain /\ Private /\ Tells /\ Ordered

\* The invariant holds initially.
LEMMA InitInv == Init => Inv
  <1>. SUFFICES ASSUME Init PROVE Inv OBVIOUS
  <1>1. TypeOK
    <2>1. alive \subseteq Procs BY DEF Init
    <2>2. NoTicket \in Tickets BY DEF NoTicket, Tickets
    <2>. QED BY <2>1, <2>2 DEF Init, TypeOK, Phases
  <1>2. Lives /\ Chain /\ Tells /\ Ordered
    BY DEF Init, Lives, Chain, Tells, Ordered, Inside, Numbered, Past
  <1>3. Private
    <2>. SUFFICES ASSUME ~lockDirectory PROVE Private BY DEF Private
    <2>1. PICK p \in Procs : alive = {p} BY DEF Init
    <2>. QED BY <2>1 DEF Init, Private
  <1>. QED BY <1>1, <1>2, <1>3 DEF Inv

\* At most one call of a process contends.
LEMMA OneContender == Inv => OneContenderPerProcess
  BY DEF Inv, Chain, PreviousDone, OneContenderPerProcess

\* Nobody gets past a caller that got past it; and without a directory one
\* process with one contender runs.
LEMMA Exclusion == Inv => MutualExclusion
  <1>. SUFFICES ASSUME Inv, NEW c \in Callers, NEW d \in Callers,
                       pc[c] = "critical", pc[d] = "critical", c # d
                PROVE  FALSE
    BY DEF MutualExclusion
  <1>1. CASE lockDirectory
    <2>1. Before(c, d) /\ Before(d, c) BY <1>1 DEF Inv, Ordered, Past, Numbered
    <2>2. file[c].ticket \in Nat /\ file[d].ticket \in Nat /\ c \in Nat /\ d \in Nat
      BY CallersAssumption DEF Inv, TypeOK, Tickets
    <2>. QED BY <2>1, <2>2 DEF Before
  <1>2. CASE ~lockDirectory
    <2>1. ProcOf[c] = ProcOf[d] BY <1>2 DEF Inv, Lives, Private, Inside
    <2>. QED BY <2>1, OneContender DEF OneContenderPerProcess, Inside
  <1>. QED BY <1>1, <1>2

-----------------------------------------------------------------------------
(* The chain.                                                               *)

\* withCredentialLock keeps the invariant: the head of a chain stays.
LEMMA CallInv == ASSUME Inv, NEW c \in Callers, Call(c) PROVE Inv'
  <1>1. ProcOf[c] \in Procs /\ tails[ProcOf[c]] \in Seq(Callers) BY ProcOfAssumption DEF Inv, TypeOK
  <1>2. TypeOK' BY <1>1 DEF Inv, TypeOK, Call, Phases
  <1>3. Chain'
    <2>. SUFFICES ASSUME NEW d \in Callers, Inside(d)' PROVE PreviousDone(d)' BY DEF Chain
    <2>1. Inside(d) /\ PreviousDone(d) BY DEF Inv, TypeOK, Chain, Call, Inside
    <2>2. ProcOf[d] \in Procs BY ProcOfAssumption
    <2>3. CASE ProcOf[d] = ProcOf[c]
      <3>. DEFINE s == tails[ProcOf[c]]
      <3>1. s \in Seq(Callers) /\ s # <<>> /\ Head(s) = d BY <1>1, <2>1, <2>3 DEF PreviousDone
      <3>2. Append(s, c) # <<>> /\ Head(Append(s, c)) = Head(s) BY <3>1
      <3>3. tails'[ProcOf[d]] = Append(s, c) BY <1>1, <2>3 DEF Inv, TypeOK, Call
      <3>. QED BY <3>1, <3>2, <3>3 DEF PreviousDone
    <2>4. CASE ProcOf[d] # ProcOf[c] BY <1>1, <2>1, <2>2, <2>4 DEF Inv, TypeOK, Call, PreviousDone
    <2>. QED BY <2>3, <2>4
  <1>4. Lives' /\ Private' /\ Tells' BY DEF Inv, TypeOK, Lives, Private, Tells, Call, Inside, Numbered
  <1>5. Ordered' BY DEF Inv, TypeOK, Ordered, Call, Past, Numbered, Before
  <1>. QED BY <1>2, <1>3, <1>4, <1>5 DEF Inv

\* A resolved tail is that of a call which no longer contends.
LEMMA SettleTailInv == ASSUME Inv, NEW c \in Callers, SettleTail(c) PROVE Inv'
  <1>1. ProcOf[c] \in Procs /\ tails[ProcOf[c]] \in Seq(Callers) BY ProcOfAssumption DEF Inv, TypeOK
  <1>2. Tail(tails[ProcOf[c]]) \in Seq(Callers) BY <1>1 DEF SettleTail, PreviousDone
  <1>3. TypeOK' BY <1>1, <1>2 DEF Inv, TypeOK, SettleTail
  <1>4. Chain'
    <2>. SUFFICES ASSUME NEW d \in Callers, Inside(d)' PROVE PreviousDone(d)' BY DEF Chain
    <2>1. Inside(d) /\ PreviousDone(d) BY DEF Inv, Chain, SettleTail, Inside
    <2>2. ProcOf[d] # ProcOf[c] BY <2>1 DEF SettleTail, PreviousDone, Inside
    <2>. QED BY <2>1, <2>2, ProcOfAssumption DEF Inv, TypeOK, SettleTail, PreviousDone
  <1>5. Lives' /\ Private' /\ Tells' BY DEF Inv, Lives, Private, Tells, SettleTail, Inside, Numbered
  <1>6. Ordered' BY DEF Inv, Ordered, SettleTail, Past, Numbered, Before
  <1>. QED BY <1>3, <1>4, <1>5, <1>6 DEF Inv

\* Without a directory the head of the chain enters.
LEMMA EnterInProcessInv == ASSUME Inv, NEW c \in Callers, EnterInProcess(c) PROVE Inv'
  <1>1. TypeOK' BY DEF Inv, TypeOK, EnterInProcess, Phases
  <1>2. Lives' /\ Chain' BY DEF Inv, TypeOK, Lives, Chain, EnterInProcess, Inside, PreviousDone
  <1>3. Private' /\ Tells' /\ Ordered' BY DEF Inv, TypeOK, Private, Tells, Ordered, EnterInProcess
  <1>. QED BY <1>1, <1>2, <1>3 DEF Inv

-----------------------------------------------------------------------------
(* The bakery.                                                              *)

\* A choosing ticket: whoever is past the caller has its ticket still read.
LEMMA AnnounceInv == ASSUME Inv, NEW c \in Callers, Announce(c) PROVE Inv'
  <1>1. Ticket(TRUE, 0) \in Tickets BY DEF Ticket, Tickets
  <1>2. TypeOK' BY <1>1 DEF Inv, TypeOK, Announce, Phases, Others
  <1>3. Lives' /\ Chain' BY DEF Inv, TypeOK, Lives, Chain, Announce, Inside, PreviousDone
  <1>4. Private' BY DEF Announce, Private
  <1>5. Tells' BY DEF Inv, TypeOK, Tells, Announce, Inside, Numbered, Ticket
  <1>6. Ordered'
    <2>. SUFFICES ASSUME lockDirectory', NEW a \in Callers, NEW d \in Callers, a # d, Past(a, d)'
         PROVE  /\ Numbered(d)' => Before(a, d)'
                /\ pc'[d] = "choosing" => a \in todo'[d] \/ highest'[d] >= file'[a].ticket
      BY DEF Ordered
    <2>1. a # c /\ pc'[a] = pc[a] /\ file'[a] = file[a] /\ lockDirectory /\ Past(a, d)
      BY DEF Inv, TypeOK, Announce, Past
    <2>2. CASE d = c
      <3>1. pc'[c] = "choosing" /\ a \in todo'[c] BY <2>1, <2>2 DEF Inv, TypeOK, Announce, Others
      <3>. QED BY <2>2, <3>1 DEF Numbered
    <2>3. CASE d # c
      <3>1. pc'[d] = pc[d] /\ file'[d] = file[d] /\ todo'[d] = todo[d] /\ highest'[d] = highest[d]
        BY <2>3 DEF Inv, TypeOK, Announce
      <3>. QED BY <2>1, <3>1 DEF Inv, Ordered, Numbered, Before
    <2>. QED BY <2>2, <2>3
  <1>. QED BY <1>2, <1>3, <1>4, <1>5, <1>6 DEF Inv

\* A contender's ticket stands, so no look removes or misses it.
LEMMA ContenderStands ==
    ASSUME Inv, lockDirectory, NEW d \in Callers, Inside(d) PROVE Standing(d)
  BY DEF Inv, Lives, Tells, Standing

\* One look removes at most the ticket of somebody who no longer contends.
LEMMA ReadTicketKeeps ==
    ASSUME Inv, lockDirectory, NEW c \in Callers, NEW d \in Callers, ReadTicket(c, d)
    PROVE  /\ file' \in [Callers -> Tickets]
           /\ todo' \in [Callers -> SUBSET Callers]
           /\ \A e \in Callers : Inside(e) => file'[e] = file[e]
  <1>1. NoTicket \in Tickets BY DEF NoTicket, Tickets
  <1>. QED BY <1>1, ContenderStands DEF Inv, TypeOK, ReadTicket

\* A look while choosing counts the ticket in.
LEMMA LookInv == ASSUME Inv, NEW c \in Callers, NEW d \in Callers, Look(c, d) PROVE Inv'
  <1>1. lockDirectory BY DEF Inv, Private, Look
  <1>2. ReadTicket(c, d) /\ UNCHANGED <<alive, lockDirectory, tails, pc, blocked>> BY DEF Look
  <1>3. /\ file' \in [Callers -> Tickets] /\ todo' \in [Callers -> SUBSET Callers]
        /\ \A e \in Callers : Inside(e) => file'[e] = file[e]
    BY <1>1, <1>2, ReadTicketKeeps
  <1>4. highest' \in [Callers -> Nat] BY DEF Inv, TypeOK, Look, Tickets
  <1>5. TypeOK' BY <1>2, <1>3, <1>4 DEF Inv, TypeOK
  <1>6. Lives' /\ Chain' /\ Private' BY <1>2 DEF Inv, Lives, Chain, Private, Inside, PreviousDone
  <1>7. Tells' BY <1>2, <1>3 DEF Inv, Tells, Inside, Numbered
  <1>8. Ordered'
    <2>. SUFFICES ASSUME NEW a \in Callers, NEW b \in Callers, a # b, Past(a, b)'
                  PROVE  /\ Numbered(b)' => Before(a, b)'
                         /\ pc'[b] = "choosing" => a \in todo'[b] \/ highest'[b] >= file'[a].ticket
      BY DEF Ordered
    <2>1. pc[c] = "choosing" BY DEF Look
    <2>2. a # c /\ Past(a, b) BY <1>2, <2>1 DEF Past, ReadTicket, Inv, TypeOK
    <2>3. Inside(a) /\ file'[a] = file[a] BY <1>3, <2>2 DEF Past, Inside
    <2>4. Numbered(b)' => Before(a, b)'
      BY <1>1, <1>2, <1>3, <2>2, <2>3 DEF Inv, Ordered, Numbered, Before, Inside
    <2>5. ASSUME pc'[b] = "choosing" PROVE a \in todo'[b] \/ highest'[b] >= file'[a].ticket
      <3>1. a \in todo[b] \/ highest[b] >= file[a].ticket BY <1>1, <1>2, <2>2, <2>5 DEF Inv, Ordered
      <3>2. highest[b] \in Nat /\ highest'[b] \in Nat /\ file[a].ticket \in Nat
        BY <1>4 DEF Inv, TypeOK, Tickets
      <3>3. highest'[b] >= highest[b] BY <3>2 DEF Look, Inv, TypeOK, Tickets
      <3>4. CASE b = c /\ a = d
        <4>1. Standing(d) BY <1>1, <2>3, <3>4, ContenderStands
        <4>. QED BY <2>3, <3>2, <3>4, <4>1 DEF Look, Inv, TypeOK
      <3>5. CASE ~(b = c /\ a = d)
        <4>1. a \in todo[b] => a \in todo'[b] BY <1>2, <3>5 DEF ReadTicket, Inv, TypeOK
        <4>. QED BY <2>3, <3>1, <3>2, <3>3, <4>1
      <3>. QED BY <3>4, <3>5
    <2>. QED BY <2>4, <2>5
  <1>. QED BY <1>5, <1>6, <1>7, <1>8 DEF Inv

\* The number is larger than that of everybody who is past the caller.
LEMMA PublishNumberInv == ASSUME Inv, NEW c \in Callers, PublishNumber(c) PROVE Inv'
  <1>1. lockDirectory BY DEF Inv, Private, PublishNumber
  <1>2. highest[c] \in Nat /\ Ticket(FALSE, highest[c] + 1) \in Tickets
    BY DEF Inv, TypeOK, Ticket, Tickets
  <1>3. TypeOK' BY <1>2 DEF Inv, TypeOK, PublishNumber, Phases
  <1>4. Lives' /\ Chain' BY DEF Inv, TypeOK, Lives, Chain, PublishNumber, Inside, PreviousDone
  <1>5. Private' BY <1>1 DEF PublishNumber, Private
  <1>6. Tells' BY DEF Inv, TypeOK, Tells, PublishNumber, Inside, Numbered, Ticket
  <1>7. Ordered'
    <2>. SUFFICES ASSUME NEW a \in Callers, NEW b \in Callers, a # b, Past(a, b)'
                  PROVE  /\ Numbered(b)' => Before(a, b)'
                         /\ pc'[b] = "choosing" => a \in todo'[b] \/ highest'[b] >= file'[a].ticket
      BY DEF Ordered
    <2>1. a # c /\ Past(a, b) /\ file'[a] = file[a] BY DEF PublishNumber, Past, Inv, TypeOK
    <2>2. CASE b = c
      <3>1. highest[c] >= file[a].ticket BY <1>1, <2>1, <2>2 DEF PublishNumber, Inv, Ordered
      <3>2. file'[c].ticket = highest[c] + 1 BY DEF PublishNumber, Inv, TypeOK, Ticket
      <3>3. file[a].ticket \in Nat BY DEF Inv, TypeOK, Tickets
      <3>4. Before(a, b)' BY <1>2, <2>1, <2>2, <3>1, <3>2, <3>3 DEF Before
      <3>5. pc'[b] = "waiting" BY <2>2 DEF PublishNumber, Inv, TypeOK
      <3>. QED BY <3>4, <3>5
    <2>3. CASE b # c
      BY <1>1, <2>1, <2>3 DEF PublishNumber, Inv, TypeOK, Ordered, Numbered, Before
    <2>. QED BY <2>2, <2>3
  <1>. QED BY <1>3, <1>4, <1>5, <1>6, <1>7 DEF Inv

\* A look while scanning passes only what is numbered behind the caller.
LEMMA ScanInv == ASSUME Inv, NEW c \in Callers, NEW d \in Callers, Scan(c, d) PROVE Inv'
  <1>1. lockDirectory BY DEF Inv, Private, Scan
  <1>2. ReadTicket(c, d) /\ UNCHANGED <<alive, lockDirectory, tails, pc, highest>> BY DEF Scan
  <1>3. /\ file' \in [Callers -> Tickets] /\ todo' \in [Callers -> SUBSET Callers]
        /\ \A e \in Callers : Inside(e) => file'[e] = file[e]
    BY <1>1, <1>2, ReadTicketKeeps
  <1>4. TypeOK' BY <1>2, <1>3 DEF Inv, TypeOK, Scan
  <1>5. Lives' /\ Chain' /\ Private' BY <1>2 DEF Inv, Lives, Chain, Private, Inside, PreviousDone
  <1>6. Tells' BY <1>2, <1>3 DEF Inv, Tells, Inside, Numbered
  <1>7. Ordered'
    <2>. SUFFICES ASSUME NEW a \in Callers, NEW b \in Callers, a # b, Past(a, b)'
                  PROVE  /\ Numbered(b)' => Before(a, b)'
                         /\ pc'[b] = "choosing" => a \in todo'[b] \/ highest'[b] >= file'[a].ticket
      BY DEF Ordered
    <2>1. pc[c] = "scanning" BY DEF Scan
    <2>2. Inside(a) /\ file'[a] = file[a] BY <1>2, <1>3 DEF Past, Inside
    <2>3. Numbered(b) => file'[b] = file[b] BY <1>3 DEF Numbered, Inside
    <2>4. b # c => todo'[b] = todo[b] BY <1>2 DEF ReadTicket, Inv, TypeOK
    <2>5. CASE Past(a, b)
      <3>1. /\ Numbered(b) => Before(a, b)
            /\ pc[b] = "choosing" => a \in todo[b] \/ highest[b] >= file[a].ticket
        BY <1>1, <2>5 DEF Inv, Ordered
      <3>. QED BY <1>2, <2>1, <2>2, <2>3, <2>4, <3>1 DEF Numbered, Before
    <2>6. CASE ~Past(a, b)
      <3>1. a = c /\ b = d /\ ~blocked'[c]
        BY <1>2, <2>1, <2>6 DEF Past, ReadTicket, Scan, Inv, TypeOK
      <3>2. ~(Standing(d) /\ ServedBefore(d, c)) BY <3>1 DEF Scan, Inv, TypeOK
      <3>3. ~Inside(d) \/ ~ServedBefore(d, c) BY <1>1, <3>2, ContenderStands
      <3>4. pc[d] # "choosing" BY <1>1, <3>3 DEF Inv, Tells, Inside, ServedBefore
      <3>5. ASSUME Numbered(d) PROVE Before(c, d)
        <4>1. ~ServedBefore(d, c) BY <3>3, <3>5 DEF Numbered, Inside
        <4>2. file[c].ticket \in Nat /\ file[d].ticket \in Nat /\ c \in Nat /\ d \in Nat
          BY CallersAssumption DEF Inv, TypeOK, Tickets
        <4>. QED BY <3>1, <4>1, <4>2 DEF ServedBefore, Before
      <3>. QED BY <1>2, <2>2, <2>3, <3>1, <3>4, <3>5 DEF Numbered, Before
    <2>. QED BY <2>5, <2>6
  <1>. QED BY <1>4, <1>5, <1>6, <1>7 DEF Inv

\* Another round, or the end of one.
LEMMA RoundInv ==
    ASSUME Inv, NEW c \in Callers, BeginScan(c) \/ Retry(c) \/ Enter(c) PROVE Inv'
  <1>1. lockDirectory BY DEF Inv, Private, BeginScan, Retry, Enter
  <1>2. TypeOK' BY DEF Inv, TypeOK, BeginScan, Retry, Enter, Phases, Others
  <1>3. Lives' /\ Chain' BY DEF Inv, TypeOK, Lives, Chain, BeginScan, Retry, Enter, Inside, PreviousDone
  <1>4. Private' BY <1>1 DEF BeginScan, Retry, Enter, Private
  <1>5. Tells' BY DEF Inv, TypeOK, Tells, BeginScan, Retry, Enter, Inside, Numbered
  <1>6. Ordered'
    <2>1. \A a, b \in Callers : a # b /\ Past(a, b)' => Past(a, b)
      BY DEF Inv, TypeOK, BeginScan, Retry, Enter, Past, Others
    <2>2. \A a \in Callers : /\ Numbered(a)' = Numbered(a) /\ (pc'[a] = "choosing") = (pc[a] = "choosing")
                             /\ pc[a] = "choosing" => todo'[a] = todo[a]
      BY DEF Inv, TypeOK, BeginScan, Retry, Enter, Numbered
    <2>3. UNCHANGED <<file, highest, lockDirectory>> BY DEF BeginScan, Retry, Enter
    <2>. QED BY <2>1, <2>2, <2>3 DEF Inv, Ordered, Before
  <1>. QED BY <1>2, <1>3, <1>4, <1>5, <1>6 DEF Inv

-----------------------------------------------------------------------------
(* Ends.                                                                    *)

\* A call that ends takes its ticket with it.
LEMMA ReturnInv ==
    ASSUME Inv, NEW c \in Callers, Return(c), UNCHANGED <<alive, lockDirectory, tails>>
    PROVE  Inv'
  <1>1. NoTicket \in Tickets BY DEF NoTicket, Tickets
  <1>2. TypeOK' BY <1>1 DEF Inv, TypeOK, Return, Phases
  <1>3. Lives' /\ Chain' BY DEF Inv, TypeOK, Lives, Chain, Return, Inside, PreviousDone
  <1>4. Private' /\ Tells' BY DEF Inv, TypeOK, Private, Tells, Return, Inside, Numbered
  <1>5. Ordered' BY DEF Inv, TypeOK, Ordered, Return, Past, Numbered, Before
  <1>. QED BY <1>2, <1>3, <1>4, <1>5 DEF Inv

\* A process that dies leaves its tickets, and contends no more.
LEMMA CrashInv == ASSUME Inv, NEW p \in Procs, Crash(p) PROVE Inv'
  <1>1. TypeOK' BY DEF Inv, TypeOK, Crash, Phases
  <1>2. Lives' BY DEF Inv, TypeOK, Lives, Crash, Inside
  <1>3. Chain' BY ProcOfAssumption DEF Inv, TypeOK, Chain, Crash, Inside, PreviousDone
  <1>4. Private' /\ Tells' BY DEF Inv, TypeOK, Private, Tells, Crash, Inside, Numbered
  <1>5. Ordered' BY DEF Inv, TypeOK, Ordered, Crash, Past, Numbered, Before
  <1>. QED BY <1>1, <1>2, <1>3, <1>4, <1>5 DEF Inv

\* Every step preserves the invariant.
LEMMA NextInv == Inv /\ [Next]_vars => Inv'
  <1>. SUFFICES ASSUME Inv, [Next]_vars PROVE Inv' OBVIOUS
  <1>1. CASE UNCHANGED vars
    BY <1>1 DEF vars, Inv, TypeOK, Lives, Chain, Private, Tells, Ordered, Inside, PreviousDone,
                Numbered, Past, Before
  <1>2. ASSUME NEW c \in Callers, Call(c) \/ Step(c) \/ GiveUp(c) PROVE Inv'
    <2>1. CASE Leave(c) \/ GiveUp(c) BY <2>1, ReturnInv DEF Leave, GiveUp
    <2>2. CASE Call(c) \/ EnterInProcess(c) \/ Announce(c) \/ PublishNumber(c) \/ SettleTail(c)
      BY <2>2, CallInv, EnterInProcessInv, AnnounceInv, PublishNumberInv, SettleTailInv
    <2>3. CASE BeginScan(c) \/ Retry(c) \/ Enter(c) BY <2>3, RoundInv
    <2>4. ASSUME NEW d \in Callers, Look(c, d) \/ Scan(c, d) PROVE Inv'
      BY <2>4, LookInv, ScanInv
    <2>. QED BY <1>2, <2>1, <2>2, <2>3, <2>4 DEF Step
  <1>. QED BY <1>1, <1>2, CrashInv DEF Next

\* The invariant holds in every reachable state.
LEMMA Invariance == Spec => []Inv
  BY InitInv, NextInv, PTL DEF Spec

\* The lock keeps its types, one contender in each process and one holder, for
\* any number of processes and calls, whatever is cancelled, times out or dies.
THEOREM LockSafeHolds == Spec => []LockSafe
  <1>1. Inv => LockSafe BY OneContender, Exclusion DEF Inv, LockSafe
  <1>. QED BY <1>1, Invariance, PTL

-----------------------------------------------------------------------------
(* Refinement.                                                              *)

\* Where a caller stands in the eyes of the abstract mutex.
LEMMA StageOf ==
    ASSUME TypeOK
    PROVE  \A c \in Callers :
             /\ Stage[c] \in {"outside", "waiting", "inside", "done"}
             /\ Stage[c] = "outside" <=> pc[c] = "idle"
             /\ Stage[c] = "waiting" <=> pc[c] \in {"queued", "choosing", "waiting", "scanning"}
             /\ Stage[c] = "inside" <=> pc[c] = "critical"
             /\ Stage[c] = "done" <=> pc[c] \in {"returned", "crashed"}
  BY DEF TypeOK, Phases, Stage

\* A step of one caller that moves it from one stage to the next.
LEMMA OneMoves ==
    ASSUME NEW c \in Callers, NEW to, pc' = [pc EXCEPT ![c] = to], pc \in [Callers -> Phases]
    PROVE  \A d \in Callers : d # c => Stage'[d] = Stage[d]
  BY DEF Stage

\* Every step of the lock is a step of the mutex, or none: a crash ends all
\* calls of a process at once, and fn starts only when no other fn is running.
LEMMA StepRefines == Inv /\ Inv' /\ [Next]_vars => [Mutex!Next]_Stage
  <1>. SUFFICES ASSUME Inv, Inv', [Next]_vars PROVE Mutex!Next \/ Stage' = Stage OBVIOUS
  <1>1. TypeOK /\ TypeOK' BY DEF Inv
  <1>2. CASE UNCHANGED pc BY <1>2 DEF Stage
  <1>3. ASSUME NEW c \in Callers, Call(c) PROVE Mutex!Next
    <2>1. pc' = [pc EXCEPT ![c] = "queued"] /\ pc[c] = "idle" /\ pc'[c] = "queued" BY <1>1, <1>3 DEF Call, TypeOK
    <2>2. Stage[c] = "outside" /\ Stage'[c] = "waiting" BY <2>1 DEF Stage
    <2>3. Stage' = [Stage EXCEPT ![c] = "waiting"] BY <1>1, <2>1, <2>2, OneMoves DEF Stage, TypeOK
    <2>. QED BY <2>2, <2>3 DEF Mutex!Next, Mutex!Request
  <1>4. ASSUME NEW c \in Callers, Enter(c) \/ EnterInProcess(c) PROVE Mutex!Next
    <2>1. pc' = [pc EXCEPT ![c] = "critical"] /\ pc[c] \in {"scanning", "queued"} /\ pc'[c] = "critical"
      BY <1>1, <1>4 DEF Enter, EnterInProcess, TypeOK
    <2>2. Stage[c] = "waiting" /\ Stage'[c] = "inside" BY <2>1 DEF Stage
    <2>3. Stage' = [Stage EXCEPT ![c] = "inside"] BY <1>1, <2>1, <2>2, OneMoves DEF Stage, TypeOK
    <2>4. ASSUME NEW d \in Callers PROVE Stage[d] # "inside"
      <3>1. CASE d = c BY <2>2, <3>1
      <3>2. CASE d # c
        <4>1. MutualExclusion' BY Exclusion, PTL
        <4>2. pc'[d] = pc[d] BY <1>1, <2>1, <3>2 DEF TypeOK
        <4>3. pc[d] # "critical" BY <2>1, <3>2, <4>1, <4>2 DEF MutualExclusion
        <4>. QED BY <1>1, <4>3, StageOf
      <3>. QED BY <3>1, <3>2
    <2>. QED BY <2>2, <2>3, <2>4 DEF Mutex!Next, Mutex!Enter
  <1>5. ASSUME NEW c \in Callers, Leave(c) \/ GiveUp(c) PROVE Mutex!Next
    <2>1. pc' = [pc EXCEPT ![c] = "returned"] /\ pc'[c] = "returned"
            /\ pc[c] \in {"queued", "choosing", "waiting", "scanning", "critical"}
      BY <1>1, <1>5 DEF Leave, GiveUp, Return, TypeOK
    <2>2. Stage[c] # "done" /\ Stage'[c] = "done" BY <2>1 DEF Stage
    <2>3. Stage' = [d \in Callers |-> IF d \in {c} THEN "done" ELSE Stage[d]]
      BY <1>1, <2>1, <2>2, OneMoves DEF Stage, TypeOK
    <2>4. Mutex!End({c}) BY <2>2, <2>3 DEF Mutex!End
    <2>. QED BY <2>4 DEF Mutex!Next
  <1>6. ASSUME NEW c \in Callers, Step(c) PROVE Mutex!Next \/ Stage' = Stage
    <2>1. CASE Announce(c) \/ PublishNumber(c) \/ BeginScan(c) \/ Retry(c)
      <3>1. PICK to \in {"choosing", "waiting", "scanning"} : pc' = [pc EXCEPT ![c] = to]
        BY <2>1 DEF Announce, PublishNumber, BeginScan, Retry
      <3>2. pc[c] \in {"queued", "choosing", "waiting", "scanning"} /\ pc'[c] = to
        BY <1>1, <2>1, <3>1 DEF Announce, PublishNumber, BeginScan, Retry, TypeOK
      <3>3. Stage[c] = "waiting" /\ Stage'[c] = "waiting" BY <3>2 DEF Stage
      <3>. QED BY <1>1, <3>1, <3>3, OneMoves DEF Stage, TypeOK
    <2>2. CASE SettleTail(c) \/ \E d \in Callers : Look(c, d) \/ Scan(c, d)
      BY <1>2, <2>2 DEF SettleTail, Look, Scan
    <2>. QED BY <1>4, <1>5, <1>6, <2>1, <2>2 DEF Step
  <1>7. ASSUME NEW p \in Procs, Crash(p) PROVE Mutex!Next \/ Stage' = Stage
    <2>. DEFINE C == {d \in Callers : ProcOf[d] = p /\ Stage[d] # "done"}
    <2>1. \A d \in Callers : pc'[d] = IF ProcOf[d] = p THEN "crashed" ELSE pc[d] BY <1>7 DEF Crash
    <2>2. \A d \in Callers : ProcOf[d] = p => Stage'[d] = "done" BY <1>1, <2>1 DEF Stage
    <2>3. \A d \in Callers : ProcOf[d] # p => Stage'[d] = Stage[d] BY <2>1 DEF Stage
    <2>4. Stage' = [d \in Callers |-> IF d \in C THEN "done" ELSE Stage[d]]
      <3>1. \A d \in Callers : Stage'[d] = IF d \in C THEN "done" ELSE Stage[d] BY <2>2, <2>3
      <3>. QED BY <3>1 DEF Stage
    <2>5. CASE C = {}
      <3>1. \A d \in Callers : Stage'[d] = Stage[d] BY <2>4, <2>5
      <3>. QED BY <3>1 DEF Stage
    <2>6. CASE C # {}
      <3>1. Mutex!End(C) BY <2>4, <2>6 DEF Mutex!End
      <3>. QED BY <3>1 DEF Mutex!Next
    <2>. QED BY <2>5, <2>6
  <1>. QED BY <1>2, <1>3, <1>5, <1>6, <1>7 DEF Next, vars

\* A file mutex out of ticket files, a promise chain and process ids behaves
\* as the abstract mutex: withCredentialLock (lock.ts 15-51) lets one fn run
\* at a time per credential identity, for any callers, processes and crashes.
THEOREM ImplementsMutexHolds == Spec => ImplementsMutex
  <1>1. Init => Mutex!Init BY DEF Init, Mutex!Init, Stage
  <1>. QED BY <1>1, StepRefines, Invariance, PTL DEF Spec, ImplementsMutex, Mutex!Spec
=============================================================================
