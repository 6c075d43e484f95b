-------------------------- MODULE SessionRunProofs ---------------------------
(***************************************************************************)
(* Proofs about one session's run: the query loop with its tools, journal  *)
(* and receipts (AgentRun), and the background tasks of its turns          *)
(* (OwnedTasks), for every batch of tools, every bound and every number of *)
(* tasks and faults.                                                       *)
(*                                                                         *)
(* The first part is about the loop.  Its invariant follows the            *)
(* conversation as it will be stored (Line), whose shape says what may     *)
(* stand behind what, and the history sent to the provider (Talk), in      *)
(* which every call is answered; receipts and the states of the slots tie  *)
(* both to the calls that really ran.  The operators that walk a sequence  *)
(* (Repair, MergeSameRole, Lots) are recursive functions, and SetInduction *)
(* is the induction that reasons about them.                               *)
(*                                                                         *)
(* The second part is about the tasks.                                     *)
(***************************************************************************)
EXTENDS AgentRun, OwnedTasks, SequenceTheorems, WellFoundedInduction, TLAPS

-----------------------------------------------------------------------------
(* The invariant.                                                          *)

States == {"queued", "asked", "refused", "running", "returned", "done"}

\* The conversation as it will be stored: the rows, then what is not yet one.
LineOf(rs, ms, s) == rs \o SubSeq(ms, s + 1, Len(ms))

Line == LineOf(rows, messages, saved)

\* Results as they are stored: "ran" for exactly the calls D that ran.
Told(D, r, uses, res) ==
  /\ Len(res) = Len(uses)
  /\ \A k \in 1..Len(uses) : res[k] = IF <<r, k>> \in D THEN "ran" ELSE "notrun"

\* Results as they are sent: one that says "ran" may have been cleared.
Shown(D, r, uses, res) ==
  /\ Len(res) = Len(uses)
  /\ \A k \in 1..Len(uses) :
       res[k] \in IF <<r, k>> \in D THEN {"ran", "cleared"} ELSE {"notrun"}

\* Only answers call, and only user messages carry results.
Sided(m) == /\ m.role = "assistant" => m.res = <<>>
            /\ m.role = "user" => m.uses = <<>>

\* What may follow what in the rows: results are those of the answer before
\* them, and only a prompt follows a message of its own role.
Follows(D, a, i, b) ==
  /\ b.res # <<>> => Told(D, i, a.uses, b.res)
  /\ a.role = b.role => b.role = "user" /\ b.res = <<>> /\ "prompt" \in b.text

Shape(D, ms) ==
  \A i \in DOMAIN ms :
    /\ Sided(ms[i]) /\ (ms[i].role = "assistant" => ms[i].row = i)
    /\ i = 1 => ms[i].res = <<>>
    /\ i > 1 => Follows(D, ms[i - 1], i - 1, ms[i])

\* What may follow what in a history: every call is answered, too.
Answers(D, a, b) ==
  /\ a.uses # <<>> => Shown(D, a.row, a.uses, b.res)
  /\ b.res # <<>> => a.uses # <<>>
  /\ a.role = b.role => a.res # <<>> /\ "prompt" \in b.text

Talk(D, ms) ==
  \A i \in DOMAIN ms :
    /\ Sided(ms[i])
    /\ i = 1 => ms[i].res = <<>>
    /\ i > 1 => Answers(D, ms[i - 1], ms[i])

\* The calls of a history are those of the first n rows.
RowsUpTo(ms, n) == \A i \in DOMAIN ms : ms[i].uses # <<>> => ms[i].row <= n

\* The calls of a history, but for its last message's, are of earlier rows.
Older(ms, n) == \A i \in 1..(Len(ms) - 1) : ms[i].uses # <<>> => ms[i].row < n

EndsOnUser(ms) == ms # <<>> /\ ms[Len(ms)].role = "user"

\* A history that may be sent to the provider, of calls in the first n rows.
MaySend(D, ms, n) == EndsOnUser(ms) /\ Talk(D, ms) /\ RowsUpTo(ms, n)

\* A history that ends on the answer in the last row.
AnswerAtHand(D, rs, ms) ==
  /\ rs # <<>> /\ ms # <<>> /\ rs[Len(rs)] = ms[Len(ms)]
  /\ ms[Len(ms)].role = "assistant" /\ ms[Len(ms)].row = Len(rs)
  /\ Talk(D, ms) /\ Older(ms, Len(rs))

\* The types, and what a step needs to know of the counters.
Types ==
  /\ rows \in Seq(Message) /\ history \in Seq(Message) /\ messages \in Seq(Message)
  /\ \A k \in DOMAIN receipts :
       receipts[k] \in [state : {"started", "completed", "interrupted"},
                        out : {"none", "ran", "notrun"}]
  /\ pc \in {"idle", "top", "stream", "answered", "checked", "tools", "finish"}
  /\ turn \in Nat /\ turn <= MaxTurns
  /\ pc \in {"stream", "answered", "checked", "tools"} => turn < MaxTurns
  /\ strikes \in Nat /\ base \in Nat /\ from \in Nat /\ saved \in Nat
  /\ base <= saved /\ saved <= Len(messages) /\ from <= Len(rows)
  /\ broken \in BOOLEAN /\ aborted \in BOOLEAN /\ guide \in BOOLEAN
  /\ steer \in {"none", "file", "taken"}

\* Between runs nothing is held in memory.
Quiet == pc = "idle" => messages = <<>> /\ saved = 0 /\ steer # "taken"

\* The conversation to be stored keeps its shape, and stays in step with the
\* history.
Spoken ==
  /\ Shape(DOMAIN ran, Line)
  /\ pc \in {"top", "stream"} => EndsOnUser(Line) /\ MaySend(DOMAIN ran, history, Len(rows))
  /\ pc \in {"answered", "checked", "tools"} =>
       saved = Len(messages) /\ AnswerAtHand(DOMAIN ran, rows, history)

\* Receipts belong to stored rows; the answer at hand has none before its
\* tools run.
Keyed ==
  /\ \A k \in DOMAIN receipts : k[1] \in Nat /\ k[1] <= Len(rows)
  /\ pc \in {"answered", "checked"} => \A k \in DOMAIN receipts : k[1] < Len(rows)

\* The batch: how far each slot is, what its result says, and its receipt.
Slot(i) ==
  /\ st[i] \in {"queued", "asked", "refused", "running"} => outs[i] = "notrun"
  /\ st[i] \in {"queued", "asked", "refused"} => Key(i) \notin DOMAIN ran
  /\ st[i] \in {"queued", "asked"} => Key(i) \in DOMAIN receipts /\ receipts[Key(i)].state = "interrupted"
  /\ st[i] \in {"running", "returned"} => Key(i) \in DOMAIN ran
  /\ st[i] = "returned" => outs[i] = "ran"
  /\ st[i] = "done" => (outs[i] = "ran" <=> Key(i) \in DOMAIN ran)

\* No two slots of a wave conflict.
Apart(uses, ws) ==
  \A w \in DOMAIN ws : \A i, j \in ws[w] : i # j => ~Conflicts(uses[i], uses[j])

Batch ==
  /\ pc # "tools" => st = <<>>
  /\ pc = "tools" =>
       LET n == Len(Intent.uses)
       IN  /\ st \in [1..n -> States] /\ outs \in [1..n -> {"ran", "notrun"}]
           /\ waves \in Seq(SUBSET (1..n)) /\ Apart(Intent.uses, waves)
           /\ \A i \in 1..n : Slot(i) /\ (st[i] \in {"queued", "done"} \/ i \in InFlight)

Inv == /\ Types /\ Quiet /\ JournalExact /\ SteerKept
       /\ Spoken /\ Keyed /\ ReceiptsTellTheTruth /\ Batch

-----------------------------------------------------------------------------
(* Induction, and the loops over a sequence as recursive functions.        *)

\* Induction over the naturals, for a set of them.
LEMMA SetInduction ==
    ASSUME NEW S, 0 \in S, \A n \in Nat : n \in S => n + 1 \in S
    PROVE  \A n \in Nat : n \in S
  <1>. DEFINE N == {n \in Nat : n \notin S}
  <1>. SUFFICES ASSUME N # {} PROVE FALSE OBVIOUS
  <1>1. N \in SUBSET Nat OBVIOUS
  <1>2. PICK n \in N : \A m \in N : ~ (<<m, n>> \in OpToRel(<, Nat))
    BY <1>1, NatLessThanWellFounded, WFMin
  <1>3. \A m \in N : ~ (m < n) BY <1>1, <1>2 DEF OpToRel
  <1>4. n \in Nat /\ n # 0 OBVIOUS
  <1>5. n - 1 \in Nat /\ n - 1 < n /\ n = (n - 1) + 1 BY <1>4
  <1>6. n - 1 \in S BY <1>3, <1>5
  <1>. QED BY <1>5, <1>6

\* repairMissingToolResults takes the rows one by one.
LEMMA RepairLoop ==
    ASSUME NEW rs \in Seq(Message)
    PROVE  \E f : /\ f = [i \in 0..Len(rs) |-> IF i = 0 THEN <<>> ELSE RepairRow(f[i - 1], rs, i)]
                  /\ Repair(rs) = f[Len(rs)]
  <1>. DEFINE Loop(f, n) == f = [i \in 0..n |-> IF i = 0 THEN <<>> ELSE RepairRow(f[i - 1], rs, i)]
              S == {n \in Nat : \E f : Loop(f, n)}
  <1>1. 0 \in S
    <2>1. Loop([i \in 0..0 |-> <<>>], 0) OBVIOUS
    <2>. QED BY <2>1
  <1>2. ASSUME NEW n \in Nat, n \in S PROVE n + 1 \in S
    <2>1. PICK f : Loop(f, n) BY <1>2
    <2>. DEFINE g == [i \in 0..(n + 1) |-> IF i <= n THEN f[i] ELSE RepairRow(f[n], rs, n + 1)]
    <2>2. ASSUME NEW i \in 0..(n + 1)
          PROVE  g[i] = IF i = 0 THEN <<>> ELSE RepairRow(g[i - 1], rs, i)
      <3>1. CASE i = 0 BY <2>1, <3>1
      <3>2. CASE i # 0 /\ i <= n
        <4>1. i - 1 \in 0..n /\ i \in 0..n BY <3>2
        <4>. QED BY <2>1, <3>2, <4>1
      <3>3. CASE i = n + 1 BY <3>3
      <3>. QED BY <3>1, <3>2, <3>3
    <2>3. Loop(g, n + 1) BY <2>2
    <2>. HIDE DEF Loop, g
    <2>4. \E h : Loop(h, n + 1) BY <2>3
    <2>. QED BY <2>4
  <1>. HIDE DEF S
  <1>3. Len(rs) \in S BY <1>1, <1>2, SetInduction
  <1>4. \E f : Loop(f, Len(rs)) BY <1>3 DEF S
  <1>5. Loop(CHOOSE f : Loop(f, Len(rs)), Len(rs)) BY <1>4
  <1>6. Repair(rs) = (CHOOSE f : Loop(f, Len(rs)))[Len(rs)] BY DEF Repair
  <1>. QED BY <1>5, <1>6

\* mergeConsecutiveSameRoleMessages takes the messages one by one.
LEMMA MergeLoop ==
    ASSUME NEW ms \in Seq(Message)
    PROVE  \E f : /\ f = [i \in 0..Len(ms) |-> IF i = 0 THEN <<>> ELSE MergeMessage(f[i - 1], ms[i])]
                  /\ MergeSameRole(ms) = f[Len(ms)]
  <1>. DEFINE Loop(f, n) == f = [i \in 0..n |-> IF i = 0 THEN <<>> ELSE MergeMessage(f[i - 1], ms[i])]
              S == {n \in Nat : \E f : Loop(f, n)}
  <1>1. 0 \in S
    <2>1. Loop([i \in 0..0 |-> <<>>], 0) OBVIOUS
    <2>. QED BY <2>1
  <1>2. ASSUME NEW n \in Nat, n \in S PROVE n + 1 \in S
    <2>1. PICK f : Loop(f, n) BY <1>2
    <2>. DEFINE g == [i \in 0..(n + 1) |-> IF i <= n THEN f[i] ELSE MergeMessage(f[n], ms[n + 1])]
    <2>2. ASSUME NEW i \in 0..(n + 1)
          PROVE  g[i] = IF i = 0 THEN <<>> ELSE MergeMessage(g[i - 1], ms[i])
      <3>1. CASE i = 0 BY <2>1, <3>1
      <3>2. CASE i # 0 /\ i <= n
        <4>1. i - 1 \in 0..n /\ i \in 0..n BY <3>2
        <4>. QED BY <2>1, <3>2, <4>1
      <3>3. CASE i = n + 1 BY <3>3
      <3>. QED BY <3>1, <3>2, <3>3
    <2>3. Loop(g, n + 1) BY <2>2
    <2>. HIDE DEF Loop, g
    <2>4. \E h : Loop(h, n + 1) BY <2>3
    <2>. QED BY <2>4
  <1>. HIDE DEF S
  <1>3. Len(ms) \in S BY <1>1, <1>2, SetInduction
  <1>4. \E f : Loop(f, Len(ms)) BY <1>3 DEF S
  <1>5. Loop(CHOOSE f : Loop(f, Len(ms)), Len(ms)) BY <1>4
  <1>6. MergeSameRole(ms) = (CHOOSE f : Loop(f, Len(ms)))[Len(ms)] BY DEF MergeSameRole
  <1>. QED BY <1>5, <1>6

\* The lots of a batch are given out slot by slot.
LEMMA LotsLoop ==
    ASSUME NEW uses \in Seq(Tools)
    PROVE  Lots(uses) = [i \in 1..Len(uses) |-> IF i = 1 THEN [first |-> 1, wave |-> 1]
                                                ELSE NextLot(uses, Lots(uses)[i - 1], i)]
  <1>. DEFINE one == [first |-> 1, wave |-> 1]
              Loop(f, n) == f = [i \in 1..n |-> IF i = 1 THEN one ELSE NextLot(uses, f[i - 1], i)]
              S == {n \in Nat : \E f : Loop(f, n)}
  <1>. HIDE DEF one
  <1>1. 0 \in S
    <2>1. Loop([i \in 1..0 |-> one], 0) OBVIOUS
    <2>. QED BY <2>1
  <1>2. ASSUME NEW n \in Nat, n \in S PROVE n + 1 \in S
    <2>1. PICK f : Loop(f, n) BY <1>2
    <2>. DEFINE g == [i \in 1..(n + 1) |-> IF i <= n THEN f[i] ELSE IF i = 1 THEN one ELSE NextLot(uses, f[n], n + 1)]
    <2>2. ASSUME NEW i \in 1..(n + 1)
          PROVE  g[i] = IF i = 1 THEN one ELSE NextLot(uses, g[i - 1], i)
      <3>1. CASE i = 1 /\ i <= n BY <2>1, <3>1
      <3>2. CASE i # 1 /\ i <= n
        <4>1. i - 1 \in 1..n /\ i \in 1..n BY <3>2
        <4>. QED BY <2>1, <3>2, <4>1
      <3>3. CASE i = n + 1 BY <3>3
      <3>. QED BY <3>1, <3>2, <3>3
    <2>3. Loop(g, n + 1) BY <2>2
    <2>. HIDE DEF Loop, g
    <2>4. \E h : Loop(h, n + 1) BY <2>3
    <2>. QED BY <2>4
  <1>. HIDE DEF S
  <1>3. Len(uses) \in S BY <1>1, <1>2, SetInduction
  <1>4. \E f : Loop(f, Len(uses)) BY <1>3 DEF S
  <1>5. Loop(CHOOSE f : Loop(f, Len(uses)), Len(uses)) BY <1>4
  <1>6. Lots(uses) = CHOOSE f : Loop(f, Len(uses)) BY DEF Lots, one
  <1>. QED BY <1>5, <1>6 DEF one

-----------------------------------------------------------------------------
(* The waves of a batch.                                                   *)

\* A slot, seen from the slots before it: their waves do not come later, and
\* those of its own wave are of its sub-batch and do not conflict with it.
Placed(uses, lot, j) ==
  /\ lot[j].first \in 1..j /\ lot[j].wave \in Nat \ {0}
  /\ \A i \in 1..(j - 1) :
       /\ lot[i].wave <= lot[j].wave
       /\ lot[i].wave = lot[j].wave =>
            lot[i].first = lot[j].first /\ ~Conflicts(uses[j], uses[i])

\* Every slot of a batch is placed so.
LEMMA SlotsPlaced ==
    ASSUME NEW uses \in Seq(Tools)
    PROVE  \A j \in 1..Len(uses) : Placed(uses, Lots(uses), j)
  <1>. DEFINE lot == Lots(uses)
              n == Len(uses)
              S == {m \in Nat : \A j \in 1..m : j <= n => Placed(uses, lot, j)}
  <1>. HIDE DEF lot
  <1>0. n \in Nat OBVIOUS
  <1>a. \A i \in 1..n : lot[i] = IF i = 1 THEN [first |-> 1, wave |-> 1]
                                 ELSE NextLot(uses, lot[i - 1], i)
    <2>1. lot = [i \in 1..Len(uses) |-> IF i = 1 THEN [first |-> 1, wave |-> 1]
                                        ELSE NextLot(uses, lot[i - 1], i)]
      BY LotsLoop DEF lot
    <2>. QED BY <2>1
  <1>. HIDE DEF n
  <1>1. 0 \in S OBVIOUS
  <1>2. ASSUME NEW m \in Nat, m \in S PROVE m + 1 \in S
    <2>. DEFINE j == m + 1
    <2>. SUFFICES ASSUME j <= n PROVE Placed(uses, lot, j)
      BY <1>2
    <2>1. CASE m = 0
      <3>1. lot[j] = [first |-> 1, wave |-> 1] /\ j = 1 BY <1>0, <1>a, <2>1
      <3>. QED BY <3>1 DEF Placed
    <2>2. CASE m # 0
      <3>. DEFINE p == lot[m]
                  q == lot[j]
      <3>1. m \in 1..m /\ m <= n /\ m = j - 1 /\ j \in 1..n /\ j # 1 BY <1>0, <2>2
      <3>2. Placed(uses, lot, m) BY <1>2, <3>1
      <3>3. p.first \in 1..m /\ p.wave \in Nat \ {0} BY <3>2 DEF Placed
      <3>4. ASSUME NEW i \in 1..m
            PROVE  /\ lot[i].wave \in Nat /\ lot[i].wave <= p.wave
                   /\ lot[i].first <= i
                   /\ lot[i].wave = p.wave => lot[i].first = p.first
        <4>0. i \in Nat /\ i <= n BY <1>0, <3>1
        <4>1. Placed(uses, lot, i) BY <1>2, <4>0
        <4>2. CASE i = m BY <3>3, <4>2
        <4>3. CASE i # m
          <5>1. i \in 1..(m - 1) BY <4>3
          <5>2. lot[i].wave <= p.wave /\ (lot[i].wave = p.wave => lot[i].first = p.first)
            BY <3>2, <5>1 DEF Placed
          <5>3. lot[i].wave \in Nat /\ lot[i].first \in 1..i BY <4>1 DEF Placed
          <5>. QED BY <5>2, <5>3
        <4>. QED BY <4>2, <4>3
      <3>5. q = NextLot(uses, p, j) BY <1>a, <3>1
      <3>. HIDE DEF p, q, j
      <3>6. CASE ~Joins(uses, p.first, j)
        <4>1. q.first = j /\ q.wave = p.wave + 1 BY <3>5, <3>6 DEF NextLot
        <4>2. q.first \in 1..j /\ q.wave \in Nat \ {0} BY <3>1, <3>3, <4>1
        <4>3. ASSUME NEW i \in 1..(j - 1)
              PROVE  lot[i].wave <= q.wave /\ lot[i].wave # q.wave
          <5>1. lot[i].wave \in Nat /\ lot[i].wave <= p.wave BY <3>1, <3>4
          <5>. QED BY <3>3, <4>1, <5>1
        <4>. QED BY <4>2, <4>3 DEF Placed, q
      <3>7. CASE Joins(uses, p.first, j) /\ (j - p.first) % CONCURRENT_CAP = 0
        <4>1. q.first = p.first /\ q.wave = p.wave + 1
          <5>1. q = [p EXCEPT !.wave = @ + 1] BY <3>5, <3>7 DEF NextLot
          <5>. QED BY <5>1
        <4>2. q.first \in 1..j /\ q.wave \in Nat \ {0} BY <3>1, <3>3, <4>1
        <4>3. ASSUME NEW i \in 1..(j - 1)
              PROVE  lot[i].wave <= q.wave /\ lot[i].wave # q.wave
          <5>1. lot[i].wave \in Nat /\ lot[i].wave <= p.wave BY <3>1, <3>4
          <5>. QED BY <3>3, <4>1, <5>1
        <4>. QED BY <4>2, <4>3 DEF Placed, q
      <3>8. CASE Joins(uses, p.first, j) /\ (j - p.first) % CONCURRENT_CAP # 0
        <4>1. q.first = p.first /\ q.wave = p.wave
          <5>1. q = [p EXCEPT !.wave = @] BY <3>5, <3>8 DEF NextLot
          <5>. QED BY <5>1
        <4>2. q.first \in 1..j /\ q.wave \in Nat \ {0} BY <3>1, <3>3, <4>1
        <4>3. ASSUME NEW i \in 1..(j - 1)
              PROVE  /\ lot[i].wave <= q.wave
                     /\ lot[i].wave = q.wave => lot[i].first = q.first /\ ~Conflicts(uses[j], uses[i])
          <5>1. lot[i].wave <= p.wave /\ lot[i].first <= i
                /\ (lot[i].wave = p.wave => lot[i].first = p.first) BY <3>1, <3>4
          <5>2. lot[i].wave = p.wave => i \in p.first..(j - 1) BY <3>1, <3>3, <5>1
          <5>3. \A k \in p.first..(j - 1) : ~Conflicts(uses[j], uses[k]) BY <3>8 DEF Joins
          <5>. QED BY <4>1, <5>1, <5>2, <5>3
        <4>. QED BY <4>2, <4>3 DEF Placed, q
      <3>. QED BY <3>6, <3>7, <3>8
    <2>. QED BY <2>1, <2>2
  <1>. HIDE DEF S
  <1>3. n \in S BY <1>0, <1>1, <1>2, SetInduction
  <1>4. \A j \in 1..n : j <= n => Placed(uses, lot, j) BY <1>3 DEF S
  <1>. QED BY <1>0, <1>4 DEF n, lot

\* runTools' schedule: sets of slots, and no two of one wave conflict.
LEMMA WavesApart ==
    ASSUME NEW uses \in Seq(Tools), uses # <<>>
    PROVE  Waves(uses) \in Seq(SUBSET (1..Len(uses))) /\ Apart(uses, Waves(uses))
  <1>. DEFINE lot == Lots(uses)
              n == Len(uses)
  <1>1. n \in Nat /\ n # 0 /\ DOMAIN uses = 1..n OBVIOUS
  <1>2. \A j \in 1..n : Placed(uses, lot, j) BY SlotsPlaced
  <1>3. Waves(uses) = [w \in 1..lot[n].wave |-> {i \in DOMAIN uses : lot[i].wave = w}]
    BY DEF Waves
  <1>. HIDE DEF lot, n
  <1>4. lot[n].wave \in Nat BY <1>1, <1>2 DEF Placed
  <1>5. Waves(uses) \in [1..lot[n].wave -> SUBSET (1..n)] BY <1>1, <1>3
  <1>6. Waves(uses) \in Seq(SUBSET (1..n)) BY <1>4, <1>5
  <1>7. ASSUME NEW w \in DOMAIN Waves(uses), NEW i \in Waves(uses)[w], NEW j \in Waves(uses)[w], i # j
        PROVE  ~Conflicts(uses[i], uses[j])
    <2>1. i \in 1..n /\ j \in 1..n /\ lot[i].wave = lot[j].wave BY <1>1, <1>3
    <2>2. CASE i < j
      <3>1. i \in 1..(j - 1) BY <2>1, <2>2
      <3>2. ~Conflicts(uses[j], uses[i]) BY <1>2, <2>1, <3>1 DEF Placed
      <3>. QED BY <3>2 DEF Conflicts
    <2>3. CASE j < i
      <3>1. j \in 1..(i - 1) BY <2>1, <2>3
      <3>. QED BY <1>2, <2>1, <3>1 DEF Placed
    <2>. QED BY <1>7, <2>1, <2>2, <2>3
  <1>. QED BY <1>6, <1>7 DEF Apart, n

-----------------------------------------------------------------------------
(* Hydration: what repair and merging make of the stored rows.             *)

\* A message and its fields.
LEMMA MessageFields ==
    ASSUME NEW m \in Message
    PROVE  /\ m.role \in {"user", "assistant"} /\ m.row \in Nat
           /\ m.uses \in Seq(Tools) /\ m.uses \in Batches \cup {<<>>}
           /\ m.res \in Seq({"ran", "notrun", "unknown", "cleared"})
           /\ m.text \in SUBSET {"prompt", "runtime", "guide", "steer"}
  <1>1. Batches \cup {<<>>} \subseteq Seq(Tools)
    <2>1. Batches \subseteq Seq(Tools) BY AgentRunAssumption
    <2>2. <<>> \in Seq(Tools) OBVIOUS
    <2>. QED BY <2>1, <2>2
  <1>2. m.uses \in Batches \cup {<<>>} BY DEF Message
  <1>3. m.uses \in Seq(Tools) BY <1>1, <1>2
  <1>. QED BY <1>2, <1>3 DEF Message

\* A history grows by a message that may follow its last one.
LEMMA TalkAppend ==
    ASSUME NEW D, NEW ms \in Seq(Message), NEW m \in Message, Talk(D, ms), Sided(m),
           ms = <<>> => m.res = <<>>, ms # <<>> => Answers(D, ms[Len(ms)], m)
    PROVE  Talk(D, Append(ms, m))
  <1>. DEFINE os == Append(ms, m)
              n == Len(ms)
  <1>1. n \in Nat /\ DOMAIN ms = 1..n /\ (ms = <<>> <=> n = 0) OBVIOUS
  <1>2. DOMAIN os = 1..(n + 1) /\ os[n + 1] = m /\ \A i \in 1..n : os[i] = ms[i] OBVIOUS
  <1>. HIDE DEF os, n
  <1>. SUFFICES ASSUME NEW i \in 1..(n + 1)
                PROVE  Sided(os[i]) /\ (i = 1 => os[i].res = <<>>)
                       /\ (i > 1 => Answers(D, os[i - 1], os[i]))
    BY <1>2 DEF Talk, os
  <1>3. CASE i = n + 1
    <2>1. i > 1 => os[i - 1] = ms[n] /\ n # 0 BY <1>1, <1>2, <1>3
    <2>2. i = 1 => n = 0 BY <1>1, <1>3
    <2>. QED BY <1>1, <1>2, <1>3, <2>1, <2>2 DEF n
  <1>4. CASE i # n + 1
    <2>1. i \in 1..n /\ (i > 1 => i - 1 \in 1..n) BY <1>1, <1>4
    <2>2. os[i] = ms[i] /\ (i > 1 => os[i - 1] = ms[i - 1]) BY <1>2, <2>1
    <2>. QED BY <1>1, <2>1, <2>2 DEF Talk
  <1>. QED BY <1>3, <1>4

\* Every call of rows that may be hydrated is followed by a user row.
LEMMA CallsFollowed ==
    ASSUME NEW D, NEW rs \in Seq(Message), rs # <<>>, Shape(D, rs), rs[Len(rs)].role = "user",
           NEW i \in 1..Len(rs), rs[i].uses # <<>>
    PROVE  i < Len(rs) /\ NextIsUser(rs, i) /\ rs[i].role = "assistant"
  <1>. DEFINE n == Len(rs)
  <1>1. n \in Nat /\ DOMAIN rs = 1..n /\ rs[i] \in Message OBVIOUS
  <1>2. rs[i].role = "assistant" BY <1>1, MessageFields DEF Shape, Sided
  <1>3. i # n BY <1>2
  <1>. HIDE DEF n
  <1>0. i \in 1..n BY DEF n
  <1>4. i < n /\ i + 1 \in 1..n /\ i + 1 > 1 /\ (i + 1) - 1 = i BY <1>0, <1>1, <1>3
  <1>5. rs[i + 1] \in Message BY <1>1, <1>4
  <1>6. Follows(D, rs[i], i, rs[i + 1]) BY <1>1, <1>4 DEF Shape
  <1>7. rs[i + 1].role = "user" BY <1>2, <1>5, <1>6, MessageFields DEF Follows
  <1>. QED BY <1>2, <1>4, <1>7 DEF NextIsUser, n

\* What hydration hands on of row i.
Kept(rs, i) == IF i > 1 /\ Missing(rs, i - 1)
                 THEN [rs[i] EXCEPT !.res = RepairedAnswer(rs, i - 1)] ELSE rs[i]

\* Repair completes rows and inserts none.
LEMMA RepairKeeps ==
    ASSUME NEW D, NEW rs \in Seq(Message), rs # <<>>, Shape(D, rs), rs[Len(rs)].role = "user"
    PROVE  Repair(rs) = [i \in 1..Len(rs) |-> Kept(rs, i)]
  <1>. DEFINE n == Len(rs)
  <1>0. n \in Nat OBVIOUS
  <1>1. PICK f : /\ f = [i \in 0..n |-> IF i = 0 THEN <<>> ELSE RepairRow(f[i - 1], rs, i)]
                 /\ Repair(rs) = f[n]
    BY RepairLoop
  <1>2. ASSUME NEW i \in 1..n, NEW o PROVE RepairRow(o, rs, i) = Append(o, Kept(rs, i))
    <2>1. ~(Missing(rs, i) /\ ~NextIsUser(rs, i)) BY CallsFollowed DEF Missing
    <2>2. i > 1 /\ Missing(rs, i - 1) => NextIsUser(rs, i - 1)
      <3>1. i > 1 => i - 1 \in 1..n BY <1>0
      <3>. QED BY <3>1, CallsFollowed DEF Missing
    <2>. QED BY <2>1, <2>2 DEF RepairRow, Kept
  <1>. HIDE DEF n
  <1>. DEFINE S == {m \in Nat : m <= n => f[m] = [i \in 1..m |-> Kept(rs, i)]}
  <1>3. 0 \in S
    <2>1. f[0] = <<>> BY <1>0, <1>1
    <2>2. [i \in 1..0 |-> Kept(rs, i)] = <<>> OBVIOUS
    <2>. QED BY <2>1, <2>2
  <1>4. ASSUME NEW m \in Nat, m \in S PROVE m + 1 \in S
    <2>. SUFFICES ASSUME m + 1 <= n PROVE f[m + 1] = [i \in 1..(m + 1) |-> Kept(rs, i)]
      OBVIOUS
    <2>1. m + 1 \in 1..n /\ m + 1 \in 0..n /\ m + 1 # 0 /\ (m + 1) - 1 = m /\ m <= n BY <1>0
    <2>2. f[m + 1] = RepairRow(f[m], rs, m + 1) BY <1>1, <2>1
    <2>3. f[m] = [i \in 1..m |-> Kept(rs, i)] BY <1>4, <2>1
    <2>4. f[m + 1] = Append([i \in 1..m |-> Kept(rs, i)], Kept(rs, m + 1)) BY <1>2, <2>1, <2>2, <2>3
    <2>5. Append([i \in 1..m |-> Kept(rs, i)], Kept(rs, m + 1)) = [i \in 1..(m + 1) |-> Kept(rs, i)]
      <3>. DEFINE K == {Kept(rs, i) : i \in 1..(m + 1)}
                  s == [i \in 1..m |-> Kept(rs, i)]
      <3>0. \A i \in 1..m : Kept(rs, i) \in K
        <4>1. \A i \in 1..m : i \in 1..(m + 1) OBVIOUS
        <4>. QED BY <4>1
      <3>. HIDE DEF K
      <3>1. s \in Seq(K) /\ Len(s) = m BY <3>0
      <3>2. Kept(rs, m + 1) \in K BY <2>1 DEF K
      <3>. QED BY <3>1, <3>2
    <2>. QED BY <2>4, <2>5
  <1>. HIDE DEF S
  <1>5. n \in S BY <1>0, <1>3, <1>4, SetInduction
  <1>6. f[n] = [i \in 1..n |-> Kept(rs, i)] BY <1>0, <1>5 DEF S
  <1>. QED BY <1>1, <1>6 DEF n

\* The receipts a row's missing results are taken from.
ReceiptTypes ==
  \A k \in DOMAIN receipts :
    receipts[k] \in [state : {"started", "completed", "interrupted"},
                     out : {"none", "ran", "notrun"}]

\* Behind the gate, a result that repair makes up is the truth.
LEMMA RepairedTrue ==
    ASSUME NEW rs \in Seq(Message), rs # <<>>, Shape(DOMAIN ran, rs), rs[Len(rs)].role = "user",
           HasNativeRecoveryTarget(rs), ReceiptTypes, ReceiptsTellTheTruth,
           NEW i \in 1..Len(rs), Missing(rs, i), NEW k \in 1..Len(rs[i].uses)
    PROVE  RepairedResult(i, k) = IF <<i, k>> \in DOMAIN ran THEN "ran" ELSE "notrun"
  <1>. DEFINE n == Len(rs)
  <1>1. n \in Nat /\ DOMAIN rs = 1..n /\ \A j \in 1..n : rs[j] \in Message OBVIOUS
  <1>2. rs[i].uses # <<>> /\ i < n /\ NextIsUser(rs, i) /\ rs[i + 1].res = <<>>
    BY CallsFollowed DEF Missing
  <1>. HIDE DEF n
  <1>3. ASSUME NEW j \in (i + 1)..n, rs[j].res # <<>>, \A l \in (i + 1)..j : rs[l].role = "user"
        PROVE  FALSE
    <2>1. j # i + 1 /\ j \in 1..n /\ j - 1 \in (i + 1)..j /\ j - 1 \in 1..n /\ j > 1 BY <1>1, <1>2, <1>3
    <2>2. Follows(DOMAIN ran, rs[j - 1], j - 1, rs[j]) BY <1>1, <2>1 DEF Shape
    <2>3. rs[j - 1].role = "user" BY <1>3, <2>1
    <2>4. rs[j - 1].uses = <<>> BY <1>1, <2>1, <2>3 DEF Shape, Sided
    <2>5. Len(rs[j].res) = 0 BY <1>3, <2>2, <2>4 DEF Follows, Told
    <2>6. rs[j].res \in Seq({"ran", "notrun", "unknown", "cleared"}) BY <1>1, <2>1, MessageFields
    <2>. QED BY <1>3, <2>5, <2>6
  <1>4. k \in DOMAIN rs[i].uses
    <2>1. rs[i].uses \in Seq(Tools) BY <1>1, MessageFields DEF n
    <2>. QED BY <2>1
  <1>5. ReceiptOf(i, k).out # "none"
    <2>1. i \in DOMAIN rs BY <1>1 DEF n
    <2>2. \/ \E j \in (i + 1)..n : rs[j].res # <<>> /\ \A l \in (i + 1)..j : rs[l].role = "user"
          \/ ReceiptOf(i, k).out # "none"
      BY <1>4, <2>1 DEF HasNativeRecoveryTarget, n
    <2>. QED BY <1>3, <2>2
  <1>6. <<i, k>> \in DOMAIN receipts BY <1>5 DEF ReceiptOf, NoReceipt
  <1>. DEFINE rec == receipts[<<i, k>>]
  <1>7. ReceiptOf(i, k) = rec BY <1>6 DEF ReceiptOf
  <1>8. rec.state \in {"completed", "interrupted"} /\ rec.out \in {"ran", "notrun"}
    <2>1. rec.state # "started" BY <1>6 DEF HasNativeRecoveryTarget
    <2>2. rec \in [state : {"started", "completed", "interrupted"}, out : {"none", "ran", "notrun"}]
      BY <1>6 DEF ReceiptTypes
    <2>. QED BY <1>5, <1>7, <2>1, <2>2
  <1>9. RepairedResult(i, k) = rec.out BY <1>7, <1>8 DEF RepairedResult
  <1>. QED BY <1>6, <1>8, <1>9 DEF ReceiptsTellTheTruth

\* What may follow what in repaired rows.
Raw(D, a, b) ==
  /\ a.uses # <<>> => Shown(D, a.row, a.uses, b.res)
  /\ b.res # <<>> => a.uses # <<>>
  /\ a.role = b.role => b.role = "user" /\ b.res = <<>> /\ "prompt" \in b.text

RawShape(D, ks, n) ==
  \A i \in DOMAIN ks :
    /\ Sided(ks[i]) /\ (ks[i].uses # <<>> => ks[i].row <= n)
    /\ i = 1 => ks[i].res = <<>>
    /\ i > 1 => Raw(D, ks[i - 1], ks[i])

\* Results that tell the truth are truthful results.
LEMMA ToldShown ==
    ASSUME NEW D, NEW r, NEW uses, NEW res, Told(D, r, uses, res)
    PROVE  Shown(D, r, uses, res)
  BY DEF Told, Shown

\* Stored results and their absence: a row with results follows a call.
LEMMA ResultsFollowCalls ==
    ASSUME NEW D, NEW a \in Message, NEW b \in Message, NEW r, Told(D, r, a.uses, b.res), b.res # <<>>
    PROVE  a.uses # <<>>
  <1>1. b.res \in Seq({"ran", "notrun", "unknown", "cleared"}) BY MessageFields
  <1>2. Len(b.res) # 0 BY <1>1
  <1>. QED BY <1>2 DEF Told

\* A row that repair completes is still a message, and answers the call.
LEMMA KeptRow ==
    ASSUME NEW rs \in Seq(Message), rs # <<>>, Shape(DOMAIN ran, rs), rs[Len(rs)].role = "user",
           HasNativeRecoveryTarget(rs), ReceiptTypes, ReceiptsTellTheTruth,
           NEW i \in 1..Len(rs)
    PROVE  LET m == Kept(rs, i)
           IN  /\ m \in Message
               /\ m.role = rs[i].role /\ m.row = rs[i].row /\ m.uses = rs[i].uses
               /\ m.text = rs[i].text
               /\ ~(i > 1 /\ Missing(rs, i - 1)) => m = rs[i]
               /\ i > 1 /\ Missing(rs, i - 1) =>
                    m.role = "user" /\ Told(DOMAIN ran, i - 1, rs[i - 1].uses, m.res)
  <1>. DEFINE m == Kept(rs, i)
              j == i - 1
  <1>1. rs[i] \in Message /\ Len(rs) \in Nat OBVIOUS
  <1>2. CASE ~(i > 1 /\ Missing(rs, i - 1)) BY <1>1, <1>2 DEF Kept
  <1>3. CASE i > 1 /\ Missing(rs, i - 1)
    <2>. DEFINE answer == RepairedAnswer(rs, j)
    <2>1. j \in 1..Len(rs) /\ j + 1 = i BY <1>1, <1>3
    <2>2. rs[j] \in Message BY <2>1
    <2>3. rs[j].uses \in Seq(Tools) BY <2>2, MessageFields
    <2>4. \A k \in 1..Len(rs[j].uses) :
            RepairedResult(j, k) = IF <<j, k>> \in DOMAIN ran THEN "ran" ELSE "notrun"
      BY <1>3, <2>1, RepairedTrue
    <2>5. answer = [k \in 1..Len(rs[j].uses) |-> RepairedResult(j, k)] BY DEF RepairedAnswer
    <2>6. answer \in Seq({"ran", "notrun", "unknown", "cleared"}) /\ Len(answer) = Len(rs[j].uses)
      <3>. DEFINE l == Len(rs[j].uses)
                  O == {"ran", "notrun", "unknown", "cleared"}
      <3>1. l \in Nat BY <2>3
      <3>2. \A k \in 1..l : RepairedResult(j, k) \in O BY <2>4
      <3>. HIDE DEF answer, l, O
      <3>3. answer = [k \in 1..l |-> RepairedResult(j, k)] BY <2>5 DEF l
      <3>4. answer \in Seq(O) /\ Len(answer) = l BY <3>1, <3>2, <3>3
      <3>. QED BY <3>4 DEF l, O
    <2>7. Told(DOMAIN ran, j, rs[j].uses, answer) BY <2>4, <2>5, <2>6 DEF Told
    <2>8. rs[i].role = "user"
      <3>1. NextIsUser(rs, j) BY <1>3, <2>1, CallsFollowed DEF Missing
      <3>. QED BY <2>1, <3>1 DEF NextIsUser
    <2>9. m = [rs[i] EXCEPT !.res = answer] BY <1>3 DEF Kept
    <2>. HIDE DEF answer, m, j
    <2>10. m \in Message /\ m.role = rs[i].role /\ m.row = rs[i].row /\ m.uses = rs[i].uses
           /\ m.text = rs[i].text /\ m.res = answer
      BY <1>1, <2>6, <2>9 DEF Message
    <2>. QED BY <1>3, <2>7, <2>8, <2>10 DEF m, j
  <1>. QED BY <1>2, <1>3

\* Repaired rows: every call is answered truthfully, no result is an orphan.
LEMMA RepairShape ==
    ASSUME NEW rs \in Seq(Message), rs # <<>>, Shape(DOMAIN ran, rs), rs[Len(rs)].role = "user",
           HasNativeRecoveryTarget(rs), ReceiptTypes, ReceiptsTellTheTruth
    PROVE  /\ Repair(rs) \in Seq(Message) /\ Len(Repair(rs)) = Len(rs)
           /\ Repair(rs)[Len(rs)].role = "user"
           /\ RawShape(DOMAIN ran, Repair(rs), Len(rs))
  <1>. DEFINE n == Len(rs)
              ks == Repair(rs)
  <1>1. ks = [i \in 1..n |-> Kept(rs, i)] BY RepairKeeps
  <1>2. n \in Nat /\ n # 0 /\ DOMAIN rs = 1..n /\ \A i \in 1..n : rs[i] \in Message OBVIOUS
  <1>3. \A i \in 1..n :
          /\ ks[i] \in Message
          /\ ks[i].role = rs[i].role /\ ks[i].row = rs[i].row /\ ks[i].uses = rs[i].uses
          /\ ks[i].text = rs[i].text
          /\ ~(i > 1 /\ Missing(rs, i - 1)) => ks[i] = rs[i]
          /\ i > 1 /\ Missing(rs, i - 1) =>
               ks[i].role = "user" /\ Told(DOMAIN ran, i - 1, rs[i - 1].uses, ks[i].res)
    BY <1>1, KeptRow
  <1>. HIDE DEF ks
  <1>4. ks \in Seq(Message) /\ Len(ks) = n /\ DOMAIN ks = 1..n BY <1>1, <1>2, <1>3
  <1>5. ASSUME NEW i \in 1..n
        PROVE  /\ Sided(ks[i]) /\ (ks[i].uses # <<>> => ks[i].row <= n)
               /\ i = 1 => ks[i].res = <<>>
    <2>1. Sided(rs[i]) /\ (rs[i].role = "assistant" => rs[i].row = i) /\ (i = 1 => rs[i].res = <<>>)
      BY <1>2 DEF Shape
    <2>2. ks[i].role = "user" \/ ks[i] = rs[i] BY <1>3
    <2>3. Sided(ks[i]) BY <1>3, <2>1, <2>2 DEF Sided
    <2>4. ks[i].uses # <<>> => ks[i].row = i
      BY <1>2, <1>3, <2>1, MessageFields DEF Sided
    <2>. QED BY <1>2, <1>3, <2>1, <2>3, <2>4
  <1>6. ASSUME NEW i \in 1..n, i > 1 PROVE Raw(DOMAIN ran, ks[i - 1], ks[i])
    <2>. DEFINE j == i - 1
    <2>1. j \in 1..n /\ j + 1 = i BY <1>2, <1>6
    <2>2. Follows(DOMAIN ran, rs[j], j, rs[i]) BY <1>2, <1>6 DEF Shape
    <2>3. rs[j].uses # <<>> => rs[j].role = "assistant" /\ rs[j].row = j
      BY <1>2, <2>1, MessageFields DEF Shape, Sided
    <2>. HIDE DEF j
    <2>4. CASE Missing(rs, j)
      <3>1. rs[j].uses # <<>> BY <2>4 DEF Missing
      <3>2. ks[i].role = "user" /\ Told(DOMAIN ran, j, rs[j].uses, ks[i].res) BY <1>3, <1>6, <2>4 DEF j
      <3>. QED BY <1>3, <2>1, <2>3, <3>1, <3>2, ToldShown DEF Raw, j
    <2>5. CASE ~Missing(rs, j)
      <3>1. ks[i] = rs[i] BY <1>3, <2>5 DEF j
      <3>2. rs[j].uses # <<>> => rs[i].res # <<>> BY <2>1, <2>5 DEF Missing
      <3>3. rs[i].res # <<>> => Told(DOMAIN ran, j, rs[j].uses, rs[i].res) BY <2>2 DEF Follows
      <3>4. rs[i].res # <<>> => rs[j].uses # <<>> BY <1>2, <2>1, <3>3, ResultsFollowCalls
      <3>5. ks[j].uses # <<>> => Shown(DOMAIN ran, ks[j].row, ks[j].uses, ks[i].res)
        BY <1>3, <2>1, <2>3, <3>1, <3>2, <3>3, ToldShown
      <3>6. ks[j].role = ks[i].role => ks[i].role = "user" /\ ks[i].res = <<>> /\ "prompt" \in ks[i].text
        BY <1>3, <2>1, <2>2, <3>1 DEF Follows
      <3>7. ks[i].res # <<>> => ks[j].uses # <<>> BY <1>3, <2>1, <3>1, <3>4
      <3>. QED BY <3>5, <3>6, <3>7 DEF Raw, j
    <2>. QED BY <2>4, <2>5
  <1>7. ks[n].role = "user" BY <1>2, <1>3
  <1>. QED BY <1>4, <1>5, <1>6, <1>7 DEF RawShape, ks

\* What merging keeps of the messages folded into one.
Stands(a, b) == /\ a.role = b.role /\ a.uses = b.uses /\ a.res = b.res
                /\ a.uses # <<>> => a.row = b.row
                /\ b.text \subseteq a.text

\* The merged messages so far, when m was the last one taken.
Merged(D, o, m, n) == /\ o \in Seq(Message) /\ o # <<>> /\ Talk(D, o) /\ RowsUpTo(o, n)
                   /\ Stands(o[Len(o)], m)

\* One more message is folded into the last one, or appended.
LEMMA MergeStep ==
    ASSUME NEW D, NEW o, NEW m \in Message, NEW x \in Message, NEW n \in Nat, Merged(D, o, m, n),
           Sided(x), x.uses # <<>> => x.row <= n, Raw(D, m, x)
    PROVE  Merged(D, MergeMessage(o, x), x, n)
  <1>. DEFINE l == Len(o)
              a == o[l]
              p == MergeMessage(o, x)
  <1>1. o \in Seq(Message) /\ o # <<>> /\ Talk(D, o) /\ RowsUpTo(o, n) /\ Stands(a, m)
    BY DEF Merged
  <1>2. l \in Nat /\ l # 0 /\ DOMAIN o = 1..l /\ l \in 1..l /\ a \in Message
    <2>1. l \in Nat /\ l # 0 /\ DOMAIN o = 1..l BY <1>1
    <2>2. l \in 1..l BY <2>1
    <2>. QED BY <1>1, <2>1, <2>2
  <1>3. Sided(a) BY <1>1, <1>2 DEF Talk
  <1>. HIDE DEF a
  <1>4. CASE Folds(a, x)
    <2>. DEFINE b == [a EXCEPT !.text = @ \cup x.text]
    <2>1. b \in Message /\ b.role = a.role /\ b.uses = a.uses /\ b.res = a.res
          /\ b.row = a.row /\ b.text = a.text \cup x.text
      <3>1. a.text \cup x.text \in SUBSET {"prompt", "runtime", "guide", "steer"}
        BY <1>2, MessageFields
      <3>. QED BY <1>2, <3>1 DEF Message
    <2>2. p = [o EXCEPT ![l] = b] BY <1>1, <1>4 DEF MergeMessage, a, Last
    <2>. HIDE DEF b, p, l
    <2>3. p \in Seq(Message) /\ Len(p) = l /\ DOMAIN p = 1..l /\ p[l] = b
          /\ \A i \in 1..l : i # l => p[i] = o[i]
      <3>1. o \in [1..l -> Message] BY <1>1, <1>2 DEF l
      <3>2. p \in [1..l -> Message] BY <2>1, <2>2, <3>1
      <3>. QED BY <1>2, <2>2, <3>1, <3>2
    <2>4. ASSUME NEW i \in 1..l
          PROVE  /\ Sided(p[i]) /\ (p[i].uses # <<>> => p[i].row <= n)
                 /\ i = 1 => p[i].res = <<>>
                 /\ i > 1 => Answers(D, p[i - 1], p[i])
      <3>1. /\ Sided(o[i]) /\ (o[i].uses # <<>> => o[i].row <= n)
            /\ i = 1 => o[i].res = <<>>
            /\ i > 1 => Answers(D, o[i - 1], o[i])
        BY <1>1, <1>2 DEF Talk, RowsUpTo
      <3>2. i > 1 => i - 1 \in 1..l /\ i - 1 # l BY <1>2
      <3>3. i > 1 => p[i - 1] = o[i - 1] BY <2>3, <3>2
      <3>4. CASE i # l BY <2>3, <3>1, <3>3, <3>4
      <3>5. CASE i = l
        <4>1. o[i] = a BY <3>5 DEF a, l
        <4>2. p[i] = b BY <2>3, <3>5
        <4>3. Sided(b) /\ (b.uses # <<>> => b.row <= n) /\ (i = 1 => b.res = <<>>)
          BY <2>1, <3>1, <4>1 DEF Sided
        <4>4. i > 1 => Answers(D, o[i - 1], b) BY <2>1, <3>1, <4>1 DEF Answers
        <4>. QED BY <3>3, <4>2, <4>3, <4>4
      <3>. QED BY <3>4, <3>5
    <2>5. Talk(D, p) /\ RowsUpTo(p, n) BY <2>3, <2>4 DEF Talk, RowsUpTo
    <2>6. Stands(b, x) BY <1>4, <2>1 DEF Stands, Folds, IsPlain
    <2>7. p # <<>> BY <1>2, <2>3
    <2>. QED BY <2>3, <2>5, <2>6, <2>7 DEF Merged, p
  <1>5. CASE ~Folds(a, x)
    <2>1. p = Append(o, x) BY <1>5 DEF MergeMessage, Last, a
    <2>2. a.uses # <<>> => Shown(D, a.row, a.uses, x.res) BY <1>1 DEF Stands, Raw
    <2>3. x.res # <<>> => a.uses # <<>> BY <1>1 DEF Stands, Raw
    <2>4. a.role = x.role => a.res # <<>> /\ "prompt" \in x.text
      <3>. SUFFICES ASSUME a.role = x.role PROVE a.res # <<>> /\ "prompt" \in x.text OBVIOUS
      <3>1. x.role = "user" /\ x.res = <<>> /\ "prompt" \in x.text BY <1>1 DEF Stands, Raw
      <3>2. x.uses = <<>> /\ a.uses = <<>> BY <1>3, <3>1 DEF Sided
      <3>. QED BY <1>5, <3>1, <3>2 DEF Folds, IsPlain
    <2>5. Answers(D, a, x) BY <2>2, <2>3, <2>4 DEF Answers
    <2>. HIDE DEF p
    <2>6. Talk(D, p) BY <1>1, <2>1, <2>5, TalkAppend DEF a
    <2>7. p \in Seq(Message) /\ Len(p) = l + 1 /\ DOMAIN p = 1..(l + 1) /\ p[l + 1] = x
          /\ \A i \in 1..l : p[i] = o[i]
      BY <1>1, <2>1
    <2>. HIDE DEF l
    <2>8. RowsUpTo(p, n)
      <3>. SUFFICES ASSUME NEW i \in 1..(l + 1), p[i].uses # <<>> PROVE p[i].row <= n
        BY <2>7 DEF RowsUpTo
      <3>1. CASE i = l + 1 BY <2>7, <3>1
      <3>2. CASE i # l + 1
        <4>1. i \in 1..l BY <1>2, <3>2
        <4>. QED BY <1>1, <1>2, <2>7, <4>1 DEF RowsUpTo
      <3>. QED BY <3>1, <3>2
    <2>9. Stands(x, x) BY DEF Stands
    <2>10. p # <<>> BY <1>2, <2>7
    <2>. QED BY <2>6, <2>7, <2>8, <2>9, <2>10 DEF Merged, p
  <1>. QED BY <1>4, <1>5

\* Repaired rows merge into a history that may be sent.
LEMMA MergeTalk ==
    ASSUME NEW D, NEW ks \in Seq(Message), ks # <<>>, NEW n \in Nat, RawShape(D, ks, n)
    PROVE  Merged(D, MergeSameRole(ks), ks[Len(ks)], n)
  <1>. DEFINE l == Len(ks)
  <1>1. l \in Nat /\ l # 0 /\ DOMAIN ks = 1..l /\ \A i \in 1..l : ks[i] \in Message OBVIOUS
  <1>2. PICK f : /\ f = [i \in 0..l |-> IF i = 0 THEN <<>> ELSE MergeMessage(f[i - 1], ks[i])]
                 /\ MergeSameRole(ks) = f[l]
    BY MergeLoop
  <1>. HIDE DEF l
  <1>. DEFINE S == {m \in Nat : m + 1 <= l => Merged(D, f[m + 1], ks[m + 1], n)}
  <1>3. 0 \in S
    <2>1. 0 \in 0..l /\ 1 \in 0..l /\ 1 \in 1..l BY <1>1
    <2>2. f[0] = <<>> /\ f[1] = MergeMessage(f[0], ks[1])
      <3>1. f[1] = MergeMessage(f[1 - 1], ks[1]) BY <1>2, <2>1
      <3>. QED BY <1>2, <2>1, <3>1
    <2>3. f[1] = <<ks[1]>> BY <2>2 DEF MergeMessage
    <2>4. Sided(ks[1]) /\ (ks[1].uses # <<>> => ks[1].row <= n) /\ ks[1].res = <<>>
      BY <1>1, <2>1 DEF RawShape
    <2>5. f[1] \in Seq(Message) /\ f[1] # <<>> /\ Len(f[1]) = 1 /\ DOMAIN f[1] = {1} /\ f[1][1] = ks[1]
      BY <1>1, <2>1, <2>3
    <2>6. Talk(D, f[1]) /\ RowsUpTo(f[1], n) BY <2>4, <2>5 DEF Talk, RowsUpTo
    <2>7. Stands(ks[1], ks[1]) BY DEF Stands
    <2>8. Merged(D, f[1], ks[1], n) BY <2>5, <2>6, <2>7 DEF Merged
    <2>. QED BY <2>8
  <1>4. ASSUME NEW m \in Nat, m \in S PROVE m + 1 \in S
    <2>. DEFINE j == m + 1
                k == m + 2
    <2>. SUFFICES ASSUME k <= l PROVE Merged(D, f[k], ks[k], n) OBVIOUS
    <2>1. j \in 1..l /\ k \in 1..l /\ k \in 0..l /\ k # 0 /\ k - 1 = j /\ k > 1 BY <1>1
    <2>2. Merged(D, f[j], ks[j], n) BY <1>4, <2>1
    <2>3. f[k] = MergeMessage(f[j], ks[k]) BY <1>2, <2>1
    <2>. HIDE DEF j, k
    <2>4. Sided(ks[k]) /\ (ks[k].uses # <<>> => ks[k].row <= n) /\ Raw(D, ks[j], ks[k])
      BY <1>1, <2>1 DEF RawShape
    <2>5. ks[j] \in Message /\ ks[k] \in Message BY <1>1, <2>1
    <2>. QED BY <2>2, <2>3, <2>4, <2>5, MergeStep
  <1>. HIDE DEF S
  <1>5. l - 1 \in Nat /\ (l - 1) + 1 = l BY <1>1
  <1>6. l - 1 \in S BY <1>3, <1>4, <1>5, SetInduction
  <1>7. Merged(D, f[l], ks[l], n) BY <1>1, <1>5, <1>6 DEF S
  <1>. QED BY <1>2, <1>7 DEF l

\* hydrateSessionHistory, behind the recovery gate: the history is one that
\* may be sent, of calls in the stored rows, and ends on a user message.
LEMMA HydrateTalk ==
    ASSUME NEW rs \in Seq(Message), rs # <<>>, Shape(DOMAIN ran, rs), rs[Len(rs)].role = "user",
           HasNativeRecoveryTarget(rs), ReceiptTypes, ReceiptsTellTheTruth
    PROVE  LET view == Hydrate(rs)
           IN  /\ view \in Seq(Message) /\ view # <<>> /\ view[Len(view)].role = "user"
               /\ Talk(DOMAIN ran, view) /\ RowsUpTo(view, Len(rs))
  <1>. DEFINE ks == Repair(rs)
  <1>1. Len(rs) \in Nat /\ Len(rs) # 0 OBVIOUS
  <1>2. ks \in Seq(Message) /\ Len(ks) = Len(rs) /\ ks[Len(rs)].role = "user" /\ RawShape(DOMAIN ran, ks, Len(rs))
    BY RepairShape
  <1>. HIDE DEF ks
  <1>3. ks # <<>> BY <1>1, <1>2
  <1>4. Merged(DOMAIN ran, MergeSameRole(ks), ks[Len(ks)], Len(rs)) BY <1>1, <1>2, <1>3, MergeTalk
  <1>5. Hydrate(rs) = MergeSameRole(ks) BY DEF Hydrate, ks
  <1>. QED BY <1>2, <1>4, <1>5 DEF Merged, Stands

-----------------------------------------------------------------------------
(* The journal: rows, and messages that are rows or not yet.               *)

\* A piece of a sequence.
LEMMA Piece ==
    ASSUME NEW s \in Seq(Message), NEW a \in Nat, NEW b \in Nat, b <= Len(s), a <= b
    PROVE  /\ SubSeq(s, a + 1, b) \in Seq(Message) /\ Len(SubSeq(s, a + 1, b)) = b - a
           /\ \A i \in 1..(b - a) : SubSeq(s, a + 1, b)[i] = s[a + i]
  <1>1. \A i \in (a + 1)..b : s[i] \in Message
    <2>1. Len(s) \in Nat OBVIOUS
    <2>2. \A i \in (a + 1)..b : i \in 1..Len(s) BY <2>1
    <2>. QED BY <2>2
  <1>2. a + 1 \in Int /\ b \in Int OBVIOUS
  <1>3. /\ SubSeq(s, a + 1, b) \in Seq(Message)
        /\ Len(SubSeq(s, a + 1, b)) = IF a + 1 <= b THEN b - (a + 1) + 1 ELSE 0
        /\ \A i \in 1..(b - (a + 1) + 1) : SubSeq(s, a + 1, b)[i] = s[(a + 1) + i - 1]
    BY <1>1, <1>2, SubSeqProperties
  <1>4. Len(SubSeq(s, a + 1, b)) = b - a BY <1>3
  <1>5. b - (a + 1) + 1 = b - a BY <1>2
  <1>6. ASSUME NEW i \in 1..(b - a) PROVE SubSeq(s, a + 1, b)[i] = s[a + i]
    <2>1. (a + 1) + i - 1 = a + i OBVIOUS
    <2>. QED BY <1>3, <1>5, <2>1
  <1>. QED BY <1>3, <1>4, <1>6

\* What is said before a piece ends does not change with what is said after.
LEMMA PieceOfAppend ==
    ASSUME NEW s \in Seq(Message), NEW x \in Message, NEW a \in Nat, NEW b \in Nat, b <= Len(s), a <= b
    PROVE  SubSeq(Append(s, x), a + 1, b) = SubSeq(s, a + 1, b)
  <1>. DEFINE t == Append(s, x)
  <1>1. t \in Seq(Message) /\ Len(t) = Len(s) + 1 /\ \A i \in 1..Len(s) : t[i] = s[i] BY AppendProperties
  <1>2. Len(s) \in Nat OBVIOUS
  <1>. HIDE DEF t
  <1>3. b <= Len(t) BY <1>1, <1>2
  <1>4. ASSUME NEW i \in 1..(b - a) PROVE SubSeq(t, a + 1, b)[i] = SubSeq(s, a + 1, b)[i]
    <2>1. a + i \in 1..Len(s) BY <1>2
    <2>2. SubSeq(t, a + 1, b)[i] = t[a + i] BY <1>1, <1>3, Piece
    <2>3. SubSeq(s, a + 1, b)[i] = s[a + i] BY Piece
    <2>. QED BY <1>1, <2>1, <2>2, <2>3
  <1>5. SubSeq(t, a + 1, b) \in Seq(Message) /\ Len(SubSeq(t, a + 1, b)) = b - a BY <1>1, <1>3, Piece
  <1>6. SubSeq(s, a + 1, b) \in Seq(Message) /\ Len(SubSeq(s, a + 1, b)) = b - a BY Piece
  <1>. HIDE DEF t
  <1>7. SubSeq(t, a + 1, b) = SubSeq(s, a + 1, b) BY <1>4, <1>5, <1>6, SeqEqual
  <1>. QED BY <1>7 DEF t

\* Two pieces side by side.
LEMMA Pieces ==
    ASSUME NEW s \in Seq(Message), NEW a \in Nat, NEW b \in Nat, NEW c \in Nat,
           a <= b, b <= c, c <= Len(s)
    PROVE  SubSeq(s, a + 1, b) \o SubSeq(s, b + 1, c) = SubSeq(s, a + 1, c)
  <1>1. Len(s) \in Nat OBVIOUS
  <1>2. a + 1 \in 1..(Len(s) + 1) /\ b \in ((a + 1) - 1)..Len(s) /\ c \in b..Len(s) BY <1>1
  <1>. QED BY <1>2, ConcatAdjacentSubSeq

\* Putting pieces together.
LEMMA Joined ==
    ASSUME NEW x \in Seq(Message), NEW y \in Seq(Message), NEW z \in Seq(Message)
    PROVE  /\ x \o y \in Seq(Message) /\ Len(x \o y) = Len(x) + Len(y)
           /\ (x \o y) \o z = x \o (y \o z)
  <1>1. x \o y \in Seq(Message) /\ Len(x \o y) = Len(x) + Len(y) OBVIOUS
  <1>2. (x \o y) \o z = x \o (y \o z) BY ConcatAssociative
  <1>. QED BY <1>1, <1>2

\* It holds the rows, then the unsaved messages.
LEMMA LineParts ==
    ASSUME NEW rs \in Seq(Message), NEW ms \in Seq(Message), NEW s \in Nat, s <= Len(ms)
    PROVE  /\ LineOf(rs, ms, s) \in Seq(Message)
           /\ Len(LineOf(rs, ms, s)) = Len(rs) + Len(ms) - s
           /\ \A i \in 1..Len(rs) : LineOf(rs, ms, s)[i] = rs[i]
           /\ s = Len(ms) => LineOf(rs, ms, s) = rs
  <1>. DEFINE p == SubSeq(ms, s + 1, Len(ms))
  <1>1. Len(rs) \in Nat /\ Len(ms) \in Nat OBVIOUS
  <1>2. p \in Seq(Message) /\ Len(p) = Len(ms) - s BY <1>1, Piece
  <1>. HIDE DEF p
  <1>3. /\ rs \o p \in Seq(Message) /\ Len(rs \o p) = Len(rs) + Len(p)
        /\ \A i \in 1..(Len(rs) + Len(p)) : (rs \o p)[i] = IF i <= Len(rs) THEN rs[i] ELSE p[i - Len(rs)]
    BY <1>2, ConcatProperties
  <1>4. \A i \in 1..Len(rs) : (rs \o p)[i] = rs[i] BY <1>1, <1>2, <1>3
  <1>5. s = Len(ms) => p = <<>> BY <1>2
  <1>6. s = Len(ms) => rs \o p = rs BY <1>5, ConcatEmptySeq
  <1>. QED BY <1>1, <1>2, <1>3, <1>4, <1>6 DEF LineOf, p

\* A message said is the last of the conversation to be stored.
LEMMA LineSay ==
    ASSUME NEW rs \in Seq(Message), NEW ms \in Seq(Message), NEW m \in Message, NEW s \in Nat, s <= Len(ms)
    PROVE  LineOf(rs, Append(ms, m), s) = Append(LineOf(rs, ms, s), m)
  <1>. DEFINE n == Len(ms)
              t == Append(ms, m)
              p == SubSeq(ms, s + 1, n)
  <1>1. n \in Nat OBVIOUS
  <1>2. t \in Seq(Message) /\ Len(t) = n + 1 /\ t[n + 1] = m BY AppendProperties
  <1>. HIDE DEF t, n
  <1>a. s <= n /\ n <= n + 1 /\ n + 1 \in Nat /\ n + 1 <= Len(t) BY <1>1, <1>2 DEF n
  <1>3. SubSeq(t, s + 1, n) \o SubSeq(t, n + 1, n + 1) = SubSeq(t, s + 1, n + 1)
    BY <1>1, <1>2, <1>a, Pieces
  <1>4. SubSeq(t, s + 1, n) = p BY <1>1, PieceOfAppend DEF n, t
  <1>5. SubSeq(t, n + 1, n + 1) = <<m>>
    <2>1. /\ SubSeq(t, n + 1, n + 1) \in Seq(Message) /\ Len(SubSeq(t, n + 1, n + 1)) = (n + 1) - n
          /\ \A i \in 1..((n + 1) - n) : SubSeq(t, n + 1, n + 1)[i] = t[n + i]
      BY <1>1, <1>2, Piece
    <2>2. (n + 1) - n = 1 BY <1>1
    <2>3. SubSeq(t, n + 1, n + 1)[1] = m BY <1>2, <2>1, <2>2
    <2>4. <<m>> \in Seq(Message) /\ Len(<<m>>) = 1 /\ <<m>>[1] = m OBVIOUS
    <2>5. \A i \in 1..1 : SubSeq(t, n + 1, n + 1)[i] = <<m>>[i]
      <3>1. \A i \in 1..1 : i = 1 OBVIOUS
      <3>. QED BY <2>3, <2>4, <3>1
    <2>. QED BY <2>1, <2>2, <2>4, <2>5, SeqEqual
  <1>6. p \in Seq(Message) BY <1>1, Piece DEF n
  <1>. HIDE DEF p
  <1>7. LineOf(rs, t, s) = rs \o (p \o <<m>>) BY <1>2, <1>3, <1>4, <1>5 DEF LineOf
  <1>8. rs \o (p \o <<m>>) = (rs \o p) \o <<m>>
    <2>1. <<m>> \in Seq(Message) OBVIOUS
    <2>. QED BY <1>6, <2>1, ConcatAssociative
  <1>9. rs \o p \in Seq(Message) BY <1>6, ConcatProperties
  <1>10. (rs \o p) \o <<m>> = Append(rs \o p, m) BY <1>9, AppendIsConcat
  <1>. QED BY <1>7, <1>8, <1>10 DEF LineOf, p, n, t

\* Messages that become rows stay where they are in it.
LEMMA LineSave ==
    ASSUME NEW rs \in Seq(Message), NEW ms \in Seq(Message), NEW s \in Nat, NEW k \in Nat,
           s <= k, k <= Len(ms)
    PROVE  /\ rs \o SubSeq(ms, s + 1, k) \in Seq(Message)
           /\ Len(rs \o SubSeq(ms, s + 1, k)) = Len(rs) + k - s
           /\ LineOf(rs \o SubSeq(ms, s + 1, k), ms, k) = LineOf(rs, ms, s)
  <1>. DEFINE n == Len(ms)
              p == SubSeq(ms, s + 1, k)
              q == SubSeq(ms, k + 1, n)
  <1>1. n \in Nat /\ Len(rs) \in Nat OBVIOUS
  <1>2. p \in Seq(Message) /\ Len(p) = k - s /\ q \in Seq(Message) BY <1>1, Piece
  <1>a. k <= n /\ n <= Len(ms) BY <1>1
  <1>. HIDE DEF n
  <1>3. p \o q = SubSeq(ms, s + 1, n) BY <1>1, <1>a, Pieces
  <1>. HIDE DEF p, q
  <1>4. (rs \o p) \o q = rs \o (p \o q) BY <1>2, Joined
  <1>5. rs \o p \in Seq(Message) /\ Len(rs \o p) = Len(rs) + Len(p) BY <1>2, Joined
  <1>. QED BY <1>1, <1>2, <1>3, <1>4, <1>5 DEF LineOf, p, q, n

\* The rows a run added, for given rows, messages and boundaries.
Exact(rs, f, ms, b, s) == SubSeq(rs, f + 1, Len(rs)) = SubSeq(ms, b + 1, s)

\* Saving more messages keeps the journal exact.
LEMMA ExactSave ==
    ASSUME NEW rs \in Seq(Message), NEW ms \in Seq(Message), NEW f \in Nat, NEW b \in Nat,
           NEW s \in Nat, NEW k \in Nat, f <= Len(rs), b <= s, s <= k, k <= Len(ms),
           Exact(rs, f, ms, b, s)
    PROVE  Exact(rs \o SubSeq(ms, s + 1, k), f, ms, b, k)
  <1>. DEFINE n == Len(rs)
              p == SubSeq(ms, s + 1, k)
              t == rs \o p
  <1>1. n \in Nat /\ Len(ms) \in Nat OBVIOUS
  <1>2. p \in Seq(Message) /\ Len(p) = k - s BY <1>1, Piece
  <1>. HIDE DEF p
  <1>3. /\ t \in Seq(Message) /\ Len(t) = n + (k - s)
        /\ \A i \in 1..(n + Len(p)) : t[i] = IF i <= n THEN rs[i] ELSE p[i - n]
    BY <1>2, ConcatProperties
  <1>. HIDE DEF t, n
  <1>a. f <= n /\ f <= Len(t) /\ n <= Len(t) /\ Len(t) \in Nat BY <1>1, <1>3 DEF n
  <1>4. SubSeq(t, f + 1, n) \o SubSeq(t, n + 1, Len(t)) = SubSeq(t, f + 1, Len(t))
    BY <1>1, <1>3, <1>a, Pieces
  <1>5. SubSeq(t, f + 1, n) = SubSeq(rs, f + 1, n)
    <2>1. SubSeq(t, f + 1, n) \in Seq(Message) /\ Len(SubSeq(t, f + 1, n)) = n - f BY <1>1, <1>3, <1>a, Piece
    <2>2. SubSeq(rs, f + 1, n) \in Seq(Message) /\ Len(SubSeq(rs, f + 1, n)) = n - f
      <3>1. n <= Len(rs) BY <1>1 DEF n
      <3>. QED BY ONLY <1>1, <1>a, <3>1, Piece, f \in Nat, rs \in Seq(Message)
    <2>3. ASSUME NEW i \in 1..(n - f) PROVE SubSeq(t, f + 1, n)[i] = SubSeq(rs, f + 1, n)[i]
      <3>1. f + i \in 1..(n + Len(p)) /\ f + i <= n BY <1>1, <1>2, <1>a
      <3>2. SubSeq(t, f + 1, n)[i] = t[f + i] BY <1>1, <1>3, <1>a, Piece
      <3>3. SubSeq(rs, f + 1, n)[i] = rs[f + i] BY <1>1, <1>a, Piece DEF n
      <3>4. t[f + i] = rs[f + i] BY <1>3, <3>1
      <3>. QED BY <3>2, <3>3, <3>4
    <2>. QED BY <2>1, <2>2, <2>3, SeqEqual
  <1>6. SubSeq(t, n + 1, Len(t)) = p
    <2>1. SubSeq(t, n + 1, Len(t)) \in Seq(Message) /\ Len(SubSeq(t, n + 1, Len(t))) = Len(t) - n
      BY <1>1, <1>3, <1>a, Piece
    <2>2. Len(t) - n = Len(p) BY <1>1, <1>2, <1>3
    <2>3. ASSUME NEW i \in 1..Len(p) PROVE SubSeq(t, n + 1, Len(t))[i] = p[i]
      <3>1. n + i \in 1..(n + Len(p)) /\ ~(n + i <= n) /\ (n + i) - n = i BY <1>1, <1>2
      <3>2. SubSeq(t, n + 1, Len(t))[i] = t[n + i] BY <1>1, <1>3, <1>a, <2>2, Piece
      <3>3. t[n + i] = p[i] BY <1>3, <3>1
      <3>. QED BY <3>2, <3>3
    <2>. QED BY <1>2, <2>1, <2>2, <2>3, SeqEqual
  <1>7. SubSeq(ms, b + 1, s) \o p = SubSeq(ms, b + 1, k) BY <1>1, Pieces DEF p
  <1>. QED BY <1>4, <1>5, <1>6, <1>7 DEF Exact, t, n, p

\* Saving the one message that was said last appends it.
LEMMA SaveLast ==
    ASSUME NEW rs \in Seq(Message), NEW ms \in Seq(Message), NEW x \in Message
    PROVE  rs \o SubSeq(Append(ms, x), Len(ms) + 1, Len(ms) + 1) = Append(rs, x)
  <1>. DEFINE t == Append(ms, x)
              n == Len(ms)
  <1>1. n \in Nat /\ t \in Seq(Message) /\ Len(t) = n + 1 /\ t[n + 1] = x OBVIOUS
  <1>. HIDE DEF t, n
  <1>. DEFINE p == SubSeq(t, n + 1, n + 1)
  <1>2. n + 1 \in Nat /\ n + 1 <= Len(t) /\ n <= n + 1 /\ (n + 1) - n = 1 BY <1>1
  <1>3. p \in Seq(Message) /\ Len(p) = 1 /\ \A i \in 1..1 : p[i] = t[n + i] BY <1>1, <1>2, Piece
  <1>4. 1 \in 1..1 OBVIOUS
  <1>5. p[1] = x BY <1>1, <1>3, <1>4
  <1>. HIDE DEF p
  <1>6. p = <<x>> BY <1>3, <1>5
  <1>7. rs \o <<x>> = Append(rs, x) OBVIOUS
  <1>. QED BY <1>6, <1>7 DEF p, t, n

-----------------------------------------------------------------------------
(* How rows and histories grow.                                            *)

\* A prefix of well-shaped rows is well-shaped.
LEMMA ShapePrefix ==
    ASSUME NEW D, NEW ms \in Seq(Message), NEW ps \in Seq(Message), Shape(D, ms),
           Len(ps) <= Len(ms), \A i \in 1..Len(ps) : ps[i] = ms[i]
    PROVE  Shape(D, ps)
  <1>. DEFINE n == Len(ps)
  <1>1. n \in Nat /\ DOMAIN ps = 1..n /\ Len(ms) \in Nat /\ DOMAIN ms = 1..Len(ms) OBVIOUS
  <1>. SUFFICES ASSUME NEW i \in 1..n
                PROVE  /\ Sided(ps[i]) /\ (ps[i].role = "assistant" => ps[i].row = i)
                       /\ i = 1 => ps[i].res = <<>>
                       /\ i > 1 => Follows(D, ps[i - 1], i - 1, ps[i])
    BY <1>1 DEF Shape
  <1>2. i \in 1..Len(ms) /\ (i > 1 => i - 1 \in 1..n) BY <1>1
  <1>3. ps[i] = ms[i] /\ (i > 1 => ps[i - 1] = ms[i - 1]) BY <1>2
  <1>. QED BY <1>1, <1>2, <1>3 DEF Shape

\* Rows grow by a message that may follow the last one.
LEMMA ShapeAppend ==
    ASSUME NEW D, NEW ms \in Seq(Message), NEW m \in Message, Shape(D, ms), Sided(m),
           m.role = "assistant" => m.row = Len(ms) + 1,
           ms = <<>> => m.res = <<>>, ms # <<>> => Follows(D, ms[Len(ms)], Len(ms), m)
    PROVE  Shape(D, Append(ms, m))
  <1>. DEFINE os == Append(ms, m)
              n == Len(ms)
  <1>1. n \in Nat /\ DOMAIN ms = 1..n /\ (ms = <<>> <=> n = 0) OBVIOUS
  <1>2. DOMAIN os = 1..(n + 1) /\ os[n + 1] = m /\ \A i \in 1..n : os[i] = ms[i] OBVIOUS
  <1>. HIDE DEF os, n
  <1>. SUFFICES ASSUME NEW i \in 1..(n + 1)
                PROVE  /\ Sided(os[i]) /\ (os[i].role = "assistant" => os[i].row = i)
                       /\ i = 1 => os[i].res = <<>>
                       /\ i > 1 => Follows(D, os[i - 1], i - 1, os[i])
    BY <1>2 DEF Shape, os
  <1>3. CASE i = n + 1
    <2>1. i > 1 => os[i - 1] = ms[n] /\ n # 0 /\ i - 1 = n BY <1>1, <1>2, <1>3
    <2>2. i = 1 => n = 0 BY <1>1, <1>3
    <2>. QED BY <1>1, <1>2, <1>3, <2>1, <2>2 DEF n
  <1>4. CASE i # n + 1
    <2>1. i \in 1..n /\ (i > 1 => i - 1 \in 1..n) BY <1>1, <1>4
    <2>2. os[i] = ms[i] /\ (i > 1 => os[i - 1] = ms[i - 1]) BY <1>2, <2>1
    <2>. QED BY <1>1, <2>1, <2>2 DEF Shape
  <1>. QED BY <1>3, <1>4

\* A call that starts leaves the results of earlier rows true.
LEMMA ShapeRan ==
    ASSUME NEW D, NEW ms \in Seq(Message), Shape(D, ms), NEW n \in Nat, n >= Len(ms), NEW k
    PROVE  Shape(D \cup {<<n, k>>}, ms)
  <1>1. Len(ms) \in Nat /\ DOMAIN ms = 1..Len(ms) OBVIOUS
  <1>2. ASSUME NEW i \in 1..Len(ms), i > 1 PROVE Follows(D \cup {<<n, k>>}, ms[i - 1], i - 1, ms[i])
    <2>1. Follows(D, ms[i - 1], i - 1, ms[i]) BY <1>1, <1>2 DEF Shape
    <2>2. i - 1 # n BY <1>1
    <2>3. \A l : <<i - 1, l>> \in D \cup {<<n, k>>} <=> <<i - 1, l>> \in D BY <2>2
    <2>4. Told(D, i - 1, ms[i - 1].uses, ms[i].res) => Told(D \cup {<<n, k>>}, i - 1, ms[i - 1].uses, ms[i].res)
      BY <2>3 DEF Told
    <2>. QED BY <2>1, <2>4 DEF Follows
  <1>. QED BY <1>1, <1>2 DEF Shape

\* And what the history says of earlier calls.
LEMMA TalkRan ==
    ASSUME NEW D, NEW ms \in Seq(Message), Talk(D, ms), NEW n \in Nat, Older(ms, n), NEW k
    PROVE  Talk(D \cup {<<n, k>>}, ms)
  <1>1. Len(ms) \in Nat /\ DOMAIN ms = 1..Len(ms) OBVIOUS
  <1>2. ASSUME NEW i \in 1..Len(ms), i > 1 PROVE Answers(D \cup {<<n, k>>}, ms[i - 1], ms[i])
    <2>. DEFINE a == ms[i - 1]
    <2>1. Answers(D, a, ms[i]) BY <1>1, <1>2 DEF Talk
    <2>2. i - 1 \in 1..(Len(ms) - 1) /\ i - 1 \in 1..Len(ms) BY <1>1, <1>2
    <2>3. a.uses # <<>> => a.row < n BY <2>2 DEF Older
    <2>4. a.row \in Nat BY <2>2, MessageFields
    <2>5. a.uses # <<>> => a.row # n BY <2>3, <2>4
    <2>. HIDE DEF a
    <2>6. a.uses # <<>> => \A l : <<a.row, l>> \in D \cup {<<n, k>>} <=> <<a.row, l>> \in D BY <2>5
    <2>7. a.uses # <<>> /\ Shown(D, a.row, a.uses, ms[i].res)
            => Shown(D \cup {<<n, k>>}, a.row, a.uses, ms[i].res)
      BY <2>6 DEF Shown
    <2>8. Answers(D \cup {<<n, k>>}, a, ms[i]) BY <2>1, <2>7 DEF Answers
    <2>. QED BY <2>8 DEF a
  <1>. QED BY <1>1, <1>2 DEF Talk

\* A message that answers the calls of the answer at hand, or follows it when
\* it makes none, brings rows and history to a request again.
LEMMA AnswerGiven ==
    ASSUME NEW D, NEW rs \in Seq(Message), NEW h \in Seq(Message), NEW m \in Message,
           AnswerAtHand(D, rs, h), Shape(D, rs),
           m.role = "user", m.uses = <<>>, Told(D, Len(rs), h[Len(h)].uses, m.res)
    PROVE  /\ Shape(D, Append(rs, m)) /\ EndsOnUser(Append(rs, m))
           /\ \A n \in Nat : n >= Len(rs) => MaySend(D, Append(h, m), n)
  <1>. DEFINE a == h[Len(h)]
              l == Len(h)
  <1>1. l \in Nat /\ l # 0 /\ DOMAIN h = 1..l /\ Len(rs) \in Nat BY DEF AnswerAtHand
  <1>2. a \in Message /\ a.role = "assistant" /\ a.row = Len(rs) /\ rs # <<>> /\ h # <<>>
        /\ rs[Len(rs)] = a /\ Talk(D, h) /\ Older(h, Len(rs))
    <2>1. l \in 1..l BY <1>1
    <2>. QED BY <2>1 DEF AnswerAtHand
  <1>. HIDE DEF a
  <1>3. Sided(m) BY DEF Sided
  <1>4. Follows(D, a, Len(rs), m) BY <1>2 DEF Follows, a
  <1>5. Shape(D, Append(rs, m)) BY <1>2, <1>3, <1>4, ShapeAppend
  <1>6. m.res # <<>> => a.uses # <<>> BY <1>2, ResultsFollowCalls DEF a
  <1>7. Answers(D, a, m) BY <1>2, <1>6, ToldShown DEF Answers, a
  <1>8. Talk(D, Append(h, m)) BY <1>2, <1>3, <1>7, TalkAppend DEF a
  <1>9. EndsOnUser(Append(rs, m)) /\ EndsOnUser(Append(h, m))
    BY AppendProperties DEF EndsOnUser
  <1>. DEFINE os == Append(h, m)
  <1>10. DOMAIN os = 1..(l + 1) /\ os[l + 1] = m /\ \A i \in 1..l : os[i] = h[i] OBVIOUS
  <1>. HIDE DEF os
  <1>11. ASSUME NEW n \in Nat, n >= Len(rs) PROVE RowsUpTo(os, n)
    <2>. SUFFICES ASSUME NEW i \in 1..(l + 1), os[i].uses # <<>> PROVE os[i].row <= n
      BY <1>10 DEF RowsUpTo
    <2>. HIDE DEF l
    <2>1. i # l + 1 BY <1>10
    <2>2. i \in 1..l BY <1>1, <2>1
    <2>3. h[i].row \in Nat BY <1>1, <2>2, MessageFields
    <2>4. CASE i = l BY <1>1, <1>2, <1>10, <1>11, <2>2, <2>4 DEF a, l
    <2>5. CASE i # l
      <3>1. i \in 1..(l - 1) BY <1>1, <2>2, <2>5
      <3>2. h[i].row < Len(rs) BY <1>2, <1>10, <2>2, <3>1 DEF Older, l
      <3>. QED BY <1>1, <1>10, <1>11, <2>2, <2>3, <3>2
    <2>. QED BY <2>4, <2>5
  <1>. QED BY <1>5, <1>8, <1>9, <1>11 DEF MaySend, os

\* An answer to a request is the answer at hand once it is a row.
LEMMA AnswerTaken ==
    ASSUME NEW D, NEW line \in Seq(Message), NEW h \in Seq(Message), NEW m \in Message, NEW n \in Nat,
           n <= Len(line), Shape(D, line), EndsOnUser(line), MaySend(D, h, n),
           m.role = "assistant", m.res = <<>>, m.row = Len(line) + 1
    PROVE  Shape(D, Append(line, m)) /\ AnswerAtHand(D, Append(line, m), Append(h, m))
  <1>. DEFINE l == Len(h)
              os == Append(h, m)
              a == h[l]
  <1>1. l \in Nat /\ l # 0 /\ DOMAIN h = 1..l /\ h # <<>> /\ Talk(D, h) /\ RowsUpTo(h, n)
        /\ a.role = "user" /\ Len(line) \in Nat
    BY DEF MaySend, EndsOnUser
  <1>2. Sided(m) BY DEF Sided
  <1>3. Follows(D, line[Len(line)], Len(line), m) /\ line # <<>> BY DEF Follows, EndsOnUser
  <1>4. Shape(D, Append(line, m)) BY <1>2, <1>3, ShapeAppend
  <1>5. Answers(D, a, m)
    <2>1. Sided(a)
      <3>1. l \in 1..l BY <1>1
      <3>. QED BY <1>1, <3>1 DEF Talk
    <2>2. a.uses = <<>> BY <1>1, <2>1 DEF Sided
    <2>. QED BY <1>1, <2>2 DEF Answers
  <1>6. Talk(D, os) BY <1>1, <1>2, <1>5, TalkAppend
  <1>7. os # <<>> /\ Len(os) = l + 1 /\ os[l + 1] = m /\ \A i \in 1..l : os[i] = h[i]
    BY AppendProperties
  <1>8. Append(line, m) # <<>> /\ Len(Append(line, m)) = Len(line) + 1 /\ Append(line, m)[Len(line) + 1] = m
    BY AppendProperties
  <1>. HIDE DEF os, l
  <1>9. Older(os, Len(line) + 1)
    <2>. SUFFICES ASSUME NEW i \in 1..l, h[i].uses # <<>> PROVE h[i].row < Len(line) + 1
      <3>1. (l + 1) - 1 = l BY <1>1
      <3>. QED BY <1>7, <3>1 DEF Older
    <2>1. h[i].row <= n BY <1>1 DEF RowsUpTo
    <2>2. h[i].row \in Nat BY <1>1, MessageFields
    <2>. QED BY <1>1, <2>1, <2>2
  <1>10. Append(line, m)[Len(Append(line, m))] = os[Len(os)] /\ os[Len(os)] = m BY <1>7, <1>8
  <1>. QED BY <1>4, <1>6, <1>7, <1>8, <1>9, <1>10 DEF AnswerAtHand, os

\* microcompact turns some results that say "ran" into placeholders and
\* changes nothing else.
LEMMA MicroMessage ==
    ASSUME NEW ms \in Seq(Message), NEW i \in 1..Len(ms)
    PROVE  LET m == Microcompact(ms)[i]
           IN  /\ m \in Message /\ m.role = ms[i].role /\ m.row = ms[i].row
               /\ m.uses = ms[i].uses /\ m.text = ms[i].text /\ Len(m.res) = Len(ms[i].res)
               /\ \A k \in 1..Len(ms[i].res) :
                    m.res[k] = ms[i].res[k] \/ (ms[i].res[k] = "ran" /\ m.res[k] = "cleared")
  <1>. DEFINE O == {"ran", "notrun", "unknown", "cleared"}
              refs == ToClear(ms)
              old == ms[i].res
              new == ClearResults(old, i, refs)
              m == Microcompact(ms)[i]
  <1>1. i \in DOMAIN ms /\ ms[i] \in Message OBVIOUS
  <1>2. m = [ms[i] EXCEPT !.res = new] BY <1>1 DEF Microcompact
  <1>3. old \in Seq(O) BY <1>1, MessageFields
  <1>4. Len(old) \in Nat /\ DOMAIN old = 1..Len(old) /\ \A k \in 1..Len(old) : old[k] \in O BY <1>3
  <1>5. ASSUME NEW k, <<i, k>> \in refs PROVE old[k] = "ran"
    <2>1. <<i, k>> \in CollectCompactableRefs(ms) BY <1>5 DEF ToClear
    <2>2. PICK j, l : <<i, k>> = <<j, l>> /\ ms[j].res[l] = "ran" BY <2>1 DEF CollectCompactableRefs
    <2>3. i = j /\ k = l BY <2>2
    <2>. QED BY <2>2, <2>3
  <1>. HIDE DEF refs, old, O
  <1>6. new = [k \in 1..Len(old) |-> IF <<i, k>> \in refs THEN "cleared" ELSE old[k]]
    BY <1>4 DEF ClearResults
  <1>7. \A k \in 1..Len(old) : (IF <<i, k>> \in refs THEN "cleared" ELSE old[k]) \in O BY <1>4 DEF O
  <1>. HIDE DEF new
  <1>8. new \in Seq(O) /\ Len(new) = Len(old) BY <1>4, <1>6, <1>7
  <1>9. \A k \in 1..Len(old) : new[k] = old[k] \/ (old[k] = "ran" /\ new[k] = "cleared") BY <1>5, <1>6
  <1>. HIDE DEF m
  <1>10. m \in Message /\ m.role = ms[i].role /\ m.row = ms[i].row /\ m.uses = ms[i].uses
         /\ m.text = ms[i].text /\ m.res = new
    BY <1>1, <1>2, <1>8 DEF Message, O
  <1>. QED BY <1>8, <1>9, <1>10 DEF m, old

\* A compacted history may be sent when the history may.
LEMMA MicroTalk ==
    ASSUME NEW D, NEW ms \in Seq(Message), NEW n, MaySend(D, ms, n)
    PROVE  Microcompact(ms) \in Seq(Message) /\ MaySend(D, Microcompact(ms), n)
  <1>. DEFINE l == Len(ms)
              os == Microcompact(ms)
  <1>1. l \in Nat /\ l # 0 /\ DOMAIN ms = 1..l /\ \A i \in 1..l : ms[i] \in Message
    BY DEF MaySend, EndsOnUser
  <1>2. \A i \in 1..l :
          /\ os[i] \in Message /\ os[i].role = ms[i].role /\ os[i].row = ms[i].row
          /\ os[i].uses = ms[i].uses /\ os[i].text = ms[i].text /\ Len(os[i].res) = Len(ms[i].res)
          /\ \A k \in 1..Len(ms[i].res) :
               os[i].res[k] = ms[i].res[k] \/ (ms[i].res[k] = "ran" /\ os[i].res[k] = "cleared")
    BY MicroMessage
  <1>3. os \in Seq(Message) /\ Len(os) = l /\ DOMAIN os = 1..l
    <2>1. os = [i \in 1..l |-> [ms[i] EXCEPT !.res = ClearResults(ms[i].res, i, ToClear(ms))]]
      BY <1>1 DEF Microcompact
    <2>. HIDE DEF os, l
    <2>2. os \in [1..l -> Message] BY <1>2, <2>1
    <2>. QED BY <1>1, <2>2
  <1>. HIDE DEF os, l
  <1>4. \A i \in 1..l : os[i].res = <<>> <=> ms[i].res = <<>>
    <2>. SUFFICES ASSUME NEW i \in 1..l PROVE os[i].res = <<>> <=> ms[i].res = <<>> OBVIOUS
    <2>1. /\ os[i].res \in Seq({"ran", "notrun", "unknown", "cleared"})
          /\ ms[i].res \in Seq({"ran", "notrun", "unknown", "cleared"})
      BY <1>1, <1>2, MessageFields
    <2>2. Len(os[i].res) = Len(ms[i].res) BY <1>2
    <2>. QED BY <2>1, <2>2
  <1>5. ASSUME NEW i \in 1..l PROVE Sided(os[i]) /\ (i = 1 => os[i].res = <<>>)
    <2>1. Sided(ms[i]) /\ (i = 1 => ms[i].res = <<>>) BY <1>1 DEF MaySend, Talk
    <2>. QED BY <1>2, <1>4, <2>1 DEF Sided
  <1>6. ASSUME NEW i \in 1..l, i > 1 PROVE Answers(D, os[i - 1], os[i])
    <2>1. Answers(D, ms[i - 1], ms[i]) BY <1>1, <1>6 DEF MaySend, Talk
    <2>2. i - 1 \in 1..l BY <1>1, <1>6
    <2>3. os[i - 1].uses # <<>> => Shown(D, os[i - 1].row, os[i - 1].uses, os[i].res)
      <3>. DEFINE u == ms[i - 1].uses
                  r == ms[i - 1].row
      <3>1. os[i - 1].uses = u /\ os[i - 1].row = r BY <1>2, <2>2
      <3>2. u # <<>> => Shown(D, r, u, ms[i].res) BY <2>1 DEF Answers
      <3>. HIDE DEF u, r
      <3>. SUFFICES ASSUME Shown(D, r, u, ms[i].res) PROVE Shown(D, r, u, os[i].res)
        BY <3>1, <3>2
      <3>3. Len(os[i].res) = Len(u) /\ Len(ms[i].res) = Len(u) BY <1>2 DEF Shown
      <3>4. ASSUME NEW k \in 1..Len(u)
            PROVE  os[i].res[k] \in IF <<r, k>> \in D THEN {"ran", "cleared"} ELSE {"notrun"}
        <4>1. ms[i].res[k] \in IF <<r, k>> \in D THEN {"ran", "cleared"} ELSE {"notrun"} BY DEF Shown
        <4>2. os[i].res[k] = ms[i].res[k] \/ (ms[i].res[k] = "ran" /\ os[i].res[k] = "cleared")
          BY <1>2, <3>3
        <4>. QED BY <4>1, <4>2
      <3>. QED BY <3>3, <3>4 DEF Shown
    <2>4. os[i].res # <<>> => os[i - 1].uses # <<>> BY <1>2, <1>4, <2>1, <2>2 DEF Answers
    <2>5. os[i - 1].role = os[i].role => os[i - 1].res # <<>> /\ "prompt" \in os[i].text
      BY <1>2, <1>4, <2>1, <2>2 DEF Answers
    <2>. QED BY <2>3, <2>4, <2>5 DEF Answers
  <1>7. Talk(D, os) BY <1>3, <1>5, <1>6 DEF Talk
  <1>8. RowsUpTo(os, n) BY <1>1, <1>2, <1>3 DEF RowsUpTo, MaySend
  <1>9. EndsOnUser(os)
    <2>1. l \in 1..l /\ ms[l].role = "user" BY <1>1 DEF MaySend, EndsOnUser, l
    <2>2. os # <<>> BY <1>1, <1>3
    <2>. QED BY <1>2, <1>3, <2>1, <2>2 DEF EndsOnUser
  <1>. QED BY <1>3, <1>7, <1>8, <1>9 DEF MaySend, os

-----------------------------------------------------------------------------
(* The steps.  First what several of them have in common.                  *)

\* A step that changes neither the store nor the conversation.
LEMMA FrameInv ==
    ASSUME Inv, UNCHANGED <<rows, receipts, ran, history, messages, base, from, saved>>,
           pc' \in {"idle", "top", "stream", "answered", "checked", "tools", "finish"},
           pc' = "idle" <=> pc = "idle",
           pc' \in {"top", "stream"} => pc \in {"top", "stream"},
           pc' \in {"answered", "checked"} => pc \in {"answered", "checked"},
           pc' = "tools" => pc = "tools" /\ UNCHANGED <<waves, st, outs>>,
           pc' # "tools" => st' = <<>>,
           turn' = turn, pc' \in {"stream", "answered", "checked", "tools"} => turn < MaxTurns,
           strikes' \in Nat, broken' \in BOOLEAN, aborted' \in BOOLEAN, guide' \in BOOLEAN,
           steer' \in {"none", "file", "taken"}, steer' = "taken" => steer = "taken"
    PROVE  Inv'
  <1>1. Types' BY DEF Inv, Types
  <1>2. Quiet' BY DEF Inv, Quiet
  <1>3. JournalExact' BY DEF Inv, JournalExact
  <1>4. SteerKept' BY DEF Inv, SteerKept
  <1>5. Spoken'
    <2>1. Line' = Line BY DEF Line
    <2>. QED BY <2>1 DEF Inv, Spoken
  <1>6. Keyed' BY DEF Inv, Keyed
  <1>7. ReceiptsTellTheTruth' BY DEF Inv, ReceiptsTellTheTruth
  <1>8. Batch'
    <2>1. CASE pc' = "tools"
      <3>1. pc = "tools" /\ UNCHANGED <<waves, st, outs, pc, history, receipts, ran>> BY <2>1
      <3>2. Intent' = Intent /\ InFlight' = InFlight BY <3>1 DEF Intent, InFlight
      <3>3. \A i : Key(i)' = Key(i) BY <3>2 DEF Key
      <3>4. \A i : Slot(i)' <=> Slot(i) BY <3>1, <3>3 DEF Slot
      <3>5. Batch BY DEF Inv
      <3>. QED BY <3>1, <3>2, <3>4, <3>5, SMT DEF Batch
    <2>2. CASE pc' # "tools" BY <2>2 DEF Batch
    <2>. QED BY <2>1, <2>2
  <1>. QED BY <1>1, <1>2, <1>3, <1>4, <1>5, <1>6, <1>7, <1>8 DEF Inv

\* A step back to rest, whatever of the conversation has become rows.
LEMMA IdleInv ==
    ASSUME Inv, Idle, receipts' = receipts, ran' = ran, strikes' \in Nat,
           rows' \in Seq(Message), Len(rows) <= Len(rows'), Shape(DOMAIN ran, rows')
    PROVE  Inv'
  <1>. USE DEF Idle, Reset
  <1>1. history' = <<>> /\ messages' = <<>> /\ base' = 0 /\ saved' = 0 /\ from' = 0 /\ turn' = 0
        /\ st' = <<>> /\ pc' = "idle"
    <2>1. Len(<<>>) = 0 OBVIOUS
    <2>. QED BY <2>1
  <1>2. Types'
    <2>1. MaxTurns \in Nat BY AgentRunAssumption
    <2>2. <<>> \in Seq(Message) /\ Len(<<>>) = 0 /\ Len(rows') \in Nat OBVIOUS
    <2>3. 0 <= MaxTurns /\ 0 <= Len(rows') /\ 0 \in Nat /\ 0 <= 0 BY <2>1, <2>2
    <2>4. broken' \in BOOLEAN /\ aborted' \in BOOLEAN /\ guide' \in BOOLEAN OBVIOUS
    <2>5. steer' \in {"none", "file", "taken"} BY DEF Inv, Types
    <2>6. \A k \in DOMAIN receipts' :
            receipts'[k] \in [state : {"started", "completed", "interrupted"},
                              out : {"none", "ran", "notrun"}] BY DEF Inv, Types
    <2>7. Len(messages') = 0 /\ messages' \in Seq(Message) /\ history' \in Seq(Message)
      BY <1>1, <2>2
    <2>. QED BY <1>1, <2>3, <2>4, <2>5, <2>6, <2>7 DEF Types
  <1>3. Quiet' BY <1>1 DEF Quiet, Inv, Types
  <1>4. JournalExact' /\ SteerKept' BY <1>1 DEF JournalExact, SteerKept
  <1>5. Spoken'
    <2>1. messages' \in Seq(Message) /\ Len(messages') = 0 /\ saved' \in Nat BY <1>1
    <2>2. saved' = Len(messages') /\ saved' <= Len(messages') BY <1>1, <2>1
    <2>3. LineOf(rows', messages', saved') = rows'
      <3>. HIDE DEF Idle, Reset
      <3>. QED BY ONLY <2>1, <2>2, LineParts, rows' \in Seq(Message)
    <2>4. Line' = rows' BY <2>3 DEF Line
    <2>. QED BY <1>1, <2>4 DEF Spoken
  <1>6. Keyed'
    <2>1. Len(rows) \in Nat /\ Len(rows') \in Nat BY DEF Inv, Types
    <2>. QED BY <1>1, <2>1 DEF Inv, Keyed
  <1>7. ReceiptsTellTheTruth' BY DEF Inv, ReceiptsTellTheTruth
  <1>8. Batch' BY <1>1 DEF Batch
  <1>. QED BY <1>2, <1>3, <1>4, <1>5, <1>6, <1>7, <1>8 DEF Inv

\* The lengths of a state in which the answer is at hand.
LEMMA AtHand ==
    ASSUME Inv, pc \in {"answered", "checked", "tools"}
    PROVE  /\ rows \in Seq(Message) /\ history \in Seq(Message) /\ messages \in Seq(Message)
           /\ Len(rows) \in Nat /\ Len(history) \in Nat /\ Len(messages) \in Nat
           /\ saved = Len(messages) /\ Line = rows /\ Shape(DOMAIN ran, rows)
           /\ AnswerAtHand(DOMAIN ran, rows, history)
           /\ Intent = history[Len(history)] /\ Intent \in Message /\ Intent.row = Len(rows)
           /\ Intent.uses \in Seq(Tools) /\ Intent.uses \in Batches \cup {<<>>}
           /\ turn \in Nat /\ turn < MaxTurns /\ MaxTurns \in Nat
  <1>1. rows \in Seq(Message) /\ history \in Seq(Message) /\ messages \in Seq(Message)
        /\ saved \in Nat /\ turn \in Nat /\ turn < MaxTurns BY DEF Inv, Types
  <1>2. saved = Len(messages) /\ AnswerAtHand(DOMAIN ran, rows, history) /\ Shape(DOMAIN ran, Line)
    BY DEF Inv, Spoken
  <1>3. Len(rows) \in Nat /\ Len(history) \in Nat /\ Len(messages) \in Nat BY <1>1
  <1>4. saved <= Len(messages) BY <1>2, <1>3
  <1>5. Line = rows BY <1>1, <1>2, <1>4, LineParts DEF Line
  <1>6. Intent = history[Len(history)] BY DEF Intent, Last
  <1>7. Intent \in Message /\ Intent.row = Len(rows)
    <2>1. Len(history) # 0 BY <1>1, <1>2 DEF AnswerAtHand
    <2>2. Len(history) \in 1..Len(history) BY <1>3, <2>1
    <2>. QED BY <1>1, <1>2, <1>6, <2>2 DEF AnswerAtHand
  <1>8. Intent.uses \in Seq(Tools) /\ Intent.uses \in Batches \cup {<<>>} BY <1>7, MessageFields
  <1>9. MaxTurns \in Nat BY AgentRunAssumption
  <1>. QED BY <1>1, <1>2, <1>3, <1>5, <1>6, <1>7, <1>8, <1>9

\* A step that answers the answer at hand, stored or not.
LEMMA GivenInv ==
    ASSUME Inv, pc \in {"answered", "checked", "tools"},
           NEW m \in Message, m.role = "user", m.uses = <<>>,
           Told(DOMAIN ran, Len(rows), Intent.uses, m.res),
           messages' = Append(messages, m),
           \/ rows' = rows /\ saved' = saved
           \/ rows' = Append(rows, m) /\ saved' = Len(messages) + 1,
           history' \in {Append(history, m), Microcompact(Append(history, m))},
           pc' \in {"top", "finish"}, ran' = ran, base' = base, from' = from, st' = <<>>,
           \A k \in DOMAIN receipts' :
             receipts'[k] \in [state : {"started", "completed", "interrupted"},
                               out : {"none", "ran", "notrun"}],
           \A k \in DOMAIN receipts' : k[1] \in Nat /\ k[1] <= Len(rows),
           ReceiptsTellTheTruth',
           turn' \in Nat, turn' <= MaxTurns, strikes' \in Nat,
           broken' \in BOOLEAN, aborted' \in BOOLEAN, guide' \in BOOLEAN,
           steer' \in {"none", "file", "taken"},
           steer' = "taken" => steer = "taken" \/ "steer" \in m.text
    PROVE  Inv'
  <1>1. /\ rows \in Seq(Message) /\ history \in Seq(Message) /\ messages \in Seq(Message)
        /\ Len(rows) \in Nat /\ Len(history) \in Nat /\ Len(messages) \in Nat
        /\ saved = Len(messages) /\ Line = rows /\ Shape(DOMAIN ran, rows)
        /\ AnswerAtHand(DOMAIN ran, rows, history) /\ Intent = history[Len(history)]
    BY AtHand
  <1>2. base \in Nat /\ from \in Nat /\ saved \in Nat /\ base <= saved /\ from <= Len(rows)
    BY DEF Inv, Types
  <1>. DEFINE h == Append(history, m)
  <1>3. /\ Shape(DOMAIN ran, Append(rows, m)) /\ EndsOnUser(Append(rows, m))
        /\ \A n \in Nat : n >= Len(rows) => MaySend(DOMAIN ran, h, n)
    BY ONLY <1>1, AnswerGiven, m \in Message, m.role = "user", m.uses = <<>>, Told(DOMAIN ran, Len(rows), Intent.uses, m.res)
  <1>4. h \in Seq(Message) /\ messages' \in Seq(Message) /\ Append(rows, m) \in Seq(Message)
        /\ Len(messages') = Len(messages) + 1 /\ Len(Append(rows, m)) = Len(rows) + 1
    BY <1>1
  <1>. HIDE DEF h
  <1>5. Microcompact(h) \in Seq(Message)
        /\ \A n \in Nat : n >= Len(rows) => MaySend(DOMAIN ran, Microcompact(h), n)
    <2>1. \A n \in Nat : n >= Len(rows) =>
            Microcompact(h) \in Seq(Message) /\ MaySend(DOMAIN ran, Microcompact(h), n)
      BY ONLY <1>3, <1>4, MicroTalk
    <2>2. Len(rows) >= Len(rows) BY <1>1
    <2>. QED BY ONLY <1>1, <2>1, <2>2
  <1>6. history' \in Seq(Message) /\ \A n \in Nat : n >= Len(rows) => MaySend(DOMAIN ran, history', n)
    BY <1>3, <1>4, <1>5 DEF h
  <1>7. rows' \in Seq(Message) /\ Len(rows') \in Nat /\ Len(rows) <= Len(rows')
        /\ saved' \in Nat /\ saved <= saved' /\ saved' <= Len(messages')
    <2>1. CASE rows' = rows /\ saved' = saved BY <1>1, <1>2, <1>4, <2>1
    <2>2. CASE rows' = Append(rows, m) /\ saved' = Len(messages) + 1
      BY <1>1, <1>2, <1>4, <2>2
    <2>. QED BY <2>1, <2>2
  <1>8. Line' = Append(rows, m)
    <2>1. CASE rows' = rows /\ saved' = saved
      <3>1. LineOf(rows, Append(messages, m), saved) = Append(LineOf(rows, messages, saved), m)
        BY ONLY <1>1, <1>2, LineSay, m \in Message, saved <= Len(messages)
      <3>. QED BY <1>1, <2>1, <3>1 DEF Line
    <2>2. CASE rows' = Append(rows, m) /\ saved' = Len(messages) + 1
      <3>1. saved' = Len(messages') /\ saved' <= Len(messages') BY <1>4, <1>7, <2>2
      <3>2. LineOf(rows', messages', saved') = rows'
        BY ONLY <1>4, <1>7, <3>1, LineParts
      <3>. QED BY <2>2, <3>2 DEF Line
    <2>. QED BY <2>1, <2>2
  <1>9. Types'
    <2>1. from <= Len(rows') /\ base <= saved' BY <1>1, <1>2, <1>7
    <2>. QED BY <1>2, <1>4, <1>6, <1>7, <2>1 DEF Types
  <1>10. Quiet' /\ Batch' BY DEF Quiet, Batch
  <1>11. JournalExact'
    <2>1. Exact(rows, from, messages, base, saved) BY DEF Inv, JournalExact, Exact
    <2>2. SubSeq(messages', base + 1, saved) = SubSeq(messages, base + 1, saved)
      BY <1>1, <1>2, PieceOfAppend
    <2>3. Exact(rows, from, messages', base, saved) BY <2>1, <2>2 DEF Exact
    <2>4. CASE rows' = rows /\ saved' = saved BY <2>3, <2>4 DEF Exact, JournalExact
    <2>5. CASE rows' = Append(rows, m) /\ saved' = Len(messages) + 1
      <3>1. Exact(rows \o SubSeq(messages', saved + 1, saved'), from, messages', base, saved')
        BY ONLY <1>1, <1>2, <1>4, <1>7, <2>3, ExactSave
      <3>2. rows \o SubSeq(messages', saved + 1, saved') = Append(rows, m)
        BY <1>1, <2>5, SaveLast
      <3>. QED BY <2>5, <3>1, <3>2 DEF Exact, JournalExact
    <2>. QED BY <2>4, <2>5
  <1>12. SteerKept'
    <2>1. DOMAIN messages' = 1..(Len(messages) + 1) /\ DOMAIN messages = 1..Len(messages)
          /\ messages'[Len(messages) + 1] = m
          /\ \A i \in 1..Len(messages) : messages'[i] = messages[i]
      BY <1>1
    <2>2. Len(messages) + 1 \in 1..(Len(messages) + 1)
          /\ \A i \in 1..Len(messages) : i \in 1..(Len(messages) + 1) BY <1>1
    <2>3. SteerKept /\ pc # "idle" BY DEF Inv
    <2>. QED BY <2>1, <2>2, <2>3, Zenon DEF SteerKept
  <1>13. Spoken'
    <2>1. MaySend(DOMAIN ran, history', Len(rows')) BY <1>6, <1>7
    <2>. QED BY <1>3, <1>8, <2>1 DEF Spoken
  <1>14. Keyed' BY <1>1, <1>7 DEF Keyed
  <1>. QED BY <1>9, <1>10, <1>11, <1>12, <1>13, <1>14 DEF Inv

\* The journal of a run that has added nothing yet.
LEMMA ExactAtStart ==
    ASSUME NEW rs \in Seq(Message), NEW ms \in Seq(Message)
    PROVE  Exact(rs, Len(rs), ms, Len(ms), Len(ms))
  <1>1. \A s \in Seq(Message) : SubSeq(s, Len(s) + 1, Len(s)) = <<>>
    <2>. SUFFICES ASSUME NEW s \in Seq(Message) PROVE SubSeq(s, Len(s) + 1, Len(s)) = <<>> OBVIOUS
    <2>1. Len(s) \in Nat /\ Len(s) <= Len(s) /\ Len(s) - Len(s) = 0 OBVIOUS
    <2>. DEFINE p == SubSeq(s, Len(s) + 1, Len(s))
    <2>2. p \in Seq(Message) /\ Len(p) = 0 BY <2>1, Piece
    <2>. HIDE DEF p
    <2>3. p = <<>> BY <2>2
    <2>. QED BY <2>3 DEF p
  <1>. QED BY <1>1 DEF Exact

\* A run opens on a stored conversation that ends on a user message.
LEMMA OpenInv ==
    ASSUME Inv, pc = "idle", NEW rs \in Seq(Message), rs # <<>>, rs[Len(rs)].role = "user",
           Shape(DOMAIN ran, rs), Len(rows) <= Len(rs), Open(rs), strikes' \in Nat
    PROVE  Inv'
  <1>1. rows' = rs /\ receipts' = receipts /\ ran' = ran BY DEF Open
  <1>2. CASE ~HasNativeRecoveryTarget(rs)
    <2>1. Idle BY <1>2 DEF Open
    <2>. QED BY <1>1, <2>1, IdleInv
  <1>3. CASE HasNativeRecoveryTarget(rs)
    <2>. DEFINE view == Hydrate(rs)
    <2>1. pc' = "top" /\ Reset(view, Len(rs)) /\ steer' = steer BY <1>3 DEF Open
    <2>2. ReceiptTypes /\ ReceiptsTellTheTruth BY DEF Inv, Types, ReceiptTypes
    <2>3. /\ view \in Seq(Message) /\ view # <<>> /\ view[Len(view)].role = "user"
          /\ Talk(DOMAIN ran, view) /\ RowsUpTo(view, Len(rs))
      BY <1>3, <2>2, HydrateTalk
    <2>. HIDE DEF view
    <2>4. Len(rs) \in Nat /\ Len(view) \in Nat /\ Len(rows) \in Nat BY <2>3 DEF Inv, Types
    <2>5. /\ history' = view /\ messages' = view /\ base' = Len(view) /\ saved' = Len(view)
          /\ from' = Len(rs) /\ turn' = 0 /\ guide' = FALSE /\ aborted' = FALSE /\ st' = <<>>
          /\ broken' = FALSE
      BY <2>1 DEF Reset
    <2>6. Types'
      <3>1. MaxTurns \in Nat /\ 0 \in Nat BY AgentRunAssumption
      <3>2. 0 <= MaxTurns /\ Len(view) <= Len(view) /\ Len(rs) <= Len(rs) BY <2>4, <3>1
      <3>3. ReceiptTypes' BY <1>1, <2>2 DEF ReceiptTypes
      <3>4. steer' \in {"none", "file", "taken"} BY <2>1 DEF Inv, Types
      <3>. QED BY <1>1, <2>1, <2>3, <2>4, <2>5, <3>1, <3>2, <3>3, <3>4 DEF Types, ReceiptTypes
    <2>7. Quiet' /\ Batch' BY <2>1, <2>5 DEF Quiet, Batch
    <2>8. JournalExact'
      <3>1. Exact(rs, Len(rs), view, Len(view), Len(view)) BY ONLY <2>3, rs \in Seq(Message), ExactAtStart
      <3>. QED BY <1>1, <2>5, <3>1 DEF Exact, JournalExact
    <2>9. SteerKept' BY <2>1 DEF Inv, Quiet, SteerKept
    <2>10. Spoken'
      <3>1. Len(view) <= Len(view) BY <2>4
      <3>2. LineOf(rs, view, Len(view)) = rs
        BY ONLY <2>3, <2>4, <3>1, rs \in Seq(Message), LineParts
      <3>3. Line' = rs BY <1>1, <2>5, <3>2 DEF Line
      <3>. QED BY <1>1, <2>1, <2>3, <2>5, <3>3 DEF Spoken, EndsOnUser, MaySend
    <2>11. Keyed' BY <1>1, <2>1, <2>4 DEF Inv, Keyed
    <2>12. ReceiptsTellTheTruth' BY <1>1, <2>2 DEF ReceiptsTellTheTruth
    <2>. QED BY <2>6, <2>7, <2>8, <2>9, <2>10, <2>11, <2>12 DEF Inv
  <1>. QED BY <1>2, <1>3

\* Between runs the rows are the conversation.
LEMMA RowsAtRest ==
    ASSUME Inv, pc = "idle"
    PROVE  rows \in Seq(Message) /\ Len(rows) \in Nat /\ Shape(DOMAIN ran, rows)
  <1>1. rows \in Seq(Message) /\ messages \in Seq(Message) /\ Shape(DOMAIN ran, Line)
    BY DEF Inv, Types, Spoken
  <1>2. saved \in Nat /\ saved = Len(messages) /\ saved <= Len(messages)
    <2>1. messages = <<>> /\ saved = 0 BY DEF Inv, Quiet
    <2>. QED BY <2>1
  <1>3. LineOf(rows, messages, saved) = rows BY ONLY <1>1, <1>2, LineParts
  <1>. QED BY <1>1, <1>3 DEF Line

\* A user message with a text of its own may open any conversation; only a
\* prompt may follow another user message.
LEMMA OpeningShape ==
    ASSUME Inv, pc = "idle", NEW x \in {"prompt", "runtime"},
           x = "runtime" => rows # <<>> /\ rows[Len(rows)].role # "user"
    PROVE  LET rs == Append(rows, User(<<>>, {x}))
           IN  /\ rs \in Seq(Message) /\ rs # <<>> /\ rs[Len(rs)].role = "user"
               /\ Shape(DOMAIN ran, rs) /\ Len(rows) <= Len(rs)
  <1>. DEFINE m == User(<<>>, {x})
              rs == Append(rows, m)
  <1>1. rows \in Seq(Message) /\ Len(rows) \in Nat /\ Shape(DOMAIN ran, rows) BY RowsAtRest
  <1>2. m \in Message /\ m.role = "user" /\ m.uses = <<>> /\ m.res = <<>> /\ m.text = {x}
    BY DEF User, Message
  <1>. HIDE DEF m
  <1>3. Sided(m) BY <1>2 DEF Sided
  <1>4. ASSUME rows # <<>> PROVE Follows(DOMAIN ran, rows[Len(rows)], Len(rows), m)
    BY <1>2, <1>4 DEF Follows
  <1>5. Shape(DOMAIN ran, rs) BY ONLY <1>1, <1>2, <1>3, <1>4, ShapeAppend
  <1>6. rs \in Seq(Message) /\ Len(rs) = Len(rows) + 1 /\ rs[Len(rows) + 1] = m BY <1>1, <1>2
  <1>. HIDE DEF rs
  <1>7. rs # <<>> BY <1>1, <1>6
  <1>8. Len(rows) <= Len(rs) BY <1>1, <1>6
  <1>. QED BY <1>1, <1>2, <1>5, <1>6, <1>7, <1>8 DEF rs, m

\* A new prompt.
LEMMA PromptInv == ASSUME Inv, Prompt PROVE Inv'
  <1>. DEFINE rs == Append(rows, User(<<>>, {"prompt"}))
  <1>1. pc = "idle" /\ Open(rs) /\ strikes' \in Nat BY DEF Prompt
  <1>2. /\ rs \in Seq(Message) /\ rs # <<>> /\ rs[Len(rs)].role = "user"
        /\ Shape(DOMAIN ran, rs) /\ Len(rows) <= Len(rs)
    <2>1. "prompt" \in {"prompt", "runtime"} OBVIOUS
    <2>. QED BY <1>1, <2>1, OpeningShape
  <1>. HIDE DEF rs
  <1>. QED BY <1>1, <1>2, OpenInv

\* A further segment of a turn.
LEMMA ContinueInv == ASSUME Inv, Continue PROVE Inv'
  <1>. DEFINE rs == Append(rows, User(<<>>, {"runtime"}))
  <1>1. pc = "idle" /\ rows # <<>> /\ strikes' \in Nat BY DEF Continue, Inv, Types
  <1>2. Last(rows) = rows[Len(rows)] BY DEF Last
  <1>3. CASE Last(rows).role = "user"
    <2>1. Open(rows) BY <1>3 DEF Continue
    <2>2. rows \in Seq(Message) /\ Shape(DOMAIN ran, rows) /\ Len(rows) <= Len(rows)
      BY <1>1, RowsAtRest
    <2>. QED BY <1>1, <1>2, <1>3, <2>1, <2>2, OpenInv
  <1>4. CASE Last(rows).role # "user"
    <2>1. Open(rs) BY <1>4 DEF Continue
    <2>2. /\ rs \in Seq(Message) /\ rs # <<>> /\ rs[Len(rs)].role = "user"
          /\ Shape(DOMAIN ran, rs) /\ Len(rows) <= Len(rs)
      <3>1. "runtime" \in {"prompt", "runtime"} OBVIOUS
      <3>. QED BY <1>1, <1>2, <1>4, <3>1, OpeningShape
    <2>. HIDE DEF rs
    <2>. QED BY <1>1, <2>1, <2>2, OpenInv
  <1>. QED BY <1>3, <1>4

\* The end of a run: the unsaved tail, or some of it, becomes rows.
LEMMA PersistTurnInv == ASSUME Inv, PersistTurn PROVE Inv'
  <1>1. PICK k \in saved..Len(messages) : rows' = rows \o SubSeq(messages, saved + 1, k)
    BY DEF PersistTurn
  <1>2. Idle /\ receipts' = receipts /\ ran' = ran /\ strikes' \in Nat
    BY DEF PersistTurn, Inv, Types
  <1>3. rows \in Seq(Message) /\ messages \in Seq(Message) /\ saved \in Nat
        /\ saved <= Len(messages) /\ Shape(DOMAIN ran, Line)
    BY DEF Inv, Types, Spoken
  <1>4. k \in Nat /\ saved <= k /\ k <= Len(messages) /\ Len(rows) \in Nat /\ Len(messages) \in Nat
    BY <1>3
  <1>5. /\ rows' \in Seq(Message) /\ Len(rows') = Len(rows) + k - saved
        /\ LineOf(rows', messages, k) = Line
    BY ONLY <1>1, <1>3, <1>4, LineSave DEF Line
  <1>6. Len(rows') \in Nat /\ Len(rows) <= Len(rows') BY <1>3, <1>4, <1>5
  <1>7. /\ Line \in Seq(Message) /\ Len(Line) = Len(rows') + Len(messages) - k
        /\ \A i \in 1..Len(rows') : Line[i] = rows'[i]
    <2>1. /\ LineOf(rows', messages, k) \in Seq(Message)
          /\ Len(LineOf(rows', messages, k)) = Len(rows') + Len(messages) - k
          /\ \A i \in 1..Len(rows') : LineOf(rows', messages, k)[i] = rows'[i]
      BY ONLY <1>3, <1>4, <1>5, LineParts
    <2>. QED BY <1>5, <2>1
  <1>8. Len(rows') <= Len(Line) BY <1>4, <1>6, <1>7
  <1>9. Shape(DOMAIN ran, rows') BY ONLY <1>3, <1>5, <1>7, <1>8, ShapePrefix
  <1>. QED BY <1>2, <1>5, <1>6, <1>9, IdleInv

\* The process dies: the rows are what it had stored.
LEMMA CrashInv == ASSUME Inv, Crash PROVE Inv'
  <1>1. Idle /\ rows' = rows /\ receipts' = receipts /\ ran' = ran /\ strikes' \in Nat
    BY DEF Crash, store
  <1>2. rows \in Seq(Message) /\ messages \in Seq(Message) /\ saved \in Nat
        /\ saved <= Len(messages) /\ Shape(DOMAIN ran, Line)
    BY DEF Inv, Types, Spoken
  <1>3. Len(rows) \in Nat /\ Len(messages) \in Nat BY <1>2
  <1>4. /\ Line \in Seq(Message) /\ Len(Line) = Len(rows) + Len(messages) - saved
        /\ \A i \in 1..Len(rows) : Line[i] = rows[i]
    BY ONLY <1>2, LineParts DEF Line
  <1>5. Len(rows) <= Len(Line) BY <1>2, <1>3, <1>4
  <1>6. Shape(DOMAIN ran, rows) BY ONLY <1>2, <1>4, <1>5, ShapePrefix
  <1>7. Len(rows) <= Len(rows) BY <1>3
  <1>. QED BY <1>1, <1>2, <1>6, <1>7, IdleInv

\* The run leaves the head of the loop.
LEMMA LeaveInv == ASSUME Inv, Leave PROVE Inv'
  <1>1. pc = "top" /\ pc' = "finish" BY DEF Leave, Finish
  <1>2. UNCHANGED <<rows, receipts, ran, turn, history, messages, base, from, saved, waves, st,
                    outs, broken, aborted, strikes, guide, steer>>
    BY DEF Leave, store, batch
  <1>3. st = <<>> BY <1>1 DEF Inv, Batch
  <1>4. Types BY DEF Inv
  <1>. QED BY <1>1, <1>2, <1>3, <1>4, FrameInv DEF Types

\* The request goes out: the history may be sent.
LEMMA RequestInv == ASSUME Inv, Request PROVE Inv'
  <1>1. pc = "top" /\ pc' = "stream" /\ turn < MaxTurns BY DEF Request
  <1>2. UNCHANGED <<rows, receipts, ran, turn, history, messages, base, from, saved, waves, st,
                    outs, broken, aborted, strikes, guide, steer>>
    BY DEF Request, store, batch
  <1>3. st = <<>> BY <1>1 DEF Inv, Batch
  <1>4. Types BY DEF Inv
  <1>. QED BY <1>1, <1>2, <1>3, <1>4, FrameInv DEF Types

\* The stream fails: nothing was said.
LEMMA StreamFailsInv == ASSUME Inv, StreamFails PROVE Inv'
  <1>1. pc = "stream" /\ pc' = "finish" BY DEF StreamFails, Finish
  <1>2. UNCHANGED <<rows, receipts, ran, turn, history, messages, base, from, saved, waves, st,
                    outs, broken, aborted, strikes, guide, steer>>
    BY DEF StreamFails, store, batch
  <1>3. st = <<>> BY <1>1 DEF Inv, Batch
  <1>4. Types BY DEF Inv
  <1>. QED BY <1>1, <1>2, <1>3, <1>4, FrameInv DEF Types

\* The run is cancelled: only the signal changes.
LEMMA CancelInv == ASSUME Inv, Cancel PROVE Inv'
  <1>1. pc \in {"top", "tools"} /\ pc' = pc /\ aborted' = TRUE BY DEF Cancel
  <1>2. UNCHANGED <<rows, receipts, ran, turn, history, messages, base, from, saved, waves, st,
                    outs, broken, strikes, guide, steer>>
    BY DEF Cancel, store, batch
  <1>3. pc # "tools" => st = <<>> BY DEF Inv, Batch
  <1>4. Types BY DEF Inv
  <1>. QED BY <1>1, <1>2, <1>3, <1>4, FrameInv DEF Types

\* A steer is left in its file.
LEMMA LeaveSteerInv == ASSUME Inv, LeaveSteer PROVE Inv'
  <1>1. pc = "stream" /\ pc' = pc /\ steer' = "file" BY DEF LeaveSteer
  <1>2. UNCHANGED <<rows, receipts, ran, turn, history, messages, base, from, saved, waves, st,
                    outs, broken, aborted, strikes, guide>>
    BY DEF LeaveSteer, store, batch
  <1>3. st = <<>> BY <1>1 DEF Inv, Batch
  <1>4. Types BY DEF Inv
  <1>. QED BY <1>1, <1>2, <1>3, <1>4, FrameInv DEF Types

\* Nothing happens.
LEMMA StutterInv == ASSUME Inv, UNCHANGED vars PROVE Inv'
  <1>1. UNCHANGED <<rows, receipts, ran, turn, history, messages, base, from, saved, waves, st,
                    outs, broken, aborted, strikes, guide, steer, pc>>
    BY DEF vars
  <1>2. pc # "tools" => st = <<>> BY DEF Inv, Batch
  <1>3. Types BY DEF Inv
  <1>. QED BY <1>1, <1>2, <1>3, FrameInv DEF Types

\* The calls of an answer whose tools have not run yet never ran.
LEMMA NoneRan ==
    ASSUME Inv, pc \in {"answered", "checked"}, NEW i
    PROVE  <<Len(rows), i>> \notin DOMAIN ran /\ <<Len(rows), i>> \notin DOMAIN receipts
  <1>1. \A k \in DOMAIN receipts : k[1] \in Nat /\ k[1] < Len(rows) BY DEF Inv, Keyed
  <1>2. \A k \in DOMAIN ran : k \in DOMAIN receipts BY DEF Inv, ReceiptsTellTheTruth
  <1>3. Len(rows) \in Nat BY AtHand
  <1>4. ~(Len(rows) < Len(rows)) BY <1>3
  <1>5. <<Len(rows), i>>[1] = Len(rows) OBVIOUS
  <1>. QED BY <1>1, <1>2, <1>4, <1>5

\* The message that refuses a batch tells the truth.
LEMMA RefusalTold ==
    ASSUME Inv, pc \in {"answered", "checked"}, NEW text \in SUBSET {"prompt", "runtime", "guide", "steer"}
    PROVE  LET m == User(NotRun(Intent.uses), text)
           IN  /\ m \in Message /\ m.role = "user" /\ m.uses = <<>> /\ m.text = text
               /\ Told(DOMAIN ran, Len(rows), Intent.uses, m.res)
  <1>. DEFINE res == NotRun(Intent.uses)
              m == User(res, text)
  <1>1. Intent.uses \in Seq(Tools) BY AtHand
  <1>2. Len(Intent.uses) \in Nat BY <1>1
  <1>3. res \in Seq({"ran", "notrun", "unknown", "cleared"}) /\ Len(res) = Len(Intent.uses)
        /\ \A k \in 1..Len(Intent.uses) : res[k] = "notrun"
    BY <1>2 DEF NotRun
  <1>. HIDE DEF res
  <1>4. m \in Message /\ m.role = "user" /\ m.uses = <<>> /\ m.text = text /\ m.res = res
    BY <1>3 DEF User, Message
  <1>5. Told(DOMAIN ran, Len(rows), Intent.uses, res) BY <1>3, NoneRan DEF Told
  <1>. QED BY <1>4, <1>5 DEF res

\* A batch is refused.
LEMMA RefuseBatchInv ==
    ASSUME Inv, pc \in {"answered", "checked"}, NEW text \in SUBSET {"prompt", "runtime", "guide", "steer"},
           RefuseBatch(text), UNCHANGED <<rows, ran, turn, base, from, saved, st, broken, aborted, steer>>,
           Intent.uses = <<>> => receipts' = receipts,
           \A k \in DOMAIN receipts' :
             receipts'[k] \in [state : {"started", "completed", "interrupted"},
                               out : {"none", "ran", "notrun"}],
           \A k \in DOMAIN receipts' : k[1] \in Nat /\ k[1] <= Len(rows),
           ReceiptsTellTheTruth', strikes' \in Nat, guide' \in BOOLEAN
    PROVE  Inv'
  <1>1. pc' = "finish" BY DEF RefuseBatch, Finish
  <1>2. st = <<>> BY DEF Inv, Batch
  <1>3. Types BY DEF Inv
  <1>4. CASE Intent.uses = <<>>
    <2>1. UNCHANGED <<history, messages>> BY <1>4 DEF RefuseBatch
    <2>. QED BY <1>1, <1>2, <1>3, <1>4, <2>1, FrameInv DEF Types
  <1>5. CASE Intent.uses # <<>>
    <2>. DEFINE m == User(NotRun(Intent.uses), text)
    <2>1. history' = Append(history, m) /\ messages' = Append(messages, m)
      BY <1>5 DEF RefuseBatch, Say
    <2>2. m \in Message /\ m.role = "user" /\ m.uses = <<>>
          /\ Told(DOMAIN ran, Len(rows), Intent.uses, m.res)
      BY RefusalTold
    <2>. HIDE DEF m
    <2>3. turn' \in Nat /\ turn' <= MaxTurns /\ broken' \in BOOLEAN /\ aborted' \in BOOLEAN
          /\ steer' \in {"none", "file", "taken"}
      BY <1>3 DEF Types
    <2>. QED BY <1>1, <1>2, <2>1, <2>2, <2>3, GivenInv
  <1>. QED BY <1>4, <1>5

\* Receipts stay typed and keyed by stored rows.
LEMMA UpsertTyped ==
    ASSUME Inv, NEW keys, NEW state \in {"started", "completed", "interrupted"},
           NEW out \in {"none", "ran", "notrun"},
           \A k \in keys : k[1] \in Nat /\ k[1] <= Len(rows),
           receipts' = Upsert(receipts, keys, state, out)
    PROVE  /\ \A k \in DOMAIN receipts' :
                receipts'[k] \in [state : {"started", "completed", "interrupted"},
                                  out : {"none", "ran", "notrun"}]
           /\ \A k \in DOMAIN receipts' : k[1] \in Nat /\ k[1] <= Len(rows)
  <1>1. ReceiptTypes BY DEF Inv, Types, ReceiptTypes
  <1>2. [state |-> state, out |-> out] \in [state : {"started", "completed", "interrupted"},
                                            out : {"none", "ran", "notrun"}] OBVIOUS
  <1>3. DOMAIN receipts' = DOMAIN receipts \cup keys BY DEF Upsert
  <1>4. \A k \in DOMAIN receipts' : \/ k \in DOMAIN receipts /\ receipts'[k] = receipts[k]
                                    \/ receipts'[k] = [state |-> state, out |-> out]
    BY <1>3 DEF Upsert
  <1>5. \A k \in DOMAIN receipts : k[1] \in Nat /\ k[1] <= Len(rows) BY DEF Inv, Keyed
  <1>. QED BY <1>1, <1>2, <1>3, <1>4, <1>5, Zenon DEF ReceiptTypes

\* The loop detector's verdict.
LEMMA DetectInv == ASSUME Inv, Detect PROVE Inv'
  <1>1. pc = "answered" /\ UNCHANGED <<rows, receipts, ran, turn, base, from, saved, waves, st, outs,
                                       broken, aborted, steer>>
    BY DEF Detect, store, batch
  <1>2. st = <<>> BY <1>1 DEF Inv, Batch
  <1>3. Types BY DEF Inv
  <1>4. turn < MaxTurns BY <1>1, AtHand
  <1>5. ASSUME pc' = "checked", UNCHANGED <<history, messages>>, strikes' \in Nat, guide' \in BOOLEAN
        PROVE  Inv'
    BY <1>1, <1>2, <1>3, <1>4, <1>5, FrameInv DEF Types
  <1>6. CASE pc' = "checked" /\ Fine /\ UNCHANGED <<strikes, guide, history, messages>>
    BY <1>3, <1>5, <1>6 DEF Types
  <1>7. CASE /\ pc' = "checked" /\ strikes' = strikes + 1 /\ guide' = (Intent.uses # <<>>)
             /\ UNCHANGED <<history, messages>>
    <2>1. strikes' \in Nat BY <1>3, <1>7 DEF Types
    <2>2. guide' \in BOOLEAN BY <1>7
    <2>. QED BY <1>5, <1>7, <2>1, <2>2
  <1>8. CASE strikes' = strikes + 1 /\ RefuseBatch({}) /\ guide' = guide
    <2>1. strikes' \in Nat /\ guide' \in BOOLEAN BY <1>3, <1>8 DEF Types
    <2>2. {} \in SUBSET {"prompt", "runtime", "guide", "steer"} OBVIOUS
    <2>3. ReceiptsTellTheTruth' BY <1>1 DEF Inv, ReceiptsTellTheTruth
    <2>4. /\ \A k \in DOMAIN receipts' :
               receipts'[k] \in [state : {"started", "completed", "interrupted"},
                                 out : {"none", "ran", "notrun"}]
          /\ \A k \in DOMAIN receipts' : k[1] \in Nat /\ k[1] <= Len(rows)
      BY <1>1, <1>3 DEF Types, Inv, Keyed
    <2>. QED BY <1>1, <1>8, <2>1, <2>2, <2>3, <2>4, RefuseBatchInv
  <1>. QED BY <1>6, <1>7, <1>8 DEF Detect

\* A truncated answer.
LEMMA TruncatedInv == ASSUME Inv, Truncated PROVE Inv'
  <1>1. pc = "checked" /\ RefuseBatch(Guidance) /\ guide' = FALSE
        /\ UNCHANGED <<rows, receipts, ran, turn, base, from, saved, waves, st, outs,
                       broken, aborted, steer, strikes>>
    BY DEF Truncated, store, batch
  <1>2. Types BY DEF Inv
  <1>3. Guidance \in SUBSET {"prompt", "runtime", "guide", "steer"} BY DEF Guidance
  <1>4. ReceiptsTellTheTruth' BY <1>1 DEF Inv, ReceiptsTellTheTruth
  <1>5. /\ \A k \in DOMAIN receipts' :
             receipts'[k] \in [state : {"started", "completed", "interrupted"},
                               out : {"none", "ran", "notrun"}]
        /\ \A k \in DOMAIN receipts' : k[1] \in Nat /\ k[1] <= Len(rows)
    BY <1>1, <1>2 DEF Types, Inv, Keyed
  <1>6. strikes' \in Nat /\ guide' \in BOOLEAN BY <1>1, <1>2 DEF Types
  <1>. QED BY <1>1, <1>3, <1>4, <1>5, <1>6, RefuseBatchInv

\* An answer without calls.
LEMMA FinalAnswerInv == ASSUME Inv, FinalAnswer PROVE Inv'
  <1>1. pc = "checked" /\ Intent.uses = <<>>
        /\ UNCHANGED <<rows, receipts, ran, base, from, saved, waves, st, outs, broken, aborted,
                       strikes, guide>>
    BY DEF FinalAnswer, store, batch
  <1>2. st = <<>> BY <1>1 DEF Inv, Batch
  <1>3. Types BY DEF Inv
  <1>4. CASE ~Steered
    <2>1. pc' = "finish" /\ UNCHANGED <<history, messages, steer, turn>>
      BY <1>4 DEF FinalAnswer, Finish
    <2>. QED BY <1>1, <1>2, <1>3, <2>1, FrameInv DEF Types
  <1>5. CASE Steered
    <2>. DEFINE m == User(<<>>, {"steer"})
    <2>1. history' = Append(history, m) /\ messages' = Append(messages, m) /\ steer' = "taken"
          /\ pc' = "top" /\ turn' = turn + 1
      BY <1>5 DEF FinalAnswer, Say
    <2>2. m \in Message /\ m.role = "user" /\ m.uses = <<>> /\ m.res = <<>> /\ "steer" \in m.text
      BY DEF User, Message
    <2>. HIDE DEF m
    <2>3. Told(DOMAIN ran, Len(rows), Intent.uses, m.res)
      <3>1. Len(<<>>) = 0 /\ 1..0 = {} OBVIOUS
      <3>. QED BY <1>1, <2>2, <3>1 DEF Told
    <2>4. turn' \in Nat /\ turn' <= MaxTurns
      <3>1. turn \in Nat /\ turn < MaxTurns /\ MaxTurns \in Nat BY <1>1, AtHand
      <3>. QED BY <2>1, <3>1
    <2>5. /\ \A k \in DOMAIN receipts' :
               receipts'[k] \in [state : {"started", "completed", "interrupted"},
                                 out : {"none", "ran", "notrun"}]
          /\ \A k \in DOMAIN receipts' : k[1] \in Nat /\ k[1] <= Len(rows)
      BY <1>1, <1>3 DEF Types, Inv, Keyed
    <2>6. ReceiptsTellTheTruth' BY <1>1 DEF Inv, ReceiptsTellTheTruth
    <2>7. strikes' \in Nat /\ broken' \in BOOLEAN /\ aborted' \in BOOLEAN /\ guide' \in BOOLEAN
          /\ steer' \in {"none", "file", "taken"}
      BY <1>1, <1>3, <2>1 DEF Types
    <2>. QED BY <1>1, <1>2, <2>1, <2>2, <2>3, <2>4, <2>5, <2>6, <2>7, GivenInv
  <1>. QED BY <1>4, <1>5

\* The receipts of a batch are written before any of its tools may start.
LEMMA PersistBeforeToolsInv == ASSUME Inv, PersistBeforeTools PROVE Inv'
  <1>1. pc = "checked" /\ Intent.uses # <<>>
        /\ UNCHANGED <<rows, ran, turn, base, from, saved, broken, aborted, strikes, steer>>
    BY DEF PersistBeforeTools
  <1>2. PICK n \in 0..Len(Intent.uses) :
          /\ receipts' = Upsert(receipts, {Key(i) : i \in 1..n}, "interrupted", "none")
          /\ IF n = Len(Intent.uses)
               THEN /\ pc' = "tools" /\ waves' = Waves(Intent.uses)
                    /\ st' = [i \in 1..n |-> "queued"] /\ outs' = NotRun(Intent.uses)
                    /\ UNCHANGED <<history, messages, guide>>
               ELSE /\ RefuseBatch(Guidance) /\ guide' = FALSE /\ UNCHANGED <<waves, st, outs>>
    BY DEF PersistBeforeTools
  <1>3. Types BY DEF Inv
  <1>4. /\ rows \in Seq(Message) /\ history \in Seq(Message) /\ messages \in Seq(Message)
        /\ Len(rows) \in Nat /\ Intent.row = Len(rows) /\ Intent.uses \in Seq(Tools)
        /\ AnswerAtHand(DOMAIN ran, rows, history) /\ saved = Len(messages) /\ turn < MaxTurns
    BY <1>1, AtHand
  <1>. DEFINE keys == {Key(i) : i \in 1..n}
  <1>5. \A i : Key(i) = <<Len(rows), i>> BY <1>4 DEF Key
  <1>6. \A i : Key(i) \notin DOMAIN ran /\ Key(i) \notin DOMAIN receipts BY <1>1, <1>5, NoneRan
  <1>7. \A k \in keys : k[1] \in Nat /\ k[1] <= Len(rows) /\ k \notin DOMAIN ran /\ k \notin DOMAIN receipts
    BY <1>4, <1>5, <1>6
  <1>8. \A i \in 1..n : Key(i) \in keys OBVIOUS
  <1>. HIDE DEF keys
  <1>9. receipts' = Upsert(receipts, keys, "interrupted", "none") BY <1>2 DEF keys
  <1>10. "interrupted" \in {"started", "completed", "interrupted"} /\ "none" \in {"none", "ran", "notrun"}
    OBVIOUS
  <1>11. /\ \A k \in DOMAIN receipts' :
              receipts'[k] \in [state : {"started", "completed", "interrupted"},
                                out : {"none", "ran", "notrun"}]
         /\ \A k \in DOMAIN receipts' : k[1] \in Nat /\ k[1] <= Len(rows)
    BY <1>7, <1>9, <1>10, UpsertTyped
  <1>12. /\ DOMAIN receipts' = DOMAIN receipts \cup keys
         /\ \A k \in DOMAIN receipts : k \notin keys => receipts'[k] = receipts[k]
         /\ \A k \in keys : receipts'[k] = [state |-> "interrupted", out |-> "none"]
    BY <1>7, <1>9 DEF Upsert
  <1>13. ReceiptsTellTheTruth'
    <2>1. ReceiptsTellTheTruth BY DEF Inv
    <2>2. \A k \in keys : receipts'[k].out # "ran" BY <1>12
    <2>. QED BY <1>1, <1>7, <1>12, <2>1, <2>2 DEF ReceiptsTellTheTruth
  <1>14. CASE n # Len(Intent.uses)
    <2>1. RefuseBatch(Guidance) /\ guide' = FALSE /\ UNCHANGED st BY <1>2, <1>14
    <2>2. Guidance \in SUBSET {"prompt", "runtime", "guide", "steer"} BY DEF Guidance
    <2>3. strikes' \in Nat /\ guide' \in BOOLEAN BY <1>1, <1>3, <2>1 DEF Types
    <2>. QED BY <1>1, <1>11, <1>13, <2>1, <2>2, <2>3, RefuseBatchInv
  <1>15. CASE n = Len(Intent.uses)
    <2>1. /\ pc' = "tools" /\ waves' = Waves(Intent.uses)
          /\ st' = [i \in 1..n |-> "queued"] /\ outs' = NotRun(Intent.uses)
          /\ UNCHANGED <<history, messages, guide>>
      BY <1>2, <1>15
    <2>2. Types' BY <1>1, <1>3, <1>4, <1>11, <2>1 DEF Types
    <2>3. Quiet' BY <2>1 DEF Quiet
    <2>4. JournalExact' /\ SteerKept' BY <1>1, <2>1 DEF Inv, JournalExact, SteerKept
    <2>5. Spoken'
      <3>1. Line' = Line BY <1>1, <2>1 DEF Line
      <3>2. Shape(DOMAIN ran, Line) BY DEF Inv, Spoken
      <3>. QED BY <1>1, <1>4, <2>1, <3>1, <3>2 DEF Spoken
    <2>6. Keyed' BY <1>1, <1>11, <2>1 DEF Keyed
    <2>7. Batch'
      <3>1. Intent' = Intent BY <2>1 DEF Intent
      <3>2. \A i : Key(i)' = Key(i) BY <3>1 DEF Key
      <3>3. Waves(Intent.uses) \in Seq(SUBSET (1..Len(Intent.uses)))
            /\ Apart(Intent.uses, Waves(Intent.uses))
        BY <1>1, <1>4, WavesApart
      <3>4. st' \in [1..n -> States] BY <2>1 DEF States
      <3>5. outs' \in [1..n -> {"ran", "notrun"}] /\ \A i \in 1..n : outs'[i] = "notrun"
        BY <1>15, <2>1 DEF NotRun
      <3>6. \A i \in 1..n : Slot(i)' /\ st'[i] = "queued"
        <4>. SUFFICES ASSUME NEW i \in 1..n PROVE Slot(i)' /\ st'[i] = "queued" OBVIOUS
        <4>1. st'[i] = "queued" BY <2>1
        <4>2. Key(i)' \notin DOMAIN ran' BY <1>1, <1>6, <3>2
        <4>3. Key(i) \in DOMAIN receipts' /\ receipts'[Key(i)].state = "interrupted"
          BY <1>8, <1>12
        <4>4. Key(i)' \in DOMAIN receipts' /\ receipts'[Key(i)'].state = "interrupted"
          BY <3>2, <4>3
        <4>. QED BY <3>5, <4>1, <4>2, <4>4 DEF Slot
      <3>. QED BY <1>15, <2>1, <3>1, <3>3, <3>4, <3>5, <3>6 DEF Batch
    <2>. QED BY <1>13, <2>2, <2>3, <2>4, <2>5, <2>6, <2>7 DEF Inv
  <1>. QED BY <1>14, <1>15

\* The answer arrives and becomes a row, or the run ends on the failed write.
LEMMA AnswerInv == ASSUME Inv, NEW uses \in Batches, Answer(uses) PROVE Inv'
  <1>. DEFINE m == Assistant(uses, Len(rows) + Len(messages) - saved + 1)
              said == Append(messages, m)
              D == DOMAIN ran
  <1>1. pc = "stream" /\ UNCHANGED <<receipts, ran, turn, base, from, waves, st, outs, broken, aborted,
                                     strikes, guide, steer>>
    BY DEF Answer, batch
  <1>2. PICK k \in saved..Len(said) :
          /\ messages' = said /\ rows' = rows \o SubSeq(said, saved + 1, k) /\ saved' = k
          /\ IF k = Len(said)
               THEN pc' = "answered" /\ history' = Append(history, Last(said))
               ELSE pc' = "finish" /\ UNCHANGED history
    BY DEF Answer, CommittedThrough, Finish
  <1>3. Types BY DEF Inv
  <1>4. /\ rows \in Seq(Message) /\ history \in Seq(Message) /\ messages \in Seq(Message)
        /\ base \in Nat /\ from \in Nat /\ saved \in Nat /\ turn < MaxTurns
        /\ base <= saved /\ saved <= Len(messages) /\ from <= Len(rows)
    BY <1>1, <1>3 DEF Types
  <1>5. Len(rows) \in Nat /\ Len(messages) \in Nat BY <1>4
  <1>6. Shape(D, Line) /\ EndsOnUser(Line) /\ MaySend(D, history, Len(rows))
    BY <1>1 DEF Inv, Spoken
  <1>7. Line \in Seq(Message) /\ Len(Line) = Len(rows) + Len(messages) - saved
    BY ONLY <1>4, LineParts DEF Line
  <1>8. Len(Line) \in Nat /\ Len(rows) <= Len(Line) BY <1>4, <1>5, <1>7
  <1>9. m \in Message /\ m.role = "assistant" /\ m.res = <<>> /\ m.row = Len(Line) + 1
    <2>1. Len(rows) + Len(messages) - saved + 1 = Len(Line) + 1 /\ Len(Line) + 1 \in Nat BY <1>7, <1>8
    <2>2. m = [role |-> "assistant", row |-> Len(Line) + 1, uses |-> uses, res |-> <<>>, text |-> {}]
      BY <2>1 DEF Assistant
    <2>3. <<>> \in Seq({"ran", "notrun", "unknown", "cleared"}) /\ uses \in Batches \cup {<<>>} OBVIOUS
    <2>. HIDE DEF m
    <2>. QED BY <2>1, <2>2, <2>3 DEF Message
  <1>. HIDE DEF m
  <1>10. said \in Seq(Message) /\ Len(said) = Len(messages) + 1 /\ said[Len(messages) + 1] = m
         /\ \A i \in 1..Len(messages) : said[i] = messages[i]
    BY <1>4, <1>9
  <1>11. Last(said) = m BY <1>10 DEF Last
  <1>12. LineOf(rows, said, saved) = Append(Line, m)
    BY ONLY <1>4, <1>9, LineSay DEF Line
  <1>13. SubSeq(said, base + 1, saved) = SubSeq(messages, base + 1, saved)
    BY ONLY <1>4, <1>9, PieceOfAppend
  <1>. HIDE DEF said
  <1>14. k \in Nat /\ saved <= k /\ k <= Len(said) /\ Len(said) \in Nat BY <1>4, <1>5, <1>10
  <1>15. saved <= Len(said) BY <1>4, <1>5, <1>10
  <1>16. /\ rows' \in Seq(Message) /\ Len(rows') = Len(rows) + k - saved
         /\ LineOf(rows', said, k) = LineOf(rows, said, saved)
    <2>1. rows' = rows \o SubSeq(said, saved + 1, k) BY <1>2
    <2>2. rows \in Seq(Message) /\ said \in Seq(Message) /\ saved \in Nat /\ saved <= k /\ k <= Len(said)
      BY <1>4, <1>10, <1>14
    <2>3. k \in Nat BY <1>14
    <2>4. /\ rows \o SubSeq(said, saved + 1, k) \in Seq(Message)
          /\ Len(rows \o SubSeq(said, saved + 1, k)) = Len(rows) + k - saved
          /\ LineOf(rows \o SubSeq(said, saved + 1, k), said, k) = LineOf(rows, said, saved)
      BY ONLY <2>2, <2>3, LineSave
    <2>. QED BY ONLY <2>1, <2>4
  <1>17. Line' = Append(Line, m) BY <1>2, <1>12, <1>16 DEF Line
  <1>18. Shape(D, Append(Line, m)) /\ AnswerAtHand(D, Append(Line, m), Append(history, m))
    BY ONLY <1>4, <1>5, <1>6, <1>7, <1>8, <1>9, AnswerTaken
  <1>19. Len(rows') \in Nat /\ Len(rows) <= Len(rows') /\ (k = Len(said) => Len(rows) < Len(rows'))
    BY <1>4, <1>5, <1>10, <1>14, <1>16
  <1>20. history' \in Seq(Message) /\ pc' \in {"answered", "finish"}
    <2>1. Append(history, m) \in Seq(Message) BY <1>4, <1>9
    <2>. QED BY <1>2, <1>4, <1>11, <2>1
  <1>21. Types'
    <2>1. base <= k /\ from <= Len(rows') BY <1>4, <1>5, <1>14, <1>19
    <2>. QED BY <1>1, <1>2, <1>3, <1>10, <1>14, <1>16, <1>20, <2>1 DEF Types
  <1>22. Quiet' /\ Batch'
    <2>1. st = <<>> BY <1>1 DEF Inv, Batch
    <2>. QED BY <1>1, <1>20, <2>1 DEF Quiet, Batch
  <1>23. JournalExact'
    <2>1. Exact(rows, from, messages, base, saved) BY <1>1 DEF Inv, JournalExact, Exact
    <2>2. Exact(rows, from, said, base, saved) BY <1>13, <2>1 DEF Exact
    <2>3. Exact(rows \o SubSeq(said, saved + 1, k), from, said, base, k)
      BY ONLY <1>4, <1>10, <1>14, <2>2, ExactSave
    <2>. QED BY <1>1, <1>2, <2>3 DEF JournalExact, Exact
  <1>24. SteerKept'
    <2>1. DOMAIN messages = 1..Len(messages) /\ DOMAIN said = 1..(Len(messages) + 1) BY <1>4, <1>10
    <2>2. \A i \in 1..Len(messages) : i \in 1..(Len(messages) + 1) BY <1>5
    <2>3. SteerKept BY DEF Inv
    <2>. QED BY <1>1, <1>2, <1>10, <2>1, <2>2, <2>3 DEF SteerKept
  <1>25. Spoken'
    <2>1. CASE k = Len(said)
      <3>1. k <= Len(said) BY <1>14
      <3>2. LineOf(rows', said, k) = rows' BY ONLY <1>10, <1>14, <1>16, <2>1, <3>1, LineParts
      <3>3. rows' = Append(Line, m) BY <1>12, <1>16, <3>2
      <3>4. history' = Append(history, m) /\ pc' = "answered" /\ saved' = Len(messages')
        BY <1>2, <1>11, <2>1
      <3>. QED BY <1>1, <1>17, <1>18, <3>3, <3>4 DEF Spoken
    <2>2. CASE k # Len(said)
      <3>1. pc' = "finish" BY <1>2, <2>2
      <3>. QED BY <1>1, <1>17, <1>18, <3>1 DEF Spoken
    <2>. QED BY <2>1, <2>2
  <1>26. Keyed'
    <2>1. \A r \in DOMAIN receipts : r[1] \in Nat /\ r[1] <= Len(rows) BY DEF Inv, Keyed
    <2>2. pc' = "answered" => Len(rows) < Len(rows') BY <1>2, <1>19
    <2>3. \A r \in DOMAIN receipts : r[1] <= Len(rows') /\ (Len(rows) < Len(rows') => r[1] < Len(rows'))
      BY <1>5, <1>19, <2>1
    <2>. QED BY <1>1, <1>20, <2>1, <2>2, <2>3 DEF Keyed
  <1>27. ReceiptsTellTheTruth' BY <1>1 DEF Inv, ReceiptsTellTheTruth
  <1>. QED BY <1>21, <1>22, <1>23, <1>24, <1>25, <1>26, <1>27 DEF Inv

\* What holds of a slot in flight.
LEMMA InTools ==
    ASSUME Inv, NEW i \in InFlight
    PROVE  /\ pc = "tools" /\ waves # <<>> /\ i \in 1..Len(Intent.uses) /\ Slot(i)
           /\ Key(i) = <<Len(rows), i>> /\ Len(rows) \in Nat /\ Len(Intent.uses) \in Nat
           /\ st \in [1..Len(Intent.uses) -> States]
           /\ outs \in [1..Len(Intent.uses) -> {"ran", "notrun"}]
           /\ \A j \in 1..Len(Intent.uses) : Slot(j) /\ (st[j] \in {"queued", "done"} \/ j \in InFlight)
           /\ Key(i)[1] \in Nat /\ Key(i)[1] <= Len(rows)
  <1>1. pc = "tools" /\ waves # <<>> /\ InFlight = Head(waves) BY DEF InFlight
  <1>2. Intent.row = Len(rows) /\ Len(rows) \in Nat /\ Intent.uses \in Seq(Tools) BY <1>1, AtHand
  <1>3. Len(Intent.uses) \in Nat BY <1>2
  <1>4. /\ st \in [1..Len(Intent.uses) -> States]
        /\ outs \in [1..Len(Intent.uses) -> {"ran", "notrun"}]
        /\ waves \in Seq(SUBSET (1..Len(Intent.uses)))
        /\ \A j \in 1..Len(Intent.uses) : Slot(j) /\ (st[j] \in {"queued", "done"} \/ j \in InFlight)
    BY <1>1 DEF Inv, Batch
  <1>5. i \in 1..Len(Intent.uses)
    <2>1. Head(waves) \in SUBSET (1..Len(Intent.uses)) BY <1>1, <1>4, HeadTailProperties
    <2>. QED BY <1>1, <2>1
  <1>6. Key(i) = <<Len(rows), i>> BY <1>2 DEF Key
  <1>7. Key(i)[1] = Len(rows) BY <1>6
  <1>8. Len(rows) <= Len(rows) BY <1>2
  <1>. QED BY <1>1, <1>2, <1>3, <1>4, <1>5, <1>6, <1>7, <1>8

\* A slot takes a step: only it, its result, its receipt and its call change.
LEMMA StepInv ==
    ASSUME Inv, NEW i \in InFlight, Dispatching, NEW now \in States, Step(i, now), broken' \in BOOLEAN,
           outs' = outs \/ outs' = [outs EXCEPT ![i] = "ran"],
           DOMAIN ran' = DOMAIN ran \/ DOMAIN ran' = DOMAIN ran \cup {Key(i)},
           NEW state \in {"started", "completed", "interrupted"}, NEW out \in {"none", "ran", "notrun"},
           receipts' = receipts \/ Save(i, state, out),
           ReceiptsTellTheTruth', Slot(i)'
    PROVE  Inv'
  <1>. DEFINE n == Len(Intent.uses)
  <1>1. /\ pc = "tools" /\ waves # <<>> /\ i \in 1..n
        /\ Key(i) = <<Len(rows), i>> /\ Len(rows) \in Nat /\ n \in Nat
        /\ st \in [1..n -> States] /\ outs \in [1..n -> {"ran", "notrun"}]
        /\ \A j \in 1..n : Slot(j) /\ (st[j] \in {"queued", "done"} \/ j \in InFlight)
        /\ Key(i)[1] \in Nat /\ Key(i)[1] <= Len(rows)
    BY InTools
  <1>2. /\ rows \in Seq(Message) /\ history \in Seq(Message) /\ messages \in Seq(Message)
        /\ saved = Len(messages) /\ Line = rows /\ Shape(DOMAIN ran, rows)
        /\ AnswerAtHand(DOMAIN ran, rows, history) /\ Intent.row = Len(rows)
    BY <1>1, AtHand
  <1>3. UNCHANGED <<rows, pc, turn, history, messages, base, from, saved, waves, aborted, strikes,
                    guide, steer>>
    BY DEF Dispatching
  <1>4. Types BY DEF Inv
  <1>5. Intent' = Intent /\ InFlight' = InFlight BY <1>3 DEF Intent, InFlight
  <1>6. \A j : Key(j)' = Key(j) BY <1>5 DEF Key
  <1>7. /\ \A k \in DOMAIN receipts' :
             receipts'[k] \in [state : {"started", "completed", "interrupted"},
                               out : {"none", "ran", "notrun"}]
        /\ \A k \in DOMAIN receipts' : k[1] \in Nat /\ k[1] <= Len(rows)
        /\ \A k : k # Key(i) => /\ k \in DOMAIN receipts' <=> k \in DOMAIN receipts
                                /\ k \in DOMAIN receipts => receipts'[k] = receipts[k]
    <2>1. CASE receipts' = receipts BY <1>4, <2>1 DEF Types, Inv, Keyed
    <2>2. CASE Save(i, state, out)
      <3>1. receipts' = Upsert(receipts, {Key(i)}, state, out) BY <2>2 DEF Save
      <3>2. \A k \in {Key(i)} : k[1] \in Nat /\ k[1] <= Len(rows) BY <1>1
      <3>3. /\ \A k \in DOMAIN receipts' :
                 receipts'[k] \in [state : {"started", "completed", "interrupted"},
                                   out : {"none", "ran", "notrun"}]
            /\ \A k \in DOMAIN receipts' : k[1] \in Nat /\ k[1] <= Len(rows)
        BY <3>1, <3>2, UpsertTyped
      <3>4. \A k : k # Key(i) => /\ k \in DOMAIN receipts' <=> k \in DOMAIN receipts
                                 /\ k \in DOMAIN receipts => receipts'[k] = receipts[k]
        BY <3>1 DEF Upsert
      <3>. QED BY <3>3, <3>4
    <2>. QED BY <2>1, <2>2
  <1>8. Types' BY <1>3, <1>4, <1>7 DEF Types
  <1>9. Quiet' BY <1>1, <1>3 DEF Quiet
  <1>10. JournalExact' /\ SteerKept' BY <1>1, <1>3 DEF Inv, JournalExact, SteerKept
  <1>11. Spoken'
    <2>1. Line' = rows BY <1>2, <1>3 DEF Line
    <2>2. Shape(DOMAIN ran', rows) /\ Talk(DOMAIN ran', history)
      <3>1. CASE DOMAIN ran' = DOMAIN ran BY <1>2, <3>1 DEF AnswerAtHand
      <3>2. CASE DOMAIN ran' = DOMAIN ran \cup {Key(i)}
        <4>1. DOMAIN ran' = DOMAIN ran \cup {<<Len(rows), i>>} BY <1>1, <3>2
        <4>2. Len(rows) >= Len(rows) BY <1>1
        <4>3. Shape(DOMAIN ran \cup {<<Len(rows), i>>}, rows)
          BY ONLY <1>1, <1>2, <4>2, ShapeRan
        <4>4. Talk(DOMAIN ran \cup {<<Len(rows), i>>}, history)
          <5>1. Talk(DOMAIN ran, history) /\ Older(history, Len(rows)) BY <1>2 DEF AnswerAtHand
          <5>. QED BY ONLY <1>1, <1>2, <5>1, TalkRan
        <4>. QED BY <4>1, <4>3, <4>4
      <3>. QED BY <3>1, <3>2
    <2>3. AnswerAtHand(DOMAIN ran', rows, history) BY <1>2, <2>2 DEF AnswerAtHand
    <2>. QED BY <1>1, <1>2, <1>3, <2>1, <2>2, <2>3 DEF Spoken
  <1>12. Keyed' BY <1>1, <1>3, <1>7 DEF Keyed
  <1>13. Batch'
    <2>1. st' = [st EXCEPT ![i] = now] BY DEF Step
    <2>2. st' \in [1..n -> States] /\ \A j \in 1..n : j # i => st'[j] = st[j] BY <1>1, <2>1
    <2>3. outs' \in [1..n -> {"ran", "notrun"}] /\ \A j \in 1..n : j # i => outs'[j] = outs[j]
      BY <1>1
    <2>4. ASSUME NEW j \in 1..n PROVE Slot(j)' /\ (st'[j] \in {"queued", "done"} \/ j \in InFlight)
      <3>1. CASE j = i BY <3>1
      <3>2. CASE j # i
        <4>1. Key(j) # Key(i)
          <5>1. Key(j) = <<Len(rows), j>> BY <1>2 DEF Key
          <5>. QED BY <1>1, <3>2, <5>1
        <4>2. Key(j) \in DOMAIN ran' <=> Key(j) \in DOMAIN ran BY <4>1
        <4>3. /\ Key(j) \in DOMAIN receipts' <=> Key(j) \in DOMAIN receipts
              /\ Key(j) \in DOMAIN receipts => receipts'[Key(j)] = receipts[Key(j)]
          BY <1>7, <4>1
        <4>4. st'[j] = st[j] /\ outs'[j] = outs[j] /\ Key(j)' = Key(j) BY <1>6, <2>2, <2>3, <3>2
        <4>5. Slot(j) /\ (st[j] \in {"queued", "done"} \/ j \in InFlight) BY <1>1
        <4>. QED BY <4>2, <4>3, <4>4, <4>5 DEF Slot
      <3>. QED BY <3>1, <3>2
    <2>5. waves \in Seq(SUBSET (1..n)) /\ Apart(Intent.uses, waves) BY <1>1 DEF Inv, Batch
    <2>. QED BY <1>1, <1>3, <1>5, <2>2, <2>3, <2>4, <2>5 DEF Batch
  <1>. QED BY <1>8, <1>9, <1>10, <1>11, <1>12, <1>13 DEF Inv

\* A receipt that says what happened keeps the receipts truthful.
LEMMA SaveTruth ==
    ASSUME Inv, NEW i, NEW state, NEW out, Save(i, state, out), ran' = ran,
           Key(i) \in DOMAIN ran => state # "interrupted" /\ out # "notrun",
           out = "ran" => Key(i) \in DOMAIN ran
    PROVE  ReceiptsTellTheTruth'
  <1>1. receipts' = Upsert(receipts, {Key(i)}, state, out) BY DEF Save
  <1>2. /\ DOMAIN receipts' = DOMAIN receipts \cup {Key(i)}
        /\ \A k \in DOMAIN receipts : k # Key(i) => receipts'[k] = receipts[k]
        /\ receipts'[Key(i)] = [state |-> state, out |-> out]
             \/ (Key(i) \in DOMAIN receipts /\ receipts'[Key(i)] = receipts[Key(i)])
    BY <1>1 DEF Upsert
  <1>3. ReceiptsTellTheTruth BY DEF Inv
  <1>. QED BY <1>2, <1>3 DEF ReceiptsTellTheTruth

\* A step that leaves receipts and calls alone.
LEMMA SameTruth ==
    ASSUME Inv, receipts' = receipts, ran' = ran
    PROVE  ReceiptsTellTheTruth'
  BY DEF Inv, ReceiptsTellTheTruth

\* A slot before and after its step.
LEMMA Stepped ==
    ASSUME Inv, NEW i \in InFlight, Dispatching, NEW now, Step(i, now)
    PROVE  st'[i] = now /\ Key(i)' = Key(i)
  <1>1. i \in 1..Len(Intent.uses) /\ st \in [1..Len(Intent.uses) -> States] BY InTools
  <1>2. st' = [st EXCEPT ![i] = now] /\ history' = history BY DEF Step, Dispatching
  <1>. QED BY <1>1, <1>2 DEF Key, Intent

\* A slot that is not dispatched: its call never ran.
LEMMA SkipToolInv == ASSUME Inv, NEW i \in InFlight, SkipTool(i) PROVE Inv'
  <1>1. Step(i, "done") /\ Dispatching /\ UNCHANGED <<receipts, ran, outs, broken>> /\ st[i] = "queued"
    BY DEF SkipTool
  <1>2. st'[i] = "done" /\ Key(i)' = Key(i) BY <1>1, Stepped
  <1>3. Slot(i) BY InTools
  <1>4. Slot(i)' BY <1>1, <1>2, <1>3 DEF Slot
  <1>5. "done" \in States /\ broken' \in BOOLEAN BY <1>1 DEF States, Inv, Types
  <1>6. "started" \in {"started", "completed", "interrupted"} /\ "none" \in {"none", "ran", "notrun"} OBVIOUS
  <1>. QED BY <1>1, <1>4, <1>5, <1>6, SameTruth, StepInv

\* A slot whose permission is being asked.
LEMMA AdmitToolInv == ASSUME Inv, NEW i \in InFlight, AdmitTool(i) PROVE Inv'
  <1>1. Step(i, "asked") /\ Dispatching /\ UNCHANGED <<receipts, ran, outs, broken>> /\ st[i] = "queued"
    BY DEF AdmitTool
  <1>2. st'[i] = "asked" /\ Key(i)' = Key(i) BY <1>1, Stepped
  <1>3. Slot(i) BY InTools
  <1>4. Slot(i)' BY <1>1, <1>2, <1>3 DEF Slot
  <1>5. "asked" \in States /\ broken' \in BOOLEAN BY <1>1 DEF States, Inv, Types
  <1>6. "started" \in {"started", "completed", "interrupted"} /\ "none" \in {"none", "ran", "notrun"} OBVIOUS
  <1>. QED BY <1>1, <1>4, <1>5, <1>6, SameTruth, StepInv

\* A slot that is refused: its call never ran.
LEMMA RefuseToolInv == ASSUME Inv, NEW i \in InFlight, RefuseTool(i) PROVE Inv'
  <1>1. Step(i, "refused") /\ Dispatching /\ UNCHANGED <<receipts, ran, outs, broken>>
        /\ st[i] \in {"queued", "asked"}
    BY DEF RefuseTool
  <1>2. st'[i] = "refused" /\ Key(i)' = Key(i) BY <1>1, Stepped
  <1>3. Slot(i) BY InTools
  <1>4. Slot(i)' BY <1>1, <1>2, <1>3 DEF Slot
  <1>5. "refused" \in States /\ broken' \in BOOLEAN BY <1>1 DEF States, Inv, Types
  <1>6. "started" \in {"started", "completed", "interrupted"} /\ "none" \in {"none", "ran", "notrun"} OBVIOUS
  <1>. QED BY <1>1, <1>4, <1>5, <1>6, SameTruth, StepInv

\* A tool starts behind its receipt, or is refused for want of it.
LEMMA StartToolInv == ASSUME Inv, NEW i \in InFlight, StartTool(i) PROVE Inv'
  <1>1. st[i] = "asked" /\ outs' = outs /\ Dispatching BY DEF StartTool
  <1>2. Slot(i) BY InTools
  <1>3. outs[i] = "notrun" /\ Key(i) \notin DOMAIN ran /\ Key(i) \in DOMAIN receipts
        /\ receipts[Key(i)].state = "interrupted"
    BY <1>1, <1>2 DEF Slot
  <1>4. "started" \in {"started", "completed", "interrupted"} /\ "none" \in {"none", "ran", "notrun"} OBVIOUS
  <1>5. CASE /\ Save(i, "started", "none") /\ Step(i, "running") /\ UNCHANGED broken
             /\ ran' = [k \in DOMAIN ran \cup {Key(i)} |->
                          IF k # Key(i) THEN ran[k] ELSE IF k \in DOMAIN ran THEN ran[k] + 1 ELSE 1]
    <2>1. st'[i] = "running" /\ Key(i)' = Key(i) BY <1>1, <1>5, Stepped
    <2>2. DOMAIN ran' = DOMAIN ran \cup {Key(i)} /\ ran'[Key(i)] = 1
          /\ \A k \in DOMAIN ran : k # Key(i) => ran'[k] = ran[k]
      BY <1>3, <1>5
    <2>3. Slot(i)' BY <1>1, <1>3, <2>1, <2>2 DEF Slot
    <2>4. ReceiptsTellTheTruth'
      <3>1. receipts' = Upsert(receipts, {Key(i)}, "started", "none") BY <1>5 DEF Save
      <3>2. /\ DOMAIN receipts' = DOMAIN receipts \cup {Key(i)}
            /\ \A k \in DOMAIN receipts : k # Key(i) => receipts'[k] = receipts[k]
            /\ receipts'[Key(i)] = [state |-> "started", out |-> "none"]
        BY <1>3, <3>1 DEF Upsert
      <3>3. ReceiptsTellTheTruth BY DEF Inv
      <3>. QED BY <2>2, <3>2, <3>3 DEF ReceiptsTellTheTruth
    <2>5. "running" \in States /\ broken' \in BOOLEAN BY <1>5 DEF States, Inv, Types
    <2>. QED BY <1>1, <1>4, <1>5, <2>2, <2>3, <2>4, <2>5, StepInv
  <1>6. CASE broken' = TRUE /\ Step(i, "refused") /\ UNCHANGED <<receipts, ran>>
    <2>1. st'[i] = "refused" /\ Key(i)' = Key(i) BY <1>1, <1>6, Stepped
    <2>2. Slot(i)' BY <1>1, <1>3, <1>6, <2>1 DEF Slot
    <2>3. "refused" \in States /\ broken' \in BOOLEAN BY <1>6 DEF States
    <2>. QED BY <1>1, <1>4, <1>6, <2>2, <2>3, SameTruth, StepInv
  <1>. QED BY <1>5, <1>6 DEF StartTool

\* A tool returns.
LEMMA ReturnToolInv == ASSUME Inv, NEW i \in InFlight, ReturnTool(i) PROVE Inv'
  <1>1. st[i] = "running" /\ Step(i, "returned") /\ outs' = [outs EXCEPT ![i] = "ran"]
        /\ ran' = ran /\ Dispatching
    BY DEF ReturnTool
  <1>2. Slot(i) /\ i \in 1..Len(Intent.uses) /\ outs \in [1..Len(Intent.uses) -> {"ran", "notrun"}]
    BY InTools
  <1>3. Key(i) \in DOMAIN ran BY <1>1, <1>2 DEF Slot
  <1>4. st'[i] = "returned" /\ Key(i)' = Key(i) BY <1>1, Stepped
  <1>5. outs'[i] = "ran" BY <1>1, <1>2
  <1>6. Slot(i)' BY <1>1, <1>3, <1>4, <1>5 DEF Slot
  <1>7. "returned" \in States /\ "completed" \in {"started", "completed", "interrupted"}
        /\ "ran" \in {"none", "ran", "notrun"}
    BY DEF States
  <1>8. CASE Save(i, "completed", "ran") /\ UNCHANGED broken
    <2>1. broken' \in BOOLEAN BY <1>8 DEF Inv, Types
    <2>2. ReceiptsTellTheTruth' BY <1>1, <1>3, <1>8, SaveTruth
    <2>. QED BY <1>1, <1>6, <1>7, <1>8, <2>1, <2>2, StepInv
  <1>9. CASE broken' = TRUE /\ UNCHANGED receipts
    <2>1. broken' \in BOOLEAN BY <1>9
    <2>. QED BY <1>1, <1>6, <1>7, <1>9, <2>1, SameTruth, StepInv
  <1>. QED BY <1>8, <1>9 DEF ReturnTool

\* The outcome of a slot is made durable.
LEMMA CloseToolInv == ASSUME Inv, NEW i \in InFlight, CloseTool(i) PROVE Inv'
  <1>. DEFINE state == IF broken /\ st[i] = "refused" THEN "interrupted" ELSE "completed"
  <1>1. st[i] \in {"refused", "returned"} /\ Step(i, "done") /\ UNCHANGED <<ran, outs>> /\ Dispatching
        /\ \/ Save(i, state, outs[i]) /\ UNCHANGED broken
           \/ broken' = TRUE /\ UNCHANGED receipts
    BY DEF CloseTool
  <1>2. Slot(i) /\ i \in 1..Len(Intent.uses) /\ outs \in [1..Len(Intent.uses) -> {"ran", "notrun"}]
    BY InTools
  <1>3. outs[i] \in {"none", "ran", "notrun"} /\ state \in {"started", "completed", "interrupted"}
        /\ "done" \in States
    BY <1>2 DEF States
  <1>4. /\ st[i] = "refused" => outs[i] = "notrun" /\ Key(i) \notin DOMAIN ran
        /\ st[i] = "returned" => outs[i] = "ran" /\ Key(i) \in DOMAIN ran
    BY <1>2 DEF Slot
  <1>5. st[i] = "returned" => state = "completed" OBVIOUS
  <1>. HIDE DEF state
  <1>6. st'[i] = "done" /\ Key(i)' = Key(i) BY <1>1, Stepped
  <1>7. Slot(i)' BY <1>1, <1>4, <1>6 DEF Slot
  <1>8. CASE Save(i, state, outs[i]) /\ UNCHANGED broken
    <2>1. broken' \in BOOLEAN BY <1>8 DEF Inv, Types
    <2>2. ReceiptsTellTheTruth' BY <1>1, <1>4, <1>5, <1>8, SaveTruth
    <2>. QED BY <1>1, <1>3, <1>7, <1>8, <2>1, <2>2, StepInv
  <1>9. CASE broken' = TRUE /\ UNCHANGED receipts
    <2>1. broken' \in BOOLEAN BY <1>9
    <2>. QED BY <1>1, <1>3, <1>7, <1>9, <2>1, SameTruth, StepInv
  <1>. QED BY <1>1, <1>8, <1>9

\* The wave is over: its slots are done.
LEMMA NextWaveInv == ASSUME Inv, NextWave PROVE Inv'
  <1>. DEFINE n == Len(Intent.uses)
  <1>1. InFlight # {} /\ (\A i \in InFlight : st[i] = "done") /\ waves' = Tail(waves)
        /\ UNCHANGED <<rows, receipts, ran, pc, turn, history, messages, base, from, saved, st, outs,
                       broken, aborted, strikes, guide, steer>>
    BY DEF NextWave, store
  <1>2. pc = "tools" /\ waves # <<>> BY <1>1 DEF InFlight
  <1>3. Types BY DEF Inv
  <1>4. Types' BY <1>1, <1>3 DEF Types
  <1>5. Quiet' BY <1>1, <1>2 DEF Quiet
  <1>6. JournalExact' /\ SteerKept' BY <1>1 DEF Inv, JournalExact, SteerKept
  <1>7. Spoken'
    <2>1. Line' = Line BY <1>1 DEF Line
    <2>. QED BY <1>1, <2>1 DEF Inv, Spoken
  <1>8. Keyed' BY <1>1 DEF Inv, Keyed
  <1>9. ReceiptsTellTheTruth' BY <1>1, SameTruth
  <1>10. Batch'
    <2>1. Intent' = Intent BY <1>1 DEF Intent
    <2>2. \A i : Key(i)' = Key(i) BY <2>1 DEF Key
    <2>3. \A i : Slot(i)' <=> Slot(i) BY <1>1, <2>2 DEF Slot
    <2>4. /\ st \in [1..n -> States] /\ outs \in [1..n -> {"ran", "notrun"}]
          /\ waves \in Seq(SUBSET (1..n)) /\ Apart(Intent.uses, waves)
          /\ \A i \in 1..n : Slot(i) /\ (st[i] \in {"queued", "done"} \/ i \in InFlight)
      BY <1>2 DEF Inv, Batch
    <2>. HIDE DEF n
    <2>5. Tail(waves) \in Seq(SUBSET (1..n)) /\ Len(Tail(waves)) = Len(waves) - 1
          /\ \A w \in 1..Len(Tail(waves)) : Tail(waves)[w] = waves[w + 1]
      BY <1>2, <2>4, HeadTailProperties
    <2>6. Apart(Intent.uses, Tail(waves))
      <3>1. Len(waves) \in Nat /\ DOMAIN waves = 1..Len(waves)
            /\ DOMAIN Tail(waves) = 1..Len(Tail(waves))
        BY <2>4, <2>5
      <3>2. \A w \in 1..Len(Tail(waves)) : w + 1 \in 1..Len(waves) BY <2>5, <3>1
      <3>. QED BY <2>4, <2>5, <3>1, <3>2 DEF Apart
    <2>7. \A i \in 1..n : st[i] \in {"queued", "done"} BY <1>1, <2>4
    <2>. QED BY <1>1, <1>2, <2>1, <2>3, <2>4, <2>5, <2>6, <2>7 DEF Batch, n
  <1>. QED BY <1>4, <1>5, <1>6, <1>7, <1>8, <1>9, <1>10 DEF Inv

\* The results of a batch whose waves are over tell the truth.
LEMMA OutsTold ==
    ASSUME Inv, pc = "tools", waves = <<>>
    PROVE  /\ outs \in Seq({"ran", "notrun", "unknown", "cleared"})
           /\ Told(DOMAIN ran, Len(rows), Intent.uses, outs)
  <1>. DEFINE n == Len(Intent.uses)
  <1>1. Intent.row = Len(rows) /\ Intent.uses \in Seq(Tools) BY AtHand
  <1>2. n \in Nat BY <1>1
  <1>3. InFlight = {} BY DEF InFlight
  <1>4. /\ outs \in [1..n -> {"ran", "notrun"}]
        /\ \A i \in 1..n : Slot(i) /\ st[i] \in {"queued", "done"}
    BY <1>3 DEF Inv, Batch
  <1>5. \A i \in 1..n : Key(i) = <<Len(rows), i>> BY <1>1 DEF Key
  <1>6. \A i \in 1..n : outs[i] = IF <<Len(rows), i>> \in DOMAIN ran THEN "ran" ELSE "notrun"
    <2>. SUFFICES ASSUME NEW i \in 1..n
                  PROVE  outs[i] = IF <<Len(rows), i>> \in DOMAIN ran THEN "ran" ELSE "notrun"
      OBVIOUS
    <2>1. Slot(i) /\ st[i] \in {"queued", "done"} /\ outs[i] \in {"ran", "notrun"} BY <1>4
    <2>2. CASE st[i] = "queued" BY <1>5, <2>1, <2>2 DEF Slot
    <2>3. CASE st[i] = "done" BY <1>5, <2>1, <2>3 DEF Slot
    <2>. QED BY <2>1, <2>2, <2>3
  <1>. HIDE DEF n
  <1>7. outs \in Seq({"ran", "notrun", "unknown", "cleared"}) /\ Len(outs) = n
    <2>1. outs \in Seq({"ran", "notrun"}) /\ Len(outs) = n BY <1>2, <1>4
    <2>2. \A i \in 1..n : outs[i] \in {"ran", "notrun", "unknown", "cleared"} BY <1>4
    <2>3. DOMAIN outs = 1..n BY <1>4
    <2>. QED BY <1>2, <2>1, <2>2, <2>3
  <1>. QED BY <1>6, <1>7 DEF Told, n

\* The batch's message.
LEMMA AfterToolsInv == ASSUME Inv, AfterTools PROVE Inv'
  <1>. DEFINE m == User(outs, Guidance \cup (IF Steered THEN {"steer"} ELSE {}))
  <1>1. pc = "tools" /\ waves = <<>> /\ guide' = FALSE /\ steer' = (IF Steered THEN "taken" ELSE steer)
        /\ st' = <<>> /\ broken' = FALSE /\ UNCHANGED <<receipts, ran, base, from, aborted>>
    BY DEF AfterTools
  <1>2. outs \in Seq({"ran", "notrun", "unknown", "cleared"})
        /\ Told(DOMAIN ran, Len(rows), Intent.uses, outs)
    BY <1>1, OutsTold
  <1>3. m \in Message /\ m.role = "user" /\ m.uses = <<>> /\ m.res = outs
        /\ (Steered => "steer" \in m.text)
    <2>1. Guidance \cup (IF Steered THEN {"steer"} ELSE {}) \in SUBSET {"prompt", "runtime", "guide", "steer"}
      BY DEF Guidance
    <2>. QED BY <1>2, <2>1 DEF User, Message
  <1>4. \/ /\ rows' = Append(rows, m) /\ saved' = Len(messages) + 1
           /\ messages' = Append(messages, m)
           /\ \/ pc' = "finish" /\ history' = Append(history, m) /\ UNCHANGED <<turn, strikes>>
              \/ /\ strikes' \in {strikes, 0}
                 /\ history' \in {Append(history, m), Microcompact(Append(history, m))}
                 /\ \/ pc' = "top" /\ turn' = turn + 1
                    \/ pc' = "finish" /\ UNCHANGED turn
        \/ /\ history' = Append(history, m) /\ messages' = Append(messages, m) /\ pc' = "finish"
           /\ UNCHANGED <<rows, saved, turn, strikes>>
    BY DEF AfterTools, SavedAfterTools, Say, Finish
  <1>. HIDE DEF m
  <1>5. Types BY DEF Inv
  <1>6. turn \in Nat /\ turn < MaxTurns /\ MaxTurns \in Nat BY <1>1, AtHand
  <1>7. turn' \in Nat /\ turn' <= MaxTurns BY <1>4, <1>6
  <1>8. strikes' \in Nat BY <1>4, <1>5 DEF Types
  <1>9. messages' = Append(messages, m) /\ pc' \in {"top", "finish"}
        /\ history' \in {Append(history, m), Microcompact(Append(history, m))}
        /\ \/ rows' = rows /\ saved' = saved
           \/ rows' = Append(rows, m) /\ saved' = Len(messages) + 1
    BY <1>4
  <1>10. /\ \A k \in DOMAIN receipts' :
              receipts'[k] \in [state : {"started", "completed", "interrupted"},
                                out : {"none", "ran", "notrun"}]
         /\ \A k \in DOMAIN receipts' : k[1] \in Nat /\ k[1] <= Len(rows)
    BY <1>1, <1>5 DEF Types, Inv, Keyed
  <1>11. ReceiptsTellTheTruth' BY <1>1, SameTruth
  <1>12. broken' \in BOOLEAN /\ aborted' \in BOOLEAN /\ guide' \in BOOLEAN
         /\ steer' \in {"none", "file", "taken"}
    BY <1>1, <1>5 DEF Types
  <1>13. steer' = "taken" => steer = "taken" \/ "steer" \in m.text BY <1>1, <1>3
  <1>. QED BY <1>1, <1>2, <1>3, <1>7, <1>8, <1>9, <1>10, <1>11, <1>12, <1>13, GivenInv

\* The invariant holds at the start ...
LEMMA InitInv == Init => Inv
  <1>. SUFFICES ASSUME Init PROVE Inv OBVIOUS
  <1>. USE DEF Init
  <1>1. Types
    <2>1. MaxTurns \in Nat BY AgentRunAssumption
    <2>2. <<>> \in Seq(Message) /\ Len(<<>>) = 0 /\ DOMAIN <<>> = {} OBVIOUS
    <2>3. 0 \in Nat /\ 0 <= 0 /\ 0 <= MaxTurns BY <2>1
    <2>. QED BY <2>2, <2>3 DEF Types
  <1>2. Quiet /\ JournalExact /\ SteerKept BY DEF Quiet, JournalExact, SteerKept
  <1>3. Spoken
    <2>1. rows \in Seq(Message) /\ messages \in Seq(Message) /\ saved \in Nat
      /\ saved = Len(messages) /\ saved <= Len(messages) OBVIOUS
    <2>2. LineOf(rows, messages, saved) = rows BY ONLY <2>1, LineParts
    <2>3. Shape(DOMAIN ran, rows) BY DEF Shape
    <2>. QED BY <2>2, <2>3 DEF Spoken, Line
  <1>4. Keyed /\ ReceiptsTellTheTruth BY DEF Keyed, ReceiptsTellTheTruth
  <1>5. Batch BY DEF Batch
  <1>. QED BY <1>1, <1>2, <1>3, <1>4, <1>5 DEF Inv

\* ... every step keeps it ...
LEMMA NextInv == Inv /\ [Next]_vars => Inv'
  <1>. SUFFICES ASSUME Inv, [Next]_vars PROVE Inv' OBVIOUS
  <1>1. CASE Prompt BY <1>1, PromptInv
  <1>2. CASE Continue BY <1>2, ContinueInv
  <1>3. CASE LoopStep
    <2>1. CASE Leave BY <2>1, LeaveInv
    <2>2. CASE Request BY <2>2, RequestInv
    <2>3. CASE StreamFails BY <2>3, StreamFailsInv
    <2>4. CASE \E b \in Batches : Answer(b) BY <2>4, AnswerInv
    <2>5. CASE Detect BY <2>5, DetectInv
    <2>6. CASE Truncated BY <2>6, TruncatedInv
    <2>7. CASE FinalAnswer BY <2>7, FinalAnswerInv
    <2>8. CASE PersistBeforeTools BY <2>8, PersistBeforeToolsInv
    <2>9. CASE NextWave BY <2>9, NextWaveInv
    <2>10. CASE AfterTools BY <2>10, AfterToolsInv
    <2>11. CASE PersistTurn BY <2>11, PersistTurnInv
    <2>. QED BY <1>3, <2>1, <2>2, <2>3, <2>4, <2>5, <2>6, <2>7, <2>8, <2>9, <2>10, <2>11 DEF LoopStep
  <1>4. CASE ToolStep
    <2>1. PICK i \in InFlight : SkipTool(i) \/ AdmitTool(i) \/ RefuseTool(i) \/ StartTool(i)
                                  \/ ReturnTool(i) \/ CloseTool(i)
      BY <1>4 DEF ToolStep
    <2>. QED BY <2>1, SkipToolInv, AdmitToolInv, RefuseToolInv, StartToolInv, ReturnToolInv, CloseToolInv
  <1>5. CASE Cancel BY <1>5, CancelInv
  <1>6. CASE LeaveSteer BY <1>6, LeaveSteerInv
  <1>7. CASE Crash BY <1>7, CrashInv
  <1>8. CASE Rest BY <1>8, StutterInv DEF Rest
  <1>9. CASE UNCHANGED vars BY <1>9, StutterInv
  <1>. QED BY <1>1, <1>2, <1>3, <1>4, <1>5, <1>6, <1>7, <1>8, <1>9 DEF Next

\* ... so it always holds.
LEMMA Invariance == Spec => []Inv
  BY InitInv, NextInv, PTL DEF Spec

-----------------------------------------------------------------------------
(* The properties.                                                         *)

\* Nothing a run has taken in is lost or stored twice: the rows a run added
\* are the messages it counts as saved, whichever of createAgent's writes
\* failed half way, and a steer taken from its file is in the conversation.
THEOREM JournalSafeHolds == Spec => []JournalSafe
  <1>1. Inv => JournalSafe
    <2>. SUFFICES ASSUME Inv PROVE TypeOK BY DEF Inv, JournalSafe
    <2>1. Types BY DEF Inv
    <2>2. ASSUME NEW s \in Seq(Message), NEW i \in DOMAIN s PROVE s[i] \in Message OBVIOUS
    <2>3. \A s \in {rows, history, messages} : \A i \in DOMAIN s : s[i] \in Message
      BY <2>1, <2>2 DEF Types
    <2>4. \A k \in DOMAIN ran : ran[k] \in Nat BY DEF Inv, ReceiptsTellTheTruth
    <2>5. turn \in 0..MaxTurns
      <3>1. MaxTurns \in Nat BY AgentRunAssumption
      <3>. QED BY <2>1, <3>1 DEF Types
    <2>6. \A i \in DOMAIN st : st[i] \in States
      <3>1. CASE pc # "tools" BY <3>1 DEF Inv, Batch
      <3>2. CASE pc = "tools" BY <3>2 DEF Inv, Batch
      <3>. QED BY <3>1, <3>2
    <2>. QED BY <2>1, <2>3, <2>4, <2>5, <2>6 DEF Types, TypeOK, States
  <1>. QED BY <1>1, Invariance, PTL

\* A call runs at most once, and its durable receipt never says less than
\* what happened: saveToolExecution comes before tool.call and after it.
THEOREM ReceiptsTellTheTruthHolds == Spec => []ReceiptsTellTheTruth
  <1>1. Inv => ReceiptsTellTheTruth BY DEF Inv
  <1>. QED BY <1>1, Invariance, PTL

\* Tools that run side by side and touch one path only read it, for every
\* batch, however partitionToolCalls and splitByPathOverlap cut it.
THEOREM NoPathRaceHolds == Spec => []NoPathRace
  <1>1. Inv => NoPathRace
    <2>. SUFFICES ASSUME Inv, NEW i \in InFlight, NEW j \in InFlight, i # j,
                         PathOf[Intent.uses[i]] = PathOf[Intent.uses[j]], PathOf[Intent.uses[i]] # NoPath
                  PROVE  {Intent.uses[i], Intent.uses[j]} \subseteq ReadOnly
      BY DEF NoPathRace
    <2>1. pc = "tools" /\ waves # <<>> /\ InFlight = Head(waves) BY DEF InFlight
    <2>2. waves \in Seq(SUBSET (1..Len(Intent.uses))) /\ Apart(Intent.uses, waves)
      BY <2>1 DEF Inv, Batch
    <2>3. Head(waves) = waves[1] /\ 1 \in DOMAIN waves BY <2>1, <2>2
    <2>4. ~Conflicts(Intent.uses[i], Intent.uses[j]) BY <2>1, <2>2, <2>3 DEF Apart
    <2>. QED BY <2>4 DEF Conflicts
  <1>. QED BY <1>1, Invariance, PTL

\* Every history sent to the provider is well formed: calls are answered,
\* block for block, results belong to calls, and only a prompt follows a
\* message of its own role, over crashes, repairs and failed writes.
THEOREM RequestWellFormedHolds == Spec => []RequestWellFormed
  <1>1. Inv => RequestWellFormed
    <2>. SUFFICES ASSUME Inv, pc = "stream", NEW i \in DOMAIN history
                  PROVE  /\ history[i].uses # <<>> =>
                              i < Len(history) /\ Len(history[i + 1].res) = Len(history[i].uses)
                         /\ history[i].res # <<>> => i > 1 /\ history[i - 1].uses # <<>>
                         /\ i < Len(history) /\ history[i].role = history[i + 1].role =>
                              history[i].res # <<>> /\ "prompt" \in history[i + 1].text
      BY DEF RequestWellFormed
    <2>1. history \in Seq(Message) /\ MaySend(DOMAIN ran, history, Len(rows)) BY DEF Inv, Types, Spoken
    <2>2. Len(history) \in Nat /\ DOMAIN history = 1..Len(history) BY <2>1
    <2>3. history[Len(history)].role = "user" /\ Talk(DOMAIN ran, history) BY <2>1 DEF MaySend, EndsOnUser
    <2>4. Sided(history[i]) BY <2>3 DEF Talk
    <2>5. ASSUME history[i].uses # <<>> PROVE i < Len(history)
      <3>1. i # Len(history) BY <2>3, <2>4, <2>5 DEF Sided
      <3>. QED BY <2>2, <3>1
    <2>6. ASSUME i < Len(history) PROVE Answers(DOMAIN ran, history[i], history[i + 1])
      <3>1. i + 1 \in DOMAIN history /\ i + 1 > 1 /\ (i + 1) - 1 = i BY <2>2, <2>6
      <3>. QED BY <2>3, <3>1 DEF Talk
    <2>7. ASSUME history[i].res # <<>> PROVE i > 1 /\ history[i - 1].uses # <<>>
      <3>1. i # 1 BY <2>3, <2>7 DEF Talk
      <3>2. i > 1 BY <2>2, <3>1
      <3>3. Answers(DOMAIN ran, history[i - 1], history[i]) BY <2>3, <3>2 DEF Talk
      <3>. QED BY <2>7, <3>2, <3>3 DEF Answers
    <2>. QED BY <2>5, <2>6, <2>7 DEF Answers, Shown
  <1>. QED BY <1>1, Invariance, PTL

\* The model is never told a falsehood about an effect: the results it is
\* sent say "ran" exactly for the calls that ran, in this process or in one
\* that died, and no outcome is left unknown.
THEOREM RequestTruthfulHolds == Spec => []RequestTruthful
  <1>1. Inv => RequestTruthful
    <2>. SUFFICES ASSUME Inv, pc = "stream", NEW i \in DOMAIN history, NEW k \in DOMAIN history[i].uses
                  PROVE  history[i + 1].res[k] \in
                           (IF <<history[i].row, k>> \in DOMAIN ran THEN {"ran", "cleared"} ELSE {"notrun"})
      BY DEF RequestTruthful
    <2>1. history \in Seq(Message) /\ MaySend(DOMAIN ran, history, Len(rows)) BY DEF Inv, Types, Spoken
    <2>2. Len(history) \in Nat /\ DOMAIN history = 1..Len(history) BY <2>1
    <2>3. history[Len(history)].role = "user" /\ Talk(DOMAIN ran, history) BY <2>1 DEF MaySend, EndsOnUser
    <2>4. Sided(history[i]) /\ history[i] \in Message BY <2>1, <2>3 DEF Talk
    <2>5. history[i].uses \in Seq(Tools) BY <2>4, MessageFields
    <2>6. DOMAIN history[i].uses = 1..Len(history[i].uses) /\ history[i].uses # <<>> BY <2>5
    <2>7. i # Len(history) BY <2>3, <2>4, <2>6 DEF Sided
    <2>8. i + 1 \in DOMAIN history /\ i + 1 > 1 /\ (i + 1) - 1 = i BY <2>2, <2>7
    <2>9. Answers(DOMAIN ran, history[i], history[i + 1]) BY <2>3, <2>8 DEF Talk
    <2>. QED BY <2>6, <2>9 DEF Answers, Shown
  <1>. QED BY <1>1, Invariance, PTL

-----------------------------------------------------------------------------
(* Background tasks.  The invariant follows a task from its insert to its  *)
(* terminal row, and ties the map of its owner to what the table and the   *)
(* controllers say of it.                                                  *)

\* TaskTypeOK with the sets written one by one.
TaskTypes ==
  /\ row \in [Tasks -> {"none", "gone"} \cup Active \cup Terminal]
  /\ made \in 0..MaxTasks /\ of \in [Tasks -> 0..MaxSessionTurns]
  /\ ended \in [Tasks -> {"none", "live", "done", "dead"} \cup Reasons]
  /\ controllers \in SUBSET Tasks /\ userAborted \in SUBSET Tasks
  /\ signalled \in SUBSET Tasks /\ lost \in SUBSET Tasks /\ owned \in SUBSET Tasks
  /\ phase \in {"turn", "await", "completed", "interrupted", "error", "left"}
  /\ stopped \in BOOLEAN /\ turns \in 1..MaxSessionTurns /\ faults \in 0..MaxFaults

\* A number not given out yet is nobody's task.
Unmade ==
  \A t \in Tasks : t > made =>
    row[t] = "none" /\ ended[t] = "none" /\ of[t] = 0 /\ t \notin userAborted

\* A terminal row belongs to a finalized delegation, and names its cause.
Settled ==
  \A t \in Tasks :
    /\ row[t] \in Terminal => ended[t] = "done"
    /\ row[t] = "timed_out" => t \notin userAborted
    /\ row[t] = "cancelled" => t \in userAborted

\* The current turn has in its map each of its tasks it has not seen complete.
Accounted ==
  /\ \A t \in Tasks :
       /\ of[t] <= turns
       /\ of[t] = turns => t \in owned \/ (ended[t] = "done" /\ row[t] \in {"completed", "gone"})
  /\ phase = "completed" => owned = {}

\* A stopped turn has signalled each of its delegations, those it started
\* after the stop included.
Heard ==
  /\ stopped => \A t \in controllers : of[t] = turns => t \in signalled
  /\ phase = "interrupted" => stopped

TaskInv == TaskTypes /\ Unmade /\ Settled /\ ControllersExact /\ Accounted /\ Heard

\* The terminal state a delegation is given is one, and tells a stop from a
\* timeout.
LEMMA MapTerminal ==
    ASSUME NEW r \in Reasons, NEW b \in BOOLEAN
    PROVE  /\ MapTerminalToState(r, b) \in Terminal
           /\ MapTerminalToState(r, b) = "timed_out" => ~b
           /\ MapTerminalToState(r, b) = "cancelled" => b
  BY DEF MapTerminalToState, Reasons, Terminal

\* The invariant holds initially.
LEMMA TaskInitInv == TaskInit => TaskInv
  <1>. SUFFICES ASSUME TaskInit PROVE TaskInv OBVIOUS
  <1>1. TaskTypes
    <2>1. made \in 0..MaxTasks /\ turns \in 1..MaxSessionTurns /\ faults \in 0..MaxFaults /\ 0 \in 0..MaxSessionTurns
      BY OwnedTasksAssumption DEF TaskInit
    <2>2. of \in [Tasks -> 0..MaxSessionTurns] BY <2>1 DEF TaskInit
    <2>. QED BY <2>1, <2>2 DEF TaskInit, TaskTypes
  <1>2. Unmade /\ Settled BY DEF TaskInit, Unmade, Settled, Terminal
  <1>3. ControllersExact BY DEF TaskInit, ControllersExact, Active, Reasons
  <1>4. Accounted /\ Heard BY DEF TaskInit, Accounted, Heard
  <1>. QED BY <1>1, <1>2, <1>3, <1>4 DEF TaskInv

\* task_create keeps it: the number is fresh, so no earlier task changes.
LEMMA CreateInv == TaskInv /\ Create => TaskInv'
  <1>. SUFFICES ASSUME TaskInv, Create PROVE TaskInv' OBVIOUS
  <1>. DEFINE t == made + 1
  <1>1. t \in Tasks /\ t > made /\ t \in 1..MaxTasks BY OwnedTasksAssumption DEF Create, TaskInv, TaskTypes, Tasks
  <1>2. /\ row[t] = "none" /\ ended[t] = "none" /\ of[t] = 0 /\ t \notin userAborted /\ t \notin controllers
    BY <1>1 DEF TaskInv, Unmade, ControllersExact, Reasons
  <1>3. TaskTypes'
    <2>1. made' \in 0..MaxTasks /\ of' \in [Tasks -> 0..MaxSessionTurns] /\ faults' \in 0..MaxFaults
      BY <1>1, OwnedTasksAssumption DEF Create, NoFault, Fault, TaskInv, TaskTypes
    <2>2. row' \in [Tasks -> {"none", "gone"} \cup Active \cup Terminal]
      BY <1>1 DEF Create, UpdateState, TaskInv, TaskTypes, Active
    <2>3. ended' \in [Tasks -> {"none", "live", "done", "dead"} \cup Reasons]
      BY <1>1 DEF Create, TaskInv, TaskTypes
    <2>. QED BY <1>1, <2>1, <2>2, <2>3 DEF Create, TaskInv, TaskTypes
  <1>4. Unmade'
    <2>. SUFFICES ASSUME NEW u \in Tasks, u > made + 1
         PROVE  (row[u] = "none" /\ ended[u] = "none" /\ of[u] = 0 /\ u \notin userAborted)'
      BY DEF Create, Unmade
    <2>1. u > made /\ u # t BY OwnedTasksAssumption DEF TaskInv, TaskTypes, Tasks
    <2>. QED BY <1>1, <2>1 DEF Create, UpdateState, TaskInv, TaskTypes, Unmade
  <1>5. Settled' BY <1>1, <1>2 DEF Create, UpdateState, TaskInv, TaskTypes, Settled, Active, Terminal
  <1>6. ControllersExact'
    BY <1>1, <1>2 DEF Create, UpdateState, TaskInv, TaskTypes, ControllersExact, Active, Reasons
  <1>7. Accounted' BY <1>1, <1>2 DEF Create, UpdateState, TaskInv, TaskTypes, Accounted
  <1>8. Heard' BY <1>1, <1>2 DEF Create, UpdateState, TaskInv, TaskTypes, Heard
  <1>. QED BY <1>3, <1>4, <1>5, <1>6, <1>7, <1>8 DEF TaskInv

\* The end of a delegation keeps it.
LEMMA ChildEndsInv == ASSUME TaskInv, NEW t \in Tasks, ChildEnds(t) PROVE TaskInv'
  <1>1. PICK r \in Reasons : ended' = [ended EXCEPT ![t] = r] BY DEF ChildEnds
  <1>2. ended[t] = "live" BY DEF ChildEnds, Live
  <1>3. UNCHANGED <<row, made, of, controllers, userAborted, signalled, lost, owner, turns, faults>>
    BY DEF ChildEnds
  <1>4. TaskTypes' BY <1>1, <1>3 DEF owner, TaskInv, TaskTypes
  <1>5. Unmade' BY <1>1, <1>2, <1>3 DEF TaskInv, TaskTypes, Unmade
  <1>6. Settled' BY <1>1, <1>2, <1>3 DEF TaskInv, TaskTypes, Settled
  <1>7. ControllersExact'
    BY <1>1, <1>2, <1>3 DEF TaskInv, TaskTypes, ControllersExact, Reasons
  <1>8. Accounted' /\ Heard' BY <1>1, <1>2, <1>3 DEF owner, TaskInv, TaskTypes, Accounted, Heard
  <1>. QED BY <1>4, <1>5, <1>6, <1>7, <1>8 DEF TaskInv

\* finalize keeps it, whether or not its write succeeds.
LEMMA FinalizeInv == ASSUME TaskInv, NEW t \in Tasks, Finalize(t) PROVE TaskInv'
  <1>. DEFINE s == MapTerminalToState(ended[t], t \in userAborted)
  <1>1. s \in Terminal /\ (s = "timed_out" => t \notin userAborted) /\ (s = "cancelled" => t \in userAborted)
    BY MapTerminal, (t \in userAborted) \in BOOLEAN DEF Finalize
  <1>2. /\ t \in controllers /\ ended[t] \in Reasons /\ controllers' = controllers \ {t}
        /\ ended' = [ended EXCEPT ![t] = "done"]
        /\ UNCHANGED <<made, of, userAborted, signalled, phase, owned, stopped, turns>>
    BY DEF Finalize, owner
  <1>3. \/ row' = [row EXCEPT ![t] = IF @ = "gone" THEN @ ELSE s] /\ UNCHANGED <<lost, faults>>
        \/ row' = row /\ lost' = lost \cup {t} /\ faults < MaxFaults /\ faults' = faults + 1
    BY DEF Finalize, UpdateOnComplete, NoFault, Fault
  <1>. HIDE DEF s
  <1>4. ended[t] \notin {"none", "live", "done", "dead"} \/ ended[t] = "live" BY <1>2 DEF Reasons
  <1>5. TaskTypes' BY <1>1, <1>2, <1>3, OwnedTasksAssumption DEF TaskInv, TaskTypes
  <1>6. Unmade' BY <1>2, <1>3, <1>4 DEF TaskInv, TaskTypes, Unmade
  <1>7. Settled' BY <1>1, <1>2, <1>3 DEF TaskInv, TaskTypes, Settled, Terminal
  <1>8. ControllersExact'
    BY <1>1, <1>2, <1>3 DEF TaskInv, TaskTypes, ControllersExact, Active, Terminal, Reasons
  <1>9. Accounted' /\ Heard'
    BY <1>1, <1>2, <1>3, <1>4 DEF TaskInv, TaskTypes, Accounted, Heard, Settled, Terminal
  <1>. QED BY <1>5, <1>6, <1>7, <1>8, <1>9 DEF TaskInv

\* Marking tasks that have a controller keeps it, with the owner as it is or
\* stopped in the same step.
LEMMA SignalInv ==
    ASSUME TaskInv, NEW ts \in SUBSET Tasks, Signal(ts),
           UNCHANGED <<row, made, of, controllers, ended, lost, owned, turns, faults>>,
           \/ UNCHANGED <<phase, stopped>>
           \/ stopped' = TRUE /\ phase' = phase /\ {t \in controllers : of[t] = turns} \subseteq ts
           \/ stopped /\ stopped' = stopped /\ phase' = "interrupted"
    PROVE  TaskInv'
  <1>1. TaskTypes' BY DEF Signal, TaskInv, TaskTypes
  <1>2. Unmade' BY DEF Signal, TaskInv, TaskTypes, Unmade, ControllersExact, Reasons
  <1>3. Settled' BY DEF Signal, TaskInv, TaskTypes, Settled, ControllersExact, Terminal, Reasons
  <1>4. ControllersExact' BY DEF TaskInv, ControllersExact
  <1>5. Accounted' /\ Heard' BY DEF Signal, TaskInv, TaskTypes, Accounted, Heard
  <1>. QED BY <1>1, <1>2, <1>3, <1>4, <1>5 DEF TaskInv

\* A pass of the poll keeps it: what leaves the map has completed.
LEMMA PollInv == TaskInv /\ Poll => TaskInv'
  <1>. SUFFICES ASSUME TaskInv, Poll PROVE TaskInv' OBVIOUS
  <1>1. UNCHANGED <<row, made, of, controllers, userAborted, signalled, ended, lost, stopped, turns, faults>>
    BY DEF Poll, manager
  <1>2. /\ owned' \subseteq owned
        /\ \A t \in owned : t \notin owned' => row[t] = "completed"
        /\ phase' \in {"error", "await", "completed"}
        /\ phase' = "completed" => owned' = {}
    BY DEF Poll, Completed
  <1>3. TaskTypes' BY <1>1, <1>2 DEF TaskInv, TaskTypes
  <1>4. Unmade' /\ Settled' /\ ControllersExact' BY <1>1 DEF TaskInv, Unmade, Settled, ControllersExact
  <1>5. Accounted' /\ Heard' BY <1>1, <1>2 DEF TaskInv, TaskTypes, Accounted, Heard, Settled, Terminal
  <1>. QED BY <1>3, <1>4, <1>5 DEF TaskInv

\* A change of place within the turn keeps it.
LEMMA TaskPlaceInv == TaskInv /\ (AwaitOwnedTasks \/ LeaveTurn) => TaskInv'
  BY DEF AwaitOwnedTasks, LeaveTurn, manager, TaskInv, TaskTypes, Unmade, Settled, ControllersExact, Accounted, Heard

\* A new turn owns nothing, and no task is its own yet; so does the turn a
\* new process resumes after a crash.
LEMMA NewTurnInv == TaskInv /\ (NextTurn \/ ProcessDies) => TaskInv'
  <1>. SUFFICES ASSUME TaskInv, NextTurn \/ ProcessDies PROVE TaskInv' OBVIOUS
  <1>1. /\ turns < MaxSessionTurns /\ turns' = turns + 1
        /\ phase' = "turn" /\ owned' = {} /\ stopped' = FALSE
        /\ UNCHANGED <<row, made, of, userAborted, signalled, lost>>
        /\ \/ UNCHANGED <<controllers, ended, faults>>
           \/ /\ controllers' = {} /\ faults < MaxFaults /\ faults' = faults + 1
              /\ ended' = [t \in Tasks |-> IF t \in controllers THEN "dead" ELSE ended[t]]
    BY DEF NextTurn, ProcessDies, manager, Fault
  <1>2. TaskTypes'
    <2>1. turns' \in 1..MaxSessionTurns /\ faults' \in 0..MaxFaults BY <1>1, OwnedTasksAssumption DEF TaskInv, TaskTypes
    <2>2. ended' \in [Tasks -> {"none", "live", "done", "dead"} \cup Reasons] BY <1>1 DEF TaskInv, TaskTypes
    <2>. QED BY <1>1, <2>1, <2>2 DEF TaskInv, TaskTypes
  <1>3. Unmade' BY <1>1 DEF TaskInv, TaskTypes, Unmade, ControllersExact, Reasons
  <1>4. Settled' BY <1>1 DEF TaskInv, TaskTypes, Settled, ControllersExact, Reasons, Terminal
  <1>5. ControllersExact' BY <1>1 DEF TaskInv, TaskTypes, ControllersExact, Reasons
  <1>6. Accounted' /\ Heard' BY <1>1 DEF TaskInv, TaskTypes, Accounted, Heard
  <1>. QED BY <1>2, <1>3, <1>4, <1>5, <1>6 DEF TaskInv

\* The deletion of the session keeps it.
LEMMA DeleteInv == TaskInv /\ DeleteSession => TaskInv'
  <1>. SUFFICES ASSUME TaskInv, DeleteSession PROVE TaskInv' OBVIOUS
  <1>1. /\ row' = [t \in Tasks |-> IF row[t] = "none" THEN "none" ELSE "gone"]
        /\ faults < MaxFaults /\ faults' = faults + 1
        /\ UNCHANGED <<made, of, controllers, userAborted, signalled, ended, lost, phase, owned, stopped, turns>>
    BY DEF DeleteSession, Fault, owner
  <1>2. TaskTypes' BY <1>1, OwnedTasksAssumption DEF TaskInv, TaskTypes
  <1>3. Unmade' /\ Settled' BY <1>1 DEF TaskInv, TaskTypes, Unmade, Settled, Terminal
  <1>4. ControllersExact' BY <1>1 DEF TaskInv, TaskTypes, ControllersExact, Active
  <1>5. Accounted' /\ Heard' BY <1>1 DEF TaskInv, TaskTypes, Accounted, Heard
  <1>. QED BY <1>2, <1>3, <1>4, <1>5 DEF TaskInv

\* Every step preserves the invariant.
LEMMA TaskNextInv == TaskInv /\ [TaskNext]_taskVars => TaskInv'
  <1>. SUFFICES ASSUME TaskInv, [TaskNext]_taskVars PROVE TaskInv' OBVIOUS
  <1>1. CASE UNCHANGED taskVars
    BY <1>1 DEF taskVars, manager, owner, TaskInv, TaskTypes, Unmade, Settled, ControllersExact, Accounted, Heard
  <1>2. CASE Create BY <1>2, CreateInv
  <1>3. CASE CancelTurn
    <2>1. {t \in controllers : of[t] = turns} \in SUBSET Tasks BY DEF TaskInv, TaskTypes
    <2>. QED BY <1>3, <2>1, SignalInv DEF CancelTurn
  <1>4. CASE PollStopped
    <2>1. {t \in owned : row[t] \in Active} \in SUBSET Tasks BY DEF TaskInv, TaskTypes
    <2>. QED BY <1>4, <2>1, SignalInv DEF PollStopped
  <1>5. ASSUME NEW t \in Tasks, ChildEnds(t) \/ Finalize(t) \/ Stop(t) PROVE TaskInv'
    <2>1. {t} \in SUBSET Tasks OBVIOUS
    <2>2. CASE Stop(t) BY <2>1, <2>2, SignalInv DEF Stop, owner
    <2>. QED BY <1>5, <2>2, ChildEndsInv, FinalizeInv
  <1>6. CASE AwaitOwnedTasks \/ LeaveTurn \/ Poll \/ NextTurn \/ ProcessDies \/ DeleteSession
    BY <1>6, TaskPlaceInv, PollInv, NewTurnInv, DeleteInv
  <1>7. CASE TaskRest BY <1>1, <1>7 DEF TaskRest
  <1>. QED BY <1>1, <1>2, <1>3, <1>4, <1>5, <1>6, <1>7 DEF TaskNext

\* The invariant holds in every reachable state.
LEMMA TaskInvariance == TaskSpec => []TaskInv
  BY TaskInitInv, TaskNextInv, PTL DEF TaskSpec

\* Type correctness of the table, the controllers and the owner's map.
THEOREM TaskTypeCorrect == TaskSpec => []TaskTypeOK
  <1>1. TaskInv => TaskTypeOK BY DEF TaskInv, TaskTypes, TaskTypeOK
  <1>. QED BY <1>1, TaskInvariance, PTL

\* A turn that reports completion has no pending or failed task of its own.
THEOREM OwnerHonestHolds == TaskSpec => []OwnerHonest
  <1>1. TaskInv => OwnerHonest BY DEF TaskInv, Accounted, OwnerHonest
  <1>. QED BY <1>1, TaskInvariance, PTL

\* Controllers are kept for exactly the delegations not finalized yet.
THEOREM ControllersExactHolds == TaskSpec => []ControllersExact
  <1>1. TaskInv => ControllersExact BY DEF TaskInv
  <1>. QED BY <1>1, TaskInvariance, PTL

\* A stop reads as a cancellation and a timeout does not; an interrupted turn
\* has signalled everything it started.
THEOREM StopIsCancelHolds == TaskSpec => []StopIsCancel
  <1>1. TaskInv => StopIsCancel
    BY DEF TaskInv, TaskTypes, Settled, Heard, ControllersExact, Live, StopIsCancel
  <1>. QED BY <1>1, TaskInvariance, PTL

\* A terminal state is never overwritten by another one.
THEOREM TerminalStaysHolds == TaskSpec => TerminalStays
  <1>. DEFINE Stays == \A t \in Tasks : row[t] \in Terminal => row'[t] \in {row[t], "gone"}
  <1>1. TaskInv /\ [TaskNext]_taskVars => [Stays]_taskVars
    <2>. SUFFICES ASSUME TaskInv, TaskNext PROVE Stays OBVIOUS
    <2>1. CASE Create
      <3>1. made + 1 \in Tasks /\ made + 1 > made
        BY <2>1, OwnedTasksAssumption DEF Create, TaskInv, TaskTypes, Tasks
      <3>. QED BY <2>1, <3>1 DEF Create, UpdateState, TaskInv, TaskTypes, Unmade, Terminal
    <2>2. ASSUME NEW t \in Tasks, Finalize(t) PROVE Stays
      BY <2>2 DEF Finalize, UpdateOnComplete, TaskInv, TaskTypes, Settled, Reasons
    <2>3. CASE DeleteSession BY <2>3 DEF DeleteSession, Terminal
    <2>4. CASE UNCHANGED row BY <2>4
    <2>. QED
      BY <2>1, <2>2, <2>3, <2>4
      DEF TaskNext, CancelTurn, AwaitOwnedTasks, LeaveTurn, PollStopped, Poll, NextTurn, ProcessDies, TaskRest, taskVars,
          manager, ChildEnds, Stop
  <1>. QED BY <1>1, TaskInvariance, PTL DEF TaskSpec, TerminalStays

=============================================================================
