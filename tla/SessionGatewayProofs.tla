------------------------ MODULE SessionGatewayProofs ------------------------
(***************************************************************************)
(* Proofs about one session of the gateway, for any number of turns,       *)
(* streams, answers and buses and a ring of any size.  The invariant says  *)
(* what the ring of a bus holds, who subscribes to it and whose controller *)
(* it has; from it follow that a stream has no gap and no repeat, that a   *)
(* cancel reaches the turn that runs and that only a user allows a tool.   *)
(***************************************************************************)
EXTENDS SessionGateway, FiniteSetTheorems, TLAPS

-----------------------------------------------------------------------------
(* The invariant.                                                           *)

BusRecords == [closed : BOOLEAN, seq : Nat, ring : Seq(Events), start : Nat, active : BOOLEAN,
               subscribers : SUBSET Streams, turnAbort : Turns \cup {NoTurn}]
TurnRecords(n) == [pc : {"none", "parsing", "running", "asking", "ended", "done"}, bus : 0..n,
                   work : 0..MaxWork, aborted : BOOLEAN,
                   asked : {"no", "pending", "allow", "deny", "rejected"}]
StreamRecords(n) == [pc : {"none", "connecting", "open", "closed"}, bus : 0..n, queue : Seq(Events),
                     cursor : Nat, next : Nat, follow : BOOLEAN, connects : 0..MaxConnects]
AnswerRecords == [pc : {"none", "parsing", "200"}, turn : Turns \cup {NoTurn}, approved : BOOLEAN]

\* The ring of a bus holds its last events, as many as it can, in order; a
\* turn starts with the next event at the latest.
Exact(b) ==
    /\ Len(b.ring) = MinOf(b.seq, MaxRing)
    /\ \A k \in 1..Len(b.ring) : b.ring[k].seq = b.seq - Len(b.ring) + k
    /\ b.start <= b.seq + 1

\* A bus is new until it is handed out, only the one in the map is open, and
\* a closed one has no subscribers.
BusPart ==
    /\ bus \in [1..MaxBuses -> BusRecords]
    /\ made \in 0..MaxBuses
    /\ current \in 0..made
    /\ \A i \in 1..MaxBuses : Exact(bus[i])
    /\ \A i \in 1..MaxBuses : i > made => bus[i] = NewBus
    /\ \A i \in 1..MaxBuses : bus[i].closed => bus[i].subscribers = {}
    /\ OneOpenBus

\* A turn at work has its bus, a request is pending while its turn waits, and
\* the controller on a bus belongs to a turn at work on it.
Working == {"running", "asking", "ended"}
TurnPart ==
    /\ turn \in [Turns -> TurnRecords(made)]
    /\ \A t \in Turns : turn[t].pc \in Working => turn[t].bus # 0
    /\ \A t \in Turns : turn[t].asked = "pending" => turn[t].pc = "asking"
    /\ \A i \in 1..MaxBuses : \A t \in Turns :
          bus[i].turnAbort = t => turn[t].pc \in Working /\ turn[t].bus = i

\* The subscribers of a bus are the open streams on it, none of which has
\* left out or repeated an event.
StreamPart ==
    /\ stream \in [Streams -> StreamRecords(made)]
    /\ \A s \in Streams : stream[s].pc \in {"connecting", "open"} => stream[s].bus # 0
    /\ \A i \in 1..MaxBuses : \A s \in bus[i].subscribers : stream[s].pc = "open" /\ stream[s].bus = i
    /\ \A s \in Streams :
          stream[s].pc = "open" /\ ~bus[stream[s].bus].closed => s \in bus[stream[s].bus].subscribers
    /\ NoGapNoRepeat

\* No context in the map is being closed; what is allowed, a user allowed.
RestPart ==
    /\ answer \in [Answers -> AnswerRecords]
    /\ context \in Nat
    /\ idle \in BOOLEAN
    /\ mishaps \in 0..MaxMishaps
    /\ disposal \in [Disposers -> [phase : {"idle", "disposing", "done"}, context : Nat]]
    /\ NeverHalfClosed
    /\ \A a \in Answers : answer[a].pc = "parsing" => answer[a].turn \in Turns
    /\ AllowedByUser

Inv == BusPart /\ TurnPart /\ StreamPart /\ RestPart

-----------------------------------------------------------------------------
(* The ring.                                                                *)

\* The bounds of the model and the size of the ring.
LEMMA Bounds ==
    /\ MaxBuses \in Nat /\ MaxWork \in Nat /\ MaxConnects \in Nat /\ MaxMishaps \in Nat
    /\ MaxRing \in Nat /\ MaxRing >= 1
  BY BoundsAssumption, MaxRingAssumption

\* A new bus and a closed one have nothing in their rings.
LEMMA NewBusOK ==
    /\ NewBus \in BusRecords /\ Exact(NewBus) /\ ~NewBus.closed
    /\ NewBus.subscribers = {} /\ NewBus.turnAbort = NoTurn
    /\ ClosedBus \in BusRecords /\ Exact(ClosedBus) /\ ClosedBus.closed
    /\ ClosedBus.subscribers = {} /\ ClosedBus.turnAbort = NoTurn
  <1>1. <<>> \in Seq(Events) /\ Len(<<>>) = 0 OBVIOUS
  <1>2. NewBus \in BusRecords BY <1>1 DEF NewBus, BusRecords
  <1>3. ClosedBus \in BusRecords BY <1>1 DEF ClosedBus, NewBus, BusRecords
  <1>4. Exact(NewBus) BY <1>1, Bounds DEF NewBus, Exact, MinOf
  <1>5. Exact(ClosedBus) BY <1>1, Bounds DEF ClosedBus, NewBus, Exact, MinOf
  <1>. QED BY <1>2, <1>3, <1>4, <1>5 DEF ClosedBus, NewBus

\* The ring drops its oldest event when it is full.
LEMMA RetainedOK ==
    ASSUME NEW ring \in Seq(Events), NEW ev \in Events, NEW n \in Nat, Len(ring) = MinOf(n, MaxRing),
           \A k \in 1..Len(ring) : ring[k].seq = n - Len(ring) + k, ev.seq = n + 1
    PROVE  /\ Retained(ring, ev) \in Seq(Events)
           /\ Len(Retained(ring, ev)) = MinOf(n + 1, MaxRing)
           /\ \A k \in 1..Len(Retained(ring, ev)) :
                 Retained(ring, ev)[k].seq = n + 1 - Len(Retained(ring, ev)) + k
  <1>. DEFINE a == Append(ring, ev)
              m == Len(ring)
  <1>1. m \in Nat /\ m <= n /\ m <= MaxRing /\ (m = n \/ m = MaxRing) BY Bounds DEF MinOf
  <1>2. /\ a \in Seq(Events) /\ Len(a) = m + 1 /\ \A k \in 1..m : a[k] = ring[k]
        /\ a[m + 1] = ev
    OBVIOUS
  <1>3. \A k \in 1..(m + 1) : a[k].seq = n - m + k
    <2>. SUFFICES ASSUME NEW k \in 1..(m + 1) PROVE a[k].seq = n - m + k OBVIOUS
    <2>1. CASE k = m + 1 BY <1>1, <1>2, <2>1
    <2>2. CASE k # m + 1
      <3>1. k \in 1..m BY <1>1, <2>2
      <3>. QED BY <1>2, <3>1
    <2>. QED BY <2>1, <2>2
  <1>. HIDE DEF a, m
  <1>4. CASE m + 1 > MaxRing
    <2>1. Retained(ring, ev) = Tail(a) BY <1>4 DEF Retained, a, m
    <2>2. Tail(a) \in Seq(Events) /\ Len(Tail(a)) = m /\ \A k \in 1..m : Tail(a)[k] = a[k + 1]
      BY <1>1, <1>2
    <2>3. \A k \in 1..m : k + 1 \in 1..(m + 1) BY <1>1
    <2>4. MinOf(n + 1, MaxRing) = m BY <1>1, <1>4, Bounds DEF MinOf
    <2>5. \A k \in 1..m : Tail(a)[k].seq = n + 1 - m + k
      <3>. SUFFICES ASSUME NEW k \in 1..m PROVE Tail(a)[k].seq = n + 1 - m + k OBVIOUS
      <3>1. a[k + 1].seq = n - m + (k + 1) BY <1>3, <2>3
      <3>. QED BY <1>1, <2>2, <3>1
    <2>. HIDE DEF m
    <2>. QED BY <2>1, <2>2, <2>4, <2>5
  <1>5. CASE ~(m + 1 > MaxRing)
    <2>1. Retained(ring, ev) = a BY <1>5 DEF Retained, a, m
    <2>2. MinOf(n + 1, MaxRing) = m + 1 BY <1>1, <1>5, Bounds DEF MinOf
    <2>3. \A k \in 1..(m + 1) : a[k].seq = n + 1 - (m + 1) + k
      <3>. SUFFICES ASSUME NEW k \in 1..(m + 1) PROVE a[k].seq = n + 1 - (m + 1) + k OBVIOUS
      <3>1. a[k].seq = n - m + k BY <1>3
      <3>. QED BY <1>1, <3>1
    <2>. QED BY <1>2, <2>1, <2>2, <2>3
  <1>. QED BY <1>4, <1>5

Kinds == {"work", "ask", "end"}

\* publish keeps the ring exact and numbers the event.
LEMMA PublishedOK ==
    ASSUME NEW b \in BusRecords, Exact(b), NEW kind \in Kinds
    PROVE  /\ Published(b, kind) \in BusRecords /\ Exact(Published(b, kind))
           /\ Published(b, kind).closed = b.closed /\ Published(b, kind).subscribers = b.subscribers
           /\ Published(b, kind).turnAbort = b.turnAbort
           /\ ~b.closed => Published(b, kind).seq = b.seq + 1
  <1>1. CASE b.closed BY <1>1 DEF Published
  <1>2. CASE ~b.closed
    <2>. DEFINE ev == [seq |-> b.seq + 1, kind |-> kind]
                r == Retained(b.ring, ev)
                on == b.active /\ kind # "end"
                n == [b EXCEPT !.seq = b.seq + 1, !.ring = r, !.active = on]
    <2>1. b.seq \in Nat /\ b.ring \in Seq(Events) /\ b.start \in Nat BY DEF BusRecords
    <2>2. ev \in Events /\ ev.seq = b.seq + 1 BY <2>1 DEF Events, Kinds
    <2>3. /\ r \in Seq(Events) /\ Len(r) = MinOf(b.seq + 1, MaxRing)
          /\ \A k \in 1..Len(r) : r[k].seq = b.seq + 1 - Len(r) + k
      BY <2>1, <2>2, RetainedOK DEF Exact
    <2>4. Published(b, kind) = n BY <1>2 DEF Published
    <2>. HIDE DEF r
    <2>. on \in BOOLEAN BY DEF BusRecords
    <2>. HIDE DEF on
    <2>5. /\ n \in BusRecords /\ n.seq = b.seq + 1 /\ n.ring = r /\ n.start = b.start
          /\ n.closed = b.closed /\ n.subscribers = b.subscribers /\ n.turnAbort = b.turnAbort
      <3>1. b.seq + 1 \in Nat /\ r \in Seq(Events) BY <2>1, <2>3
      <3>2. n \in BusRecords BY <3>1 DEF BusRecords
      <3>3. n.seq = b.seq + 1 /\ n.ring = r BY DEF BusRecords
      <3>4. /\ n.start = b.start /\ n.closed = b.closed /\ n.subscribers = b.subscribers
            /\ n.turnAbort = b.turnAbort
        BY DEF BusRecords
      <3>. QED BY <3>2, <3>3, <3>4
    <2>. HIDE DEF n
    <2>6. Exact(n) BY <2>1, <2>3, <2>5 DEF Exact
    <2>. QED BY <2>4, <2>5, <2>6
  <1>. QED BY <1>1, <1>2

\* The filter of a ring whose places from f on are wanted is its suffix.
LEMMA FilteredSuffix ==
    ASSUME NEW ring \in Seq(Events), NEW n \in Nat, n = Len(ring), NEW f \in 1..(n + 1)
    PROVE  /\ Filtered(ring, f..n) \in Seq(Events) /\ Len(Filtered(ring, f..n)) = n - f + 1
           /\ \A k \in 1..(n - f + 1) : Filtered(ring, f..n)[k] = ring[f + k - 1]
  <1>. DEFINE W == f..n
  <1>1. f \in Nat /\ f >= 1 /\ f <= n + 1 OBVIOUS
  <1>2. \A a, b \in Int : b >= a - 1 => Cardinality(a..b) = b - a + 1
    <2>. SUFFICES ASSUME NEW a \in Int, NEW b \in Int, b >= a - 1 PROVE Cardinality(a..b) = b - a + 1 OBVIOUS
    <2>1. Cardinality(a..b) = IF a > b THEN 0 ELSE b - a + 1 BY FS_Interval
    <2>. QED BY <2>1
  <1>3. Cardinality(W) = n - f + 1 BY <1>1, <1>2
  <1>4. ASSUME NEW k \in 1..(n - f + 1) PROVE Place(W, k) = f + k - 1
    <2>1. \A i \in W : Cardinality({h \in W : h <= i}) = i - f + 1
      <3>. SUFFICES ASSUME NEW i \in W PROVE Cardinality({h \in W : h <= i}) = i - f + 1 OBVIOUS
      <3>1. {h \in W : h <= i} = f..i BY <1>1
      <3>2. i \in Int /\ f \in Int /\ i >= f - 1 BY <1>1
      <3>. QED BY <1>2, <3>1, <3>2
    <2>2. f + k - 1 \in W /\ (f + k - 1) - f + 1 = k BY <1>1
    <2>3. \A i \in W : i - f + 1 = k => i = f + k - 1 BY <1>1
    <2>. HIDE DEF W
    <2>4. \E i \in W : Cardinality({h \in W : h <= i}) = k BY <2>1, <2>2
    <2>5. Place(W, k) \in W /\ Cardinality({h \in W : h <= Place(W, k)}) = k BY <2>4 DEF Place
    <2>. QED BY <2>1, <2>3, <2>5
  <1>. HIDE DEF W
  <1>5. Filtered(ring, W) = [k \in 1..(n - f + 1) |-> ring[Place(W, k)]] BY <1>3 DEF Filtered
  <1>6. \A k \in 1..(n - f + 1) : Filtered(ring, W)[k] = ring[f + k - 1] BY <1>4, <1>5
  <1>7. \A k \in 1..(n - f + 1) : ring[f + k - 1] \in Events
    <2>. SUFFICES ASSUME NEW k \in 1..(n - f + 1) PROVE ring[f + k - 1] \in Events OBVIOUS
    <2>1. f + k - 1 \in 1..n BY <1>1
    <2>. QED BY <2>1
  <1>8. n - f + 1 \in Nat BY <1>1
  <1>9. Filtered(ring, W) \in Seq(Events) /\ Len(Filtered(ring, W)) = n - f + 1
    BY <1>5, <1>6, <1>7, <1>8
  <1>. QED BY <1>6, <1>9 DEF W

\* What subscribe replays begins with the event the client is owed and ends
\* with the last one, with none left out and none twice.
LEMMA ReplayOK ==
    ASSUME NEW s \in Streams, NEW b \in BusRecords, Exact(b), stream[s].cursor \in Nat
    PROVE  /\ Replay(s, b) \in Seq(Events) /\ Owed(s, b) \in Nat
           /\ \A k \in 1..Len(Replay(s, b)) : Replay(s, b)[k].seq = Owed(s, b) + k - 1
           /\ Owed(s, b) + Len(Replay(s, b)) = b.seq + 1
  <1>. DEFINE n == Len(b.ring)
              c == stream[s].cursor
              lo == IF c > 0 THEN c + 1 ELSE b.start
              f == IF lo > b.seq THEN n + 1 ELSE MaxOf(1, lo - (b.seq - n))
              W == {i \in 1..n : IF c > 0 THEN b.ring[i].seq > c ELSE b.ring[i].seq >= b.start}
              q == Filtered(b.ring, f..n)
  <1>1. b.seq \in Nat /\ b.ring \in Seq(Events) /\ b.start \in Nat /\ c \in Nat BY DEF BusRecords
  <1>2. n \in Nat /\ n <= b.seq /\ n <= MaxRing /\ (n = b.seq \/ n = MaxRing)
    BY <1>1, Bounds DEF Exact, MinOf
  <1>3. lo \in Nat /\ b.start <= b.seq + 1 BY <1>1 DEF Exact
  <1>. HIDE DEF n, c
  <1>4. \A i \in 1..n : b.ring[i].seq = b.seq - n + i /\ b.ring[i] \in Events BY <1>1 DEF Exact, n
  <1>5. f \in 1..(n + 1) BY <1>1, <1>2, <1>3 DEF MaxOf
  <1>6. W = f..n
    <2>1. \A i \in 1..n : i \in W <=> b.seq - n + i >= lo
      <3>. SUFFICES ASSUME NEW i \in 1..n PROVE i \in W <=> b.seq - n + i >= lo OBVIOUS
      <3>1. b.ring[i].seq = b.seq - n + i /\ b.seq - n + i \in Int BY <1>1, <1>2, <1>4
      <3>2. CASE c > 0
        <4>1. i \in W <=> b.ring[i].seq > c BY <3>2
        <4>2. lo = c + 1 BY <3>2
        <4>. HIDE DEF W, lo
        <4>. QED BY <1>1, <3>1, <4>1, <4>2
      <3>3. CASE ~(c > 0)
        <4>1. i \in W <=> b.ring[i].seq >= b.start BY <3>3
        <4>2. lo = b.start BY <3>3
        <4>. HIDE DEF W, lo
        <4>. QED BY <1>1, <3>1, <4>1, <4>2
      <3>. QED BY <3>2, <3>3
    <2>2. \A i \in 1..n : b.seq - n + i >= lo <=> i >= f BY <1>1, <1>2, <1>3 DEF MaxOf
    <2>3. W \subseteq 1..n /\ f..n \subseteq 1..n BY <1>2, <1>5
    <2>4. \A i \in 1..n : i \in f..n <=> i >= f BY <1>2, <1>5
    <2>. HIDE DEF W, f, lo
    <2>. QED BY <2>1, <2>2, <2>3, <2>4
  <1>7. Replay(s, b) = q
    <2>1. Replay(s, b) = Filtered(b.ring, W) BY DEF Replay, n, c
    <2>. HIDE DEF W, f
    <2>. QED BY <1>6, <2>1
  <1>8. n - f + 1 \in Nat /\ \A k \in 1..(n - f + 1) : f + k - 1 \in 1..n BY <1>2, <1>5
  <1>9. q \in Seq(Events) /\ Len(q) = n - f + 1 /\ \A k \in 1..Len(q) : q[k].seq = b.seq - n + (f + k - 1)
    <2>. HIDE DEF f
    <2>1. /\ q \in Seq(Events) /\ Len(q) = n - f + 1
          /\ \A k \in 1..(n - f + 1) : q[k] = b.ring[f + k - 1]
      BY <1>1, <1>2, <1>5, FilteredSuffix DEF n
    <2>. HIDE DEF q
    <2>. QED BY <1>4, <1>8, <2>1
  <1>10. Owed(s, b) = b.seq - n + f
    <2>1. Owed(s, b) = MaxOf(IF c > 0 THEN MinOf(c, b.seq) + 1 ELSE MaxOf(b.start, 1), b.seq - MaxRing + 1)
      BY DEF Owed, c
    <2>2. /\ c > 0 => lo = c + 1
          /\ ~(c > 0) => lo = b.start
          /\ lo > b.seq => f = n + 1
          /\ ~(lo > b.seq) => f = MaxOf(1, lo - (b.seq - n))
      OBVIOUS
    <2>. HIDE DEF lo, f, W, q
    <2>3. CASE c > 0 /\ lo > b.seq
      <3>1. MinOf(c, b.seq) = b.seq /\ lo = c + 1 /\ f = n + 1 BY <1>1, <2>2, <2>3 DEF MinOf
      <3>2. Owed(s, b) = MaxOf(b.seq + 1, b.seq - MaxRing + 1) BY <2>1, <2>3, <3>1
      <3>. QED BY <1>1, <1>2, <3>1, <3>2, Bounds DEF MaxOf
    <2>4. CASE c > 0 /\ ~(lo > b.seq)
      <3>1. lo = c + 1 /\ f = MaxOf(1, lo - (b.seq - n)) BY <2>2, <2>4
      <3>2. MinOf(c, b.seq) = c BY <1>1, <2>4, <3>1 DEF MinOf
      <3>3. Owed(s, b) = MaxOf(lo, b.seq - MaxRing + 1) BY <2>1, <2>4, <3>1, <3>2
      <3>. QED BY <1>1, <1>2, <1>3, <2>4, <3>1, <3>3, Bounds DEF MaxOf
    <2>5. CASE ~(c > 0) /\ lo > b.seq
      <3>1. lo = b.start /\ f = n + 1 BY <2>2, <2>5
      <3>2. b.start = b.seq + 1 BY <1>1, <1>3, <2>5, <3>1
      <3>3. MaxOf(b.start, 1) = b.seq + 1 BY <1>1, <3>2 DEF MaxOf
      <3>4. Owed(s, b) = MaxOf(b.seq + 1, b.seq - MaxRing + 1) BY <2>1, <2>5, <3>3
      <3>. QED BY <1>1, <1>2, <3>1, <3>4, Bounds DEF MaxOf
    <2>6. CASE ~(c > 0) /\ ~(lo > b.seq)
      <3>1. lo = b.start /\ f = MaxOf(1, lo - (b.seq - n)) BY <2>2, <2>6
      <3>2. Owed(s, b) = MaxOf(MaxOf(lo, 1), b.seq - MaxRing + 1) BY <2>1, <2>6, <3>1
      <3>3. CASE n = b.seq
        <4>1. f = MaxOf(1, lo) /\ MaxOf(lo, 1) = MaxOf(1, lo) /\ MaxOf(1, lo) \in Nat /\ MaxOf(1, lo) >= 1
          BY <1>1, <1>3, <3>1, <3>3 DEF MaxOf
        <4>2. b.seq - MaxRing + 1 \in Int /\ b.seq - MaxRing + 1 <= 1 BY <1>1, <1>2, <3>3, Bounds
        <4>3. Owed(s, b) = f BY <3>2, <4>1, <4>2 DEF MaxOf
        <4>. QED BY <1>1, <3>3, <4>1, <4>3
      <3>4. CASE n = MaxRing
        <4>1. b.seq - MaxRing + 1 \in Nat /\ b.seq - MaxRing + 1 >= 1 BY <1>1, <1>2, <3>4, Bounds
        <4>2. Owed(s, b) = MaxOf(lo, b.seq - MaxRing + 1) BY <1>3, <3>2, <4>1 DEF MaxOf
        <4>3. f = MaxOf(1, lo - (b.seq - MaxRing)) BY <3>1, <3>4
        <4>. QED BY <1>1, <1>3, <3>4, <4>1, <4>2, <4>3, Bounds DEF MaxOf
      <3>. QED BY <1>2, <3>3, <3>4
    <2>. QED BY <2>3, <2>4, <2>5, <2>6
  <1>. HIDE DEF q, f, lo, W
  <1>11. Owed(s, b) \in Nat /\ Owed(s, b) + Len(q) = b.seq + 1
    <2>1. f \in Nat /\ f >= 1 BY <1>2, <1>5
    <2>2. b.seq - n + f \in Nat /\ b.seq - n + f + (n - f + 1) = b.seq + 1 BY <1>1, <1>2, <2>1
    <2>3. Len(q) = n - f + 1 BY <1>9
    <2>. QED BY <1>10, <2>2, <2>3
  <1>12. \A k \in 1..Len(q) : q[k].seq = Owed(s, b) + k - 1
    <2>. SUFFICES ASSUME NEW k \in 1..Len(q) PROVE q[k].seq = Owed(s, b) + k - 1 OBVIOUS
    <2>1. q[k].seq = b.seq - n + (f + k - 1) /\ k \in Int BY <1>8, <1>9
    <2>. QED BY <1>1, <1>2, <1>5, <1>10, <2>1
  <1>. QED BY <1>7, <1>9, <1>11, <1>12

-----------------------------------------------------------------------------
(* What leaves a part of the invariant alone.                               *)

\* Only the buses matter to the first part.
LEMMA BusFrame == ASSUME BusPart, UNCHANGED <<bus, made, current>> PROVE BusPart'
  BY DEF BusPart, OneOpenBus

\* One bus that was handed out is replaced.
LEMMA BusStep ==
    ASSUME BusPart, UNCHANGED <<made, current>>, NEW i \in 1..made, NEW b \in BusRecords, Exact(b),
           bus' = [bus EXCEPT ![i] = b], bus[i].closed => b.closed, b.closed => b.subscribers = {}
    PROVE  BusPart'
  <1>1. made \in Nat /\ MaxBuses \in Nat /\ made <= MaxBuses BY Bounds DEF BusPart
  <1>2. i \in 1..MaxBuses BY <1>1
  <1>3. bus' \in [1..MaxBuses -> BusRecords] BY <1>2 DEF BusPart
  <1>4. \A k \in 1..MaxBuses : bus'[k] = IF k = i THEN b ELSE bus[k] BY DEF BusPart
  <1>5. \A k \in 1..MaxBuses : Exact(bus'[k]) BY <1>4 DEF BusPart
  <1>6. \A k \in 1..MaxBuses : k > made => bus'[k] = NewBus BY <1>1, <1>4 DEF BusPart
  <1>7. OneOpenBus'
    <2>. SUFFICES ASSUME NEW k \in 1..made PROVE bus'[k].closed \/ k = current BY DEF OneOpenBus
    <2>1. k \in 1..MaxBuses BY <1>1
    <2>. QED BY <1>4, <2>1 DEF BusPart, OneOpenBus
  <1>8. \A k \in 1..MaxBuses : bus'[k].closed => bus'[k].subscribers = {} BY <1>4 DEF BusPart
  <1>. QED BY <1>3, <1>5, <1>6, <1>7, <1>8 DEF BusPart

\* A controller stays with its turn, or is removed.
LEMMA TurnFrame ==
    ASSUME TurnPart, turn' = turn, made \in Nat, made' \in Nat, made <= made',
           \A i \in 1..MaxBuses : bus'[i].turnAbort \in {bus[i].turnAbort, NoTurn}
    PROVE  TurnPart'
  <1>1. \A t \in Turns : turn[t] \in TurnRecords(made') BY DEF TurnPart, TurnRecords
  <1>2. turn' \in [Turns -> TurnRecords(made')] BY <1>1 DEF TurnPart
  <1>3. \A i \in 1..MaxBuses : \A t \in Turns :
          bus'[i].turnAbort = t => turn[t].pc \in Working /\ turn[t].bus = i
    BY NoTurnAssumption DEF TurnPart
  <1>. QED BY <1>2, <1>3 DEF TurnPart

\* One turn goes on, on its bus.
LEMMA TurnStepOK ==
    ASSUME TurnPart, NEW t \in Turns, NEW x \in TurnRecords(made), turn' = [turn EXCEPT ![t] = x],
           made' = made, x.bus = turn[t].bus, turn[t].pc \in Working => x.pc \in Working,
           x.pc \in Working => x.bus # 0, x.asked = "pending" => x.pc = "asking",
           \A i \in 1..MaxBuses : bus'[i].turnAbort = bus[i].turnAbort
    PROVE  TurnPart'
  <1>1. turn' \in [Turns -> TurnRecords(made')] BY DEF TurnPart
  <1>2. \A u \in Turns : turn'[u] = IF u = t THEN x ELSE turn[u] BY DEF TurnPart
  <1>3. \A i \in 1..MaxBuses : \A u \in Turns :
          bus[i].turnAbort = u => turn'[u].pc \in Working /\ turn'[u].bus = i
    BY <1>2 DEF TurnPart
  <1>. QED BY <1>1, <1>2, <1>3 DEF TurnPart

\* A stream depends on the number of the last event of its bus, on whether
\* the bus is closed and on its subscribers.
LEMMA StreamFrame ==
    ASSUME StreamPart, stream' = stream, made \in Nat, made' \in Nat, made <= made', made <= MaxBuses,
           \A i \in 1..MaxBuses : /\ bus'[i].closed = bus[i].closed /\ bus'[i].seq = bus[i].seq
                                  /\ bus'[i].subscribers = bus[i].subscribers
    PROVE  StreamPart'
  <1>1. \A s \in Streams : stream[s] \in StreamRecords(made') BY DEF StreamPart, StreamRecords
  <1>2. stream' \in [Streams -> StreamRecords(made')] BY <1>1 DEF StreamPart
  <1>3. \A s \in Streams : stream[s].pc = "open" => stream[s].bus \in 1..MaxBuses
    <2>. SUFFICES ASSUME NEW s \in Streams, stream[s].pc = "open" PROVE stream[s].bus \in 1..MaxBuses OBVIOUS
    <2>1. stream[s].bus \in 0..made /\ stream[s].bus # 0 BY DEF StreamPart, StreamRecords
    <2>. QED BY <2>1, Bounds
  <1>4. NoGapNoRepeat' BY <1>3 DEF StreamPart, NoGapNoRepeat
  <1>. QED BY <1>2, <1>3, <1>4 DEF StreamPart

\* A request is allowed by no other step than an answer.
LEMMA RestFrame ==
    ASSUME RestPart, UNCHANGED <<answer, context, disposal>>, idle' \in BOOLEAN, mishaps' \in 0..MaxMishaps,
           \A t \in Turns : turn'[t].asked = "allow" => turn[t].asked = "allow"
    PROVE  RestPart'
  <1>1. AllowedByUser' BY DEF RestPart, AllowedByUser
  <1>2. NeverHalfClosed' BY DEF RestPart, NeverHalfClosed, HalfClosed
  <1>. QED BY <1>1, <1>2 DEF RestPart

\* A mishap is counted within its bound.
LEMMA MishapOK == ASSUME RestPart, Mishap PROVE mishaps' \in 0..MaxMishaps
  <1>1. mishaps \in 0..MaxMishaps /\ MaxMishaps \in Nat BY Bounds DEF RestPart
  <1>. QED BY <1>1 DEF Mishap

\* The buses handed out are numbered.
LEMMA MadeOK == ASSUME BusPart PROVE made \in Nat /\ made <= MaxBuses /\ MaxBuses \in Nat /\ current \in Nat /\ current <= made
  BY Bounds DEF BusPart

\* A turn at work has a bus that was handed out.
LEMMA TurnBus ==
    ASSUME BusPart, TurnPart, NEW t \in Turns, turn[t].pc \in Working
    PROVE  turn[t].bus \in 1..made /\ turn[t].bus \in 1..MaxBuses
  <1>1. turn[t].bus \in 0..made /\ turn[t].bus # 0 BY DEF TurnPart, TurnRecords
  <1>. QED BY <1>1, MadeOK

\* So has a stream that is connected.
LEMMA StreamBus ==
    ASSUME BusPart, StreamPart, NEW s \in Streams, stream[s].pc \in {"connecting", "open"}
    PROVE  stream[s].bus \in 1..made /\ stream[s].bus \in 1..MaxBuses
  <1>1. stream[s].bus \in 0..made /\ stream[s].bus # 0 BY DEF StreamPart, StreamRecords
  <1>. QED BY <1>1, MadeOK

-----------------------------------------------------------------------------
(* Turns and approvals.                                                     *)

\* A step that touches nothing but one turn, which goes on on its bus.
LEMMA OneTurnInv ==
    ASSUME Inv, NEW t \in Turns, NEW x \in TurnRecords(made), turn' = [turn EXCEPT ![t] = x],
           x.bus = turn[t].bus, turn[t].pc \in Working => x.pc \in Working,
           x.pc \in Working => x.bus # 0, x.asked = "pending" => x.pc = "asking",
           UNCHANGED <<bus, made, current, stream>>
    PROVE  BusPart' /\ TurnPart' /\ StreamPart'
  <1>1. BusPart' BY BusFrame DEF Inv
  <1>2. TurnPart' BY TurnStepOK DEF Inv
  <1>3. StreamPart' BY MadeOK, StreamFrame DEF Inv
  <1>. QED BY <1>1, <1>2, <1>3

\* A turn is posted: its body is awaited.
LEMMA PostTurnInv == ASSUME Inv, NEW t \in Turns, PostTurn(t) PROVE Inv'
  <1>. DEFINE x == [turn[t] EXCEPT !.pc = "parsing"]
  <1>1. /\ turn[t].pc = "none" /\ turn' = [turn EXCEPT ![t] = x]
        /\ UNCHANGED <<bus, made, current, stream, answer, idle, context, disposal, mishaps>>
    BY DEF PostTurn
  <1>2. turn[t] \in TurnRecords(made) BY DEF Inv, TurnPart
  <1>3. /\ x \in TurnRecords(made) /\ x.pc = "parsing" /\ x.bus = turn[t].bus
        /\ x.asked = turn[t].asked
    BY <1>2 DEF TurnRecords
  <1>. HIDE DEF x
  <1>4. turn[t].asked # "pending" BY <1>1 DEF Inv, TurnPart
  <1>5. BusPart' /\ TurnPart' /\ StreamPart' BY <1>1, <1>3, <1>4, OneTurnInv DEF Working
  <1>6. \A u \in Turns : turn'[u].asked = turn[u].asked BY <1>1, <1>3 DEF Inv, TurnPart
  <1>7. RestPart' BY <1>1, <1>6, RestFrame DEF Inv, RestPart
  <1>. QED BY <1>5, <1>7 DEF Inv

\* A cancel fires the controller of a turn at work.
LEMMA CancelTurnInv == ASSUME Inv, CancelTurn PROVE Inv'
  <1>. DEFINE t == bus[current].turnAbort
              x == [turn[t] EXCEPT !.aborted = TRUE]
  <1>1. current \in 1..MaxBuses BY MadeOK DEF CancelTurn, Inv
  <1>2. t \in Turns BY <1>1 DEF CancelTurn, Inv, BusPart, BusRecords
  <1>3. /\ Mishap /\ turn' = [turn EXCEPT ![t] = x]
        /\ UNCHANGED <<bus, made, current, stream, answer, idle, context, disposal>>
    BY DEF CancelTurn
  <1>. HIDE DEF t
  <1>4. turn[t] \in TurnRecords(made) BY <1>2 DEF Inv, TurnPart
  <1>5. /\ x \in TurnRecords(made) /\ x.pc = turn[t].pc /\ x.bus = turn[t].bus
        /\ x.asked = turn[t].asked
    BY <1>4 DEF TurnRecords
  <1>. HIDE DEF x
  <1>6. /\ turn[t].pc \in Working => turn[t].bus # 0
        /\ turn[t].asked = "pending" => turn[t].pc = "asking"
    BY <1>2 DEF Inv, TurnPart
  <1>7. BusPart' /\ TurnPart' /\ StreamPart' BY <1>2, <1>3, <1>5, <1>6, OneTurnInv
  <1>8. \A u \in Turns : turn'[u].asked = turn[u].asked BY <1>2, <1>3, <1>5 DEF Inv, TurnPart
  <1>9. RestPart' BY <1>3, <1>8, MishapOK, RestFrame DEF Inv, RestPart
  <1>. QED BY <1>7, <1>9 DEF Inv

\* A pending request is settled, and its turn goes on.
LEMMA SettledOK ==
    ASSUME Inv, NEW t \in Turns, NEW how \in {"allow", "deny", "rejected"}
    PROVE  LET x == Settled(turn[t], how)
           IN /\ x \in TurnRecords(made) /\ x.bus = turn[t].bus
              /\ turn[t].pc \in Working => x.pc \in Working
              /\ x.pc \in Working => x.bus # 0
              /\ x.asked # "pending"
              /\ x.asked \in {turn[t].asked, how}
  <1>1. /\ turn[t] \in TurnRecords(made) /\ (turn[t].pc \in Working => turn[t].bus # 0)
        /\ (turn[t].asked = "pending" => turn[t].pc = "asking")
    BY DEF Inv, TurnPart
  <1>2. CASE turn[t].asked = "pending"
    <2>. DEFINE x == [turn[t] EXCEPT !.asked = how, !.pc = "running"]
    <2>1. Settled(turn[t], how) = x BY <1>2 DEF Settled
    <2>2. x \in TurnRecords(made) BY <1>1 DEF TurnRecords
    <2>3. x.bus = turn[t].bus /\ x.pc = "running" /\ x.asked = how BY <1>1 DEF TurnRecords
    <2>. HIDE DEF x
    <2>. QED BY <1>1, <1>2, <2>1, <2>2, <2>3 DEF Working
  <1>3. CASE turn[t].asked # "pending" BY <1>1, <1>3 DEF Settled
  <1>. QED BY <1>2, <1>3

\* The time-out denies.
LEMMA ApprovalTimeoutInv == ASSUME Inv, NEW t \in Turns, ApprovalTimeout(t) PROVE Inv'
  <1>. DEFINE x == Settled(turn[t], "deny")
  <1>1. /\ turn' = [turn EXCEPT ![t] = x]
        /\ UNCHANGED <<bus, made, current, stream, answer, idle, context, disposal, mishaps>>
    BY DEF ApprovalTimeout
  <1>2. /\ x \in TurnRecords(made) /\ x.bus = turn[t].bus
        /\ turn[t].pc \in Working => x.pc \in Working
        /\ x.pc \in Working => x.bus # 0
        /\ x.asked # "pending"
        /\ x.asked \in {turn[t].asked, "deny"}
    BY SettledOK
  <1>. HIDE DEF x
  <1>3. BusPart' /\ TurnPart' /\ StreamPart' BY <1>1, <1>2, OneTurnInv
  <1>4. \A u \in Turns : turn'[u].asked = "allow" => turn[u].asked = "allow" BY <1>1, <1>2 DEF Inv, TurnPart
  <1>5. RestPart' BY <1>1, <1>4, RestFrame DEF Inv, RestPart
  <1>. QED BY <1>3, <1>5 DEF Inv

\* Nothing but the answers changes.
LEMMA PostAnswerInv == ASSUME Inv, NEW a \in Answers, NEW t \in Turns, PostAnswer(a, t) PROVE Inv'
  <1>1. /\ answer[a].pc = "none"
        /\ UNCHANGED <<bus, made, current, turn, stream, idle, context, disposal, mishaps>>
    BY DEF PostAnswer
  <1>2. PICK yes \in BOOLEAN : answer' = [answer EXCEPT ![a] = [pc |-> "parsing", turn |-> t, approved |-> yes]]
    BY DEF PostAnswer
  <1>3. BusPart' BY <1>1, BusFrame DEF Inv
  <1>4. TurnPart' BY <1>1, MadeOK, TurnFrame DEF Inv
  <1>5. StreamPart' BY <1>1, MadeOK, StreamFrame DEF Inv
  <1>6. [pc |-> "parsing", turn |-> t, approved |-> yes] \in AnswerRecords BY DEF AnswerRecords
  <1>7. answer' \in [Answers -> AnswerRecords] BY <1>2, <1>6 DEF Inv, RestPart
  <1>8. \A c \in Answers : answer'[c].pc = "parsing" => answer'[c].turn \in Turns BY <1>2 DEF Inv, RestPart
  <1>9. AllowedByUser'
    <2>. SUFFICES ASSUME NEW u \in Turns, turn[u].asked = "allow"
                  PROVE  \E c \in Answers : answer'[c] = [pc |-> "200", turn |-> u, approved |-> TRUE]
      BY <1>1 DEF AllowedByUser
    <2>1. PICK c \in Answers : answer[c] = [pc |-> "200", turn |-> u, approved |-> TRUE]
      BY DEF Inv, RestPart, AllowedByUser
    <2>2. c # a BY <1>1, <2>1
    <2>3. answer'[c] = answer[c] BY <1>2, <2>2 DEF Inv, RestPart
    <2>. QED BY <2>1, <2>3
  <1>10. NeverHalfClosed' BY <1>1 DEF Inv, RestPart, NeverHalfClosed, HalfClosed
  <1>11. RestPart' BY <1>1, <1>7, <1>8, <1>9, <1>10 DEF Inv, RestPart
  <1>. QED BY <1>3, <1>4, <1>5, <1>11 DEF Inv

\* An answer settles the request it is about, if that is still pending, and
\* is kept if it approves.
LEMMA ResolveInv == ASSUME Inv, NEW a \in Answers, Resolve(a) PROVE Inv'
  <1>. DEFINE t == answer[a].turn
              how == IF answer[a].approved THEN "allow" ELSE "deny"
              x == Settled(turn[t], how)
              y == IF answer[a].approved THEN [answer[a] EXCEPT !.pc = "200"] ELSE NoAnswer
  <1>1. /\ answer[a].pc = "parsing" /\ turn' = [turn EXCEPT ![t] = x] /\ answer' = [answer EXCEPT ![a] = y]
        /\ UNCHANGED <<bus, made, current, stream, idle, context, disposal, mishaps>>
    BY DEF Resolve
  <1>2. t \in Turns /\ answer[a] \in AnswerRecords BY <1>1 DEF Inv, RestPart
  <1>3. how \in {"allow", "deny", "rejected"} OBVIOUS
  <1>4. /\ x \in TurnRecords(made) /\ x.bus = turn[t].bus
        /\ turn[t].pc \in Working => x.pc \in Working
        /\ x.pc \in Working => x.bus # 0
        /\ x.asked # "pending"
        /\ x.asked \in {turn[t].asked, how}
    <2>. HIDE DEF how, t
    <2>. QED BY <1>2, <1>3, SettledOK
  <1>5. y \in AnswerRecords /\ y.pc # "parsing" BY <1>2 DEF AnswerRecords, NoAnswer
  <1>6. answer[a].approved => y = [pc |-> "200", turn |-> t, approved |-> TRUE] BY <1>2 DEF AnswerRecords
  <1>7. how = "allow" => answer[a].approved OBVIOUS
  <1>. HIDE DEF x, y, how, t
  <1>8. BusPart' /\ TurnPart' /\ StreamPart' BY <1>1, <1>2, <1>4, OneTurnInv
  <1>9. answer' \in [Answers -> AnswerRecords] BY <1>1, <1>5 DEF Inv, RestPart
  <1>10. \A c \in Answers : answer'[c].pc = "parsing" => answer'[c].turn \in Turns BY <1>1, <1>5 DEF Inv, RestPart
  <1>11. AllowedByUser'
    <2>. SUFFICES ASSUME NEW u \in Turns, turn'[u].asked = "allow"
                  PROVE  \E c \in Answers : answer'[c] = [pc |-> "200", turn |-> u, approved |-> TRUE]
      BY DEF AllowedByUser
    <2>1. CASE turn[u].asked = "allow"
      <3>1. PICK c \in Answers : answer[c] = [pc |-> "200", turn |-> u, approved |-> TRUE]
        BY <2>1 DEF Inv, RestPart, AllowedByUser
      <3>2. c # a BY <1>1, <3>1
      <3>3. answer'[c] = answer[c] BY <1>1, <3>2 DEF Inv, RestPart
      <3>. QED BY <3>1, <3>3
    <2>2. CASE turn[u].asked # "allow"
      <3>1. u = t /\ x.asked = "allow" BY <1>1, <1>2, <2>2 DEF Inv, TurnPart
      <3>2. how = "allow" BY <1>4, <2>2, <3>1
      <3>3. answer'[a] = y BY <1>1 DEF Inv, RestPart
      <3>. QED BY <1>6, <1>7, <3>1, <3>2, <3>3
    <2>. QED BY <2>1, <2>2
  <1>12. NeverHalfClosed' BY <1>1 DEF Inv, RestPart, NeverHalfClosed, HalfClosed
  <1>13. RestPart' BY <1>1, <1>9, <1>10, <1>11, <1>12 DEF Inv, RestPart
  <1>. QED BY <1>8, <1>13 DEF Inv

-----------------------------------------------------------------------------
(* Turns and the bus.                                                       *)

\* getOrCreateBus hands out the bus in the map or one that nobody has.
LEMMA GotBusOK ==
    ASSUME BusPart, GetOrCreateBus
    PROVE  /\ GotBus \in 1..MaxBuses /\ current' = GotBus /\ made' \in Nat /\ made' <= MaxBuses
           /\ made <= made' /\ GotBus <= made'
           /\ \A k \in 1..made' : k = GotBus \/ (k \in 1..made /\ bus[k].closed)
           /\ \A k \in 1..MaxBuses : k > made' => k > made /\ k # GotBus
  <1>1. /\ made \in Nat /\ made <= MaxBuses /\ MaxBuses \in Nat /\ current \in Nat /\ current <= made
    BY MadeOK
  <1>2. \A k \in 1..made : k # current => bus[k].closed BY DEF BusPart, OneOpenBus
  <1>3. CASE current # 0
    <2>1. GotBus = current /\ made' = made /\ current' = current BY <1>3 DEF GetOrCreateBus, GotBus
    <2>. QED BY <1>1, <1>2, <1>3, <2>1
  <1>4. CASE current = 0
    <2>1. GotBus = made + 1 /\ made' = made + 1 /\ current' = made + 1 /\ made < MaxBuses
      BY <1>4 DEF GetOrCreateBus, GotBus, CanGetBus
    <2>2. \A k \in 1..(made + 1) : k = made + 1 \/ (k \in 1..made /\ k # current) BY <1>1, <1>4
    <2>. QED BY <1>1, <1>2, <2>1, <2>2
  <1>. QED BY <1>3, <1>4

\* The bus that was handed out is replaced by one with an exact ring.
LEMMA GotBusStep ==
    ASSUME BusPart, GetOrCreateBus, NEW b \in BusRecords, Exact(b), bus' = [bus EXCEPT ![GotBus] = b],
           b.closed => b.subscribers = {}
    PROVE  BusPart'
  <1>1. /\ GotBus \in 1..MaxBuses /\ current' = GotBus /\ made' \in Nat /\ made' <= MaxBuses
        /\ made <= made' /\ GotBus <= made'
        /\ \A k \in 1..made' : k = GotBus \/ (k \in 1..made /\ bus[k].closed)
        /\ \A k \in 1..MaxBuses : k > made' => k > made /\ k # GotBus
    BY GotBusOK
  <1>2. made \in Nat /\ MaxBuses \in Nat BY MadeOK
  <1>3. bus' \in [1..MaxBuses -> BusRecords] BY <1>1 DEF BusPart
  <1>4. \A k \in 1..MaxBuses : bus'[k] = IF k = GotBus THEN b ELSE bus[k] BY DEF BusPart
  <1>5. \A k \in 1..MaxBuses : Exact(bus'[k]) BY <1>4 DEF BusPart
  <1>6. \A k \in 1..MaxBuses : k > made' => bus'[k] = NewBus BY <1>1, <1>4 DEF BusPart
  <1>7. OneOpenBus'
    <2>. SUFFICES ASSUME NEW k \in 1..made' PROVE bus'[k].closed \/ k = current' BY DEF OneOpenBus
    <2>1. k \in 1..MaxBuses BY <1>1, <1>2
    <2>2. CASE k = GotBus BY <1>1, <2>2
    <2>3. CASE k # GotBus BY <1>1, <1>4, <2>1, <2>3
    <2>. QED BY <2>2, <2>3
  <1>8. made' \in 0..MaxBuses /\ current' \in 0..made' BY <1>1, <1>2
  <1>9. \A k \in 1..MaxBuses : bus'[k].closed => bus'[k].subscribers = {} BY <1>4 DEF BusPart
  <1>. QED BY <1>3, <1>5, <1>6, <1>7, <1>8, <1>9 DEF BusPart

\* There is always a context that is not being closed.
LEMMA NewContextOK == ASSUME RestPart PROVE NewContext \in Nat /\ NewContext \notin HalfClosed
  <1>1. Cardinality(Disposers) = 3
    <2>1. Cardinality({"sweep"}) = 1 /\ IsFiniteSet({"sweep"}) BY FS_Singleton
    <2>2. Cardinality({"sweep"} \cup {"delete"}) = 2 /\ IsFiniteSet({"sweep"} \cup {"delete"})
      <3>1. "delete" \notin {"sweep"} OBVIOUS
      <3>. QED BY <2>1, <3>1, FS_AddElement
    <2>3. Cardinality(({"sweep"} \cup {"delete"}) \cup {"shutdown"}) = 3
      <3>1. "shutdown" \notin {"sweep"} \cup {"delete"} OBVIOUS
      <3>. QED BY <2>2, <3>1, FS_AddElement
    <2>4. Disposers = ({"sweep"} \cup {"delete"}) \cup {"shutdown"} BY DEF Disposers
    <2>. QED BY <2>3, <2>4
  <1>2. HalfClosed \subseteq {disposal["sweep"].context, disposal["delete"].context, disposal["shutdown"].context}
    BY DEF HalfClosed, Disposers
  <1>3. \E c \in {1, 2, 3, 4} : c \notin HalfClosed BY <1>2
  <1>4. 1..(Cardinality(Disposers) + 1) = {1, 2, 3, 4} BY <1>1
  <1>5. NewContext \in {1, 2, 3, 4} /\ NewContext \notin HalfClosed BY <1>3, <1>4 DEF NewContext
  <1>. QED BY <1>5

\* A turn begins: its boundary is marked and its controller registered.
LEMMA BeginTurnInv == ASSUME Inv, NEW t \in Turns, BeginTurn(t) PROVE Inv'
  <1>. DEFINE g == GotBus
              b == [MarkTurnStart(bus[g]) EXCEPT !.turnAbort = t]
              x == [turn[t] EXCEPT !.pc = "running", !.bus = g]
  <1>1. /\ turn[t].pc = "parsing" /\ GetOrCreateBus /\ idle' = FALSE /\ bus' = [bus EXCEPT ![g] = b]
        /\ context' = (IF context # 0 THEN context ELSE NewContext) /\ turn' = [turn EXCEPT ![t] = x]
        /\ UNCHANGED <<stream, answer, disposal, mishaps>>
    BY DEF BeginTurn, GetSessionContext
  <1>2. /\ g \in 1..MaxBuses /\ made' \in Nat /\ made' <= MaxBuses /\ made <= made' /\ g <= made'
    BY <1>1, GotBusOK DEF Inv
  <1>3. made \in Nat /\ made <= MaxBuses BY MadeOK DEF Inv
  <1>4. bus[g] \in BusRecords /\ Exact(bus[g]) /\ (bus[g].closed => bus[g].subscribers = {})
    BY <1>2 DEF Inv, BusPart
  <1>5. turn[t] \in TurnRecords(made) /\ turn[t].asked # "pending" BY <1>1 DEF Inv, TurnPart
  <1>. HIDE DEF g
  <1>6. /\ b \in BusRecords /\ b.seq = bus[g].seq /\ b.ring = bus[g].ring /\ b.start = bus[g].seq + 1
        /\ b.closed = bus[g].closed /\ b.subscribers = bus[g].subscribers /\ b.turnAbort = t
    <2>1. bus[g].seq + 1 \in Nat BY <1>4 DEF BusRecords
    <2>. QED BY <1>4, <2>1 DEF MarkTurnStart, BusRecords
  <1>7. /\ x \in TurnRecords(made') /\ x.pc = "running" /\ x.bus = g /\ x.asked = turn[t].asked
    <2>1. g \in 0..made' /\ g # 0 BY <1>2
    <2>. QED BY <1>5, <2>1 DEF TurnRecords
  <1>8. g # 0 BY <1>2
  <1>. HIDE DEF b, x
  <1>9. Exact(b)
    <2>1. bus[g].seq \in Nat BY <1>4 DEF BusRecords
    <2>. QED BY <1>4, <1>6, <2>1 DEF Exact
  <1>10. BusPart' BY <1>1, <1>4, <1>6, <1>9, GotBusStep DEF Inv, g
  <1>11. \A k \in 1..MaxBuses : bus'[k] = IF k = g THEN b ELSE bus[k] BY <1>1 DEF Inv, BusPart
  <1>12. TurnPart'
    <2>1. \A u \in Turns : turn[u] \in TurnRecords(made') BY <1>2, <1>3 DEF Inv, TurnPart, TurnRecords
    <2>2. turn' \in [Turns -> TurnRecords(made')] BY <1>1, <1>7, <2>1 DEF Inv, TurnPart
    <2>3. \A u \in Turns : turn'[u] = IF u = t THEN x ELSE turn[u] BY <1>1 DEF Inv, TurnPart
    <2>4. \A i \in 1..MaxBuses : bus[i].turnAbort # t BY <1>1 DEF Inv, TurnPart, Working
    <2>5. \A i \in 1..MaxBuses : \A u \in Turns :
            bus'[i].turnAbort = u => turn'[u].pc \in Working /\ turn'[u].bus = i
      BY <1>6, <1>7, <1>11, <2>3, <2>4 DEF Inv, TurnPart, Working
    <2>. QED BY <1>5, <1>7, <1>8, <2>2, <2>3, <2>5 DEF Inv, TurnPart
  <1>13. StreamPart'
    <2>1. \A k \in 1..MaxBuses : /\ bus'[k].closed = bus[k].closed /\ bus'[k].seq = bus[k].seq
                                 /\ bus'[k].subscribers = bus[k].subscribers
      BY <1>6, <1>11
    <2>. QED BY <1>1, <1>2, <1>3, <2>1, StreamFrame DEF Inv
  <1>14. RestPart'
    <2>1. \A u \in Turns : turn'[u].asked = turn[u].asked BY <1>1, <1>7 DEF Inv, TurnPart
    <2>2. AllowedByUser' BY <1>1, <2>1 DEF Inv, RestPart, AllowedByUser
    <2>3. context' \in Nat /\ context' \notin HalfClosed BY <1>1, NewContextOK DEF Inv, RestPart, NeverHalfClosed
    <2>4. NeverHalfClosed' BY <1>1, <2>3 DEF NeverHalfClosed, HalfClosed
    <2>. QED BY <1>1, <2>2, <2>3, <2>4 DEF Inv, RestPart
  <1>. QED BY <1>10, <1>12, <1>13, <1>14 DEF Inv

\* An event is published: it is the next one of every stream that watches.
LEMMA PublishOK ==
    ASSUME Inv, NEW i \in 1..made, NEW kind \in Kinds, Publish(i, kind), UNCHANGED <<made, current>>
    PROVE  /\ BusPart' /\ StreamPart' /\ idle' = FALSE
           /\ \A k \in 1..MaxBuses : bus'[k].turnAbort = bus[k].turnAbort
  <1>. DEFINE b == Published(bus[i], kind)
              ev == [seq |-> bus[i].seq + 1, kind |-> kind]
              more(s) == [stream[s] EXCEPT !.queue = Append(@, ev)]
  <1>1. bus' = [bus EXCEPT ![i] = b] /\ stream' = FannedOut(i, kind) /\ idle' = FALSE BY DEF Publish
  <1>2. i \in 1..MaxBuses BY MadeOK DEF Inv
  <1>3. bus[i] \in BusRecords /\ Exact(bus[i]) /\ (bus[i].closed => bus[i].subscribers = {})
    BY <1>2 DEF Inv, BusPart
  <1>4. /\ b \in BusRecords /\ Exact(b) /\ b.closed = bus[i].closed /\ b.subscribers = bus[i].subscribers
        /\ b.turnAbort = bus[i].turnAbort /\ (~bus[i].closed => b.seq = bus[i].seq + 1)
    BY <1>3, PublishedOK
  <1>. HIDE DEF b
  <1>5. BusPart' BY <1>1, <1>3, <1>4, BusStep DEF Inv
  <1>6. \A k \in 1..MaxBuses : bus'[k] = IF k = i THEN b ELSE bus[k] BY <1>1 DEF Inv, BusPart
  <1>7. bus[i].seq \in Nat /\ ev \in Events /\ ev.seq = bus[i].seq + 1 BY <1>3 DEF BusRecords, Events, Kinds
  <1>. HIDE DEF ev
  <1>8. ASSUME NEW s \in Streams
        PROVE  /\ more(s) \in StreamRecords(made) /\ more(s).pc = stream[s].pc /\ more(s).bus = stream[s].bus
               /\ more(s).next = stream[s].next /\ more(s).queue = Append(stream[s].queue, ev)
    <2>1. stream[s] \in StreamRecords(made) BY DEF Inv, StreamPart
    <2>2. Append(stream[s].queue, ev) \in Seq(Events) BY <1>7, <2>1 DEF StreamRecords
    <2>. QED BY <2>1, <2>2 DEF StreamRecords
  <1>. DEFINE fed(s) == s \in bus[i].subscribers
  <1>9. \A s \in Streams : stream'[s] = IF fed(s) THEN more(s) ELSE stream[s] BY <1>1 DEF FannedOut, ev
  <1>10. DOMAIN stream' = Streams /\ stream' = [s \in DOMAIN stream' |-> stream'[s]] BY <1>1 DEF FannedOut
  <1>. HIDE DEF more
  <1>11. StreamPart'
    <2>1. \A s \in Streams : stream'[s] \in StreamRecords(made) BY <1>8, <1>9 DEF Inv, StreamPart
    <2>2. stream' \in [Streams -> StreamRecords(made)] BY <1>10, <2>1
    <2>3. \A s \in Streams : stream'[s].pc = stream[s].pc /\ stream'[s].bus = stream[s].bus BY <1>8, <1>9
    <2>4. \A k \in 1..MaxBuses : bus'[k].subscribers = bus[k].subscribers /\ bus'[k].closed = bus[k].closed
      BY <1>4, <1>6
    <2>5. \A s \in Streams : stream[s].pc = "open" => stream[s].bus \in 1..MaxBuses BY StreamBus DEF Inv
    <2>6. \A k \in 1..MaxBuses : bus[k].subscribers \subseteq Streams BY DEF Inv, BusPart, BusRecords
    <2>7. NoGapNoRepeat'
      <3>. SUFFICES ASSUME NEW s \in Streams, stream'[s].pc = "open", ~bus'[stream'[s].bus].closed
                    PROVE  LET c == stream'[s]
                           IN /\ \A n \in 1..Len(c.queue) : c.queue[n].seq = c.next + n - 1
                              /\ c.next + Len(c.queue) = bus'[c.bus].seq + 1
        BY DEF NoGapNoRepeat
      <3>. DEFINE c == stream[s]
                  q == c.queue
      <3>1. c.pc = "open" /\ c.bus \in 1..MaxBuses /\ ~bus[c.bus].closed BY <2>3, <2>4, <2>5
      <3>2. /\ \A n \in 1..Len(q) : q[n].seq = c.next + n - 1
            /\ c.next + Len(q) = bus[c.bus].seq + 1
        BY <3>1 DEF Inv, StreamPart, NoGapNoRepeat
      <3>3. CASE fed(s)
        <4>1. c.bus = i BY <1>2, <3>3 DEF Inv, StreamPart
        <4>2. q \in Seq(Events) /\ c.next \in Nat BY DEF Inv, StreamPart, StreamRecords
        <4>3. stream'[s].next = c.next /\ stream'[s].queue = Append(q, ev) /\ stream'[s].bus = i
          BY <1>8, <1>9, <2>3, <3>3, <4>1
        <4>4. Len(Append(q, ev)) = Len(q) + 1 /\ Len(q) \in Nat BY <4>2
        <4>5. bus'[i].seq = bus[i].seq + 1 BY <1>2, <1>4, <1>6, <3>1, <4>1
        <4>6. ASSUME NEW n \in 1..(Len(q) + 1) PROVE Append(q, ev)[n].seq = c.next + n - 1
          <5>1. CASE n = Len(q) + 1
            <6>1. Append(q, ev)[n] = ev BY <4>2, <5>1
            <6>. QED BY <1>7, <3>2, <4>1, <4>2, <4>4, <5>1, <6>1
          <5>2. CASE n # Len(q) + 1
            <6>1. n \in 1..Len(q) BY <4>4, <5>2
            <6>2. Append(q, ev)[n] = q[n] BY <4>2, <6>1
            <6>. QED BY <3>2, <6>1, <6>2
          <5>. QED BY <5>1, <5>2
        <4>. HIDE DEF c, q
        <4>7. c.next + (Len(q) + 1) = bus'[i].seq + 1 BY <1>7, <3>2, <4>1, <4>2, <4>4, <4>5
        <4>. QED BY <4>3, <4>4, <4>6, <4>7
      <3>4. CASE ~fed(s)
        <4>1. c.bus # i BY <3>1, <3>4 DEF Inv, StreamPart
        <4>2. stream'[s] = c /\ bus'[c.bus] = bus[c.bus] BY <1>6, <1>9, <3>1, <3>4, <4>1
        <4>. HIDE DEF c
        <4>. QED BY <3>2, <4>2
      <3>. QED BY <3>3, <3>4
    <2>. HIDE DEF fed
    <2>8. \A s \in Streams : stream'[s].pc \in {"connecting", "open"} => stream'[s].bus # 0
      BY <2>3 DEF Inv, StreamPart
    <2>9. \A k \in 1..MaxBuses : \A s \in bus'[k].subscribers : stream'[s].pc = "open" /\ stream'[s].bus = k
      BY <2>3, <2>4, <2>6 DEF Inv, StreamPart
    <2>10. \A s \in Streams :
             stream'[s].pc = "open" /\ ~bus'[stream'[s].bus].closed => s \in bus'[stream'[s].bus].subscribers
      BY <2>3, <2>4, <2>5 DEF Inv, StreamPart
    <2>. QED BY <2>2, <2>7, <2>8, <2>9, <2>10 DEF StreamPart
  <1>. QED BY <1>1, <1>4, <1>5, <1>6, <1>11

\* A turn publishes an event, asks for a permission, or ends.
LEMMA EmitInv == ASSUME Inv, NEW t \in Turns, Emit(t) \/ Ask(t) \/ EndTurn(t) PROVE Inv'
  <1>1. turn[t].pc = "running" /\ UNCHANGED <<made, current, answer, context, disposal, mishaps>>
    BY DEF Emit, Ask, EndTurn
  <1>2. turn[t].bus \in 1..made /\ turn[t].bus # 0 /\ turn[t] \in TurnRecords(made)
    BY <1>1, TurnBus DEF Working, Inv, TurnPart
  <1>3. turn[t].asked # "pending" BY <1>1 DEF Inv, TurnPart
  <1>4. PICK kind \in Kinds : Publish(turn[t].bus, kind) BY DEF Emit, Ask, EndTurn, Kinds
  <1>5. /\ BusPart' /\ StreamPart' /\ idle' = FALSE
        /\ \A k \in 1..MaxBuses : bus'[k].turnAbort = bus[k].turnAbort
    BY <1>1, <1>2, <1>4, PublishOK
  <1>6. turn[t].work \in Nat /\ MaxWork \in Nat BY <1>2, Bounds DEF TurnRecords
  <1>7. turn[t].work < MaxWork => turn[t].work + 1 \in 0..MaxWork BY <1>6
  <1>8. PICK x \in TurnRecords(made) :
           /\ turn' = [turn EXCEPT ![t] = x] /\ x.bus = turn[t].bus /\ x.pc \in Working
           /\ x.asked = "pending" => x.pc = "asking"
           /\ x.asked = "allow" => turn[t].asked = "allow"
    <2>1. CASE Emit(t)
      <3>. DEFINE x == [turn[t] EXCEPT !.work = @ + 1]
      <3>1. turn' = [turn EXCEPT ![t] = x] BY <2>1 DEF Emit
      <3>2. x \in TurnRecords(made) /\ x.bus = turn[t].bus /\ x.pc = turn[t].pc /\ x.asked = turn[t].asked
        BY <1>2, <1>7, <2>1 DEF Emit, TurnRecords
      <3>. HIDE DEF x
      <3>. QED BY <1>1, <1>3, <3>1, <3>2 DEF Working
    <2>2. CASE Ask(t)
      <3>. DEFINE x == [turn[t] EXCEPT !.pc = "asking", !.asked = "pending", !.work = @ + 1]
      <3>1. turn' = [turn EXCEPT ![t] = x] BY <2>2 DEF Ask
      <3>2. x \in TurnRecords(made) /\ x.bus = turn[t].bus /\ x.pc = "asking" /\ x.asked = "pending"
        BY <1>2, <1>7, <2>2 DEF Ask, TurnRecords
      <3>. HIDE DEF x
      <3>. QED BY <3>1, <3>2 DEF Working
    <2>3. CASE EndTurn(t)
      <3>. DEFINE x == [turn[t] EXCEPT !.pc = "ended"]
      <3>1. turn' = [turn EXCEPT ![t] = x] BY <2>3 DEF EndTurn
      <3>2. x \in TurnRecords(made) /\ x.bus = turn[t].bus /\ x.pc = "ended" /\ x.asked = turn[t].asked
        BY <1>2 DEF TurnRecords
      <3>. HIDE DEF x
      <3>. QED BY <1>3, <3>1, <3>2 DEF Working
    <2>. QED BY <2>1, <2>2, <2>3
  <1>9. TurnPart' BY <1>1, <1>2, <1>5, <1>8, TurnStepOK DEF Inv
  <1>10. \A u \in Turns : turn'[u].asked = "allow" => turn[u].asked = "allow" BY <1>8 DEF Inv, TurnPart
  <1>11. RestPart' BY <1>1, <1>5, <1>10, RestFrame DEF Inv, RestPart
  <1>. QED BY <1>5, <1>9, <1>11 DEF Inv

\* A turn is over: it leaves no controller behind.
LEMMA FinishTurnInv == ASSUME Inv, NEW t \in Turns, FinishTurn(t) PROVE Inv'
  <1>. DEFINE i == turn[t].bus
              b == [bus[i] EXCEPT !.turnAbort = NoTurn]
              x == Over(turn[t])
  <1>1. /\ turn[t].pc = "ended" /\ turn' = [turn EXCEPT ![t] = x] /\ bus' = [bus EXCEPT ![i] = b]
        /\ UNCHANGED <<made, current, stream, answer, idle, context, disposal, mishaps>>
    BY DEF FinishTurn
  <1>2. i \in 1..made /\ i \in 1..MaxBuses BY <1>1, TurnBus DEF Working, Inv
  <1>3. turn[t] \in TurnRecords(made) /\ turn[t].asked # "pending" BY <1>1 DEF Inv, TurnPart
  <1>4. bus[i] \in BusRecords /\ Exact(bus[i]) /\ (bus[i].closed => bus[i].subscribers = {})
    BY <1>2 DEF Inv, BusPart
  <1>5. made \in Nat /\ made <= MaxBuses BY MadeOK DEF Inv
  <1>6. x \in TurnRecords(made) /\ x.pc = "done" /\ x.asked = turn[t].asked
    <2>1. 0 \in 0..made /\ 0 \in 0..MaxWork BY <1>5, Bounds
    <2>. QED BY <1>3, <2>1 DEF Over, TurnRecords
  <1>. HIDE DEF i
  <1>7. /\ b \in BusRecords /\ b.seq = bus[i].seq /\ b.ring = bus[i].ring /\ b.start = bus[i].start
        /\ b.closed = bus[i].closed /\ b.subscribers = bus[i].subscribers /\ b.turnAbort = NoTurn
    BY <1>4 DEF BusRecords
  <1>. HIDE DEF b, x
  <1>8. Exact(b) BY <1>4, <1>7 DEF Exact
  <1>9. BusPart' BY <1>1, <1>2, <1>4, <1>7, <1>8, BusStep DEF Inv
  <1>10. \A k \in 1..MaxBuses : bus'[k] = IF k = i THEN b ELSE bus[k] BY <1>1 DEF Inv, BusPart
  <1>11. TurnPart'
    <2>1. turn' \in [Turns -> TurnRecords(made)] BY <1>1, <1>6 DEF Inv, TurnPart
    <2>2. \A u \in Turns : turn'[u] = IF u = t THEN x ELSE turn[u] BY <1>1 DEF Inv, TurnPart
    <2>3. \A k \in 1..MaxBuses : bus[k].turnAbort = t => k = i BY DEF Inv, TurnPart, i
    <2>4. \A k \in 1..MaxBuses : \A u \in Turns :
            bus'[k].turnAbort = u => turn'[u].pc \in Working /\ turn'[u].bus = k
      BY <1>7, <1>10, <2>2, <2>3, NoTurnAssumption DEF Inv, TurnPart
    <2>. QED BY <1>1, <1>3, <1>6, <2>1, <2>2, <2>4 DEF Inv, TurnPart, Working
  <1>12. StreamPart'
    <2>1. \A k \in 1..MaxBuses : /\ bus'[k].closed = bus[k].closed /\ bus'[k].seq = bus[k].seq
                                 /\ bus'[k].subscribers = bus[k].subscribers
      BY <1>7, <1>10
    <2>. QED BY <1>1, <1>5, <2>1, StreamFrame DEF Inv
  <1>13. \A u \in Turns : turn'[u].asked = turn[u].asked BY <1>1, <1>6 DEF Inv, TurnPart
  <1>14. RestPart' BY <1>1, <1>13, RestFrame DEF Inv, RestPart
  <1>. QED BY <1>9, <1>11, <1>12, <1>14 DEF Inv

-----------------------------------------------------------------------------
(* Streams.                                                                 *)

\* Stream s, whose connection is c from now on, subscribes to the bus of c
\* while that is open, and to no other; nothing else changes for the streams.
Joins(s, c) ==
    \A i \in 1..MaxBuses :
        /\ bus'[i].closed = bus[i].closed /\ bus'[i].seq = bus[i].seq
        /\ s \in bus'[i].subscribers <=> c.pc = "open" /\ c.bus = i /\ ~bus[i].closed
        /\ \A u \in Streams : u # s => (u \in bus'[i].subscribers <=> u \in bus[i].subscribers)

\* The queue of a connection holds the events from the next one to the last.
UpToDate(c) ==
    c.pc = "open" /\ ~bus[c.bus].closed =>
        /\ \A n \in 1..Len(c.queue) : c.queue[n].seq = c.next + n - 1
        /\ c.next + Len(c.queue) = bus[c.bus].seq + 1

\* One connection changes, and with it who subscribes to its bus.
LEMMA StreamStepOK ==
    ASSUME BusPart, StreamPart, BusPart', NEW s \in Streams, NEW c \in StreamRecords(made'),
           stream' = [stream EXCEPT ![s] = c], made' \in Nat, made <= made', made' <= MaxBuses,
           Joins(s, c), UpToDate(c), c.pc \in {"connecting", "open"} => c.bus # 0
    PROVE  StreamPart'
  <1>1. made \in Nat /\ MaxBuses \in Nat BY MadeOK
  <1>2. \A u \in Streams : stream[u] \in StreamRecords(made') BY <1>1 DEF StreamPart, StreamRecords
  <1>3. stream' \in [Streams -> StreamRecords(made')] BY <1>2 DEF StreamPart
  <1>4. \A u \in Streams : stream'[u] = IF u = s THEN c ELSE stream[u] BY DEF StreamPart
  <1>5. \A u \in Streams : stream'[u].pc \in {"connecting", "open"} => stream'[u].bus # 0 BY <1>4 DEF StreamPart
  <1>6. \A u \in Streams : stream'[u].pc = "open" => stream'[u].bus \in 1..MaxBuses
    <2>. SUFFICES ASSUME NEW u \in Streams, stream'[u].pc = "open" PROVE stream'[u].bus \in 1..MaxBuses OBVIOUS
    <2>1. stream'[u].bus # 0 BY <1>5
    <2>2. stream'[u].bus \in 0..made' BY <1>3 DEF StreamRecords
    <2>. QED BY <1>1, <2>1, <2>2
  <1>7. \A i \in 1..MaxBuses : bus'[i].subscribers \subseteq Streams BY DEF BusPart, BusRecords
  <1>8. \A i \in 1..MaxBuses : \A u \in bus'[i].subscribers : stream'[u].pc = "open" /\ stream'[u].bus = i
    BY <1>4, <1>7 DEF StreamPart, Joins
  <1>9. ASSUME NEW u \in Streams, stream'[u].pc = "open", ~bus'[stream'[u].bus].closed
        PROVE  u \in bus'[stream'[u].bus].subscribers
    <2>1. stream'[u].bus \in 1..MaxBuses BY <1>6, <1>9
    <2>2. ~bus[stream'[u].bus].closed BY <1>9, <2>1 DEF Joins
    <2>3. CASE u = s
      <3>1. stream'[u] = c BY <1>4, <2>3
      <3>. QED BY <1>9, <2>1, <2>2, <2>3, <3>1 DEF Joins
    <2>4. CASE u # s
      <3>1. stream'[u] = stream[u] BY <1>4, <2>4
      <3>2. u \in bus[stream[u].bus].subscribers BY <1>9, <2>2, <3>1 DEF StreamPart
      <3>. QED BY <2>1, <2>4, <3>1, <3>2 DEF Joins
    <2>. QED BY <2>3, <2>4
  <1>10. NoGapNoRepeat'
    <2>. SUFFICES ASSUME NEW u \in Streams, stream'[u].pc = "open", ~bus'[stream'[u].bus].closed
                  PROVE  LET d == stream'[u]
                         IN /\ \A n \in 1..Len(d.queue) : d.queue[n].seq = d.next + n - 1
                            /\ d.next + Len(d.queue) = bus'[d.bus].seq + 1
      BY DEF NoGapNoRepeat
    <2>1. stream'[u].bus \in 1..MaxBuses BY <1>6
    <2>2. bus'[stream'[u].bus].seq = bus[stream'[u].bus].seq /\ ~bus[stream'[u].bus].closed BY <2>1 DEF Joins
    <2>3. CASE u = s
      <3>1. stream'[u] = c BY <1>4, <2>3
      <3>. QED BY <2>2, <3>1 DEF UpToDate
    <2>4. CASE u # s
      <3>1. stream'[u] = stream[u] BY <1>4, <2>4
      <3>. QED BY <2>2, <3>1 DEF StreamPart, NoGapNoRepeat
    <2>. QED BY <2>3, <2>4
  <1>. QED BY <1>3, <1>5, <1>8, <1>9, <1>10 DEF StreamPart

\* Nothing is left of a connection but the client's cursor.
LEMMA GoneOK ==
    ASSUME NEW n \in Nat, NEW c \in StreamRecords(n) PROVE Gone(c) \in StreamRecords(n) /\ Gone(c).pc = "closed"
  <1>1. <<>> \in Seq(Events) /\ 0 \in 0..n OBVIOUS
  <1>. QED BY <1>1 DEF Gone, StreamRecords

\* A stream is no subscriber of any bus but its own, and of that one exactly
\* as long as it is open.
LEMMA SubscriberOf ==
    ASSUME BusPart, StreamPart, NEW s \in Streams, NEW i \in 1..MaxBuses
    PROVE  s \in bus[i].subscribers <=> stream[s].pc = "open" /\ stream[s].bus = i /\ ~bus[i].closed
  BY DEF BusPart, StreamPart

\* A step of the streams that touches neither a turn nor an answer.
LEMMA TurnsAlone ==
    ASSUME Inv, UNCHANGED <<turn, answer, context, disposal>>, idle' \in BOOLEAN, mishaps' \in 0..MaxMishaps,
           made' \in Nat, made <= made', \A i \in 1..MaxBuses : bus'[i].turnAbort = bus[i].turnAbort
    PROVE  TurnPart' /\ RestPart'
  <1>1. TurnPart' BY MadeOK, TurnFrame DEF Inv
  <1>2. RestPart' BY RestFrame DEF Inv
  <1>. QED BY <1>1, <1>2

\* A client connects.
LEMMA ConnectInv == ASSUME Inv, NEW s \in Streams, Connect(s) PROVE Inv'
  <1>. DEFINE g == GotBus
  <1>1. /\ stream[s].pc \in {"none", "closed"} /\ stream[s].connects < MaxConnects /\ GetOrCreateBus
        /\ idle' = (idle /\ current # 0) /\ UNCHANGED <<bus, turn, answer, context, disposal, mishaps>>
    BY DEF Connect
  <1>2. PICK follow \in BOOLEAN :
          stream' = [stream EXCEPT ![s].pc = "connecting", ![s].bus = g, ![s].follow = follow,
                                   ![s].connects = @ + 1]
    BY DEF Connect
  <1>. DEFINE c == [stream[s] EXCEPT !.pc = "connecting", !.bus = g, !.follow = follow,
                                     !.connects = @ + 1]
  <1>3. stream' = [stream EXCEPT ![s] = c] BY <1>2
  <1>4. g \in 1..MaxBuses /\ made' \in Nat /\ made' <= MaxBuses /\ made <= made' /\ g <= made'
    BY <1>1, GotBusOK DEF Inv
  <1>5. made \in Nat BY MadeOK DEF Inv
  <1>6. bus[g] \in BusRecords /\ Exact(bus[g]) /\ (bus[g].closed => bus[g].subscribers = {})
    BY <1>4 DEF Inv, BusPart
  <1>7. bus' = [bus EXCEPT ![g] = bus[g]] BY <1>1 DEF Inv, BusPart
  <1>8. BusPart' BY <1>1, <1>6, <1>7, GotBusStep DEF Inv
  <1>. HIDE DEF g
  <1>9. g # 0 /\ g \in 0..made' BY <1>4
  <1>10. stream[s] \in StreamRecords(made) BY DEF Inv, StreamPart
  <1>11. stream[s].connects + 1 \in 0..MaxConnects
    <2>1. stream[s].connects \in 0..MaxConnects /\ MaxConnects \in Nat BY <1>10, Bounds DEF StreamRecords
    <2>. QED BY <1>1, <2>1
  <1>12. c \in StreamRecords(made') /\ c.pc = "connecting" /\ c.bus = g BY <1>9, <1>10, <1>11 DEF StreamRecords
  <1>. HIDE DEF c
  <1>13. \A i \in 1..MaxBuses : s \notin bus[i].subscribers BY <1>1, SubscriberOf DEF Inv
  <1>14. StreamPart'
    <2>1. Joins(s, c) /\ UpToDate(c) BY <1>1, <1>12, <1>13 DEF Joins, UpToDate
    <2>. QED BY <1>3, <1>4, <1>8, <1>9, <1>12, <2>1, StreamStepOK DEF Inv
  <1>15. idle' \in BOOLEAN BY <1>1 DEF Inv, RestPart
  <1>16. TurnPart' /\ RestPart' BY <1>1, <1>4, <1>15, TurnsAlone DEF Inv, RestPart
  <1>. QED BY <1>8, <1>14, <1>16 DEF Inv

\* A connection goes, and its subscription with it.
LEMMA GoneInv ==
    ASSUME Inv, NEW s \in Streams, NEW c \in StreamRecords(made), c.pc = "closed",
           stream' = [stream EXCEPT ![s] = c],
           \/ bus' = bus /\ \A i \in 1..MaxBuses : s \notin bus[i].subscribers
           \/ stream[s].pc \in {"connecting", "open"} /\ Unsubscribe(s),
           UNCHANGED <<made, current, turn, answer, context, disposal>>, idle' \in BOOLEAN,
           mishaps' \in 0..MaxMishaps
    PROVE  Inv'
  <1>1. made \in Nat /\ made <= MaxBuses BY MadeOK DEF Inv
  <1>. /\ made' = made /\ made' \in Nat /\ made <= made' /\ made' <= MaxBuses
       /\ c \in StreamRecords(made') /\ (c.pc \in {"connecting", "open"} => c.bus # 0)
    <2>1. made' = made OBVIOUS
    <2>2. c \in StreamRecords(made') BY <2>1
    <2>. QED BY <1>1, <2>1, <2>2
  <1>2. CASE bus' = bus /\ \A i \in 1..MaxBuses : s \notin bus[i].subscribers
    <2>1. BusPart' BY <1>2, BusFrame DEF Inv
    <2>2. StreamPart'
      <3>1. Joins(s, c) /\ UpToDate(c) BY <1>2 DEF Joins, UpToDate
      <3>. QED BY <2>1, <3>1, StreamStepOK DEF Inv
    <2>3. TurnPart' /\ RestPart' BY <1>1, <1>2, TurnsAlone
    <2>. QED BY <2>1, <2>2, <2>3 DEF Inv
  <1>3. CASE stream[s].pc \in {"connecting", "open"} /\ Unsubscribe(s)
    <2>. DEFINE i == stream[s].bus
                b == [bus[i] EXCEPT !.subscribers = @ \ {s}]
    <2>1. i \in 1..made /\ i \in 1..MaxBuses BY <1>3, StreamBus DEF Inv
    <2>2. bus' = [bus EXCEPT ![i] = b] BY <1>3 DEF Unsubscribe
    <2>3. bus[i] \in BusRecords /\ Exact(bus[i]) /\ (bus[i].closed => bus[i].subscribers = {})
      BY <2>1 DEF Inv, BusPart
    <2>. HIDE DEF i
    <2>4. /\ b \in BusRecords /\ b.seq = bus[i].seq /\ b.ring = bus[i].ring /\ b.start = bus[i].start
          /\ b.closed = bus[i].closed /\ b.subscribers = bus[i].subscribers \ {s}
          /\ b.turnAbort = bus[i].turnAbort
      BY <2>3 DEF BusRecords
    <2>. HIDE DEF b
    <2>5. Exact(b) BY <2>3, <2>4 DEF Exact
    <2>6. BusPart' BY <2>1, <2>2, <2>3, <2>4, <2>5, BusStep DEF Inv
    <2>7. \A k \in 1..MaxBuses : bus'[k] = IF k = i THEN b ELSE bus[k] BY <2>2 DEF Inv, BusPart
    <2>8. \A k \in 1..MaxBuses : k # i => s \notin bus[k].subscribers BY SubscriberOf DEF Inv, i
    <2>9. \A k \in 1..MaxBuses : /\ bus'[k].closed = bus[k].closed /\ bus'[k].seq = bus[k].seq
                                 /\ bus'[k].subscribers = bus[k].subscribers \ {s}
                                 /\ bus'[k].turnAbort = bus[k].turnAbort
      BY <2>4, <2>7, <2>8
    <2>10. StreamPart'
      <3>1. Joins(s, c) /\ UpToDate(c) BY <2>9 DEF Joins, UpToDate
      <3>. QED BY <2>6, <3>1, StreamStepOK DEF Inv
    <2>11. TurnPart' /\ RestPart' BY <1>1, <2>9, TurnsAlone
    <2>. QED BY <2>6, <2>10, <2>11 DEF Inv
  <1>. QED BY <1>2, <1>3

\* The bus is closed, or the client goes away.
LEMMA GonesInv == ASSUME Inv, NEW s \in Streams, BusAbort(s) \/ Disconnect(s) PROVE Inv'
  <1>. DEFINE c == Gone(stream[s])
  <1>1. made \in Nat /\ stream[s] \in StreamRecords(made) BY MadeOK DEF Inv, StreamPart
  <1>2. c \in StreamRecords(made) /\ c.pc = "closed" BY <1>1, GoneOK
  <1>3. stream' = [stream EXCEPT ![s] = c] BY DEF BusAbort, Disconnect
  <1>. HIDE DEF c
  <1>4. idle \in BOOLEAN /\ mishaps \in 0..MaxMishaps BY DEF Inv, RestPart
  <1>5. CASE BusAbort(s)
    <2>1. /\ bus[stream[s].bus].closed
          /\ UNCHANGED <<bus, made, current, turn, answer, idle, context, disposal, mishaps>>
      BY <1>5 DEF BusAbort
    <2>2. \A i \in 1..MaxBuses : s \notin bus[i].subscribers BY <2>1, SubscriberOf DEF Inv
    <2>. QED BY <1>2, <1>3, <1>4, <2>1, <2>2, GoneInv
  <1>6. CASE Disconnect(s)
    <2>1. /\ stream[s].pc \in {"connecting", "open"} /\ Mishap /\ Unsubscribe(s)
          /\ UNCHANGED <<made, current, turn, answer, idle, context, disposal>>
      BY <1>6 DEF Disconnect
    <2>2. mishaps' \in 0..MaxMishaps BY <2>1, MishapOK DEF Inv
    <2>. QED BY <1>2, <1>3, <1>4, <2>1, <2>2, GoneInv
  <1>. QED BY <1>5, <1>6

\* The replay and the subscription are one step: nothing can come between.
LEMMA SubscribeInv == ASSUME Inv, NEW s \in Streams, Subscribe(s) PROVE Inv'
  <1>. DEFINE i == stream[s].bus
              b == [bus[i] EXCEPT !.subscribers = @ \cup {s}]
              q == Replay(s, bus[i])
              o == Owed(s, bus[i])
              c == [stream[s] EXCEPT !.pc = "open", !.queue = q, !.next = o]
  <1>1. /\ stream[s].pc = "connecting" /\ idle' = FALSE
        /\ UNCHANGED <<made, current, turn, answer, context, disposal, mishaps>>
    BY DEF Subscribe
  <1>2. i \in 1..made /\ i \in 1..MaxBuses BY <1>1, StreamBus DEF Inv
  <1>3. made \in Nat /\ made <= MaxBuses BY MadeOK DEF Inv
  <1>4. stream[s] \in StreamRecords(made) /\ mishaps \in 0..MaxMishaps BY DEF Inv, StreamPart, RestPart
  <1>5. bus[i] \in BusRecords /\ Exact(bus[i]) /\ (bus[i].closed => bus[i].subscribers = {})
    BY <1>2 DEF Inv, BusPart
  <1>6. \A k \in 1..MaxBuses : s \notin bus[k].subscribers BY <1>1, SubscriberOf DEF Inv
  <1>7. CASE NothingToWaitFor(s, bus[i])
    <2>1. stream' = [stream EXCEPT ![s] = Gone(stream[s])] /\ bus' = bus BY <1>7 DEF Subscribe
    <2>2. Gone(stream[s]) \in StreamRecords(made) /\ Gone(stream[s]).pc = "closed" BY <1>3, <1>4, GoneOK
    <2>. QED BY <1>1, <1>4, <1>6, <2>1, <2>2, GoneInv
  <1>8. CASE ~NothingToWaitFor(s, bus[i])
    <2>1. stream' = [stream EXCEPT ![s] = c] /\ bus' = [bus EXCEPT ![i] = b] BY <1>8 DEF Subscribe
    <2>2. ~bus[i].closed BY <1>8 DEF NothingToWaitFor
    <2>3. stream[s].cursor \in Nat BY <1>4 DEF StreamRecords
    <2>4. /\ q \in Seq(Events) /\ o \in Nat /\ o + Len(q) = bus[i].seq + 1
          /\ \A k \in 1..Len(q) : q[k].seq = o + k - 1
      BY <1>5, <2>3, ReplayOK
    <2>. HIDE DEF q, o
    <2>5. c \in StreamRecords(made) BY <1>4, <2>4 DEF StreamRecords
    <2>6. c.pc = "open" /\ c.bus = i /\ c.queue = q /\ c.next = o BY <1>4 DEF StreamRecords
    <2>. HIDE DEF i, c
    <2>7. /\ b \in BusRecords /\ b.seq = bus[i].seq /\ b.ring = bus[i].ring /\ b.start = bus[i].start
          /\ b.closed = bus[i].closed /\ b.subscribers = bus[i].subscribers \cup {s}
          /\ b.turnAbort = bus[i].turnAbort
      BY <1>5 DEF BusRecords
    <2>. HIDE DEF b
    <2>8. Exact(b) BY <1>5, <2>7 DEF Exact
    <2>9. BusPart' BY <1>1, <1>2, <2>1, <2>2, <2>7, <2>8, BusStep DEF Inv
    <2>10. \A k \in 1..MaxBuses : bus'[k] = IF k = i THEN b ELSE bus[k] BY <2>1 DEF Inv, BusPart
    <2>11. Joins(s, c) BY <1>6, <2>2, <2>6, <2>7, <2>10 DEF Joins
    <2>12. i # 0 BY <1>2
    <2>13. UpToDate(c) BY <2>4, <2>6 DEF UpToDate
    <2>14. StreamPart'
      <3>1. made' = made BY <1>1
      <3>2. made' \in Nat /\ made <= made' /\ made' <= MaxBuses /\ c \in StreamRecords(made') BY <1>3, <2>5, <3>1
      <3>. QED BY <2>1, <2>6, <2>9, <2>11, <2>12, <2>13, <3>2, StreamStepOK DEF Inv
    <2>15. \A k \in 1..MaxBuses : bus'[k].turnAbort = bus[k].turnAbort BY <2>7, <2>10
    <2>16. TurnPart' /\ RestPart'
      <3>1. made' = made /\ mishaps' = mishaps /\ UNCHANGED <<turn, answer, context, disposal>> BY <1>1
      <3>2. idle' \in BOOLEAN BY <1>1
      <3>3. made' \in Nat /\ made <= made' /\ mishaps' \in 0..MaxMishaps BY <1>3, <1>4, <3>1
      <3>. QED BY <2>15, <3>1, <3>2, <3>3, TurnsAlone
    <2>. QED BY <2>9, <2>14, <2>16 DEF Inv
  <1>. QED BY <1>7, <1>8

\* The oldest event is written, and the cursor follows.
LEMMA WriteEventInv == ASSUME Inv, NEW s \in Streams, WriteEvent(s) PROVE Inv'
  <1>. DEFINE q == stream[s].queue
              ev == Head(q)
              i == stream[s].bus
              ends == ev.kind = "end" /\ ~stream[s].follow
              w == [stream[s] EXCEPT !.queue = Tail(@), !.next = @ + 1, !.cursor = ev.seq]
  <1>1. /\ stream[s].pc = "open" /\ ~bus[i].closed /\ q # <<>>
        /\ stream' = [stream EXCEPT ![s] = IF ends THEN Gone(w) ELSE w]
        /\ UNCHANGED <<made, current, turn, answer, idle, context, disposal, mishaps>>
    BY DEF WriteEvent
  <1>2. made \in Nat /\ made <= MaxBuses BY MadeOK DEF Inv
  <1>3. stream[s] \in StreamRecords(made) /\ mishaps \in 0..MaxMishaps /\ idle \in BOOLEAN
    BY DEF Inv, StreamPart, RestPart
  <1>4. q \in Seq(Events) /\ stream[s].next \in Nat BY <1>3 DEF StreamRecords
  <1>5. ev \in Events /\ Tail(q) \in Seq(Events) BY <1>1, <1>4
  <1>6. ev.seq \in Nat /\ stream[s].next + 1 \in Nat BY <1>4, <1>5 DEF Events
  <1>. HIDE DEF ev
  <1>7. /\ w \in StreamRecords(made) /\ w.pc = "open" /\ w.bus = i /\ w.queue = Tail(q)
        /\ w.next = stream[s].next + 1
    <2>1. w \in StreamRecords(made) BY <1>3, <1>5, <1>6 DEF StreamRecords
    <2>2. w.pc = "open" /\ w.bus = i BY <1>1, <1>3 DEF StreamRecords
    <2>3. w.queue = Tail(q) /\ w.next = stream[s].next + 1 BY <1>3 DEF StreamRecords
    <2>. QED BY <2>1, <2>2, <2>3
  <1>. HIDE DEF w
  <1>8. CASE ends
    <2>1. stream' = [stream EXCEPT ![s] = Gone(w)] /\ Unsubscribe(s) BY <1>1, <1>8 DEF WriteEvent, ev
    <2>2. Gone(w) \in StreamRecords(made) /\ Gone(w).pc = "closed" BY <1>2, <1>7, GoneOK
    <2>. QED BY <1>1, <1>3, <2>1, <2>2, GoneInv
  <1>9. CASE ~ends
    <2>1. stream' = [stream EXCEPT ![s] = w] /\ bus' = bus BY <1>1, <1>9 DEF WriteEvent, ev
    <2>2. BusPart' BY <1>1, <2>1, BusFrame DEF Inv
    <2>3. i \in 1..MaxBuses /\ i # 0 BY <1>1, StreamBus DEF Inv
    <2>4. /\ \A n \in 1..Len(q) : q[n].seq = stream[s].next + n - 1
          /\ stream[s].next + Len(q) = bus[i].seq + 1
      BY <1>1 DEF Inv, StreamPart, NoGapNoRepeat
    <2>5. Len(q) \in Nat /\ Len(Tail(q)) = Len(q) - 1 /\ \A n \in 1..Len(Tail(q)) : Tail(q)[n] = q[n + 1]
      BY <1>1, <1>4
    <2>. HIDE DEF q, i
    <2>6. \A n \in 1..Len(w.queue) : w.queue[n].seq = w.next + n - 1
      <3>. SUFFICES ASSUME NEW n \in 1..Len(Tail(q)) PROVE Tail(q)[n].seq = stream[s].next + 1 + n - 1
        BY <1>7
      <3>1. n + 1 \in 1..Len(q) BY <2>5
      <3>2. q[n + 1].seq = stream[s].next + (n + 1) - 1 BY <2>4, <3>1
      <3>. QED BY <1>4, <2>5, <3>2
    <2>7. w.next + Len(w.queue) = bus[w.bus].seq + 1
      <3>1. (stream[s].next + 1) + (Len(q) - 1) = stream[s].next + Len(q) BY <1>4, <2>5
      <3>2. w.bus = i BY <1>7 DEF i
      <3>3. w.queue = Tail(q) BY <1>7 DEF q
      <3>. QED BY <1>7, <2>4, <2>5, <3>1, <3>2, <3>3
    <2>8. Joins(s, w) /\ UpToDate(w)
      <3>1. \A k \in 1..MaxBuses : s \in bus[k].subscribers <=> i = k /\ ~bus[k].closed
        BY <1>1, SubscriberOf DEF Inv, i
      <3>2. Joins(s, w) BY <1>7, <2>1, <3>1 DEF Joins
      <3>. QED BY <2>6, <2>7, <3>2 DEF UpToDate
    <2>9. StreamPart'
      <3>1. made' = made BY <1>1
      <3>2. made' \in Nat /\ made <= made' /\ made' <= MaxBuses /\ w \in StreamRecords(made') /\ w.bus # 0
        BY <1>2, <1>7, <2>3, <3>1 DEF i
      <3>. QED BY <2>1, <2>2, <2>8, <3>2, StreamStepOK DEF Inv
    <2>10. TurnPart' /\ RestPart' BY <1>1, <1>2, <1>3, <2>1, TurnsAlone
    <2>. QED BY <2>2, <2>9, <2>10 DEF Inv
  <1>. QED BY <1>8, <1>9

-----------------------------------------------------------------------------
(* Disposal.                                                                *)

\* The bus in the map is closed, and leaves the map or stays in it.
LEMMA CloseOK ==
    ASSUME Inv, bus' = IF current = 0 THEN bus ELSE [bus EXCEPT ![current] = ClosedBus],
           current' \in {0, current}, UNCHANGED <<made, stream>>
    PROVE  /\ BusPart' /\ StreamPart'
           /\ \A i \in 1..MaxBuses : bus'[i].turnAbort \in {bus[i].turnAbort, NoTurn}
  <1>1. made \in Nat /\ made <= MaxBuses /\ MaxBuses \in Nat /\ current \in Nat /\ current <= made
    BY MadeOK DEF Inv
  <1>2. \A i \in 1..MaxBuses : bus'[i] = IF i = current THEN ClosedBus ELSE bus[i] BY <1>1 DEF Inv, BusPart
  <1>3. bus' \in [1..MaxBuses -> BusRecords]
    <2>1. CASE current = 0 BY <2>1 DEF Inv, BusPart
    <2>2. CASE current # 0 BY <2>2, NewBusOK DEF Inv, BusPart
    <2>. QED BY <2>1, <2>2
  <1>4. \A i \in 1..MaxBuses : Exact(bus'[i]) BY <1>2, NewBusOK DEF Inv, BusPart
  <1>5. \A i \in 1..MaxBuses : i > made => bus'[i] = NewBus BY <1>1, <1>2 DEF Inv, BusPart
  <1>6. \A i \in 1..MaxBuses : bus'[i].closed => bus'[i].subscribers = {} BY <1>2, NewBusOK DEF Inv, BusPart
  <1>7. \A i \in 1..made : bus'[i].closed
    <2>. SUFFICES ASSUME NEW i \in 1..made PROVE bus'[i].closed OBVIOUS
    <2>1. i \in 1..MaxBuses BY <1>1
    <2>. QED BY <1>2, <2>1, NewBusOK DEF Inv, BusPart, OneOpenBus
  <1>8. current' \in 0..made BY <1>1
  <1>9. BusPart' BY <1>3, <1>4, <1>5, <1>6, <1>7, <1>8 DEF Inv, BusPart, OneOpenBus
  <1>10. \A s \in Streams : stream[s].pc = "open" => stream[s].bus \in 1..made BY StreamBus DEF Inv
  <1>11. NoGapNoRepeat' BY <1>7, <1>10 DEF NoGapNoRepeat
  <1>12. \A i \in 1..MaxBuses : bus'[i].subscribers \subseteq bus[i].subscribers BY <1>2, NewBusOK
  <1>13. StreamPart' BY <1>7, <1>10, <1>11, <1>12 DEF Inv, StreamPart
  <1>14. \A i \in 1..MaxBuses : bus'[i].turnAbort \in {bus[i].turnAbort, NoTurn} BY <1>2, NewBusOK
  <1>. QED BY <1>9, <1>13, <1>14

\* A context that leaves the map is no longer handed out.
LEMMA EvictOK ==
    ASSUME RestPart, NEW d \in Disposers, EvictContext(d), UNCHANGED answer, idle' \in BOOLEAN,
           mishaps' \in 0..MaxMishaps, turn' = turn
    PROVE  RestPart'
  <1>1. disposal' = [disposal EXCEPT ![d] = [phase |-> "disposing", context |-> context]] /\ context' = 0
    BY DEF EvictContext
  <1>2. [phase |-> "disposing", context |-> context] \in [phase : {"idle", "disposing", "done"}, context : Nat]
    BY DEF RestPart
  <1>3. disposal' \in [Disposers -> [phase : {"idle", "disposing", "done"}, context : Nat]]
    BY <1>1, <1>2 DEF RestPart
  <1>4. NeverHalfClosed' BY <1>1 DEF NeverHalfClosed, HalfClosed
  <1>5. AllowedByUser' BY DEF RestPart, AllowedByUser
  <1>. QED BY <1>1, <1>3, <1>4, <1>5 DEF RestPart

\* A context is closed for good.
LEMMA DisposedOK ==
    ASSUME RestPart, NEW d \in Disposers, NEW phase \in {"idle", "disposing", "done"},
           disposal' = [disposal EXCEPT ![d] = [phase |-> phase, context |-> 0]],
           UNCHANGED <<answer, idle, context, mishaps>>,
           \A t \in Turns : turn'[t].asked = "allow" => turn[t].asked = "allow"
    PROVE  RestPart'
  <1>1. [phase |-> phase, context |-> 0] \in [phase : {"idle", "disposing", "done"}, context : Nat] OBVIOUS
  <1>2. disposal' \in [Disposers -> [phase : {"idle", "disposing", "done"}, context : Nat]]
    BY <1>1 DEF RestPart
  <1>3. \A e \in Disposers : disposal'[e].context \in {0, disposal[e].context} BY DEF RestPart
  <1>4. NeverHalfClosed' BY <1>3 DEF RestPart, NeverHalfClosed, HalfClosed
  <1>5. AllowedByUser' BY DEF RestPart, AllowedByUser
  <1>. QED BY <1>2, <1>4, <1>5 DEF RestPart

\* The idle time passes, the sweep judges, a session is deleted.
LEMMA EvictInv == ASSUME Inv, IdleTimePasses \/ SweepJudge \/ DeleteSession PROVE Inv'
  <1>1. UNCHANGED <<bus, made, current, turn, stream, answer>> BY DEF IdleTimePasses, SweepJudge, DeleteSession
  <1>2. BusPart' BY <1>1, BusFrame DEF Inv
  <1>3. TurnPart' BY <1>1, MadeOK, TurnFrame DEF Inv
  <1>4. StreamPart' BY <1>1, MadeOK, StreamFrame DEF Inv
  <1>5. CASE IdleTimePasses
    <2>1. Mishap /\ idle' = TRUE /\ UNCHANGED <<context, disposal>> BY <1>5 DEF IdleTimePasses
    <2>2. idle' \in BOOLEAN BY <2>1
    <2>3. mishaps' \in 0..MaxMishaps BY <2>1, MishapOK DEF Inv
    <2>4. RestPart' BY <1>1, <2>1, <2>2, <2>3, RestFrame DEF Inv
    <2>. QED BY <1>2, <1>3, <1>4, <2>4 DEF Inv
  <1>6. CASE SweepJudge
    <2>1. EvictContext("sweep") /\ UNCHANGED <<idle, mishaps>> BY <1>6 DEF SweepJudge
    <2>2. RestPart' BY <1>1, <2>1, EvictOK DEF Inv, RestPart, Disposers
    <2>. QED BY <1>2, <1>3, <1>4, <2>2 DEF Inv
  <1>7. CASE DeleteSession
    <2>1. EvictContext("delete") /\ Mishap /\ UNCHANGED idle BY <1>7 DEF DeleteSession
    <2>2. mishaps' \in 0..MaxMishaps BY <2>1, MishapOK DEF Inv
    <2>3. RestPart' BY <1>1, <2>1, <2>2, EvictOK DEF Inv, RestPart, Disposers
    <2>. QED BY <1>2, <1>3, <1>4, <2>3 DEF Inv
  <1>. QED BY <1>5, <1>6, <1>7

\* The bus of a session that was swept or deleted goes.
LEMMA DisposeInv == ASSUME Inv, NEW d \in Disposers, Dispose(d) PROVE Inv'
  <1>. DEFINE phase == IF d = "sweep" THEN "idle" ELSE "done"
  <1>1. /\ disposal' = [disposal EXCEPT ![d] = [phase |-> phase, context |-> 0]] /\ DisposeBus
        /\ UNCHANGED <<made, turn, stream, answer, idle, context, mishaps>>
    BY DEF Dispose
  <1>2. phase \in {"idle", "disposing", "done"} OBVIOUS
  <1>. HIDE DEF phase
  <1>3. /\ BusPart' /\ StreamPart'
        /\ \A i \in 1..MaxBuses : bus'[i].turnAbort \in {bus[i].turnAbort, NoTurn}
    BY <1>1, CloseOK DEF DisposeBus
  <1>4. TurnPart' BY <1>1, <1>3, MadeOK, TurnFrame DEF Inv
  <1>5. RestPart' BY <1>1, <1>2, DisposedOK DEF Inv
  <1>. QED BY <1>3, <1>4, <1>5 DEF Inv

\* The process shuts down: the bus is closed in the map.
LEMMA ShutdownInv == ASSUME Inv, Shutdown PROVE Inv'
  <1>1. /\ Mishap /\ bus' = (IF current = 0 THEN bus ELSE [bus EXCEPT ![current] = ClosedBus])
        /\ EvictContext("shutdown") /\ UNCHANGED <<made, current, turn, stream, answer, idle>>
    BY DEF Shutdown
  <1>2. /\ BusPart' /\ StreamPart'
        /\ \A i \in 1..MaxBuses : bus'[i].turnAbort \in {bus[i].turnAbort, NoTurn}
    BY <1>1, CloseOK
  <1>3. TurnPart' BY <1>1, <1>2, MadeOK, TurnFrame DEF Inv
  <1>4. mishaps' \in 0..MaxMishaps BY <1>1, MishapOK DEF Inv
  <1>5. RestPart' BY <1>1, <1>4, EvictOK DEF Inv, RestPart, Disposers
  <1>. QED BY <1>2, <1>3, <1>5 DEF Inv

\* The map is cleared, and every pending request rejected.
LEMMA ShutdownEndsInv == ASSUME Inv, ShutdownEnds PROVE Inv'
  <1>1. /\ disposal' = [disposal EXCEPT !["shutdown"] = [phase |-> "done", context |-> 0]] /\ DisposeBus
        /\ turn' = [t \in Turns |-> Settled(turn[t], "rejected")]
        /\ UNCHANGED <<made, stream, answer, idle, context, mishaps>>
    BY DEF ShutdownEnds
  <1>2. /\ BusPart' /\ StreamPart'
        /\ \A i \in 1..MaxBuses : bus'[i].turnAbort \in {bus[i].turnAbort, NoTurn}
    BY <1>1, CloseOK DEF DisposeBus
  <1>3. \A t \in Turns :
          /\ turn'[t] \in TurnRecords(made) /\ turn'[t].bus = turn[t].bus
          /\ turn[t].pc \in Working => turn'[t].pc \in Working
          /\ turn'[t].pc \in Working => turn'[t].bus # 0
          /\ turn'[t].asked # "pending" /\ turn'[t].asked \in {turn[t].asked, "rejected"}
    BY <1>1, SettledOK
  <1>4. TurnPart'
    <2>1. turn' \in [Turns -> TurnRecords(made)] BY <1>1, <1>3
    <2>2. \A i \in 1..MaxBuses : \A t \in Turns :
            bus'[i].turnAbort = t => turn'[t].pc \in Working /\ turn'[t].bus = i
      BY <1>2, <1>3, NoTurnAssumption DEF Inv, TurnPart
    <2>. QED BY <1>1, <1>3, <2>1, <2>2 DEF TurnPart
  <1>5. \A t \in Turns : turn'[t].asked = "allow" => turn[t].asked = "allow" BY <1>3
  <1>6. RestPart' BY <1>1, <1>5, DisposedOK DEF Inv, Disposers
  <1>. QED BY <1>2, <1>4, <1>6 DEF Inv

-----------------------------------------------------------------------------
(* The theorems.                                                            *)

\* Nothing has been asked of the server yet.
LEMMA InitInv == Init => Inv
  <1>. SUFFICES ASSUME Init PROVE Inv OBVIOUS
  <1>1. 0 \in 0..MaxBuses /\ 0 \in 0..0 /\ 0 \in 0..MaxWork /\ 0 \in 0..MaxConnects /\ 0 \in 0..MaxMishaps
    BY Bounds
  <1>2. BusPart
    <2>1. bus \in [1..MaxBuses -> BusRecords] /\ \A i \in 1..MaxBuses : bus[i] = NewBus BY NewBusOK DEF Init
    <2>2. OneOpenBus BY DEF Init, OneOpenBus
    <2>3. made = 0 /\ current = 0 BY DEF Init
    <2>. QED BY <1>1, <2>1, <2>2, <2>3, NewBusOK DEF BusPart
  <1>3. TurnPart
    <2>. DEFINE x == [pc |-> "none", bus |-> 0, work |-> 0, aborted |-> FALSE, asked |-> "no"]
    <2>1. x \in TurnRecords(0) BY <1>1 DEF TurnRecords
    <2>2. made = 0 /\ turn = [t \in Turns |-> x] /\ bus = [i \in 1..MaxBuses |-> NewBus] BY DEF Init
    <2>3. \A t \in Turns : turn[t].pc = "none" /\ turn[t].asked = "no" BY <2>2
    <2>. HIDE DEF x
    <2>4. turn \in [Turns -> TurnRecords(made)] BY <2>1, <2>2
    <2>5. \A i \in 1..MaxBuses : bus[i].turnAbort \notin Turns BY <2>2, NewBusOK, NoTurnAssumption
    <2>. QED BY <2>3, <2>4, <2>5 DEF TurnPart, Working
  <1>4. StreamPart
    <2>. DEFINE c == [pc |-> "none", bus |-> 0, queue |-> <<>>, cursor |-> 0,
                      next |-> 0, follow |-> FALSE, connects |-> 0]
    <2>1. c \in StreamRecords(0) BY <1>1 DEF StreamRecords
    <2>2. made = 0 /\ stream = [s \in Streams |-> c] /\ bus = [i \in 1..MaxBuses |-> NewBus] BY DEF Init
    <2>3. \A s \in Streams : stream[s].pc = "none" BY <2>2
    <2>. HIDE DEF c
    <2>4. stream \in [Streams -> StreamRecords(made)] BY <2>1, <2>2
    <2>5. \A i \in 1..MaxBuses : bus[i].subscribers = {} BY <2>2, NewBusOK
    <2>6. NoGapNoRepeat BY <2>3 DEF NoGapNoRepeat
    <2>. QED BY <2>3, <2>4, <2>5, <2>6 DEF StreamPart
  <1>5. RestPart
    <2>1. NoAnswer \in AnswerRecords /\ NoAnswer.pc = "none" BY DEF NoAnswer, AnswerRecords
    <2>2. answer = [a \in Answers |-> NoAnswer] /\ context = 0 /\ idle = FALSE /\ mishaps = 0 BY DEF Init
    <2>3. disposal = [d \in Disposers |-> [phase |-> "idle", context |-> 0]] BY DEF Init
    <2>4. disposal \in [Disposers -> [phase : {"idle", "disposing", "done"}, context : Nat]] BY <2>3
    <2>5. NeverHalfClosed BY <2>2 DEF NeverHalfClosed, HalfClosed
    <2>6. AllowedByUser BY DEF Init, AllowedByUser
    <2>7. idle \in BOOLEAN BY <2>2
    <2>. QED BY <1>1, <2>1, <2>2, <2>4, <2>5, <2>6, <2>7 DEF RestPart
  <1>. QED BY <1>2, <1>3, <1>4, <1>5 DEF Inv

\* Every step keeps the invariant.
LEMMA NextInv == ASSUME Inv, [Next]_vars PROVE Inv'
  <1>1. ASSUME NEW t \in Turns, PostTurn(t) \/ TurnStep(t) PROVE Inv'
    BY <1>1, PostTurnInv, BeginTurnInv, EmitInv, FinishTurnInv DEF TurnStep
  <1>2. ASSUME NEW t \in Turns, Emit(t) \/ Ask(t) \/ ApprovalTimeout(t) PROVE Inv'
    BY <1>2, EmitInv, ApprovalTimeoutInv
  <1>3. ASSUME NEW t \in Turns, NEW a \in Answers, PostAnswer(a, t) PROVE Inv' BY <1>3, PostAnswerInv
  <1>4. ASSUME NEW a \in Answers, Resolve(a) PROVE Inv' BY <1>4, ResolveInv
  <1>5. ASSUME NEW s \in Streams, Connect(s) \/ StreamStep(s) \/ Disconnect(s) PROVE Inv'
    BY <1>5, ConnectInv, SubscribeInv, WriteEventInv, GonesInv DEF StreamStep
  <1>6. CASE CancelTurn BY <1>6, CancelTurnInv
  <1>7. CASE IdleTimePasses \/ SweepJudge \/ DeleteSession BY <1>7, EvictInv
  <1>8. CASE Shutdown BY <1>8, ShutdownInv
  <1>9. CASE Reclaim BY <1>9, DisposeInv, ShutdownEndsInv DEF Reclaim
  <1>10. CASE UNCHANGED vars
    <2>1. UNCHANGED <<bus, made, current>> /\ turn' = turn /\ stream' = stream BY <1>10 DEF vars
    <2>2. UNCHANGED <<answer, context, disposal>> /\ idle' = idle /\ mishaps' = mishaps BY <1>10 DEF vars
    <2>3. BusPart' BY <2>1, BusFrame DEF Inv
    <2>4. TurnPart' BY <2>1, MadeOK, TurnFrame DEF Inv
    <2>5. StreamPart' BY <2>1, MadeOK, StreamFrame DEF Inv
    <2>6. RestPart' BY <2>1, <2>2, RestFrame DEF Inv, RestPart
    <2>. QED BY <2>3, <2>4, <2>5, <2>6 DEF Inv
  <1>. QED BY <1>1, <1>2, <1>3, <1>4, <1>5, <1>6, <1>7, <1>8, <1>9, <1>10 DEF Next

\* The invariant holds in every reachable state.
LEMMA Invariance == Spec => []Inv
  BY InitInv, NextInv, PTL DEF Spec

\* What the maps of the server say is so, whatever the order of turns,
\* streams, cancels and disposals: a bus that left the map is closed
\* (eventBus.ts), the controller that POST /cancel fires is that of a turn at
\* work (turns.ts), and no turn is handed a context that is being closed
\* (runtime.ts).
THEOREM GatewayConsistentHolds == Spec => []GatewayConsistent
  <1>1. Inv => GatewayConsistent
    <2>. SUFFICES ASSUME Inv PROVE GatewayConsistent OBVIOUS
    <2>1. made \in Nat /\ made <= MaxBuses /\ MaxBuses \in Nat BY MadeOK DEF Inv
    <2>2. \A i \in 1..MaxBuses : Len(bus[i].ring) <= MaxRing
      BY Bounds DEF Inv, BusPart, BusRecords, Exact, MinOf
    <2>3. TypeOK
      BY <2>2 DEF Inv, BusPart, BusRecords, TurnPart, TurnRecords, StreamPart, StreamRecords,
                  RestPart, AnswerRecords, TypeOK
    <2>4. NoStaleController
      <3>1. 1..made \subseteq 1..MaxBuses BY <2>1
      <3>. QED BY <3>1 DEF Inv, TurnPart, NoStaleController, Working
    <2>. QED BY <2>3, <2>4 DEF Inv, BusPart, RestPart, GatewayConsistent
  <1>. QED BY <1>1, Invariance, PTL

\* An SSE client reads every event of the bus it is owed, once and in order,
\* across reconnects with Last-Event-ID, replays from the ring and the events
\* published while it connects, as far back as a ring of any size reaches
\* (eventBus.ts subscribe and publish).
THEOREM NoGapNoRepeatHolds == Spec => []NoGapNoRepeat
  <1>1. Inv => NoGapNoRepeat BY DEF Inv, StreamPart
  <1>. QED BY <1>1, Invariance, PTL

\* A tool is allowed only by an approving answer that reached the queue while
\* the request was pending; time-outs, shutdowns and late or second answers
\* never allow it (approvalQueue.ts).
THEOREM AllowedByUserHolds == Spec => []AllowedByUser
  <1>1. Inv => AllowedByUser BY DEF Inv, RestPart
  <1>. QED BY <1>1, Invariance, PTL
=============================================================================
