------------------------- MODULE LogicalTurnProofs -------------------------
(***************************************************************************)
(* Proofs about LogicalTurn for any set of supervisors, processes, events, *)
(* limits and lease lengths.  Inv is inductive: while a supervisor that has *)
(* not yet stored its outcome owns the lease, the stored row is not final,  *)
(* has the limit of its copy and no more calls than its copy (Fresh).  A    *)
(* save is fenced to the lease owner, so it never undoes what it did not    *)
(* read.  ReceiptInv is about the receipts a resume has seen: while it owns *)
(* the lease only it begins a write, so no other receipt is started then,   *)
(* but by a write another process checked before the lease passed on.       *)
(***************************************************************************)
EXTENDS LogicalTurn, TLAPS

Afters == {"admit", "loop", "retrywait", "resume", "stop"}

\* A third provider retry is never started.
RetryBound == \A w \in Workers : pc[w] = "retry" => attempts[w] < 2

\* A supervisor whose copy holds a final outcome is on its way to store it and stop.
Closing == \A w \in Workers :
    /\ pc[w] \in {"renew", "write"} => after[w] \in Afters
    /\ pc[w] \in Working /\ held[w].status \in Final
         => pc[w] \in {"renew", "write"} /\ after[w] = "stop"

\* The owner's copy covers the stored row.
Covers(r) == record.status \notin Final /\ record.calls <= r.calls /\ record.limit = r.limit
Fresh == \A w \in Workers : lease.owner = w /\ pc[w] \in Working => Covers(held[w])

\* Nothing happens before the row is inserted.
Unborn == pc[Creator] = "idle" =>
    /\ record = Row("absent", Limit)
    /\ migrating = {}
    /\ \A w \in Workers : pc[w] \in {"idle", "returned"}

ControlInv == ControlTypes /\ Closing /\ Fresh /\ Unborn

Inv == StoreTypes /\ LocalTypes /\ RetryBound /\ ControlInv

Leases == [owner : Workers \union Migrators \union {Nobody}, ttl : 0 .. LeaseTicks]
Segments == [on : BOOLEAN, iters : Nat, calls : Nat, pend : ReceiptStates]
Budgets == [limit : Nat \union {NoLimit}, used : Nat]

USE LimitAssumption, LeaseAssumption, CreatorAssumption, OwnersAssumption, ReasonsAssumption

-----------------------------------------------------------------------------
(* Facts about the data *)

\* Rows are closed under the updates the supervisor and a migration make.
LEMMA RowFacts ==
    /\ \A s \in Statuses : Row(s, Limit) \in Rows
    /\ \A r \in Rows, s \in Statuses :
         /\ [r EXCEPT !.status = s] \in Rows
         /\ [r EXCEPT !.status = s].status = s
         /\ [r EXCEPT !.status = s].calls = r.calls
         /\ [r EXCEPT !.status = s].limit = r.limit
    /\ \A r \in Rows : [r EXCEPT !.limit = NewLimit] \in Rows
  BY DEF Row, Rows, Statuses

\* The statuses the code writes.
LEMMA StatusFacts ==
    \A s \in {"absent", "admitted", "running", "continuing", "completed", "waiting_user",
              "cancelled", "failed", "exhausted", "stalled"} : s \in Statuses
  BY DEF Statuses

\* Every control point is one of PCs.
LEMMA PcFacts ==
    \A p \in {"preparing", "segment", "retrywait", "boundary", "renew", "write", "admit", "loop",
              "retry", "continue", "resume", "idle", "loaded", "acquire", "reload", "stop",
              "release", "returned", "dead"} : p \in PCs
  BY DEF PCs, Working, Beating

\* The lease statements keep the lease's type, and who owns it afterwards.
LEMMA LeaseFacts ==
  ASSUME lease \in Leases
  PROVE  /\ \A o \in Workers \union Migrators :
              /\ Leased(o) \in Leases /\ Released(o) \in Leases
              /\ Leased(o).owner = o
              /\ Released(o).owner \in {lease.owner, Nobody}
              /\ Released(o).owner # o
         /\ lease.ttl > 0 => /\ [lease EXCEPT !.ttl = @ - 1] \in Leases
                             /\ [lease EXCEPT !.ttl = @ - 1].owner = lease.owner
  BY DEF Leases, Leased, Released

\* Segments and budgets are closed under their updates.
LEMMA SegmentFacts ==
    /\ IdleSegment \in Segments
    /\ \A b \in BOOLEAN : [IdleSegment EXCEPT !.on = b] \in Segments
    /\ \A s \in Segments : [s EXCEPT !.on = FALSE] \in Segments
    /\ \A s \in Segments, p \in ReceiptStates : [s EXCEPT !.pend = p] \in Segments
    /\ NewBudget \in Budgets
  BY DEF IdleSegment, Segments, ReceiptStates, NewBudget, Budgets

-----------------------------------------------------------------------------
(* Control steps *)

\* Neither the row changes nor somebody new becomes the lease owner.
Quiet == record' = record /\ lease'.owner \in {lease.owner, Nobody} /\ migrating' = migrating

Move(w, p, r, q) ==
    /\ pc' = [pc EXCEPT ![w] = p]
    /\ held' = [held EXCEPT ![w] = r]
    /\ after' = [after EXCEPT ![w] = q]

Running(w) == pc[w] \notin {"idle", "returned"}

\* What a supervisor's step must respect to keep the control invariant.
LEMMA MoveInv ==
  ASSUME ControlInv, NEW w \in Workers, NEW p \in PCs, NEW r \in Rows, NEW q \in PCs,
         Move(w, p, r, q), Running(w), p # "idle",
         record' = record, migrating' = migrating,
         lease'.owner \in {lease.owner, Nobody} \/ (lease'.owner = w /\ p \notin Working),
         p \in {"renew", "write"} => q \in Afters,
         p \in Working /\ r.status \in Final => p \in {"renew", "write"} /\ q = "stop",
         p \in Working /\ lease.owner = w => Covers(r)
  PROVE  ControlInv'
  <1>. USE DEF Running
  <1>1. ControlTypes'
    BY DEF ControlInv, ControlTypes, Move
  <1>2. Closing'
    BY DEF ControlInv, ControlTypes, Closing, Move
  <1>3. Fresh'
    BY DEF ControlInv, ControlTypes, Fresh, Covers, Move
  <1>4. Unborn'
    BY DEF ControlInv, ControlTypes, Unborn, Move
  <1>. QED BY <1>1, <1>2, <1>3, <1>4 DEF ControlInv

\* A step that only moves.
LEMMA GotoInv ==
  ASSUME ControlInv, NEW w \in Workers, NEW p \in PCs, Goto(w, p), Running(w), Quiet,
         p \notin {"idle", "renew", "write"},
         p \in Working => pc[w] \in Working \ {"renew", "write"}
  PROVE  ControlInv'
  <1>1. held[w] \in Rows /\ after[w] \in PCs BY DEF ControlInv, ControlTypes
  <1>2. Move(w, p, held[w], after[w]) BY DEF ControlInv, ControlTypes, Goto, Move
  <1>3. p \in Working => held[w].status \notin Final BY DEF ControlInv, Closing
  <1>4. p \in Working /\ lease.owner = w => Covers(held[w]) BY DEF ControlInv, Fresh
  <1>. QED BY <1>1, <1>2, <1>3, <1>4, MoveInv DEF Quiet

\* A step that hands a row to save(): one that covers the worker's copy, or the
\* row just read.
Carries(w, r) ==
    \/ pc[w] \in Working /\ r.calls >= held[w].calls /\ r.limit = held[w].limit
    \/ record.status \notin Final /\ r.calls = record.calls /\ r.limit = record.limit

\* save() with a row that is not final, or is final and leads to the Stop hook.
LEMMA SaveInv ==
  ASSUME StoreTypes, ControlInv, NEW w \in Workers, NEW r \in Rows, NEW p \in Afters,
         SaveThen(w, r, p), Running(w), Quiet, Carries(w, r),
         r.status \in Final => p = "stop"
  PROVE  ControlInv'
  <1>1. p \in PCs /\ "renew" \in PCs BY PcFacts DEF Afters
  <1>2. Move(w, "renew", r, p) BY DEF SaveThen, Move
  <1>3. lease.owner = w => Covers(r)
    <2>1. record \in Rows /\ held[w] \in Rows BY DEF StoreTypes, ControlInv, ControlTypes
    <2>2. record.calls \in Nat /\ held[w].calls \in Nat /\ r.calls \in Nat BY <2>1 DEF Rows
    <2>. QED BY <2>2 DEF Carries, Covers, ControlInv, Fresh
  <1>. QED BY <1>1, <1>2, <1>3, MoveInv DEF Quiet

\* save() with a status that is not final.
LEMMA StatusInv ==
  ASSUME StoreTypes, ControlInv, NEW w \in Workers, NEW r \in Rows, NEW s \in Statuses \ Final,
         NEW p \in Afters, SaveThen(w, [r EXCEPT !.status = s], p),
         Running(w), Quiet, Carries(w, r)
  PROVE  ControlInv'
  <1>1. Carries(w, [r EXCEPT !.status = s]) BY RowFacts DEF Carries
  <1>. QED BY <1>1, SaveInv, RowFacts

\* finish().
LEMMA FinishInv ==
  ASSUME StoreTypes, ControlInv, NEW w \in Workers, NEW r \in Rows, NEW s \in Statuses,
         Finish(w, r, s), Running(w), Quiet, Carries(w, r)
  PROVE  ControlInv'
  <1>1. Carries(w, [r EXCEPT !.status = s]) BY RowFacts DEF Carries
  <1>2. "stop" \in Afters BY DEF Afters
  <1>. QED BY <1>1, <1>2, SaveInv, RowFacts DEF Finish

\* A step that leaves the supervisors where they are.
LEMMA StaticInv ==
  ASSUME ControlInv, UNCHANGED <<pc, after, held>>, Quiet
  PROVE  ControlInv'
  BY DEF ControlInv, ControlTypes, Closing, Fresh, Covers, Unborn, Quiet

\* An expired or released lease, a renewal by the owner, or no lease change at
\* all are quiet.
LEMMA QuietFacts ==
  ASSUME StoreTypes, record' = record, migrating' = migrating,
         \/ lease' = lease
         \/ \E w \in Workers : lease' = Released(w) \/ (CanRenew(w) /\ lease' = Leased(w))
  PROVE  Quiet
  BY LeaseFacts DEF StoreTypes, Leases, Quiet, CanRenew

\* The steps a supervisor between its reload and its stored outcome may take.
LEMMA WorkerMoves ==
  ASSUME StoreTypes, ControlInv, NEW w \in Workers, pc[w] \in Working, Quiet
  PROVE  /\ Unwind(w) => ControlInv'
         /\ \A s \in Statuses : Finish(w, held[w], s) => ControlInv'
         /\ \A s \in Statuses \ Final, p \in Afters :
              SaveThen(w, [held[w] EXCEPT !.status = s], p) => ControlInv'
         /\ pc[w] \notin {"renew", "write"} =>
              /\ \A p \in Afters : SaveThen(w, held[w], p) => ControlInv'
              /\ \A p \in PCs \ {"idle", "renew", "write"} : Goto(w, p) => ControlInv'
  <1>1. held[w] \in Rows /\ Running(w)
    BY DEF ControlInv, ControlTypes, Running, Working, Beating
  <1>2. Carries(w, held[w]) BY <1>1 DEF Carries, Rows
  <1>3. ASSUME Unwind(w) PROVE ControlInv'
    BY <1>1, <1>3, GotoInv, PcFacts DEF Unwind, Working, Beating
  <1>4. ASSUME NEW s \in Statuses, Finish(w, held[w], s) PROVE ControlInv'
    BY <1>1, <1>2, <1>4, FinishInv
  <1>5. ASSUME NEW s \in Statuses \ Final, NEW p \in Afters,
               SaveThen(w, [held[w] EXCEPT !.status = s], p)
        PROVE ControlInv'
    BY <1>1, <1>2, <1>5, StatusInv
  <1>6. ASSUME pc[w] \notin {"renew", "write"}, NEW p \in Afters, SaveThen(w, held[w], p)
        PROVE ControlInv'
    <2>1. held[w].status \notin Final BY <1>6 DEF ControlInv, Closing
    <2>. QED BY <1>1, <1>2, <1>6, <2>1, SaveInv
  <1>7. ASSUME pc[w] \notin {"renew", "write"}, NEW p \in PCs \ {"idle", "renew", "write"}, Goto(w, p)
        PROVE ControlInv'
    BY <1>1, <1>7, GotoInv
  <1>. QED BY <1>3, <1>4, <1>5, <1>6, <1>7

-----------------------------------------------------------------------------
(* One lemma per action: it preserves the invariant *)

\* The invariant survives Load.
LEMMA LoadInv == ASSUME Inv, NEW w \in Workers, Load(w) PROVE Inv'
  <1>0. StoreTypes /\ LocalTypes /\ RetryBound /\ ControlInv BY DEF Inv
  <1>1. StoreTypes'
    BY <1>0, RowFacts, LeaseFacts, StatusFacts
    DEF Load, StoreTypes, store, Leases, ReceiptStates, ControlInv, ControlTypes, LocalTypes
  <1>2. LocalTypes'
    <2>1. [limit |-> record.limit, used |-> record.calls] \in Budgets
      BY <1>0 DEF StoreTypes, Rows, Budgets
    <2>2. budget' \in [Workers -> Budgets]
      <3>1. budget \in [Workers -> Budgets] BY <1>0 DEF LocalTypes, Budgets
      <3>2. \/ UNCHANGED budget
            \/ budget' = [budget EXCEPT ![w] = [limit |-> record.limit, used |-> record.calls]]
        BY DEF Load, local
      <3>. QED BY <2>1, <3>1, <3>2
    <2>3. UNCHANGED <<due, seg, lost, sig, attempts, safeBit, registered>>
      BY DEF Load, local
    <2>4. budget' \in [Workers -> [limit : Nat \union {NoLimit}, used : Nat]] BY <2>2 DEF Budgets
    <2>. QED BY <1>0, <2>3, <2>4 DEF LocalTypes
  <1>3. RetryBound'
    BY <1>0 DEF Load, RetryBound, Goto, SaveThen, Finish, Unwind, local, ControlInv, ControlTypes, At
  <1>4. ControlInv'
    <2>1. CASE record.status \in Final \union {"absent"}
      BY <1>0, <2>1 DEF Load, Goto, At, ControlInv, ControlTypes, Closing, Fresh, Covers, Unborn, PCs, Working, Beating, store
    <2>2. CASE record.status \notin Final \union {"absent"}
      <3>1. pc[Creator] # "idle" BY <1>0, <2>2, RowFacts DEF ControlInv, Unborn, Row
      <3>2. pc' = [pc EXCEPT ![w] = "loaded"] /\ held' = [held EXCEPT ![w] = record] /\ UNCHANGED <<after, record, lease, migrating>>
        BY <2>2 DEF Load, store
      <3>3. record \in Rows BY <1>0 DEF StoreTypes
      <3>4. ControlTypes' BY <1>0, <3>2, <3>3, PcFacts DEF ControlInv, ControlTypes
      <3>5. Closing' /\ Fresh' BY <1>0, <3>2 DEF ControlInv, ControlTypes, Closing, Fresh, Covers, Working, Beating
      <3>6. Unborn' BY <1>0, <3>1, <3>2 DEF ControlInv, ControlTypes, Unborn
      <3>. QED BY <3>4, <3>5, <3>6 DEF ControlInv
    <2>. QED BY <2>1, <2>2
  <1>. QED BY <1>1, <1>2, <1>3, <1>4 DEF Inv

\* The invariant survives ReadLease.
LEMMA ReadLeaseInv == ASSUME Inv, NEW w \in Workers, ReadLease(w) PROVE Inv'
  <1>0. StoreTypes /\ LocalTypes /\ RetryBound /\ ControlInv BY DEF Inv
  <1>1. StoreTypes'
    BY <1>0, RowFacts, LeaseFacts, StatusFacts
    DEF ReadLease, StoreTypes, store, Leases, ReceiptStates, ControlInv, ControlTypes, LocalTypes
  <1>2. LocalTypes'
    BY <1>0, SegmentFacts DEF ReadLease, LocalTypes, Segments, Budgets, RetryBound, local, At
  <1>3. RetryBound'
    BY <1>0 DEF ReadLease, RetryBound, Goto, SaveThen, Finish, Unwind, local, ControlInv, ControlTypes, At
  <1>4. ControlInv'
    <2>1. record \in Rows /\ held[w] \in Rows BY <1>0 DEF StoreTypes, ControlInv, ControlTypes
    <2>2. Quiet BY <1>0, QuietFacts DEF ReadLease, store
    <2>. QED
      BY <1>0, <2>1, <2>2, GotoInv, StaticInv, PcFacts
      DEF ReadLease, Unwind, At, Running, Working, Beating
  <1>. QED BY <1>1, <1>2, <1>3, <1>4 DEF Inv

\* The invariant survives Acquire.
LEMMA AcquireInv == ASSUME Inv, NEW w \in Workers, Acquire(w) PROVE Inv'
  <1>0. StoreTypes /\ LocalTypes /\ RetryBound /\ ControlInv BY DEF Inv
  <1>1. StoreTypes'
    BY <1>0, RowFacts, LeaseFacts, StatusFacts
    DEF Acquire, StoreTypes, store, Leases, ReceiptStates, ControlInv, ControlTypes, LocalTypes
  <1>2. LocalTypes'
    <2>1. lost' \in [Workers -> BOOLEAN] BY <1>0 DEF Acquire, LocalTypes
    <2>2. registered' \in [{Process[v] : v \in Workers} -> Workers \union {Nobody}]
      BY <1>0 DEF Acquire, LocalTypes
    <2>. QED BY <1>0, <2>1, <2>2 DEF Acquire, LocalTypes
  <1>3. RetryBound'
    BY <1>0 DEF Acquire, RetryBound, Goto, SaveThen, Finish, Unwind, local, ControlInv, ControlTypes, At
  <1>4. ControlInv'
    <2>1. Running(w) BY DEF Acquire, At, Running
    <2>2. CASE CanAcquire
      <3>1. Move(w, "reload", held[w], after[w]) BY <1>0, <2>2 DEF Acquire, Goto, Move, ControlInv, ControlTypes
      <3>2. record' = record /\ migrating' = migrating /\ lease'.owner = w
        BY <1>0, <2>2, LeaseFacts DEF Acquire, StoreTypes, Leases
      <3>3. held[w] \in Rows /\ after[w] \in PCs BY <1>0 DEF ControlInv, ControlTypes
      <3>. QED BY <1>0, <2>1, <3>1, <3>2, <3>3, PcFacts, MoveInv DEF Working, Beating
    <2>3. CASE ~CanAcquire
      <3>1. Quiet BY <1>0, <2>3, QuietFacts DEF Acquire
      <3>. QED BY <1>0, <2>1, <2>3, <3>1, GotoInv, PcFacts DEF Acquire, Unwind, Working, Beating
    <2>. QED BY <2>2, <2>3
  <1>. QED BY <1>1, <1>2, <1>3, <1>4 DEF Inv

\* The invariant survives Reload.
LEMMA ReloadInv == ASSUME Inv, NEW w \in Workers, Reload(w) PROVE Inv'
  <1>0. StoreTypes /\ LocalTypes /\ RetryBound /\ ControlInv BY DEF Inv
  <1>1. StoreTypes'
    BY <1>0, RowFacts, LeaseFacts, StatusFacts
    DEF Reload, StoreTypes, store, Leases, ReceiptStates, ControlInv, ControlTypes, LocalTypes
  <1>2. LocalTypes'
    BY <1>0, SegmentFacts DEF Reload, LocalTypes, Segments, Budgets, RetryBound, local, At
  <1>3. RetryBound'
    BY <1>0 DEF Reload, RetryBound, Goto, SaveThen, Finish, Unwind, local, ControlInv, ControlTypes, At
  <1>4. ControlInv'
    <2>1. Quiet /\ Running(w) BY <1>0, QuietFacts DEF Reload, store, At, Running
    <2>2. record \in Rows /\ held[w] \in Rows /\ after[w] \in PCs BY <1>0 DEF StoreTypes, ControlInv, ControlTypes
    <2>3. CASE record.status \in Final
      BY <1>0, <2>1, <2>3, GotoInv, PcFacts DEF Reload, Unwind, Working, Beating
    <2>4. CASE record.status \notin Final
      <3>1. Carries(w, record) BY <2>4 DEF Carries
      <3>2. Covers(record) BY <2>2, <2>4 DEF Covers, Rows
      <3>3. CASE w # Creator /\ UseBoundary
        <4>1. Move(w, "boundary", record, after[w])
          BY <1>0, <2>4, <3>3 DEF Reload, Move, ControlInv, ControlTypes
        <4>. QED BY <1>0, <2>1, <2>2, <2>4, <3>2, <4>1, MoveInv, PcFacts DEF Quiet
      <3>4. CASE Finish(w, record, "failed")
        BY <1>0, <2>1, <2>2, <3>1, <3>4, FinishInv, StatusFacts
      <3>5. CASE SaveThen(w, [record EXCEPT !.status = "running"], "admit")
        BY <1>0, <2>1, <2>2, <3>1, <3>5, StatusInv, StatusFacts DEF Final, Afters
      <3>. QED BY <2>4, <3>3, <3>4, <3>5 DEF Reload
    <2>. QED BY <2>3, <2>4
  <1>. QED BY <1>1, <1>2, <1>3, <1>4 DEF Inv

\* The invariant survives ResumeBoundary.
LEMMA ResumeBoundaryInv == ASSUME Inv, NEW w \in Workers, ResumeBoundary(w) PROVE Inv'
  <1>0. StoreTypes /\ LocalTypes /\ RetryBound /\ ControlInv BY DEF Inv
  <1>1. StoreTypes'
    BY <1>0, RowFacts, LeaseFacts, StatusFacts
    DEF ResumeBoundary, StoreTypes, store, Leases, ReceiptStates, ControlInv, ControlTypes, LocalTypes
  <1>2. LocalTypes'
    BY <1>0, SegmentFacts DEF ResumeBoundary, LocalTypes, Segments, Budgets, RetryBound, local, At
  <1>3. RetryBound'
    BY <1>0 DEF ResumeBoundary, RetryBound, Goto, SaveThen, Finish, Unwind, local, ControlInv, ControlTypes, At
  <1>4. ControlInv'
    <2>1. Quiet BY <1>0, QuietFacts DEF ResumeBoundary, store
    <2>2. pc[w] \in Working \ {"renew", "write"} BY DEF ResumeBoundary, At, Working, Beating
    <2>. QED BY <1>0, <2>1, <2>2, WorkerMoves, StatusFacts, PcFacts DEF ResumeBoundary, Final, Afters
  <1>. QED BY <1>1, <1>2, <1>3, <1>4 DEF Inv

\* The invariant survives SaveRenew.
LEMMA SaveRenewInv == ASSUME Inv, NEW w \in Workers, SaveRenew(w) PROVE Inv'
  <1>0. StoreTypes /\ LocalTypes /\ RetryBound /\ ControlInv BY DEF Inv
  <1>1. StoreTypes'
    BY <1>0, RowFacts, LeaseFacts, StatusFacts
    DEF SaveRenew, StoreTypes, store, Leases, ReceiptStates, ControlInv, ControlTypes, LocalTypes
  <1>2. LocalTypes'
    BY <1>0, SegmentFacts DEF SaveRenew, LocalTypes, Segments, Budgets, RetryBound, local, At
  <1>3. RetryBound'
    BY <1>0 DEF SaveRenew, RetryBound, Goto, SaveThen, Finish, Unwind, local, ControlInv, ControlTypes, At
  <1>4. ControlInv'
    <2>1. Quiet BY <1>0, QuietFacts DEF SaveRenew
    <2>2. pc[w] = "renew" /\ "renew" \in Working BY DEF SaveRenew, At, Working
    <2>3. CASE CanRenew(w)
      <3>1. Move(w, "write", held[w], after[w])
        BY <1>0, <2>3 DEF SaveRenew, Goto, Move, ControlInv, ControlTypes
      <3>2. held[w] \in Rows /\ after[w] \in PCs BY <1>0 DEF ControlInv, ControlTypes
      <3>3. after[w] \in Afters /\ (held[w].status \in Final => after[w] = "stop")
        BY <1>0, <2>2 DEF ControlInv, Closing
      <3>4. lease.owner = w => Covers(held[w]) BY <1>0, <2>2 DEF ControlInv, Fresh
      <3>. QED BY <1>0, <2>1, <2>2, <3>1, <3>2, <3>3, <3>4, MoveInv, PcFacts DEF Quiet, Running
    <2>4. CASE ~CanRenew(w)
      BY <1>0, <2>1, <2>2, <2>4, WorkerMoves DEF SaveRenew
    <2>. QED BY <2>3, <2>4
  <1>. QED BY <1>1, <1>2, <1>3, <1>4 DEF Inv

\* The invariant survives SaveWrite.
LEMMA SaveWriteInv == ASSUME Inv, NEW w \in Workers, SaveWrite(w) PROVE Inv'
  <1>0. StoreTypes /\ LocalTypes /\ RetryBound /\ ControlInv BY DEF Inv
  <1>1. StoreTypes'
    BY <1>0, RowFacts, LeaseFacts, StatusFacts
    DEF SaveWrite, StoreTypes, store, Leases, ReceiptStates, ControlInv, ControlTypes, LocalTypes
  <1>2. LocalTypes'
    BY <1>0, SegmentFacts DEF SaveWrite, LocalTypes, Segments, Budgets, RetryBound, local, At
  <1>3. RetryBound'
    <2>1. pc[w] = "write" => after[w] # "retry" BY <1>0 DEF ControlInv, Closing, Afters
    <2>. QED BY <1>0, <2>1 DEF SaveWrite, RetryBound, Goto, Unwind, local, ControlInv, ControlTypes, At
  <1>4. ControlInv'
    <2>1. pc[w] = "write" /\ "write" \in Working BY DEF SaveWrite, At, Working
    <2>2. CASE CanSave(w)
      <3>1. /\ record' = held[w] /\ lease' = lease /\ held' = held /\ migrating' = migrating
            /\ lease.owner = w
            /\ pc' = [pc EXCEPT ![w] = after[w]] /\ after' = [after EXCEPT ![w] = "idle"]
        BY <2>2 DEF SaveWrite, CanSave
      <3>2. after[w] \in Afters /\ (held[w].status \in Final => after[w] = "stop")
        BY <1>0, <2>1 DEF ControlInv, Closing
      <3>3. held[w] \in Rows BY <1>0 DEF ControlInv, ControlTypes
      <3>4. ControlTypes' BY <1>0, <3>1, <3>2, PcFacts DEF ControlInv, ControlTypes, Afters
      <3>5. Closing'
        BY <1>0, <3>1, <3>2 DEF ControlInv, ControlTypes, Closing, Afters, Working, Beating
      <3>6. Fresh'
        BY <1>0, <3>1, <3>2, <3>3 DEF ControlInv, ControlTypes, Fresh, Covers, Afters, Working, Beating, Rows
      <3>7. Unborn'
        BY <1>0, <2>1, <3>1, <3>2 DEF ControlInv, ControlTypes, Unborn, Afters
      <3>. QED BY <3>4, <3>5, <3>6, <3>7 DEF ControlInv
    <2>3. CASE ~CanSave(w)
      <3>1. Quiet BY <1>0, <2>3, QuietFacts DEF SaveWrite
      <3>. QED BY <1>0, <2>1, <2>3, <3>1, WorkerMoves DEF SaveWrite
    <2>. QED BY <2>2, <2>3
  <1>. QED BY <1>1, <1>2, <1>3, <1>4 DEF Inv

\* The invariant survives Admit.
LEMMA AdmitInv == ASSUME Inv, NEW w \in Workers, Admit(w) PROVE Inv'
  <1>0. StoreTypes /\ LocalTypes /\ RetryBound /\ ControlInv BY DEF Inv
  <1>1. StoreTypes'
    BY <1>0, RowFacts, LeaseFacts, StatusFacts
    DEF Admit, StoreTypes, store, Leases, ReceiptStates, ControlInv, ControlTypes, LocalTypes
  <1>2. LocalTypes'
    BY <1>0, SegmentFacts DEF Admit, LocalTypes, Segments, Budgets, RetryBound, local, At
  <1>3. RetryBound'
    BY <1>0 DEF Admit, RetryBound, Goto, SaveThen, Finish, Unwind, local, ControlInv, ControlTypes, At
  <1>4. ControlInv'
    <2>1. Quiet BY <1>0, QuietFacts DEF Admit, store
    <2>2. pc[w] \in Working \ {"renew", "write"} BY DEF Admit, At, Working, Beating
    <2>. QED BY <1>0, <2>1, <2>2, WorkerMoves, StatusFacts, PcFacts DEF Admit, Final, Afters
  <1>. QED BY <1>1, <1>2, <1>3, <1>4 DEF Inv

\* The invariant survives PrepareEnds.
LEMMA PrepareEndsInv == ASSUME Inv, NEW w \in Workers, PrepareEnds(w) PROVE Inv'
  <1>0. StoreTypes /\ LocalTypes /\ RetryBound /\ ControlInv BY DEF Inv
  <1>1. StoreTypes'
    BY <1>0, RowFacts, LeaseFacts, StatusFacts
    DEF PrepareEnds, StoreTypes, store, Leases, ReceiptStates, ControlInv, ControlTypes, LocalTypes
  <1>2. LocalTypes'
    BY <1>0, SegmentFacts DEF PrepareEnds, LocalTypes, Segments, Budgets, RetryBound, local, At
  <1>3. RetryBound'
    BY <1>0 DEF PrepareEnds, RetryBound, Goto, SaveThen, Finish, Unwind, local, ControlInv, ControlTypes, At
  <1>4. ControlInv'
    <2>1. Quiet BY <1>0, QuietFacts DEF PrepareEnds, store
    <2>2. pc[w] \in Working \ {"renew", "write"} BY DEF PrepareEnds, At, Working, Beating
    <2>. QED BY <1>0, <2>1, <2>2, WorkerMoves, StatusFacts, PcFacts DEF PrepareEnds, Final, Afters
  <1>. QED BY <1>1, <1>2, <1>3, <1>4 DEF Inv

\* The invariant survives Loop.
LEMMA LoopInv == ASSUME Inv, NEW w \in Workers, Loop(w) PROVE Inv'
  <1>0. StoreTypes /\ LocalTypes /\ RetryBound /\ ControlInv BY DEF Inv
  <1>1. StoreTypes'
    BY <1>0, RowFacts, LeaseFacts, StatusFacts
    DEF Loop, StoreTypes, store, Leases, ReceiptStates, ControlInv, ControlTypes, LocalTypes
  <1>2. LocalTypes'
    <2>1. seg' \in [Workers -> Segments]
      <3>1. (~lost[w]) \in BOOLEAN BY <1>0 DEF LocalTypes
      <3>2. CASE seg' = seg BY <1>0, <3>2 DEF LocalTypes, Segments
      <3>3. CASE seg' = [seg EXCEPT ![w] = [IdleSegment EXCEPT !.on = ~lost[w]]]
        BY <1>0, <3>1, <3>3, SegmentFacts DEF LocalTypes, Segments
      <3>. QED BY <3>2, <3>3 DEF Loop
    <2>. QED BY <1>0, <2>1 DEF Loop, LocalTypes, Segments
  <1>3. RetryBound'
    BY <1>0 DEF Loop, RetryBound, Goto, SaveThen, Finish, Unwind, local, ControlInv, ControlTypes, At
  <1>4. ControlInv'
    <2>1. Quiet BY <1>0, QuietFacts DEF Loop, store
    <2>2. pc[w] \in Working \ {"renew", "write"} BY DEF Loop, At, Working, Beating
    <2>. QED BY <1>0, <2>1, <2>2, WorkerMoves, StatusFacts, PcFacts DEF Loop, Final, Afters
  <1>. QED BY <1>1, <1>2, <1>3, <1>4 DEF Inv

\* The invariant survives Displaced.
LEMMA DisplacedInv == ASSUME Inv, NEW w \in Workers, Displaced(w) PROVE Inv'
  <1>0. StoreTypes /\ LocalTypes /\ RetryBound /\ ControlInv BY DEF Inv
  <1>1. StoreTypes'
    BY <1>0, RowFacts, LeaseFacts, StatusFacts
    DEF Displaced, StoreTypes, store, Leases, ReceiptStates, ControlInv, ControlTypes, LocalTypes
  <1>2. LocalTypes'
    BY <1>0, SegmentFacts DEF Displaced, LocalTypes, Segments, Budgets, RetryBound, local, At
  <1>3. RetryBound'
    BY <1>0 DEF Displaced, RetryBound, Goto, SaveThen, Finish, Unwind, local, ControlInv, ControlTypes, At
  <1>4. ControlInv'
    <2>1. Quiet BY <1>0, QuietFacts DEF Displaced, store
    <2>2. pc[w] \in Working \ {"renew", "write"} BY DEF Displaced, At, Working, Beating
    <2>. QED BY <1>0, <2>1, <2>2, WorkerMoves, StatusFacts, PcFacts DEF Displaced, Final, Afters
  <1>. QED BY <1>1, <1>2, <1>3, <1>4 DEF Inv

\* The invariant survives Retry.
LEMMA RetryInv == ASSUME Inv, NEW w \in Workers, Retry(w) PROVE Inv'
  <1>0. StoreTypes /\ LocalTypes /\ RetryBound /\ ControlInv BY DEF Inv
  <1>1. StoreTypes'
    BY <1>0, RowFacts, LeaseFacts, StatusFacts
    DEF Retry, StoreTypes, store, Leases, ReceiptStates, ControlInv, ControlTypes, LocalTypes
  <1>2. LocalTypes'
    <2>1. attempts[w] \in 0 .. 1 BY <1>0 DEF Retry, At, RetryBound, LocalTypes
    <2>2. attempts' \in [Workers -> 0 .. 2] BY <1>0, <2>1 DEF Retry, LocalTypes
    <2>. QED BY <1>0, <2>2 DEF Retry, LocalTypes
  <1>3. RetryBound'
    <2>1. pc'[w] # "retry" /\ \A v \in Workers \ {w} : pc'[v] = pc[v] /\ attempts'[v] = attempts[v]
      BY <1>0 DEF Retry, Goto, SaveThen, Finish, Unwind, ControlInv, ControlTypes, LocalTypes
    <2>. QED BY <1>0, <2>1 DEF RetryBound
  <1>4. ControlInv'
    <2>1. Quiet BY <1>0, QuietFacts DEF Retry, store
    <2>2. pc[w] \in Working \ {"renew", "write"} BY DEF Retry, At, Working, Beating
    <2>. QED BY <1>0, <2>1, <2>2, WorkerMoves, StatusFacts, PcFacts DEF Retry, Final, Afters
  <1>. QED BY <1>1, <1>2, <1>3, <1>4 DEF Inv

\* The invariant survives RetryWaitEnds.
LEMMA RetryWaitEndsInv == ASSUME Inv, NEW w \in Workers, RetryWaitEnds(w) PROVE Inv'
  <1>0. StoreTypes /\ LocalTypes /\ RetryBound /\ ControlInv BY DEF Inv
  <1>1. StoreTypes'
    BY <1>0, RowFacts, LeaseFacts, StatusFacts
    DEF RetryWaitEnds, StoreTypes, store, Leases, ReceiptStates, ControlInv, ControlTypes, LocalTypes
  <1>2. LocalTypes'
    BY <1>0, SegmentFacts DEF RetryWaitEnds, LocalTypes, Segments, Budgets, RetryBound, local, At
  <1>3. RetryBound'
    BY <1>0 DEF RetryWaitEnds, RetryBound, Goto, SaveThen, Finish, Unwind, local, ControlInv, ControlTypes, At
  <1>4. ControlInv'
    <2>1. Quiet BY <1>0, QuietFacts DEF RetryWaitEnds, store
    <2>2. pc[w] \in Working \ {"renew", "write"} BY DEF RetryWaitEnds, At, Working, Beating
    <2>. QED BY <1>0, <2>1, <2>2, WorkerMoves, StatusFacts, PcFacts DEF RetryWaitEnds, Final, Afters
  <1>. QED BY <1>1, <1>2, <1>3, <1>4 DEF Inv

\* The invariant survives Continue.
LEMMA ContinueInv == ASSUME Inv, NEW w \in Workers, Continue(w) PROVE Inv'
  <1>0. StoreTypes /\ LocalTypes /\ RetryBound /\ ControlInv BY DEF Inv
  <1>1. StoreTypes'
    BY <1>0, LeaseFacts DEF Continue, StoreTypes, Leases
  <1>2. LocalTypes'
    BY <1>0, SegmentFacts DEF Continue, LocalTypes, Segments, Budgets, RetryBound, local, At
  <1>3. RetryBound'
    <2>0. \/ Unwind(w) \/ Finish(w, held[w], "failed") \/ Finish(w, held[w], "stalled")
          \/ SaveThen(w, [held[w] EXCEPT !.status = "continuing"], "resume")
      <3>1. held[w].noProgress \in Nat BY <1>0 DEF ControlInv, ControlTypes, Rows
      <3>. QED BY <3>1 DEF Continue
    <2>1. pc'[w] # "retry" /\ \A v \in Workers \ {w} : pc'[v] = pc[v]
      BY <1>0, <2>0 DEF Goto, SaveThen, Finish, Unwind, ControlInv, ControlTypes
    <2>. QED BY <1>0, <2>1 DEF RetryBound, Continue, local
  <1>4. ControlInv'
    <2>0. \/ Unwind(w) \/ Finish(w, held[w], "failed") \/ Finish(w, held[w], "stalled")
          \/ SaveThen(w, [held[w] EXCEPT !.status = "continuing"], "resume")
      <3>1. held[w].noProgress \in Nat BY <1>0 DEF ControlInv, ControlTypes, Rows
      <3>. QED BY <3>1 DEF Continue
    <2>1. Quiet BY <1>0, QuietFacts DEF Continue
    <2>2. pc[w] \in Working \ {"renew", "write"} BY DEF Continue, At, Working, Beating
    <2>. QED BY <1>0, <2>0, <2>1, <2>2, WorkerMoves, StatusFacts DEF Final, Afters
  <1>. QED BY <1>1, <1>2, <1>3, <1>4 DEF Inv

\* The invariant survives Resume.
LEMMA ResumeInv == ASSUME Inv, NEW w \in Workers, Resume(w) PROVE Inv'
  <1>0. StoreTypes /\ LocalTypes /\ RetryBound /\ ControlInv BY DEF Inv
  <1>1. StoreTypes'
    BY <1>0, RowFacts, LeaseFacts, StatusFacts
    DEF Resume, StoreTypes, store, Leases, ReceiptStates, ControlInv, ControlTypes, LocalTypes
  <1>2. LocalTypes'
    BY <1>0, SegmentFacts DEF Resume, LocalTypes, Segments, Budgets, RetryBound, local, At
  <1>3. RetryBound'
    BY <1>0 DEF Resume, RetryBound, Goto, SaveThen, Finish, Unwind, local, ControlInv, ControlTypes, At
  <1>4. ControlInv'
    <2>1. Quiet BY <1>0, QuietFacts DEF Resume, store
    <2>2. pc[w] \in Working \ {"renew", "write"} BY DEF Resume, At, Working, Beating
    <2>. QED BY <1>0, <2>1, <2>2, WorkerMoves, StatusFacts, PcFacts DEF Resume, Final, Afters
  <1>. QED BY <1>1, <1>2, <1>3, <1>4 DEF Inv

\* The invariant survives Stop.
LEMMA StopInv == ASSUME Inv, NEW w \in Workers, Stop(w) PROVE Inv'
  <1>0. StoreTypes /\ LocalTypes /\ RetryBound /\ ControlInv BY DEF Inv
  <1>1. StoreTypes'
    BY <1>0, RowFacts, LeaseFacts, StatusFacts
    DEF Stop, StoreTypes, store, Leases, ReceiptStates, ControlInv, ControlTypes, LocalTypes
  <1>2. LocalTypes'
    BY <1>0, SegmentFacts DEF Stop, LocalTypes, Segments, Budgets, RetryBound, local, At
  <1>3. RetryBound'
    BY <1>0 DEF Stop, RetryBound, Goto, SaveThen, Finish, Unwind, local, ControlInv, ControlTypes, At
  <1>4. ControlInv'
    <2>1. record \in Rows /\ held[w] \in Rows BY <1>0 DEF StoreTypes, ControlInv, ControlTypes
    <2>2. Quiet BY <1>0, QuietFacts DEF Stop, store
    <2>. QED
      BY <1>0, <2>1, <2>2, GotoInv, StaticInv, PcFacts
      DEF Stop, Unwind, At, Running, Working, Beating
  <1>. QED BY <1>1, <1>2, <1>3, <1>4 DEF Inv

\* The invariant survives SegmentThrows.
LEMMA SegmentThrowsInv == ASSUME Inv, NEW w \in Workers, SegmentThrows(w) PROVE Inv'
  <1>0. StoreTypes /\ LocalTypes /\ RetryBound /\ ControlInv BY DEF Inv
  <1>1. StoreTypes'
    BY <1>0, RowFacts, LeaseFacts, StatusFacts
    DEF SegmentThrows, StoreTypes, store, Leases, ReceiptStates, ControlInv, ControlTypes, LocalTypes
  <1>2. LocalTypes'
    BY <1>0, SegmentFacts DEF SegmentThrows, LocalTypes, Segments, Budgets, RetryBound, local, At
  <1>3. RetryBound'
    BY <1>0 DEF SegmentThrows, RetryBound, Goto, SaveThen, Finish, Unwind, local, ControlInv, ControlTypes, At
  <1>4. ControlInv'
    <2>1. Quiet BY <1>0, QuietFacts DEF SegmentThrows, store
    <2>2. pc[w] \in Working \ {"renew", "write"} BY DEF SegmentThrows, At, Working, Beating
    <2>. QED BY <1>0, <2>1, <2>2, WorkerMoves, StatusFacts, PcFacts DEF SegmentThrows, Final, Afters
  <1>. QED BY <1>1, <1>2, <1>3, <1>4 DEF Inv

\* The invariant survives WriteCheck.
LEMMA WriteCheckInv == ASSUME Inv, NEW w \in Workers, WriteCheck(w) PROVE Inv'
  <1>0. StoreTypes /\ LocalTypes /\ RetryBound /\ ControlInv BY DEF Inv
  <1>1. StoreTypes'
    BY <1>0, RowFacts, LeaseFacts, StatusFacts
    DEF WriteCheck, StoreTypes, store, Leases, ReceiptStates, ControlInv, ControlTypes, LocalTypes
  <1>2. LocalTypes'
    <2>1. seg' \in [Workers -> Segments]
      <3>1. seg[w] \in Segments BY <1>0 DEF LocalTypes, Segments
      <3>2. (IF receipts[w] = "none" THEN "started" ELSE "completed") \in ReceiptStates
        BY DEF ReceiptStates
      <3>3. CASE seg' = [seg EXCEPT ![w].on = FALSE]
        BY <1>0, <3>1, <3>3, SegmentFacts DEF LocalTypes, Segments
      <3>4. CASE seg' = [seg EXCEPT ![w].pend = IF receipts[w] = "none" THEN "started" ELSE "completed"]
        BY <1>0, <3>1, <3>2, <3>4, SegmentFacts DEF LocalTypes, Segments
      <3>. QED BY <3>3, <3>4 DEF WriteCheck
    <2>. QED BY <1>0, <2>1 DEF WriteCheck, LocalTypes, Segments
  <1>3. RetryBound'
    BY <1>0 DEF WriteCheck, RetryBound, Goto, SaveThen, Finish, Unwind, local, ControlInv, ControlTypes, At
  <1>4. ControlInv'
    <2>1. record \in Rows /\ held[w] \in Rows BY <1>0 DEF StoreTypes, ControlInv, ControlTypes
    <2>2. Quiet BY <1>0, QuietFacts DEF WriteCheck, store
    <2>. QED
      BY <1>0, <2>1, <2>2, GotoInv, StaticInv, PcFacts
      DEF WriteCheck, Unwind, At, Running, Working, Beating
  <1>. QED BY <1>1, <1>2, <1>3, <1>4 DEF Inv

\* The invariant survives WriteCommit.
LEMMA WriteCommitInv == ASSUME Inv, NEW w \in Workers, WriteCommit(w) PROVE Inv'
  <1>0. StoreTypes /\ LocalTypes /\ RetryBound /\ ControlInv BY DEF Inv
  <1>1. StoreTypes'
    BY <1>0, RowFacts, LeaseFacts, StatusFacts
    DEF WriteCommit, StoreTypes, store, Leases, ReceiptStates, ControlInv, ControlTypes, LocalTypes
  <1>2. LocalTypes'
    <2>1. seg' \in [Workers -> Segments]
      <3>1. seg[w] \in Segments /\ "none" \in ReceiptStates BY <1>0 DEF LocalTypes, Segments, ReceiptStates
      <3>. QED BY <1>0, <3>1, SegmentFacts DEF WriteCommit, LocalTypes, Segments
    <2>. QED BY <1>0, <2>1 DEF WriteCommit, LocalTypes, Segments
  <1>3. RetryBound'
    BY <1>0 DEF WriteCommit, RetryBound, Goto, SaveThen, Finish, Unwind, local, ControlInv, ControlTypes, At
  <1>4. ControlInv'
    <2>1. record \in Rows /\ held[w] \in Rows BY <1>0 DEF StoreTypes, ControlInv, ControlTypes
    <2>2. Quiet BY <1>0, QuietFacts DEF WriteCommit, store
    <2>. QED
      BY <1>0, <2>1, <2>2, GotoInv, StaticInv, PcFacts
      DEF WriteCommit, Unwind, At, Running, Working, Beating
  <1>. QED BY <1>1, <1>2, <1>3, <1>4 DEF Inv

\* The invariant survives OrphanEnds.
LEMMA OrphanEndsInv == ASSUME Inv, NEW w \in Workers, OrphanEnds(w) PROVE Inv'
  <1>0. StoreTypes /\ LocalTypes /\ RetryBound /\ ControlInv BY DEF Inv
  <1>1. StoreTypes'
    BY <1>0, RowFacts, LeaseFacts, StatusFacts
    DEF OrphanEnds, StoreTypes, store, Leases, ReceiptStates, ControlInv, ControlTypes, LocalTypes
  <1>2. LocalTypes'
    BY <1>0, SegmentFacts DEF OrphanEnds, LocalTypes, Segments, Budgets, RetryBound, local, At
  <1>3. RetryBound'
    BY <1>0 DEF OrphanEnds, RetryBound, Goto, SaveThen, Finish, Unwind, local, ControlInv, ControlTypes, At
  <1>4. ControlInv'
    <2>1. record \in Rows /\ held[w] \in Rows BY <1>0 DEF StoreTypes, ControlInv, ControlTypes
    <2>2. Quiet BY <1>0, QuietFacts DEF OrphanEnds, store
    <2>. QED
      BY <1>0, <2>1, <2>2, GotoInv, StaticInv, PcFacts
      DEF OrphanEnds, Unwind, At, Running, Working, Beating
  <1>. QED BY <1>1, <1>2, <1>3, <1>4 DEF Inv

\* The invariant survives Beat.
LEMMA BeatInv == ASSUME Inv, NEW w \in Workers, Beat(w) PROVE Inv'
  <1>0. StoreTypes /\ LocalTypes /\ RetryBound /\ ControlInv BY DEF Inv
  <1>1. StoreTypes'
    BY <1>0, RowFacts, LeaseFacts, StatusFacts
    DEF Beat, StoreTypes, store, Leases, ReceiptStates, ControlInv, ControlTypes, LocalTypes
  <1>2. LocalTypes'
    <2>1. lost' \in [Workers -> BOOLEAN] BY <1>0 DEF Beat, LocalTypes
    <2>. QED BY <1>0, <2>1 DEF Beat, LocalTypes
  <1>3. RetryBound'
    BY <1>0 DEF Beat, RetryBound, Goto, SaveThen, Finish, Unwind, local, ControlInv, ControlTypes, At
  <1>4. ControlInv'
    <2>1. Quiet BY <1>0, QuietFacts DEF Beat
    <2>2. pc[w] \in Working BY DEF Beat, Working
    <2>. QED BY <1>0, <2>1, <2>2, WorkerMoves, StaticInv DEF Beat
  <1>. QED BY <1>1, <1>2, <1>3, <1>4 DEF Inv

\* The invariant survives Abort.
LEMMA AbortInv == ASSUME Inv, NEW w \in Workers, Abort(w) PROVE Inv'
  <1>0. StoreTypes /\ LocalTypes /\ RetryBound /\ ControlInv BY DEF Inv
  <1>1. StoreTypes'
    BY <1>0, RowFacts, LeaseFacts, StatusFacts
    DEF Abort, StoreTypes, store, Leases, ReceiptStates, ControlInv, ControlTypes, LocalTypes
  <1>2. LocalTypes'
    BY <1>0, SegmentFacts DEF Abort, LocalTypes, Segments, Budgets, RetryBound, local, At
  <1>3. RetryBound'
    BY <1>0 DEF Abort, RetryBound, Goto, SaveThen, Finish, Unwind, local, ControlInv, ControlTypes, At
  <1>4. ControlInv'
    <2>1. record \in Rows /\ held[w] \in Rows BY <1>0 DEF StoreTypes, ControlInv, ControlTypes
    <2>2. Quiet BY <1>0, QuietFacts DEF Abort, store
    <2>. QED
      BY <1>0, <2>1, <2>2, GotoInv, StaticInv, PcFacts
      DEF Abort, Unwind, At, Running, Working, Beating
  <1>. QED BY <1>1, <1>2, <1>3, <1>4 DEF Inv

\* The invariant survives RememberTask: the owner stores its own, unfinished copy.
LEMMA RememberTaskInv == ASSUME Inv, NEW w \in Workers, RememberTask(w) PROVE Inv'
  <1>0. StoreTypes /\ LocalTypes /\ RetryBound /\ ControlInv /\ held[w] \in Rows
    BY DEF Inv, ControlInv, ControlTypes
  <1>1. /\ pc[w] = "segment" /\ pc[w] \in Working /\ lease.owner = w
        /\ record' = held[w] /\ lease' = Leased(w) /\ UNCHANGED <<pc, after, held, migrating>>
    BY DEF RememberTask, At, CanRenew, Working, Beating
  <1>2. lease'.owner = w BY <1>0, <1>1, LeaseFacts DEF StoreTypes, Leases
  <1>3. StoreTypes' BY <1>0, <1>1, LeaseFacts DEF RememberTask, StoreTypes, Leases
  <1>4. LocalTypes' /\ RetryBound' BY <1>0 DEF RememberTask, LocalTypes, RetryBound, local
  <1>5. ControlTypes' /\ Closing' BY <1>0, <1>1 DEF ControlInv, ControlTypes, Closing
  <1>6. held[w].status \notin Final BY <1>0, <1>1 DEF ControlInv, Closing
  <1>7. Fresh' BY <1>0, <1>1, <1>2, <1>6 DEF Fresh, Covers, Rows
  <1>8. Unborn' BY <1>0, <1>1 DEF ControlInv, Unborn
  <1>. QED BY <1>3, <1>4, <1>5, <1>7, <1>8 DEF Inv, ControlInv

\* Create: the only step on the row that needs no lease.
LEMMA CreateInv == ASSUME Inv, NEW w \in Workers, Create(w) PROVE Inv'
  <1>0. StoreTypes /\ LocalTypes /\ RetryBound /\ ControlInv BY DEF Inv
  <1>1. /\ w = Creator /\ pc[w] = "idle"
        /\ record' = Row("admitted", Limit)
        /\ pc' = [pc EXCEPT ![w] = "loaded"] /\ held' = [held EXCEPT ![w] = record']
        /\ UNCHANGED <<after, lease, migrating>>
    BY DEF Create, At
  <1>2. record' \in Rows BY <1>1, RowFacts, StatusFacts
  <1>3. StoreTypes' BY <1>0, <1>2 DEF Create, StoreTypes
  <1>4. LocalTypes' BY <1>0 DEF Create, LocalTypes, local
  <1>5. RetryBound' BY <1>0, <1>1 DEF Create, RetryBound, local, ControlInv, ControlTypes
  <1>6. ControlTypes' BY <1>0, <1>1, <1>2, PcFacts DEF ControlInv, ControlTypes
  <1>7. \A v \in Workers : pc[v] \in {"idle", "returned"} BY <1>0, <1>1 DEF ControlInv, Unborn
  <1>8. \A v \in Workers : pc'[v] \in {"idle", "returned", "loaded"}
    BY <1>0, <1>1, <1>7 DEF ControlInv, ControlTypes
  <1>9. Closing' /\ Fresh' BY <1>8 DEF Closing, Fresh, Working, Beating
  <1>10. Unborn' BY <1>0, <1>1 DEF ControlInv, ControlTypes, Unborn
  <1>. QED BY <1>3, <1>4, <1>5, <1>6, <1>9, <1>10 DEF Inv, ControlInv

\* Forget keeps the types of what it resets, and leaves the others alone.
LEMMA ForgetFacts ==
  ASSUME LocalTypes, ControlTypes, NEW W \in SUBSET Workers, Forget(W)
  PROVE  /\ after' \in [Workers -> PCs] /\ held' \in [Workers -> Rows]
         /\ budget' \in [Workers -> Budgets] /\ attempts' \in [Workers -> 0 .. 2]
         /\ \A v \in Workers \ W : after'[v] = after[v] /\ held'[v] = held[v] /\ attempts'[v] = attempts[v]
  <1>1. "idle" \in PCs /\ Row("absent", Limit) \in Rows /\ NewBudget \in Budgets
    BY PcFacts, RowFacts, StatusFacts, SegmentFacts
  <1>2. after' \in [Workers -> PCs] BY <1>1 DEF Forget, ControlTypes
  <1>3. held' \in [Workers -> Rows] BY <1>1 DEF Forget, ControlTypes
  <1>4. budget' \in [Workers -> Budgets] BY <1>1 DEF Forget, LocalTypes, Budgets
  <1>5. attempts' \in [Workers -> 0 .. 2] BY DEF Forget, LocalTypes
  <1>6. \A v \in Workers \ W : after'[v] = after[v] /\ held'[v] = held[v] /\ attempts'[v] = attempts[v]
    BY DEF Forget
  <1>. QED BY <1>2, <1>3, <1>4, <1>5, <1>6

\* Supervisors end (W), at a point that is outside the loop; nobody else moves.
LEMMA EndInv ==
  ASSUME StoreTypes, LocalTypes, RetryBound, ControlInv, NEW W \in SUBSET Workers, NEW p \in {"returned", "dead"},
         pc' = [v \in Workers |-> IF v \in W THEN p ELSE pc[v]],
         \A v \in W : Running(v), Forget(W), Quiet
  PROVE  RetryBound' /\ ControlInv'
  <1>0. ControlTypes BY DEF ControlInv
  <1>. HIDE DEF Forget
  <1>1. /\ \A v \in W : pc'[v] = p
        /\ \A v \in Workers \ W : pc'[v] = pc[v]
        /\ pc' \in [Workers -> PCs]
    BY <1>0, PcFacts DEF ControlTypes
  <1>2. /\ after' \in [Workers -> PCs] /\ held' \in [Workers -> Rows]
        /\ \A v \in Workers \ W : after'[v] = after[v] /\ held'[v] = held[v] /\ attempts'[v] = attempts[v]
    BY <1>0, ForgetFacts
  <1>3. p \notin Working /\ p # "retry" /\ p # "idle" BY DEF Working, Beating
  <1>4. ControlTypes' BY <1>1, <1>2 DEF ControlTypes
  <1>5. RetryBound' BY <1>1, <1>2, <1>3 DEF RetryBound
  <1>6. Closing'
    <2>1. "renew" \in Working /\ "write" \in Working BY DEF Working
    <2>. QED BY <1>1, <1>2, <1>3, <2>1 DEF ControlInv, Closing
  <1>7. Fresh' BY <1>1, <1>2, <1>3 DEF ControlInv, Fresh, Covers, Quiet
  <1>8. Unborn' BY <1>1, <1>3 DEF ControlInv, Unborn, Quiet, Running
  <1>. QED BY <1>4, <1>5, <1>6, <1>7, <1>8 DEF ControlInv

\* The invariant survives Release.
LEMMA ReleaseInv == ASSUME Inv, NEW w \in Workers, Release(w) PROVE Inv'
  <1>0. StoreTypes /\ LocalTypes /\ RetryBound /\ ControlInv /\ ControlTypes BY DEF Inv, ControlInv
  <1>1. Forget({w}) /\ Running(w) BY DEF Release, At, Running
  <1>2. Quiet BY <1>0, QuietFacts DEF Release
  <1>3. StoreTypes' BY <1>0, LeaseFacts DEF Release, StoreTypes, Leases
  <1>4. LocalTypes'
    <2>1. budget' \in [Workers -> Budgets] /\ attempts' \in [Workers -> 0 .. 2] BY <1>0, <1>1, ForgetFacts
    <2>2. registered' \in [{Process[v] : v \in Workers} -> Workers \union {Nobody}]
      BY <1>0 DEF Release, LocalTypes
    <2>. QED BY <1>0, <2>1, <2>2 DEF Release, LocalTypes, Budgets
  <1>5. pc' = [v \in Workers |-> IF v \in {w} THEN "returned" ELSE pc[v]]
    BY <1>0 DEF Release, ControlTypes
  <1>6. RetryBound' /\ ControlInv' BY <1>0, <1>1, <1>2, <1>5, EndInv
  <1>. QED BY <1>3, <1>4, <1>6 DEF Inv

\* The invariant survives the death of a process.
LEMMA CrashInv == ASSUME Inv, NEW p \in {Process[w] : w \in Workers}, Crash(p) PROVE Inv'
  <1>0. StoreTypes /\ LocalTypes /\ RetryBound /\ ControlInv /\ ControlTypes BY DEF Inv, ControlInv
  <1>. DEFINE W == {w \in Workers : Process[w] = p /\ pc[w] \notin {"idle", "returned", "dead"}}
  <1>1. Forget(W) /\ \A v \in W : Running(v) BY DEF Crash, Running
  <1>2. Quiet BY <1>0, QuietFacts DEF Crash, store
  <1>3. StoreTypes' BY <1>0 DEF Crash, store, StoreTypes
  <1>4. LocalTypes'
    <2>1. budget' \in [Workers -> Budgets] /\ attempts' \in [Workers -> 0 .. 2] BY <1>0, <1>1, ForgetFacts
    <2>2. registered' \in [{Process[v] : v \in Workers} -> Workers \union {Nobody}]
      BY <1>0 DEF Crash, LocalTypes
    <2>3. seg' \in [Workers -> Segments] BY <1>0, SegmentFacts DEF Crash, LocalTypes, Segments
    <2>. QED BY <1>0, <2>1, <2>2, <2>3 DEF Crash, LocalTypes, Budgets, Segments
  <1>5. pc' = [v \in Workers |-> IF v \in W THEN "dead" ELSE pc[v]] BY DEF Crash
  <1>6. RetryBound' /\ ControlInv'
    <2>1. W \in SUBSET Workers OBVIOUS
    <2>. HIDE DEF W
    <2>. QED BY <1>0, <1>1, <1>2, <1>5, <2>1, EndInv
  <1>. QED BY <1>3, <1>4, <1>6 DEF Inv

\* Charging a call to a segment.
LEMMA ChargedFacts ==
    \A s \in Segments, own \in BOOLEAN : Charged(s, own) \in Segments
  BY DEF Segments, Charged

\* The invariant survives a model call.
LEMMA ModelCallInv == ASSUME Inv, NEW w \in Workers, NEW own \in BOOLEAN, ModelCall(w, own) PROVE Inv'
  <1>0. StoreTypes /\ LocalTypes /\ RetryBound /\ ControlInv BY DEF Inv
  <1>1. StoreTypes' BY <1>0 DEF ModelCall, store, StoreTypes
  <1>2. LocalTypes'
    <2>1. seg[w] \in Segments /\ budget[w] \in Budgets BY <1>0 DEF LocalTypes, Segments, Budgets
    <2>2. [budget[w] EXCEPT !.used = @ + 1] \in Budgets BY <2>1 DEF Budgets
    <2>3. Charged(seg[w], own) \in Segments BY <2>1, ChargedFacts
    <2>4. budget' = [budget EXCEPT ![w] = [budget[w] EXCEPT !.used = @ + 1]]
      BY <1>0 DEF ModelCall, LocalTypes
    <2>. QED BY <1>0, <2>2, <2>3, <2>4 DEF ModelCall, LocalTypes, Segments, Budgets
  <1>3. RetryBound' BY <1>0 DEF ModelCall, RetryBound
  <1>4. ControlInv' BY <1>0, StaticInv, QuietFacts DEF ModelCall, store
  <1>. QED BY <1>1, <1>2, <1>3, <1>4 DEF Inv

\* The row SegmentReturns builds.
Accounted(w, reason) ==
    [held[w] EXCEPT !.calls = MaxOf(held[w].calls + seg[w].iters, budget[w].used), !.cause = reason]

\* Accounting never lowers the calls and keeps the limit and the status.
LEMMA AccountedFacts ==
  ASSUME LocalTypes, ControlInv, NEW w \in Workers, NEW reason \in Reasons, pc[w] = "segment"
  PROVE  /\ Accounted(w, reason) \in Rows
         /\ Accounted(w, reason).calls >= held[w].calls
         /\ Accounted(w, reason).limit = held[w].limit
         /\ Accounted(w, reason).status = held[w].status
         /\ held[w].status \notin Final
         /\ MaxOf(held[w].calls + seg[w].iters, budget[w].used) \in Nat
  <1>1. held[w] \in Rows /\ seg[w] \in Segments /\ budget[w] \in Budgets
    BY DEF LocalTypes, ControlInv, ControlTypes, Segments, Budgets
  <1>2. held[w].calls \in Nat /\ seg[w].iters \in Nat /\ budget[w].used \in Nat
    BY <1>1 DEF Rows, Segments, Budgets
  <1>3. /\ MaxOf(held[w].calls + seg[w].iters, budget[w].used) \in Nat
        /\ MaxOf(held[w].calls + seg[w].iters, budget[w].used) >= held[w].calls
    BY <1>2 DEF MaxOf
  <1>4. held[w].status \notin Final BY DEF ControlInv, Closing, Working, Beating
  <1>. QED BY <1>1, <1>3, <1>4 DEF Accounted, Rows

\* The invariant survives the return of a segment: all outcomes carry its accounted row.
LEMMA SegmentReturnsInv ==
  ASSUME Inv, NEW w \in Workers, NEW reason \in Reasons, NEW print \in Prints,
         SegmentReturns(w, reason, print)
  PROVE  Inv'
  <1>0. StoreTypes /\ LocalTypes /\ RetryBound /\ ControlInv BY DEF Inv
  <1>. DEFINE r == Accounted(w, reason)
              stuck == IF held[w].print = print /\ held[w].cause = reason THEN r.noProgress + 1 ELSE 0
              next == [r EXCEPT !.print = print, !.noProgress = stuck]
  <1>1. pc[w] = "segment" /\ Running(w) BY DEF SegmentReturns, At, Running
  <1>2. /\ r \in Rows /\ r.calls >= held[w].calls /\ r.limit = held[w].limit
        /\ r.status = held[w].status /\ held[w].status \notin Final
        /\ MaxOf(held[w].calls + seg[w].iters, budget[w].used) \in Nat
    BY <1>0, <1>1, AccountedFacts
  <1>3. \/ /\ \E s \in Statuses : Finish(w, r, s)
           /\ attempts' = attempts
        \/ /\ pc' = [pc EXCEPT ![w] = "retry"] /\ held' = [held EXCEPT ![w] = r]
           /\ UNCHANGED <<after, attempts>> /\ attempts[w] < 2
        \/ /\ pc' = [pc EXCEPT ![w] = "continue"] /\ held' = [held EXCEPT ![w] = next]
           /\ UNCHANGED after /\ attempts' = [attempts EXCEPT ![w] = 0]
    <2>1. reason \in AllReasons OBVIOUS
    <2>2. attempts[w] \in 0 .. 2 BY <1>0 DEF LocalTypes
    <2>. QED BY <2>1, <2>2, StatusFacts DEF SegmentReturns, AllReasons, Accounted
  <1>4. next \in Rows /\ next.calls = r.calls /\ next.limit = r.limit /\ next.status = r.status
    <2>1. stuck \in Nat BY <1>2 DEF Rows
    <2>. HIDE DEF r, stuck
    <2>. QED BY <1>2, <2>1 DEF Rows
  <1>. HIDE DEF r, stuck, next
  <1>5. Quiet BY <1>0, QuietFacts DEF SegmentReturns, store
  <1>6. StoreTypes' BY <1>0 DEF SegmentReturns, store, StoreTypes
  <1>7. LocalTypes'
    <2>1. seg' \in [Workers -> Segments] BY <1>0, SegmentFacts DEF SegmentReturns, LocalTypes, Segments
    <2>2. budget' \in [Workers -> Budgets]
      <3>1. budget[w] \in Budgets BY <1>0 DEF LocalTypes, Budgets
      <3>2. [budget[w] EXCEPT !.used = MaxOf(held[w].calls + seg[w].iters, budget[w].used)] \in Budgets
        BY <1>2, <3>1 DEF Budgets
      <3>3. budget' = [budget EXCEPT ![w] = [budget[w] EXCEPT !.used = MaxOf(held[w].calls + seg[w].iters, budget[w].used)]]
        BY <1>0 DEF SegmentReturns, LocalTypes
      <3>. QED BY <1>0, <3>2, <3>3 DEF LocalTypes, Budgets
    <2>3. attempts' \in [Workers -> 0 .. 2] BY <1>0, <1>3 DEF LocalTypes
    <2>. QED BY <1>0, <2>1, <2>2, <2>3 DEF SegmentReturns, LocalTypes, Segments, Budgets
  <1>8. RetryBound'
    BY <1>0, <1>3 DEF RetryBound, Finish, SaveThen, ControlInv, ControlTypes, LocalTypes
  <1>9. ControlInv'
    <2>1. "segment" \in Working /\ after[w] \in PCs
      BY <1>0 DEF Working, Beating, ControlInv, ControlTypes
    <2>2. Carries(w, r) BY <1>1, <1>2, <2>1 DEF Carries
    <2>3. CASE \E s \in Statuses : Finish(w, r, s)
      BY <1>0, <1>1, <1>2, <1>5, <2>2, <2>3, FinishInv
    <2>4. lease.owner = w => Covers(r) /\ Covers(next)
      <3>1. held[w].calls \in Nat /\ record.calls \in Nat /\ r.calls \in Nat
        BY <1>0, <1>2 DEF StoreTypes, ControlInv, ControlTypes, Rows
      <3>2. lease.owner = w => Covers(held[w]) BY <1>0, <1>1, <2>1 DEF ControlInv, Fresh
      <3>. QED BY <1>2, <1>4, <3>1, <3>2 DEF Covers
    <2>5. CASE pc' = [pc EXCEPT ![w] = "retry"] /\ held' = [held EXCEPT ![w] = r] /\ UNCHANGED after
      <3>1. Move(w, "retry", r, after[w]) BY <1>0, <2>5 DEF Move, ControlInv, ControlTypes
      <3>. QED BY <1>0, <1>1, <1>2, <1>5, <2>1, <2>4, <3>1, MoveInv, PcFacts DEF Quiet
    <2>6. CASE pc' = [pc EXCEPT ![w] = "continue"] /\ held' = [held EXCEPT ![w] = next] /\ UNCHANGED after
      <3>1. Move(w, "continue", next, after[w]) BY <1>0, <2>6 DEF Move, ControlInv, ControlTypes
      <3>. QED BY <1>0, <1>1, <1>2, <1>4, <1>5, <2>1, <2>4, <3>1, MoveInv, PcFacts DEF Quiet
    <2>. QED BY <1>3, <2>3, <2>5, <2>6
  <1>. QED BY <1>6, <1>7, <1>8, <1>9 DEF Inv

\* A migration takes the lease.
LEMMA MigrateAcquireInv == ASSUME Inv, NEW m \in Migrators, MigrateAcquire(m) PROVE Inv'
  <1>0. StoreTypes /\ LocalTypes /\ RetryBound /\ ControlInv BY DEF Inv
  <1>1. lease' = Leased(m) /\ record' = record /\ UNCHANGED <<pc, after, held>> /\ record.status # "absent"
    BY DEF MigrateAcquire
  <1>2. StoreTypes' BY <1>0, LeaseFacts DEF MigrateAcquire, StoreTypes, Leases
  <1>3. LocalTypes' /\ RetryBound' BY <1>0 DEF MigrateAcquire, LocalTypes, RetryBound, local
  <1>4. \A w \in Workers : lease'.owner # w BY <1>0, <1>1, LeaseFacts DEF StoreTypes, Leases
  <1>5. ControlTypes' /\ Closing' BY <1>0, <1>1 DEF ControlInv, ControlTypes, Closing
  <1>6. Fresh' BY <1>4 DEF Fresh
  <1>7. Unborn' BY <1>0, <1>1 DEF ControlInv, Unborn, Row
  <1>. QED BY <1>2, <1>3, <1>5, <1>6, <1>7 DEF Inv, ControlInv

\* A migration changes the limit of the row, under its own lease, and releases it.
LEMMA MigrateSaveInv == ASSUME Inv, NEW m \in Migrators, MigrateSave(m) PROVE Inv'
  <1>0. StoreTypes /\ LocalTypes /\ RetryBound /\ ControlInv BY DEF Inv
  <1>1. lease' = Released(m) /\ UNCHANGED <<pc, after, held>> /\ migrating # {}
        /\ (record' = record \/ (lease.owner = m /\ record' = [record EXCEPT !.limit = NewLimit]))
    BY DEF MigrateSave, CanSave
  <1>2. StoreTypes' BY <1>0, <1>1, LeaseFacts, RowFacts DEF MigrateSave, StoreTypes, Leases
  <1>3. LocalTypes' /\ RetryBound' BY <1>0 DEF MigrateSave, LocalTypes, RetryBound, local
  <1>4. lease'.owner \in {lease.owner, Nobody} /\ lease'.owner # m
    BY <1>0, <1>1, LeaseFacts DEF StoreTypes, Leases
  <1>5. ControlTypes' /\ Closing' BY <1>0, <1>1 DEF ControlInv, ControlTypes, Closing
  <1>6. Fresh' BY <1>0, <1>1, <1>4 DEF ControlInv, Fresh, Covers
  <1>7. Unborn' BY <1>0, <1>1 DEF ControlInv, Unborn
  <1>. QED BY <1>2, <1>3, <1>5, <1>6, <1>7 DEF Inv, ControlInv

\* The deadline passes, or the lease runs down.
LEMMA ClockInv == ASSUME Inv, DeadlinePasses \/ Tick PROVE Inv'
  <1>0. StoreTypes /\ LocalTypes /\ RetryBound /\ ControlInv BY DEF Inv
  <1>1. StoreTypes' BY <1>0, LeaseFacts DEF DeadlinePasses, Tick, store, StoreTypes, Leases
  <1>2. LocalTypes' /\ RetryBound' BY <1>0 DEF DeadlinePasses, Tick, LocalTypes, RetryBound, local
  <1>3. Quiet BY <1>0, LeaseFacts DEF DeadlinePasses, Tick, store, StoreTypes, Leases, Quiet
  <1>4. ControlInv' BY <1>0, <1>3, StaticInv DEF DeadlinePasses, Tick
  <1>. QED BY <1>1, <1>2, <1>4 DEF Inv

-----------------------------------------------------------------------------
(* The invariant *)

\* The initial state.
LEMMA InitInv == Init => Inv
  <1>. SUFFICES ASSUME Init PROVE Inv OBVIOUS
  <1>1. Row("absent", Limit) \in Rows /\ "idle" \in PCs BY RowFacts, StatusFacts, PcFacts
  <1>2. StoreTypes
    <2>1. lease \in Leases BY DEF Init, Leases
    <2>2. receipts \in [Workers -> ReceiptStates] BY DEF Init, ReceiptStates
    <2>. QED BY <1>1, <2>1, <2>2 DEF Init, StoreTypes, Leases
  <1>3. LocalTypes
    BY SegmentFacts DEF Init, LocalTypes, Segments, Budgets
  <1>4. ControlTypes BY <1>1 DEF Init, ControlTypes
  <1>5. RetryBound /\ Closing /\ Fresh /\ Unborn
    BY DEF Init, RetryBound, Closing, Fresh, Unborn, Working, Beating
  <1>. QED BY <1>2, <1>3, <1>4, <1>5 DEF Inv, ControlInv

\* Every step preserves the invariant.
LEMMA NextInv == Inv /\ [Next]_vars => Inv'
  <1>. SUFFICES ASSUME Inv, [Next]_vars PROVE Inv' OBVIOUS
  <1>1. ASSUME NEW w \in Workers, Supervise(w) PROVE Inv'
    BY <1>1, ReadLeaseInv, AcquireInv, ReloadInv, ResumeBoundaryInv, SaveRenewInv, SaveWriteInv,
       AdmitInv, PrepareEndsInv, LoopInv, DisplacedInv, RetryInv, RetryWaitEndsInv, ContinueInv,
       ResumeInv, StopInv, ReleaseInv
    DEF Supervise
  <1>2. ASSUME NEW w \in Workers, Segment(w) PROVE Inv'
    BY <1>2, ModelCallInv, SegmentReturnsInv, SegmentThrowsInv DEF Segment
  <1>3. ASSUME NEW w \in Workers,
               \/ Create(w) \/ Load(w) \/ ModelCall(w, FALSE) \/ WriteCheck(w) \/ WriteCommit(w)
               \/ RememberTask(w) \/ OrphanEnds(w) \/ Beat(w) \/ Abort(w)
        PROVE Inv'
    BY <1>3, RememberTaskInv, CreateInv, LoadInv, ModelCallInv, WriteCheckInv, WriteCommitInv, OrphanEndsInv,
       BeatInv, AbortInv
  <1>4. CASE UNCHANGED vars
    BY <1>4 DEF vars, store, local, Inv, StoreTypes, LocalTypes, RetryBound, ControlInv,
                ControlTypes, Closing, Fresh, Covers, Unborn
  <1>. QED BY <1>1, <1>2, <1>3, <1>4, MigrateAcquireInv, MigrateSaveInv, CrashInv, ClockInv DEF Next

\* Type correctness of the logical turn, whatever the environment does.
THEOREM TypeCorrect == Spec => []TypeOK
  <1>1. Inv => TypeOK BY DEF Inv, ControlInv, TypeOK
  <1>. QED BY <1>1, InitInv, NextInv, PTL DEF Spec

\* What one step does to the row.
RowStep ==
    /\ record.status \in Final => record'.status = record.status
    /\ record'.calls >= record.calls
    /\ record.limit = NewLimit => record'.limit = NewLimit

\* A step that writes the row is the insert, a save by the lease owner, or a migration.
LEMMA RowStepHolds == Inv /\ [Next]_vars => [RowStep]_record
  <1>. SUFFICES ASSUME Inv, [Next]_vars, record' # record PROVE RowStep OBVIOUS
  <1>0. StoreTypes /\ ControlInv /\ record \in Rows BY DEF Inv, StoreTypes
  <1>1. record.calls \in Nat BY <1>0 DEF Rows
  <1>2. ASSUME NEW w \in Workers, Create(w) PROVE RowStep
    <2>1. record = Row("absent", Limit) BY <1>0, <1>2 DEF Create, At, ControlInv, Unborn
    <2>2. record' = Row("admitted", Limit) BY <1>2 DEF Create
    <2>. QED BY <2>1, <2>2 DEF RowStep, Row, Final
  <1>3. ASSUME NEW w \in Workers, SaveWrite(w) PROVE RowStep
    <2>1. record' = held[w] /\ lease.owner = w /\ pc[w] = "write" BY <1>3 DEF SaveWrite, At, CanSave
    <2>2. Covers(held[w]) BY <1>0, <2>1 DEF ControlInv, Fresh, Working
    <2>3. held[w] \in Rows BY <1>0 DEF ControlInv, ControlTypes
    <2>. QED BY <1>1, <2>1, <2>2, <2>3 DEF RowStep, Covers, Rows
  <1>12. ASSUME NEW w \in Workers, RememberTask(w) PROVE RowStep
    <2>1. record' = held[w] /\ lease.owner = w /\ pc[w] \in Working
      BY <1>12 DEF RememberTask, At, CanRenew, Working, Beating
    <2>2. Covers(held[w]) BY <1>0, <2>1 DEF ControlInv, Fresh
    <2>3. held[w] \in Rows BY <1>0 DEF ControlInv, ControlTypes
    <2>. QED BY <1>1, <2>1, <2>2, <2>3 DEF RowStep, Covers, Rows
  <1>4. ASSUME NEW m \in Migrators, MigrateSave(m) PROVE RowStep
    <2>1. record' = [record EXCEPT !.limit = NewLimit] BY <1>4 DEF MigrateSave
    <2>. QED BY <1>0, <1>1, <2>1 DEF RowStep, Rows
  <1>5. ASSUME NEW w \in Workers,
               \/ ReadLease(w) \/ Acquire(w) \/ Reload(w) \/ ResumeBoundary(w)
               \/ SaveRenew(w) \/ Admit(w) \/ PrepareEnds(w) \/ Loop(w)
               \/ Displaced(w) \/ Retry(w) \/ RetryWaitEnds(w) \/ Continue(w) \/ Resume(w)
               \/ Stop(w) \/ Release(w)
        PROVE RowStep
    BY <1>5 DEF ReadLease, Acquire, Reload, ResumeBoundary, SaveRenew, Admit, PrepareEnds, Loop,
               Displaced, Retry, RetryWaitEnds, Continue, Resume, Stop, Release, store
  <1>6. ASSUME NEW w \in Workers,
               \/ Load(w) \/ ModelCall(w, TRUE) \/ ModelCall(w, FALSE) \/ SegmentThrows(w)
               \/ WriteCheck(w) \/ WriteCommit(w) \/ OrphanEnds(w) \/ Beat(w) \/ Abort(w)
               \/ \E reason \in Reasons, print \in Prints : SegmentReturns(w, reason, print)
        PROVE RowStep
    BY <1>6 DEF Load, ModelCall, SegmentThrows, WriteCheck, WriteCommit, OrphanEnds, Beat, Abort,
               SegmentReturns, store
  <1>7. ASSUME NEW p, Crash(p) PROVE RowStep BY <1>7 DEF Crash, store
  <1>8. ASSUME NEW m, MigrateAcquire(m) PROVE RowStep BY <1>8 DEF MigrateAcquire
  <1>9. CASE DeadlinePasses \/ Tick \/ UNCHANGED vars BY <1>9 DEF DeadlinePasses, Tick, vars, store
  <1>10. ASSUME NEW w \in Workers, Supervise(w) PROVE RowStep BY <1>3, <1>5, <1>10 DEF Supervise
  <1>11. ASSUME NEW w \in Workers, Segment(w) PROVE RowStep BY <1>6, <1>11 DEF Segment
  <1>. QED BY <1>2, <1>4, <1>6, <1>7, <1>8, <1>9, <1>10, <1>11, <1>12 DEF Next

\* A stored final outcome is never replaced, for any number of supervisors.
THEOREM TerminalStickyHolds == Spec => TerminalSticky
  <1>1. [RowStep]_record => [record.status \in Final => record'.status = record.status]_record
    BY DEF RowStep
  <1>. QED BY <1>1, InitInv, NextInv, RowStepHolds, PTL DEF Spec, TerminalSticky

\* The stored model-call count never goes back, for any number of supervisors.
THEOREM CallsNeverRewindHolds == Spec => CallsNeverRewind
  <1>1. [RowStep]_record => [record'.calls >= record.calls]_record BY DEF RowStep
  <1>. QED BY <1>1, InitInv, NextInv, RowStepHolds, PTL DEF Spec, CallsNeverRewind

\* A migrated limit is never lost to a supervisor's older copy.
THEOREM MigrationSurvivesHolds == Spec => MigrationSurvives
  <1>1. [RowStep]_record => [record.limit = NewLimit => record'.limit = NewLimit]_record
    BY DEF RowStep
  <1>. QED BY <1>1, InitInv, NextInv, RowStepHolds, PTL DEF Spec, MigrationSurvives

-----------------------------------------------------------------------------
(* The receipts seen by a resume *)

\* A resume that has read the boundary under its lease and found it safe.
Checked(w) ==
    \/ pc[w] \in {"admit", "preparing", "loop", "segment", "retrywait", "retry", "continue", "resume"}
    \/ pc[w] \in {"renew", "write"} /\ after[w] # "stop"

\* No unfinished receipt of another worker but a late one, and in the worker's own
\* process neither a late one nor a write begun.
Clear(w) == \A v \in Workers \ {w} :
    /\ receipts[v] # "started"
    /\ Process[v] = Process[w] => receipts[v] # "late" /\ seg[v].pend = "none"

\* What such a resume saw stays true while it owns the lease.
ReceiptInv == \A w \in Workers \ {Creator} : Checked(w) /\ lease.owner = w => Clear(w)

\* A segment starts only under the lease.
Starts == \A w \in Workers : pc[w] = "loop" /\ pc'[w] = "segment" => lease.owner = w

\* A step that touches neither the receipts nor the owner, begins no write and
\* brings no further resume past its check.
SameReceipts ==
    /\ receipts' = receipts /\ lease'.owner = lease.owner
    /\ \A v \in Workers : seg'[v].pend \in {"none", seg[v].pend}
    /\ \A w \in Workers \ {Creator} : Checked(w)' => Checked(w)

\* Such a step keeps the invariant.
LEMMA SameReceiptsInv == ASSUME ReceiptInv, SameReceipts PROVE ReceiptInv'
  BY DEF ReceiptInv, SameReceipts, Clear

\* A renewal leaves the owner.
LEMMA RenewOwner ==
  ASSUME NEW w \in Workers, CanRenew(w), lease' = Leased(w) PROVE lease'.owner = lease.owner
  BY DEF CanRenew, Leased

\* A supervisor goes to p, or to a save and then to p.
Moves(w) == \E p \in PCs :
    \/ pc' = [pc EXCEPT ![w] = p] /\ after' = after
    \/ pc' = [pc EXCEPT ![w] = "renew"] /\ after' = [after EXCEPT ![w] = p]

\* Each way to leave a control point is such a move.
LEMMA MovesFacts ==
  ASSUME NEW w \in Workers
  PROVE  /\ Unwind(w) => Moves(w)
         /\ \A p \in PCs : Goto(w, p) => Moves(w)
         /\ \A r : \A p \in PCs : SaveThen(w, r, p) => Moves(w)
         /\ \A r, s : Finish(w, r, s) => Moves(w)
  BY PcFacts DEF Moves, Unwind, Goto, SaveThen, Finish

\* A supervisor past its check moves on, or unwinds, or goes to store its outcome.
LEMMA CheckedMoves ==
  ASSUME Inv, NEW w \in Workers, Checked(w), Moves(w)
  PROVE  \A v \in Workers \ {Creator} : Checked(v)' => Checked(v)
  BY DEF Moves, Checked, Inv, ControlInv, ControlTypes

\* A supervisor on its way to store its outcome reaches no segment.
LEMMA UncheckedMoves ==
  ASSUME Inv, NEW w \in Workers, NEW p \in {"loaded", "acquire", "reload", "boundary", "stop", "release", "returned", "dead"},
         pc' = [pc EXCEPT ![w] = p], UNCHANGED after
  PROVE  \A v \in Workers \ {Creator} : Checked(v)' => Checked(v)
  BY DEF Checked, Inv, ControlInv, ControlTypes

\* Steps of the segment loop.
LEMMA LoopSteps ==
  ASSUME Inv, NEW w \in Workers,
         \/ Admit(w) \/ PrepareEnds(w) \/ Loop(w) \/ Retry(w) \/ RetryWaitEnds(w)
         \/ Continue(w) \/ Resume(w)
  PROVE  SameReceipts /\ Starts
  <1>1. /\ pc \in [Workers -> PCs] /\ after \in [Workers -> PCs] /\ held \in [Workers -> Rows]
        /\ seg \in [Workers -> Segments]
    BY DEF Inv, ControlInv, ControlTypes, LocalTypes, Segments
  <1>2. /\ receipts' = receipts
        /\ lease' = lease \/ (CanRenew(w) /\ lease' = Leased(w))
        /\ seg' = seg \/ \E b \in BOOLEAN : seg' = [seg EXCEPT ![w] = [IdleSegment EXCEPT !.on = b]]
    <2>1. (~lost[w]) \in BOOLEAN BY Zenon
    <2>. QED BY <2>1 DEF Admit, PrepareEnds, Loop, Retry, RetryWaitEnds, Continue, Resume, store, local
  <1>3. lease'.owner = lease.owner BY <1>2, RenewOwner
  <1>4. \A v \in Workers : seg'[v].pend \in {"none", seg[v].pend}
    BY <1>1, <1>2 DEF IdleSegment
  <1>5. Checked(w)
    BY DEF Admit, PrepareEnds, Loop, Retry, RetryWaitEnds, Continue, Resume, At, Checked
  <1>6. Moves(w)
    BY PcFacts, MovesFacts DEF Admit, PrepareEnds, Loop, Retry, RetryWaitEnds, Continue, Resume
  <1>7. \A v \in Workers \ {Creator} : Checked(v)' => Checked(v) BY <1>5, <1>6, CheckedMoves
  <1>8. Starts
    <2>1. \A v \in Workers : v # w => pc'[v] = pc[v] BY <1>1, <1>6 DEF Moves
    <2>2. pc[w] = "loop" /\ pc'[w] = "segment" => lease.owner = w
      BY <1>1 DEF Admit, PrepareEnds, Loop, Retry, RetryWaitEnds, Continue, Resume, Finish, Goto,
                  Unwind, SaveThen, At, CanRenew
    <2>. QED BY <2>1, <2>2 DEF Starts
  <1>. QED BY <1>2, <1>3, <1>4, <1>7, <1>8 DEF SameReceipts

\* save(), the stop hook and a displacement.
LEMMA SaveSteps ==
  ASSUME Inv, NEW w \in Workers, SaveRenew(w) \/ SaveWrite(w) \/ Stop(w) \/ Displaced(w)
  PROVE  SameReceipts /\ Starts
  <1>1. pc \in [Workers -> PCs] /\ after \in [Workers -> PCs]
    BY DEF Inv, ControlInv, ControlTypes
  <1>2. /\ receipts' = receipts /\ seg' = seg
        /\ lease' = lease \/ (CanRenew(w) /\ lease' = Leased(w))
    BY DEF SaveRenew, SaveWrite, Stop, Displaced, store, local
  <1>3. lease'.owner = lease.owner BY <1>2, RenewOwner
  <1>4. \/ pc' = [pc EXCEPT ![w] = "release"] /\ after' = after
        \/ pc[w] = "renew" /\ pc' = [pc EXCEPT ![w] = "write"] /\ after' = after
        \/ /\ pc[w] = "write" /\ after[w] \in Afters
           /\ pc' = [pc EXCEPT ![w] = after[w]] /\ after' = [after EXCEPT ![w] = "idle"]
    BY DEF SaveRenew, SaveWrite, Stop, Displaced, At, Goto, Unwind, Inv, ControlInv, Closing
  <1>5. \A v \in Workers \ {Creator} : Checked(v)' => Checked(v)
    BY <1>1, <1>4 DEF Checked, Afters
  <1>6. Starts BY <1>1, <1>4 DEF Starts, Afters
  <1>. QED BY <1>2, <1>3, <1>5, <1>6 DEF SameReceipts

\* A segment's steps other than its writes.
LEMMA SegmentSteps ==
  ASSUME Inv, NEW w \in Workers,
         \/ \E own \in BOOLEAN : ModelCall(w, own)
         \/ \E reason \in Reasons, print \in Prints : SegmentReturns(w, reason, print)
         \/ SegmentThrows(w) \/ RememberTask(w) \/ OrphanEnds(w) \/ Beat(w) \/ Abort(w)
  PROVE  SameReceipts /\ Starts
  <1>1. /\ pc \in [Workers -> PCs] /\ after \in [Workers -> PCs] /\ held \in [Workers -> Rows]
        /\ seg \in [Workers -> Segments]
    BY DEF Inv, ControlInv, ControlTypes, LocalTypes, Segments
  <1>2. /\ receipts' = receipts
        /\ lease' = lease \/ (CanRenew(w) /\ lease' = Leased(w))
        /\ \/ seg' = seg \/ seg' = [seg EXCEPT ![w] = IdleSegment]
           \/ \E own \in BOOLEAN : seg' = [seg EXCEPT ![w] = Charged(@, own)]
    BY DEF ModelCall, SegmentReturns, SegmentThrows, RememberTask, OrphanEnds, Beat, Abort, store, local
  <1>3. lease'.owner = lease.owner BY <1>2, RenewOwner
  <1>4. \A v \in Workers : seg'[v].pend \in {"none", seg[v].pend}
    BY <1>1, <1>2 DEF IdleSegment, Charged
  <1>5. \/ pc' = pc /\ after' = after
        \/ Checked(w) /\ pc[w] # "loop" /\ Moves(w)
    <2>1. ASSUME NEW reason \in Reasons, NEW print \in Prints, SegmentReturns(w, reason, print)
          PROVE  pc[w] = "segment" /\ Moves(w)
      BY <2>1, PcFacts, MovesFacts DEF SegmentReturns, At, Moves
    <2>2. ASSUME SegmentThrows(w) PROVE pc[w] = "segment" /\ Moves(w)
      BY <2>2, MovesFacts DEF SegmentThrows, At
    <2>3. ASSUME Beat(w) PROVE (pc' = pc /\ after' = after) \/ (pc[w] \in Beating /\ Moves(w))
      BY <2>3, MovesFacts DEF Beat
    <2>4. ASSUME (\E own \in BOOLEAN : ModelCall(w, own)) \/ RememberTask(w) \/ OrphanEnds(w) \/ Abort(w)
          PROVE  pc' = pc /\ after' = after
      BY <2>4 DEF ModelCall, RememberTask, OrphanEnds, Abort
    <2>. QED BY <2>1, <2>2, <2>3, <2>4 DEF Checked, Beating
  <1>6. \A v \in Workers \ {Creator} : Checked(v)' => Checked(v)
    BY <1>5, CheckedMoves DEF Checked
  <1>7. Starts BY <1>1, <1>5 DEF Starts, Moves
  <1>. QED BY <1>2, <1>3, <1>4, <1>6, <1>7 DEF SameReceipts

\* Admission up to the lease.
LEMMA AdmissionSteps ==
  ASSUME Inv, NEW w \in Workers, Create(w) \/ Load(w) \/ ReadLease(w)
  PROVE  SameReceipts /\ Starts
  <1>1. pc \in [Workers -> PCs] /\ after \in [Workers -> PCs]
    BY DEF Inv, ControlInv, ControlTypes
  <1>2. receipts' = receipts /\ lease' = lease /\ seg' = seg /\ after' = after
    BY DEF Create, Load, ReadLease, Goto, store, local
  <1>3. \E p \in {"returned", "loaded", "acquire", "release"} : pc' = [pc EXCEPT ![w] = p]
    BY DEF Create, Load, ReadLease, Goto
  <1>. QED BY <1>1, <1>2, <1>3, UncheckedMoves DEF SameReceipts, Starts

\* A new owner has checked nothing yet.
LEMMA AcquireReceipts ==
  ASSUME Inv, ReceiptInv, NEW w \in Workers, Acquire(w)
  PROVE  ReceiptInv' /\ Starts
  <1>1. pc \in [Workers -> PCs] BY DEF Inv, ControlInv, ControlTypes
  <1>2. receipts' = receipts /\ seg' = seg /\ after' = after
    BY DEF Acquire, Goto, Unwind
  <1>3. \/ pc' = [pc EXCEPT ![w] = "reload"] /\ lease'.owner = w
        \/ pc' = [pc EXCEPT ![w] = "release"] /\ lease' = lease
    BY DEF Acquire, Goto, Unwind, Leased
  <1>4. ReceiptInv' BY <1>1, <1>2, <1>3 DEF ReceiptInv, Checked, Clear
  <1>5. Starts BY <1>1, <1>3 DEF Starts
  <1>. QED BY <1>4, <1>5

\* The reload of a resume comes before its check.
LEMMA ReloadReceipts ==
  ASSUME UseBoundary, Inv, NEW w \in Workers, Reload(w)
  PROVE  SameReceipts /\ Starts
  <1>1. pc \in [Workers -> PCs] /\ after \in [Workers -> PCs]
    BY DEF Inv, ControlInv, ControlTypes
  <1>2. receipts' = receipts /\ lease' = lease /\ seg' = seg /\ pc[w] = "reload"
    BY DEF Reload, store, local, At
  <1>3. CASE record.status \in Final \/ w # Creator
    <2>1. \E p \in {"release", "boundary"} : pc' = [pc EXCEPT ![w] = p] /\ after' = after
      BY <1>3 DEF Reload, Goto, Unwind
    <2>. QED BY <1>1, <1>2, <2>1, UncheckedMoves DEF SameReceipts, Starts
  <1>4. CASE record.status \notin Final /\ w = Creator
    <2>1. SaveThen(w, [record EXCEPT !.status = "running"], "admit")
      BY <1>4 DEF Reload
    <2>2. pc' = [pc EXCEPT ![w] = "renew"] /\ after' = [after EXCEPT ![w] = "admit"]
      BY <2>1 DEF SaveThen
    <2>. QED BY <1>1, <1>2, <1>4, <2>2 DEF SameReceipts, Starts, Checked
  <1>. QED BY <1>3, <1>4

\* The check itself: under the lease, no receipt is unfinished, and the worker's
\* process, one thread, is in the middle of no write.
LEMMA BoundaryReceipts ==
  ASSUME Inv, ReceiptInv, NEW w \in Workers, ResumeBoundary(w)
  PROVE  ReceiptInv' /\ Starts
  <1>1. pc \in [Workers -> PCs] /\ after \in [Workers -> PCs]
    BY DEF Inv, ControlInv, ControlTypes
  <1>2. receipts' = receipts /\ seg' = seg /\ pc[w] = "boundary" /\ ThreadFree(w)
    BY DEF ResumeBoundary, local, At
  <1>3. lease' = lease \/ (CanRenew(w) /\ lease' = Leased(w)) BY DEF ResumeBoundary
  <1>4. lease'.owner = lease.owner BY <1>3, RenewOwner
  <1>5. \/ RecoverySafe /\ pc' = [pc EXCEPT ![w] = "renew"] /\ after' = [after EXCEPT ![w] = "admit"]
        \/ pc' = [pc EXCEPT ![w] = "renew"] /\ after' = [after EXCEPT ![w] = "stop"]
        \/ pc' = [pc EXCEPT ![w] = "release"] /\ after' = after
    BY DEF ResumeBoundary, Finish, SaveThen, Goto, Unwind
  <1>6. RecoverySafe => Clear(w)' BY <1>2 DEF RecoverySafe, Clear, ThreadFree
  <1>7. ReceiptInv' BY <1>1, <1>2, <1>4, <1>5, <1>6 DEF Checked, Clear, ReceiptInv
  <1>8. Starts BY <1>1, <1>2, <1>5 DEF Starts
  <1>. QED BY <1>7, <1>8

\* A fenced write: only the owner begins one, and one that ends under another
\* owner is late and of another process.
LEMMA WriteReceipts ==
  ASSUME Inv, ReceiptInv, NEW w \in Workers, WriteCheck(w) \/ WriteCommit(w)
  PROVE  ReceiptInv' /\ Starts
  <1>1. /\ seg \in [Workers -> Segments] /\ receipts \in [Workers -> ReceiptStates]
    BY DEF Inv, StoreTypes, LocalTypes, Segments
  <1>2. lease' = lease /\ pc' = pc /\ after' = after
    BY DEF WriteCheck, WriteCommit, store
  <1>3. CASE WriteCheck(w)
    <2>1. receipts' = receipts BY <1>3 DEF WriteCheck, store
    <2>2. \A v \in Workers : seg'[v].pend = seg[v].pend \/ (v = w /\ lease.owner = w)
      BY <1>1, <1>3 DEF WriteCheck, Segments
    <2>. QED BY <1>2, <2>1, <2>2 DEF ReceiptInv, Checked, Clear, Starts
  <1>4. CASE WriteCommit(w)
    <2>1. \A v \in Workers \ {w} : receipts'[v] = receipts[v] /\ seg'[v] = seg[v]
      BY <1>1, <1>4 DEF WriteCommit
    <2>2. /\ seg[w].pend # "none" /\ seg'[w].pend = "none"
          /\ receipts'[w] = "started" => lease.owner = w
      BY <1>1, <1>4 DEF WriteCommit, Segments
    <2>3. ASSUME NEW v \in Workers \ {Creator}, Checked(v), lease.owner = v PROVE Clear(v)'
      <3>1. Clear(v) BY <2>3 DEF ReceiptInv
      <3>. QED BY <2>1, <2>2, <2>3, <3>1 DEF Clear
    <2>. QED BY <1>2, <2>3 DEF ReceiptInv, Checked, Starts
  <1>. QED BY <1>3, <1>4

\* A release: nobody becomes the owner.
LEMMA ReleaseReceipts ==
  ASSUME Inv, ReceiptInv, NEW w \in Workers, Release(w)
  PROVE  ReceiptInv' /\ Starts
  <1>1. pc \in [Workers -> PCs] /\ after \in [Workers -> PCs]
    BY DEF Inv, ControlInv, ControlTypes
  <1>2. receipts' = receipts /\ seg' = seg /\ pc' = [pc EXCEPT ![w] = "returned"]
    BY DEF Release
  <1>3. \A v \in Workers : v # w => after'[v] = after[v] BY DEF Release, Forget
  <1>4. lease' = lease \/ (lease.owner = w /\ lease'.owner = Nobody) BY DEF Release, Released
  <1>5. ReceiptInv' BY <1>1, <1>2, <1>3, <1>4 DEF ReceiptInv, Checked, Clear
  <1>6. Starts BY <1>1, <1>2 DEF Starts
  <1>. QED BY <1>5, <1>6

\* A migration takes a free lease and gives its own back.
LEMMA MigrateReceipts ==
  ASSUME Inv, ReceiptInv, NEW m \in Migrators, MigrateAcquire(m) \/ MigrateSave(m)
  PROVE  ReceiptInv' /\ Starts
  <1>1. receipts' = receipts /\ seg' = seg /\ pc' = pc /\ after' = after
    BY DEF MigrateAcquire, MigrateSave, local
  <1>2. lease'.owner \in {m, Nobody} \/ lease' = lease
    BY DEF MigrateAcquire, MigrateSave, Leased, Released
  <1>3. ReceiptInv' BY <1>1, <1>2 DEF ReceiptInv, Checked, Clear
  <1>. QED BY <1>1, <1>3 DEF Starts

\* A crash ends the writes of its process; the clock and a stutter change nothing here.
LEMMA QuietReceipts ==
  ASSUME Inv, \/ \E p \in {Process[w] : w \in Workers} : Crash(p)
              \/ DeadlinePasses \/ Tick \/ UNCHANGED vars
  PROVE  SameReceipts /\ Starts
  <1>1. pc \in [Workers -> PCs] /\ after \in [Workers -> PCs] /\ lease \in Leases
    BY DEF Inv, ControlInv, ControlTypes, StoreTypes, Leases
  <1>2. ASSUME NEW p \in {Process[w] : w \in Workers}, Crash(p) PROVE SameReceipts /\ Starts
    <2>1. /\ receipts' = receipts /\ lease' = lease
          /\ \A v \in Workers : seg'[v] \in {IdleSegment, seg[v]}
          /\ \A v \in Workers : pc'[v] = "dead" \/ (pc'[v] = pc[v] /\ after'[v] = after[v])
      BY <1>2 DEF Crash, Forget, store
    <2>. QED BY <2>1 DEF SameReceipts, Starts, Checked, IdleSegment
  <1>3. ASSUME DeadlinePasses \/ Tick \/ UNCHANGED vars PROVE SameReceipts /\ Starts
    <2>1. receipts' = receipts /\ seg' = seg /\ pc' = pc /\ after' = after
      BY <1>3 DEF DeadlinePasses, Tick, vars, store, local
    <2>2. lease'.owner = lease.owner
      BY <1>1, <1>3, LeaseFacts DEF DeadlinePasses, Tick, vars, store
    <2>. QED BY <2>1, <2>2 DEF SameReceipts, Starts, Checked
  <1>. QED BY <1>2, <1>3

\* Every step keeps the receipts' invariant and starts a segment only under the lease.
LEMMA NextReceipts == UseBoundary /\ Inv /\ ReceiptInv /\ [Next]_vars => ReceiptInv' /\ Starts
  <1>. SUFFICES ASSUME UseBoundary, Inv, ReceiptInv, [Next]_vars
       PROVE  ReceiptInv' /\ Starts
    OBVIOUS
  <1>1. ASSUME NEW w \in Workers, Supervise(w) PROVE ReceiptInv' /\ Starts
    BY <1>1, AdmissionSteps, AcquireReceipts, ReloadReceipts, BoundaryReceipts, SaveSteps, LoopSteps,
       ReleaseReceipts, SameReceiptsInv
    DEF Supervise
  <1>2. ASSUME NEW w \in Workers, Segment(w) PROVE ReceiptInv' /\ Starts
    BY <1>2, SegmentSteps, SameReceiptsInv DEF Segment
  <1>3. ASSUME NEW w \in Workers,
               \/ Create(w) \/ Load(w) \/ ModelCall(w, FALSE) \/ WriteCheck(w) \/ WriteCommit(w)
               \/ RememberTask(w) \/ OrphanEnds(w) \/ Beat(w) \/ Abort(w)
        PROVE ReceiptInv' /\ Starts
    BY <1>3, AdmissionSteps, SegmentSteps, WriteReceipts, SameReceiptsInv
  <1>. QED BY <1>1, <1>2, <1>3, MigrateReceipts, QuietReceipts, SameReceiptsInv DEF Next

\* No resumed segment starts while another supervisor's tool receipt is unfinished,
\* unless it was stored by another process after that had lost the lease, for any
\* number of supervisors and processes, when the host supplies readBoundary (as the
\* native host, the one that resumes turns, does).
THEOREM SafeStartHolds == ASSUME UseBoundary PROVE Spec => SafeStart
  <1>1. Init => ReceiptInv
    BY DEF Init, ReceiptInv, Checked
  <1>2. ReceiptInv /\ Starts =>
          [\A w \in Workers \ {Creator} :
              pc[w] = "loop" /\ pc'[w] = "segment"
                => \A v \in Workers \ {w} :
                      /\ receipts[v] # "started"
                      /\ Process[v] = Process[w] => receipts[v] # "late"]_pc
    BY DEF ReceiptInv, Checked, Clear, Starts
  <1>. QED BY <1>1, <1>2, InitInv, NextInv, NextReceipts, PTL DEF Spec, SafeStart
=============================================================================
