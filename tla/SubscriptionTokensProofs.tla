---------------------- MODULE SubscriptionTokensProofs ----------------------
(***************************************************************************)
(* Proofs about SubscriptionTokens, for any requests, sign-ins and         *)
(* sign-outs.  The mutex says who may be between reading the record and    *)
(* writing it; the rest of the invariant says what that operation carries, *)
(* why its tokens are new, and why a login that began earlier knows it.    *)
(***************************************************************************)
EXTENDS SubscriptionTokens, TLAPS

Renewals == {"load", "rejected"}
Carrying(o) == op[o].pc \in {"advance", "write"}
Refreshing(o) == Carrying(o) /\ op[o].why \in Renewals
Committing(o) == op[o].why = "commit" /\ (Carrying(o) \/ op[o].pc \in {"waiting", "locked"})
Stores(o) == Refreshing(o) \/ Committing(o)

\* The types; `tried` is a function.
Types == TypeOK /\ tried \in [Ops -> SUBSET Nat]

\* The operation inside the mutex is its holder.
Held == \A o \in Ops : op[o].pc \in UnderLock <=> holder = o

\* Every token met so far has been minted; a record has both its tokens.
Known ==
    /\ record.access <= minted /\ record.refresh <= minted
    /\ record # NoRecord => record.access # 0 /\ record.refresh # 0
    /\ spent \subseteq 1..minted
    /\ \A o \in Ops : tried[o] \subseteq 1..minted

\* Logins and logouts are the work of a signer.
Roles ==
    \A o \in Ops :
        /\ op[o].why \in {"begin", "commit", "logout"} => o \in Signers
        /\ op[o].pc = "approval" => op[o].why = "begin"

\* What an operation between its read and its write has in hand.
Carries ==
    \A o \in Ops :
        /\ op[o].pc = "exchanging" =>
              /\ op[o].why \in Renewals
              /\ op[o].hand.access = record.access
              /\ op[o].hand.refresh = record.refresh
              /\ record.access \in tried[o]
        /\ Carrying(o) => op[o].why \in Renewals \cup {"bind", "commit", "logout"}
        /\ Carrying(o) /\ op[o].why = "bind" =>
              /\ op[o].hand.access = record.access
              /\ op[o].hand.refresh = record.refresh
        /\ Refreshing(o) => tried[o] # {}
        /\ op[o].pc = "exchanging" \/ Refreshing(o) \/ (Carrying(o) /\ op[o].why = "bind") =>
              /\ record # NoRecord
              /\ record.binding # 0 => op[o].hand.binding = record.binding

\* The tokens about to be stored are new: neither stored nor exchanged nor
\* spent, and no two operations are about to store the same ones.
Fresh ==
    \A o \in Ops : Stores(o) =>
        /\ op[o].hand.access \in 1..minted /\ op[o].hand.refresh \in 1..minted
        /\ op[o].hand.access # record.access
        /\ op[o].hand.refresh \notin spent
        /\ Committing(o) => op[o].hand.refresh # record.refresh
        /\ \A p \in Ops :
              /\ op[o].hand.access \notin tried[p]
              /\ p # o /\ Stores(p) => op[p].hand.access # op[o].hand.access
              /\ p # o /\ Stores(p) /\ Committing(o) => op[p].hand.refresh # op[o].hand.refresh

\* The stored record was exchanged only by an operation that failed or is at it.
Tries ==
    \A o \in Ops : record.access \in tried[o] =>
        \/ op[o].pc = "failed"
        \/ op[o].pc = "exchanging"
        \/ Refreshing(o)

\* A spent refresh token is stored only while its successor is on its way, or
\* after that operation failed.
Spent ==
    record.refresh \in spent =>
        \E o \in Ops : tried[o] # {} /\ (op[o].pc = "failed" \/ Refreshing(o))

\* A login whose generation still stands began with the record now stored, and
\* no writer is past its advance of the generation.
Pending(o) == op[o].pc = "approval" \/ (op[o].why = "commit" /\ op[o].pc \in {"waiting", "locked"})
Logins ==
    \A o \in Ops :
        /\ Pending(o) =>
              /\ op[o].began <= generation
              /\ op[o].began = generation =>
                    record.access = op[o].seen /\ \A p \in Ops : op[p].pc # "write"
        /\ Carrying(o) /\ op[o].why = "commit" => record.access = op[o].seen

Inv == Types /\ Held /\ Known /\ Roles /\ Carries /\ Fresh /\ Tries /\ ExchangedOnce /\ Spent /\ Logins

-----------------------------------------------------------------------------
(* What an operation remembers.                                             *)

\* An operation that moves leaves the others where they are.
LEMMA Moved ==
    ASSUME Inv, NEW o \in Ops, NEW r, Become(o, r)
    PROVE  /\ op'[o] = r
           /\ \A p \in Ops : p # o => op'[p] = op[p]
           /\ r \in Operations => op' \in [Ops -> Operations]
  BY DEF Inv, Types, TypeOK, Become

\* The blank memory, and the updates the operations make, have their types.
LEMMA BlankType ==
    /\ NoRecord \in Records /\ Blank \in Operations
    /\ \A phase \in Ended : [Blank EXCEPT !.pc = phase] \in Operations
  <1>1. NoRecord \in Records BY DEF NoRecord, Records
  <1>2. 0 \in 0..MaxSends BY SendsAssumption
  <1>3. Blank \in Operations BY <1>1, <1>2 DEF Blank, Operations, Ended, UnderLock
  <1>. QED BY <1>1, <1>3 DEF Operations, Ended, UnderLock

\* The record an operation has in hand and its progress have their types.
LEMMA OpType ==
    ASSUME Inv, NEW o \in Ops
    PROVE  /\ op[o] \in Operations /\ op[o].hand \in Records
           /\ record \in Records /\ minted \in Nat /\ generation \in Nat
           /\ op[o].sent \in 0..MaxSends
  BY DEF Inv, Types, TypeOK, Operations

\* An operation that touches nothing but its own memory, has nothing to store
\* when it is done, and fails if it had.
Quiet(o, r) ==
    /\ Become(o, r)
    /\ r \in Operations
    /\ r.pc \notin {"exchanging", "advance", "write", "approval"}
    /\ r.pc \in {"waiting", "locked"} => r.why # "commit"
    /\ r.why \in {"begin", "commit", "logout"} => o \in Signers
    /\ r.pc \in UnderLock <=> holder' = o
    /\ holder' = holder \/ (holder = o /\ holder' = Nobody) \/ (holder = Nobody /\ holder' = o)
    /\ op[o].pc \in {"exchanging", "advance", "write", "failed"} => r.pc = "failed"
    /\ UNCHANGED <<record, generation, minted, tried>>

\* Such an operation keeps the invariant, but for what the server spent.
LEMMA QuietInv ==
    ASSUME Inv, NEW o \in Ops, NEW r, Quiet(o, r), UNCHANGED spent
    PROVE  Inv'
  <1>1. /\ op'[o] = r
        /\ \A p \in Ops : p # o => op'[p] = op[p]
        /\ op' \in [Ops -> Operations]
    BY Moved DEF Quiet
  <1>2. Types' BY <1>1 DEF Inv, Types, TypeOK, Quiet
  <1>3. Held' BY <1>1, NobodyAssumption DEF Inv, Held, Quiet
  <1>4. Known' BY DEF Inv, Known, Quiet
  <1>5. Roles' BY <1>1 DEF Inv, Roles, Quiet
  <1>6. ~Stores(o)' /\ ~Carrying(o)' /\ ~Pending(o)' /\ ~Refreshing(o)' /\ ~Committing(o)'
    BY <1>1 DEF Quiet, Stores, Carrying, Pending, Refreshing, Committing
  <1>7. \A p \in Ops : p # o =>
          /\ Stores(p)' = Stores(p) /\ Carrying(p)' = Carrying(p) /\ Pending(p)' = Pending(p)
          /\ Refreshing(p)' = Refreshing(p) /\ Committing(p)' = Committing(p)
    BY <1>1 DEF Stores, Carrying, Pending, Refreshing, Committing
  <1>8. Carries'
    <2>. SUFFICES ASSUME NEW p \in Ops PROVE Carries!(p)' BY DEF Carries
    <2>1. CASE p = o BY <1>1, <1>6, <2>1 DEF Quiet
    <2>2. CASE p # o BY <1>1, <1>7, <2>2 DEF Inv, Carries, Quiet
    <2>. QED BY <2>1, <2>2
  <1>9. Fresh' BY <1>1, <1>6, <1>7 DEF Inv, Fresh, Quiet
  <1>10. Tries'
    <2>. SUFFICES ASSUME NEW p \in Ops PROVE Tries!(p)' BY DEF Tries
    <2>1. CASE p = o BY <1>1, <2>1 DEF Inv, Tries, Quiet, Refreshing, Carrying
    <2>2. CASE p # o BY <1>1, <1>7, <2>2 DEF Inv, Tries, Quiet
    <2>. QED BY <2>1, <2>2
  <1>11. ExchangedOnce'
    <2>1. \A p \in Ops : At(p, "failed") => At(p, "failed")' BY <1>1 DEF At, Quiet
    <2>. QED BY <2>1 DEF Inv, ExchangedOnce, Quiet
  <1>12. Spent'
    <2>. SUFFICES ASSUME record.refresh \in spent PROVE Spent' BY DEF Spent, Quiet
    <2>1. PICK p \in Ops : tried[p] # {} /\ (op[p].pc = "failed" \/ Refreshing(p)) BY DEF Inv, Spent
    <2>2. op'[p].pc = "failed" \/ Refreshing(p)'
      BY <1>1, <1>7, <2>1 DEF Quiet, Refreshing, Carrying
    <2>. QED BY <2>1, <2>2 DEF Spent, Quiet
  <1>13. Logins'
    <2>1. \A p \in Ops : op'[p].pc = "write" => op[p].pc = "write" BY <1>1 DEF Quiet
    <2>. QED BY <1>1, <1>6, <1>7, <2>1 DEF Inv, Logins, Quiet
  <1>. QED BY <1>2, <1>3, <1>4, <1>5, <1>8, <1>9, <1>10, <1>11, <1>12, <1>13 DEF Inv

-----------------------------------------------------------------------------
(* The steps that store nothing.                                            *)

\* The end of an operation is quiet; it leaves the mutex if it was inside.
LEMMA EndQuiet ==
    ASSUME Inv, NEW o \in Ops, NEW phase \in Ended, End(o, phase),
           UNCHANGED <<record, generation, minted, tried>>,
           Release(o) \/ (holder' = holder /\ op[o].pc \notin UnderLock),
           op[o].pc \in {"exchanging", "advance", "write", "failed"} => phase = "failed"
    PROVE  Quiet(o, [Blank EXCEPT !.pc = phase])
  <1>. DEFINE r == [Blank EXCEPT !.pc = phase]
  <1>1. r \in Operations BY BlankType
  <1>2. r.pc = phase /\ r.why = "none" BY DEF Blank
  <1>3. holder' # o BY NobodyAssumption DEF Inv, Held, Release
  <1>. QED BY <1>1, <1>2, <1>3 DEF Quiet, End, Release, Ended, UnderLock

\* The next send, or the end of a request, is quiet.
LEMMA NextSendQuiet ==
    ASSUME Inv, NEW o \in Ops, NextSend(o),
           UNCHANGED <<record, generation, minted, tried, spent>>,
           Release(o) \/ (holder' = holder /\ op[o].pc \notin UnderLock),
           op[o].pc \notin {"exchanging", "advance", "write", "failed"}
    PROVE  Inv'
  <1>1. CASE op[o].sent < MaxSends
    <2>. DEFINE r == [op[o] EXCEPT !.pc = "sending", !.sent = @ + 1, !.hand = NoRecord]
    <2>1. op[o].sent + 1 \in 0..MaxSends BY <1>1, SendsAssumption, OpType
    <2>2. r \in Operations
      <3>1. NoRecord \in Records BY BlankType
      <3>. QED BY <2>1, <3>1, OpType DEF Operations
    <2>3. r.pc = "sending" /\ r.why = op[o].why BY OpType DEF Operations
    <2>4. Become(o, r) BY <1>1 DEF NextSend
    <2>5. holder' # o BY NobodyAssumption DEF Inv, Held, Release
    <2>6. Quiet(o, r) BY <2>2, <2>3, <2>4, <2>5 DEF Quiet, Release, UnderLock, Inv, Roles
    <2>. QED BY <2>6, QuietInv
  <1>2. CASE ~(op[o].sent < MaxSends)
    <2>1. End(o, "failed") BY <1>2 DEF NextSend
    <2>. QED BY <2>1, EndQuiet, QuietInv DEF Ended
  <1>. QED BY <1>1, <1>2

\* Failures and crashes keep the invariant, wherever they happen.
LEMMA FailInv == ASSUME Inv, NEW o \in Ops, Fail(o) \/ Crash(o) PROVE Inv'
  <1>1. End(o, "failed") /\ Release(o) /\ UNCHANGED <<record, generation, minted, spent, tried>>
    BY DEF Fail, Crash
  <1>. QED BY <1>1, EndQuiet, QuietInv DEF Ended

\* The steps of a model request outside the mutex.
LEMMA RequestInv ==
    ASSUME Inv, NEW o \in Ops,
           \/ StartRequest(o) \/ LoadFreshRecord(o) \/ Rejected(o) \/ RetryableFailure(o)
           \/ Stream(o) \/ Deliver(o) \/ StreamBreaks(o) \/ StreamEnds(o)
    PROVE  Inv'
  <1>. USE DEF At
  <1>1. UNCHANGED <<record, generation, minted, spent, holder, tried>>
    BY DEF StartRequest, LoadFreshRecord, Rejected, RetryableFailure, Stream, Deliver, StreamBreaks, StreamEnds
  <1>2. op[o].pc \in {"idle", "sending", "fetching", "streaming"} /\ op[o].pc \notin UnderLock
    BY DEF StartRequest, LoadFreshRecord, Rejected, RetryableFailure, Stream, Deliver, StreamBreaks,
           StreamEnds, UnderLock
  <1>3. holder # o BY <1>2 DEF Inv, Held
  <1>4. CASE NextSend(o) BY <1>1, <1>2, <1>4, NextSendQuiet
  <1>5. CASE End(o, "failed") \/ End(o, "returned") BY <1>1, <1>2, <1>5, EndQuiet, QuietInv DEF Ended
  <1>6. ASSUME NEW r \in Operations, Become(o, r), r.pc \in {"fetching", "waiting", "streaming"},
               r.why \in {op[o].why, "load", "rejected"}, r.pc = "waiting" => r.why # "commit"
        PROVE  Inv'
    <2>1. Quiet(o, r) BY <1>1, <1>2, <1>3, <1>6 DEF Quiet, UnderLock, Inv, Roles
    <2>. QED BY <1>1, <2>1, QuietInv
  <1>7. CASE LoadFreshRecord(o)
    <2>1. CASE Become(o, [op[o] EXCEPT !.pc = "fetching", !.hand = record])
      BY <1>6, <2>1, OpType DEF Operations
    <2>2. CASE LockFor(o, "load") BY <1>6, <2>2, OpType DEF Operations, LockFor
    <2>. QED BY <1>5, <1>7, <2>1, <2>2 DEF LoadFreshRecord
  <1>8. CASE Rejected(o)
    <2>1. Become(o, [op[o] EXCEPT !.pc = "waiting", !.why = "rejected", !.refreshed = TRUE])
      BY <1>8 DEF Rejected
    <2>. QED BY <1>6, <2>1, OpType DEF Operations
  <1>9. CASE Stream(o)
    <2>1. Become(o, [op[o] EXCEPT !.pc = "streaming", !.hand = NoRecord]) BY <1>9 DEF Stream
    <2>2. NoRecord \in Records BY BlankType
    <2>. QED BY <1>6, <2>1, <2>2, OpType DEF Operations
  <1>10. CASE Deliver(o)
    <2>1. Become(o, [op[o] EXCEPT !.delivered = TRUE]) /\ op[o].pc = "streaming" BY <1>10 DEF Deliver
    <2>. QED BY <1>6, <2>1, OpType DEF Operations
  <1>. QED BY <1>4, <1>5, <1>7, <1>8, <1>9, <1>10
         DEF StartRequest, RetryableFailure, StreamBreaks, StreamEnds

\* A login and a logout queue for the mutex.
LEMMA SignerStartsInv == ASSUME Inv, NEW o \in Ops, StartLogin(o) \/ StartLogout(o) PROVE Inv'
  <1>1. PICK w \in {"begin", "logout"} : LockFor(o, w) BY DEF StartLogin, StartLogout
  <1>. DEFINE r == [op[o] EXCEPT !.pc = "waiting", !.why = w]
  <1>2. r \in Operations /\ r.pc = "waiting" /\ r.why = w BY OpType DEF Operations
  <1>3. o \in Signers /\ op[o].pc = "idle" /\ UNCHANGED <<record, generation, minted, spent, holder, tried>>
    BY DEF StartLogin, StartLogout, At
  <1>4. holder # o BY <1>3 DEF Inv, Held, UnderLock
  <1>5. Quiet(o, r) BY <1>1, <1>2, <1>3, <1>4 DEF Quiet, LockFor, UnderLock
  <1>. QED BY <1>3, <1>5, QuietInv

-----------------------------------------------------------------------------
(* The steps towards a write.                                               *)

\* What one operation does, the others still carry what they carried.
LEMMA Frame ==
    ASSUME Inv, NEW o \in Ops, NEW r, Become(o, r)
    PROVE  \A p \in Ops : p # o =>
             /\ op'[p] = op[p]
             /\ Stores(p)' = Stores(p) /\ Carrying(p)' = Carrying(p) /\ Pending(p)' = Pending(p)
             /\ Refreshing(p)' = Refreshing(p) /\ Committing(p)' = Committing(p)
  <1>1. \A p \in Ops : p # o => op'[p] = op[p] BY Moved
  <1>. QED BY <1>1 DEF Stores, Carrying, Pending, Refreshing, Committing

\* An operation that changes where it is and nothing else.
LEMMA GoFacts ==
    ASSUME Inv, NEW o \in Ops, NEW phase \in Ended \cup UnderLock \cup
              {"idle", "sending", "waiting", "fetching", "streaming", "approval"}, Go(o, phase)
    PROVE  /\ op' \in [Ops -> Operations]
           /\ op'[o].pc = phase /\ op'[o].why = op[o].why /\ op'[o].hand = op[o].hand
           /\ op'[o].began = op[o].began /\ op'[o].seen = op[o].seen
           /\ Become(o, op'[o])
  <1>. DEFINE r == [op[o] EXCEPT !.pc = phase]
  <1>1. r \in Operations BY OpType DEF Operations
  <1>2. op'[o] = r /\ op' \in [Ops -> Operations] BY <1>1, Moved DEF Go
  <1>. QED BY <1>2, OpType DEF Operations, Go

\* The mutex passes to one operation, and only when nobody has it.
LEMMA AcquireInv == ASSUME Inv, NEW o \in Ops, Acquire(o) PROVE Inv'
  <1>. USE DEF At
  <1>1. /\ op' \in [Ops -> Operations]
        /\ op'[o].pc = "locked" /\ op'[o].why = op[o].why /\ op'[o].hand = op[o].hand
        /\ op'[o].began = op[o].began /\ op'[o].seen = op[o].seen
        /\ Become(o, op'[o])
    BY GoFacts DEF Acquire, UnderLock
  <1>2. op[o].pc = "waiting" /\ holder = Nobody /\ holder' = o
          /\ UNCHANGED <<record, generation, minted, spent, tried>>
    BY DEF Acquire
  <1>3. /\ Stores(o)' = Stores(o) /\ Carrying(o)' = Carrying(o) /\ Pending(o)' = Pending(o)
        /\ Refreshing(o)' = Refreshing(o) /\ Committing(o)' = Committing(o)
    BY <1>1, <1>2 DEF Stores, Carrying, Pending, Refreshing, Committing
  <1>4. \A p \in Ops : p # o =>
             /\ op'[p] = op[p]
             /\ Stores(p)' = Stores(p) /\ Carrying(p)' = Carrying(p) /\ Pending(p)' = Pending(p)
             /\ Refreshing(p)' = Refreshing(p) /\ Committing(p)' = Committing(p)
    BY <1>1, Frame
  <1>5. Types' BY <1>1, <1>2 DEF Inv, Types, TypeOK
  <1>6. Held' BY <1>1, <1>2, <1>4, NobodyAssumption DEF Inv, Held, UnderLock
  <1>7. Known' BY <1>2 DEF Inv, Known
  <1>8. Roles' BY <1>1, <1>2, <1>4 DEF Inv, Roles
  <1>9. Carries' BY <1>1, <1>2, <1>3, <1>4 DEF Inv, Carries
  <1>10. Fresh' BY <1>1, <1>2, <1>3, <1>4 DEF Inv, Fresh
  <1>11. Tries' BY <1>1, <1>2, <1>3, <1>4 DEF Inv, Tries
  <1>12. ExchangedOnce' BY <1>1, <1>2, <1>4 DEF Inv, ExchangedOnce
  <1>13. Spent' BY <1>1, <1>2, <1>3, <1>4 DEF Inv, Spent
  <1>14. Logins' BY <1>1, <1>2, <1>3, <1>4 DEF Inv, Logins
  <1>. QED BY <1>5, <1>6, <1>7, <1>8, <1>9, <1>10, <1>11, <1>12, <1>13, <1>14 DEF Inv

\* Nobody but the holder is between its read and its write.
LEMMA Alone ==
    ASSUME Inv, NEW o \in Ops, op[o].pc \in UnderLock
    PROVE  \A p \in Ops : p # o =>
             /\ op[p].pc \notin UnderLock
             /\ op[p].pc \notin {"locked", "exchanging", "advance", "write"}
             /\ ~Carrying(p) /\ ~Refreshing(p)
  BY DEF Inv, Held, UnderLock, Carrying, Refreshing

\* A login remembers the generation and the record it began with.
LEMMA BeginLoginInv == ASSUME Inv, NEW o \in Ops, BeginLogin(o) PROVE Inv'
  <1>. DEFINE r == [op[o] EXCEPT !.pc = "approval", !.began = generation, !.seen = record.access]
  <1>1. op[o].pc = "locked" /\ op[o].why = "begin" /\ Become(o, r) /\ holder = o /\ holder' = Nobody
          /\ UNCHANGED <<record, generation, minted, spent, tried>>
    BY DEF BeginLogin, LockedFor, At, Release, Inv, Held, UnderLock
  <1>2. record.access \in Nat BY OpType DEF Records
  <1>3. r \in Operations BY <1>2, OpType DEF Operations
  <1>4. op'[o] = r /\ op' \in [Ops -> Operations] BY <1>1, <1>3, Moved
  <1>5. /\ op'[o].pc = "approval" /\ op'[o].why = "begin"
        /\ op'[o].began = generation /\ op'[o].seen = record.access
    BY <1>1, <1>4, OpType DEF Operations
  <1>6. \A p \in Ops : p # o =>
             /\ op'[p] = op[p]
             /\ Stores(p)' = Stores(p) /\ Carrying(p)' = Carrying(p) /\ Pending(p)' = Pending(p)
             /\ Refreshing(p)' = Refreshing(p) /\ Committing(p)' = Committing(p)
    BY <1>1, Frame
  <1>7. /\ ~Stores(o)' /\ ~Carrying(o)' /\ ~Refreshing(o)' /\ ~Committing(o)' /\ ~Refreshing(o)
    BY <1>1, <1>5 DEF Stores, Carrying, Refreshing, Committing
  <1>8. Types' BY <1>1, <1>4 DEF Inv, Types, TypeOK
  <1>9. Held' BY <1>1, <1>5, <1>6, NobodyAssumption DEF Inv, Held, UnderLock
  <1>10. Known' BY <1>1 DEF Inv, Known
  <1>11. Roles' BY <1>1, <1>5, <1>6 DEF Inv, Roles
  <1>12. Carries' BY <1>1, <1>5, <1>6, <1>7 DEF Inv, Carries
  <1>13. Fresh' BY <1>1, <1>6, <1>7 DEF Inv, Fresh
  <1>14. Tries' BY <1>1, <1>5, <1>6, <1>7 DEF Inv, Tries
  <1>15. ExchangedOnce' BY <1>1, <1>5, <1>6 DEF Inv, ExchangedOnce, At
  <1>16. Spent' BY <1>1, <1>5, <1>6, <1>7 DEF Inv, Spent
  <1>17. Logins'
    <2>1. \A p \in Ops : op'[p].pc # "write" BY <1>1, <1>5, <1>6, Alone DEF UnderLock
    <2>2. generation \in Nat BY OpType
    <2>. QED BY <1>1, <1>5, <1>6, <1>7, <2>1, <2>2 DEF Inv, Logins
  <1>. QED BY <1>8, <1>9, <1>10, <1>11, <1>12, <1>13, <1>14, <1>15, <1>16, <1>17 DEF Inv

\* The tokens of an approved login are new.
LEMMA ApproveInv == ASSUME Inv, NEW o \in Ops, Approve(o) PROVE Inv'
  <1>. DEFINE h == [access |-> minted + 1, refresh |-> minted + 1, binding |-> minted + 1, fresh |-> TRUE]
              r == [op[o] EXCEPT !.pc = "waiting", !.why = "commit", !.hand = h]
  <1>1. op[o].pc = "approval" /\ Become(o, r) /\ minted' = minted + 1
          /\ UNCHANGED <<record, generation, spent, holder, tried>>
    BY DEF Approve, At
  <1>2. minted \in Nat /\ minted' \in Nat /\ h \in Records BY <1>1, OpType DEF Records
  <1>3. r \in Operations BY <1>2, OpType DEF Operations
  <1>4. op'[o] = r /\ op' \in [Ops -> Operations] BY <1>1, <1>3, Moved
  <1>5. /\ op'[o].pc = "waiting" /\ op'[o].why = "commit"
        /\ op'[o].hand.access = minted' /\ op'[o].hand.refresh = minted'
        /\ op'[o].began = op[o].began /\ op'[o].seen = op[o].seen
    BY <1>1, <1>4, OpType DEF Operations
  <1>6. \A p \in Ops : p # o =>
             /\ op'[p] = op[p]
             /\ Stores(p)' = Stores(p) /\ Carrying(p)' = Carrying(p) /\ Pending(p)' = Pending(p)
             /\ Refreshing(p)' = Refreshing(p) /\ Committing(p)' = Committing(p)
    BY <1>1, Frame
  <1>7. /\ ~Carrying(o)' /\ ~Refreshing(o)' /\ ~Refreshing(o) /\ Pending(o) /\ Committing(o)' /\ Stores(o)'
    BY <1>1, <1>5 DEF Stores, Carrying, Refreshing, Committing, Pending
  <1>8. Types' BY <1>1, <1>2, <1>4 DEF Inv, Types, TypeOK
  <1>9. Held' BY <1>1, <1>5, <1>6, NobodyAssumption DEF Inv, Held, UnderLock
  <1>10. Known'
    <2>1. record.access \in Nat /\ record.refresh \in Nat BY OpType DEF Records
    <2>2. \A n \in 1..minted : n \in 1..minted' BY <1>1, <1>2
    <2>. QED BY <1>1, <1>2, <2>1, <2>2 DEF Inv, Known
  <1>11. Roles' BY <1>1, <1>5, <1>6 DEF Inv, Roles
  <1>12. Carries' BY <1>1, <1>5, <1>6, <1>7 DEF Inv, Carries
  <1>13. Fresh'
    <2>1. record.access \in Nat /\ record.refresh \in Nat BY OpType DEF Records
    <2>2. record.access # minted' /\ record.refresh # minted' BY <1>1, <1>2, <2>1 DEF Inv, Known
    <2>3. minted' \notin 1..minted /\ minted' \in 1..minted' BY <1>1, <1>2
    <2>4. minted' \notin spent /\ \A p \in Ops : minted' \notin tried[p] BY <2>3 DEF Inv, Known
    <2>5. \A n \in 1..minted : n \in 1..minted' BY <1>1, <1>2
    <2>6. \A p \in Ops : p # o /\ Stores(p) => op[p].hand.access # minted' /\ op[p].hand.refresh # minted'
      BY <2>3 DEF Inv, Fresh
    <2>. QED BY <1>1, <1>5, <1>6, <1>7, <2>2, <2>3, <2>4, <2>5, <2>6 DEF Inv, Fresh
  <1>14. Tries' BY <1>1, <1>5, <1>6, <1>7 DEF Inv, Tries
  <1>15. ExchangedOnce' BY <1>1, <1>5, <1>6 DEF Inv, ExchangedOnce, At
  <1>16. Spent' BY <1>1, <1>5, <1>6, <1>7 DEF Inv, Spent
  <1>17. Logins' BY <1>1, <1>5, <1>6, <1>7 DEF Inv, Logins
  <1>. QED BY <1>8, <1>9, <1>10, <1>11, <1>12, <1>13, <1>14, <1>15, <1>16, <1>17 DEF Inv

\* A login that may be saved began with the stored record; a logout carries nothing.
LEMMA SignerAdvancesInv == ASSUME Inv, NEW o \in Ops, CommitLogin(o) \/ Logout(o) PROVE Inv'
  <1>1. /\ op' \in [Ops -> Operations]
        /\ op'[o].pc = "advance" /\ op'[o].why = op[o].why /\ op'[o].hand = op[o].hand
        /\ op'[o].began = op[o].began /\ op'[o].seen = op[o].seen
        /\ Become(o, op'[o])
    BY GoFacts DEF CommitLogin, Logout, UnderLock
  <1>2. /\ op[o].pc = "locked" /\ op[o].why \in {"commit", "logout"}
        /\ op[o].why = "commit" => op[o].began = generation
        /\ UNCHANGED <<record, generation, minted, spent, holder, tried>>
    BY DEF CommitLogin, Logout, LockedFor, At
  <1>3. \A p \in Ops : p # o =>
             /\ op'[p] = op[p]
             /\ Stores(p)' = Stores(p) /\ Carrying(p)' = Carrying(p) /\ Pending(p)' = Pending(p)
             /\ Refreshing(p)' = Refreshing(p) /\ Committing(p)' = Committing(p)
    BY <1>1, Frame
  <1>4. /\ Stores(o)' = Stores(o) /\ Committing(o)' = Committing(o) /\ ~Refreshing(o)' /\ ~Refreshing(o)
        /\ ~Pending(o)'
    <2>1. ~Refreshing(o)' /\ ~Refreshing(o) /\ ~Pending(o)'
      BY <1>1, <1>2 DEF Carrying, Refreshing, Pending, Renewals
    <2>2. Committing(o)' = Committing(o) BY <1>1, <1>2 DEF Carrying, Committing
    <2>. QED BY <2>1, <2>2 DEF Stores
  <1>5. Types' BY <1>1, <1>2 DEF Inv, Types, TypeOK
  <1>6. Held' BY <1>1, <1>2, <1>3 DEF Inv, Held, UnderLock
  <1>7. Known' BY <1>2 DEF Inv, Known
  <1>8. Roles' BY <1>1, <1>2, <1>3 DEF Inv, Roles
  <1>9. Carries' BY <1>1, <1>2, <1>3, <1>4 DEF Inv, Carries
  <1>10. Fresh' BY <1>1, <1>2, <1>3, <1>4 DEF Inv, Fresh
  <1>11. Tries' BY <1>1, <1>2, <1>3, <1>4 DEF Inv, Tries
  <1>12. ExchangedOnce' BY <1>1, <1>2, <1>3 DEF Inv, ExchangedOnce, At
  <1>13. Spent' BY <1>1, <1>2, <1>3, <1>4 DEF Inv, Spent
  <1>14. Logins' BY <1>1, <1>2, <1>3, <1>4 DEF Inv, Logins, Pending
  <1>. QED BY <1>5, <1>6, <1>7, <1>8, <1>9, <1>10, <1>11, <1>12, <1>13, <1>14 DEF Inv

\* The generation is advanced before the record is written: no login that is
\* still pending can be saved over what follows.
LEMMA AdvanceInv == ASSUME Inv, NEW o \in Ops, Advance(o) PROVE Inv'
  <1>1. /\ op' \in [Ops -> Operations]
        /\ op'[o].pc = "write" /\ op'[o].why = op[o].why /\ op'[o].hand = op[o].hand
        /\ op'[o].began = op[o].began /\ op'[o].seen = op[o].seen
        /\ Become(o, op'[o])
    BY GoFacts DEF Advance, UnderLock
  <1>2. /\ op[o].pc = "advance" /\ generation' = generation + 1 /\ generation \in Nat
        /\ UNCHANGED <<record, minted, spent, holder, tried>>
    BY OpType DEF Advance, At
  <1>3. \A p \in Ops : p # o =>
             /\ op'[p] = op[p]
             /\ Stores(p)' = Stores(p) /\ Carrying(p)' = Carrying(p) /\ Pending(p)' = Pending(p)
             /\ Refreshing(p)' = Refreshing(p) /\ Committing(p)' = Committing(p)
    BY <1>1, Frame
  <1>4. /\ Stores(o)' = Stores(o) /\ Carrying(o)' = Carrying(o) /\ Committing(o)' = Committing(o)
        /\ Refreshing(o)' = Refreshing(o) /\ ~Pending(o)' /\ Carrying(o)
    BY <1>1, <1>2 DEF Stores, Carrying, Refreshing, Committing, Pending
  <1>5. Types' BY <1>1, <1>2 DEF Inv, Types, TypeOK
  <1>6. Held' BY <1>1, <1>2, <1>3 DEF Inv, Held, UnderLock
  <1>7. Known' BY <1>2 DEF Inv, Known
  <1>8. Roles' BY <1>1, <1>2, <1>3 DEF Inv, Roles
  <1>9. Carries' BY <1>1, <1>2, <1>3, <1>4 DEF Inv, Carries
  <1>10. Fresh' BY <1>1, <1>2, <1>3, <1>4 DEF Inv, Fresh
  <1>11. Tries' BY <1>1, <1>2, <1>3, <1>4 DEF Inv, Tries
  <1>12. ExchangedOnce' BY <1>1, <1>2, <1>3 DEF Inv, ExchangedOnce, At
  <1>13. Spent' BY <1>1, <1>2, <1>3, <1>4 DEF Inv, Spent
  <1>14. Logins'
    <2>1. \A p \in Ops : op[p].began \in Nat BY OpType DEF Operations
    <2>. QED BY <1>1, <1>2, <1>3, <1>4, <2>1 DEF Inv, Logins
  <1>. QED BY <1>5, <1>6, <1>7, <1>8, <1>9, <1>10, <1>11, <1>12, <1>13, <1>14 DEF Inv

\* Time passing keeps the tokens.
LEMMA ExpireInv == ASSUME Inv, Expire PROVE Inv'
  <1>1. record \in Records BY DEF Inv, Types, TypeOK
  <1>2. /\ record' \in Records /\ record'.access = record.access
        /\ record'.refresh = record.refresh /\ record'.binding = record.binding
        /\ UNCHANGED <<generation, minted, spent, holder, op, tried>>
    BY <1>1 DEF Expire, Records
  <1>3. record # NoRecord BY DEF Expire, NoRecord
  <1>4. record' # NoRecord BY <1>2, <1>3 DEF NoRecord, Inv, Known
  <1>5. Types' BY <1>2 DEF Inv, Types, TypeOK
  <1>6. Held' /\ Known' /\ Roles' BY <1>2, <1>3 DEF Inv, Held, Known, Roles
  <1>7. Carries' BY <1>2, <1>4 DEF Inv, Carries, Carrying, Refreshing
  <1>8. Fresh' /\ Tries' BY <1>2 DEF Inv, Fresh, Tries, Stores, Carrying, Refreshing, Committing
  <1>9. ExchangedOnce' /\ Spent' /\ Logins'
    BY <1>2 DEF Inv, ExchangedOnce, Spent, Logins, At, Carrying, Refreshing, Pending
  <1>. QED BY <1>5, <1>6, <1>7, <1>8, <1>9 DEF Inv

-----------------------------------------------------------------------------
(* The critical sections.                                                   *)

\* Under the mutex the record as stored is bound or exchanged; it was not
\* exchanged before, but by operations that failed.
LEMMA RefreshInv ==
    ASSUME Inv, NEW o \in Ops, NEW h \in Records, NEW exchange \in BOOLEAN, Refresh(o, h, exchange),
           op[o].pc = "locked", op[o].why \in Renewals, record # NoRecord,
           h.access = record.access, h.refresh = record.refresh,
           record.binding # 0 => h.binding = record.binding
    PROVE  Inv'
  <1>. DEFINE r == [op[o] EXCEPT !.pc = IF exchange THEN "exchanging" ELSE "advance",
                                 !.why = IF exchange THEN @ ELSE "bind", !.hand = h]
  <1>1. Become(o, r) /\ UNCHANGED <<record, generation, spent, holder>>
          /\ minted' \in {minted, minted + 1}
          /\ tried' = [tried EXCEPT ![o] = IF exchange THEN @ \cup {h.access} ELSE @]
    BY DEF Refresh
  <1>2. r \in Operations
    <2>1. op[o] \in Operations /\ op[o].why \in Renewals BY OpType
    <2>2. CASE exchange
      <3>1. r = [op[o] EXCEPT !.pc = "exchanging", !.hand = h] BY <2>1, <2>2 DEF Operations
      <3>. HIDE DEF r
      <3>. QED BY <2>1, <3>1 DEF Operations, UnderLock
    <2>3. CASE ~exchange
      <3>1. r = [op[o] EXCEPT !.pc = "advance", !.why = "bind", !.hand = h] BY <2>3
      <3>. HIDE DEF r
      <3>. QED BY <2>1, <3>1 DEF Operations, UnderLock
    <2>. QED BY <2>2, <2>3
  <1>3. op'[o] = r /\ op' \in [Ops -> Operations] BY <1>1, <1>2, Moved
  <1>4. /\ op'[o].hand = h
        /\ exchange => op'[o].pc = "exchanging" /\ op'[o].why = op[o].why
        /\ ~exchange => op'[o].pc = "advance" /\ op'[o].why = "bind"
    BY <1>3, OpType DEF Operations
  <1>5. tried \in [Ops -> SUBSET Nat] /\ record.access \in Nat /\ record.refresh \in Nat /\ minted \in Nat
    BY OpType DEF Inv, Types, Records
  <1>6. /\ \A p \in Ops : p # o => tried'[p] = tried[p]
        /\ exchange => tried'[o] = tried[o] \cup {record.access}
        /\ ~exchange => tried'[o] = tried[o]
    BY <1>1, <1>5
  <1>7. minted' \in Nat /\ \A n \in 1..minted : n \in 1..minted' BY <1>1, <1>5
  <1>8. record.access \in 1..minted /\ record.refresh \in 1..minted BY <1>5 DEF Inv, Known
  <1>9. \A p \in Ops : p # o =>
             /\ op'[p] = op[p]
             /\ Stores(p)' = Stores(p) /\ Carrying(p)' = Carrying(p) /\ Pending(p)' = Pending(p)
             /\ Refreshing(p)' = Refreshing(p) /\ Committing(p)' = Committing(p)
    BY <1>1, Frame
  <1>10. /\ ~Refreshing(o)' /\ ~Committing(o)' /\ ~Stores(o)' /\ ~Pending(o)'
         /\ ~Refreshing(o) /\ ~Stores(o) /\ ~Pending(o)
    BY <1>4 DEF Stores, Refreshing, Committing, Carrying, Pending, Renewals
  <1>11. \A p \in Ops : p # o => /\ op[p].pc \notin UnderLock /\ ~Carrying(p) /\ ~Refreshing(p)
                                 /\ op[p].pc \notin {"exchanging", "advance", "write"}
    BY Alone DEF UnderLock
  <1>12. Types'
    <2>1. tried' \in [Ops -> SUBSET Nat] BY <1>1, <1>5
    <2>. QED BY <1>1, <1>3, <1>7, <2>1 DEF Inv, Types, TypeOK
  <1>13. Held' BY <1>1, <1>4, <1>9 DEF Inv, Held, UnderLock
  <1>14. Known'
    <2>1. record.access <= minted' /\ record.refresh <= minted' BY <1>7, <1>8
    <2>2. spent \subseteq 1..minted' BY <1>7 DEF Inv, Known
    <2>3. \A p \in Ops : tried'[p] \subseteq 1..minted' BY <1>6, <1>7, <1>8 DEF Inv, Known
    <2>. QED BY <1>1, <2>1, <2>2, <2>3 DEF Inv, Known
  <1>15. Roles' BY <1>1, <1>4, <1>9 DEF Inv, Roles, Renewals
  <1>16. Carries'
    <2>. SUFFICES ASSUME NEW p \in Ops PROVE Carries!(p)' BY DEF Carries
    <2>1. CASE p = o BY <1>1, <1>4, <1>6, <1>10, <2>1 DEF Carrying
    <2>2. CASE p # o BY <1>9, <1>11, <2>2
    <2>. QED BY <2>1, <2>2
  <1>17. Fresh'
    <2>1. \A p, q \in Ops : Stores(p) => op[p].hand.access \notin tried'[q]
      BY <1>6 DEF Inv, Fresh
    <2>. QED BY <1>1, <1>7, <1>9, <1>10, <2>1 DEF Inv, Fresh
  <1>18. Tries'
    <2>. SUFFICES ASSUME NEW p \in Ops PROVE Tries!(p)' BY DEF Tries
    <2>1. CASE p = o BY <1>1, <1>4, <1>6, <1>10, <2>1 DEF Inv, Tries
    <2>2. CASE p # o BY <1>1, <1>6, <1>9, <2>2 DEF Inv, Tries
    <2>. QED BY <2>1, <2>2
  <1>19. ExchangedOnce'
    <2>1. \A p \in Ops : p # o /\ record.access \in tried[p] => op[p].pc = "failed"
      BY <1>11 DEF Inv, Tries
    <2>. SUFFICES ASSUME NEW p \in Ops, NEW q \in Ops, p # q, NEW a, a \in tried'[p], a \in tried'[q]
                  PROVE  op'[p].pc = "failed" \/ op'[q].pc = "failed"
      BY DEF ExchangedOnce, At
    <2>2. CASE a \in tried[p] /\ a \in tried[q]
      <3>1. op[p].pc = "failed" \/ op[q].pc = "failed" BY <2>2 DEF Inv, ExchangedOnce, At
      <3>. QED BY <1>9, <3>1
    <2>3. CASE ~(a \in tried[p] /\ a \in tried[q])
      <3>1. a = record.access BY <1>6, <2>3
      <3>. QED BY <1>6, <1>9, <2>1, <3>1
    <2>. QED BY <2>2, <2>3
  <1>20. Spent' BY <1>1, <1>4, <1>6, <1>9, <1>10 DEF Inv, Spent
  <1>21. Logins'
    <2>1. \A p \in Ops : op'[p].pc # "write" BY <1>4, <1>9, <1>11
    <2>2. ~(Carrying(o)' /\ op'[o].why = "commit") BY <1>4 DEF Carrying
    <2>. SUFFICES ASSUME NEW p \in Ops PROVE Logins!(p)' BY DEF Logins
    <2>3. CASE p = o BY <1>10, <2>2, <2>3
    <2>4. CASE p # o BY <1>1, <1>9, <2>1, <2>4 DEF Inv, Logins
    <2>. QED BY <2>3, <2>4
  <1>. QED BY <1>12, <1>13, <1>14, <1>15, <1>16, <1>17, <1>18, <1>19, <1>20, <1>21 DEF Inv

\* forceRefresh: use, bind or exchange what is stored now.
LEMMA ForceRefreshInv == ASSUME Inv, NEW o \in Ops, ForceRefresh(o) PROVE Inv'
  <1>1. op[o].pc = "locked" /\ op[o].why = "load" /\ record # NoRecord
    BY DEF ForceRefresh, LockedFor, At
  <1>2. CASE /\ Become(o, [op[o] EXCEPT !.pc = "fetching", !.hand = record])
             /\ Release(o)
             /\ UNCHANGED <<record, generation, minted, spent, tried>>
    <2>. DEFINE r == [op[o] EXCEPT !.pc = "fetching", !.hand = record]
    <2>1. r \in Operations /\ r.pc = "fetching" /\ r.why = "load" BY <1>1, OpType DEF Operations
    <2>2. holder = o /\ holder' = Nobody BY <1>1, <1>2 DEF Inv, Held, Release, UnderLock
    <2>3. Quiet(o, r) BY <1>1, <1>2, <2>1, <2>2, NobodyAssumption DEF Quiet, UnderLock
    <2>. QED BY <1>2, <2>3, QuietInv
  <1>3. CASE ~Usable(record) /\ Refresh(o, Bound(record), ~record.fresh)
    <2>. DEFINE h == Bound(record)
    <2>1. h \in Records /\ h.access = record.access /\ h.refresh = record.refresh
            /\ (record.binding # 0 => h.binding = record.binding)
      BY OpType DEF Bound, Records
    <2>2. (~record.fresh) \in BOOLEAN OBVIOUS
    <2>. QED BY <1>1, <1>3, <2>1, <2>2, RefreshInv DEF Renewals
  <1>. QED BY <1>2, <1>3 DEF ForceRefresh

\* exchangeUnderLock: the rejected record, if it is still the one stored.
LEMMA ExchangeRejectedInv == ASSUME Inv, NEW o \in Ops, ExchangeRejected(o) PROVE Inv'
  <1>1. op[o].pc = "locked" /\ op[o].why = "rejected" /\ record # NoRecord
    BY DEF ExchangeRejected, LockedFor, At
  <1>2. CASE Refresh(o, record, TRUE) BY <1>1, <1>2, OpType, RefreshInv DEF Renewals
  <1>3. CASE NextSend(o) /\ Release(o) /\ UNCHANGED <<record, generation, minted, spent, tried>>
    BY <1>1, <1>3, NextSendQuiet
  <1>. QED BY <1>2, <1>3 DEF ExchangeRejected

\* The server's answer is new, and the token it replaces is spent.
LEMMA ExchangeInv == ASSUME Inv, NEW o \in Ops, Exchange(o) PROVE Inv'
  <1>0. PICK rotates \in Rotations :
          /\ Become(o, [op[o] EXCEPT !.pc = "advance",
                                     !.hand.access = minted + 1, !.hand.fresh = TRUE,
                                     !.hand.refresh = IF rotates THEN minted + 1 ELSE @])
          /\ spent' = IF rotates THEN spent \cup {op[o].hand.refresh} ELSE spent
    BY DEF Exchange
  <1>. DEFINE r == [op[o] EXCEPT !.pc = "advance",
                                 !.hand.access = minted + 1, !.hand.fresh = TRUE,
                                 !.hand.refresh = IF rotates THEN minted + 1 ELSE @]
  <1>1. /\ Become(o, r) /\ op[o].pc = "exchanging" /\ op[o].hand.refresh \notin spent
        /\ minted' = minted + 1 /\ UNCHANGED <<record, generation, holder, tried>>
    BY <1>0 DEF Exchange, At
  <1>2. minted \in Nat /\ minted' \in Nat BY <1>1, OpType
  <1>2a. PICK x \in Nat : x = IF rotates THEN minted + 1 ELSE op[o].hand.refresh
    BY <1>2, OpType DEF Records
  <1>. DEFINE h == [op[o].hand EXCEPT !.access = minted + 1, !.fresh = TRUE, !.refresh = x]
  <1>3. h \in Records /\ h.access = minted + 1 /\ h.binding = op[o].hand.binding /\ h.refresh = x
    <2>1. op[o].hand \in Records /\ minted + 1 \in Nat BY <1>2, OpType
    <2>2. h.access = minted + 1 /\ h.binding = op[o].hand.binding /\ h.refresh = x BY <2>1 DEF Records
    <2>3. h \in Records BY <2>1 DEF Records
    <2>. QED BY <2>2, <2>3
  <1>4. op'[o] = r /\ op' \in [Ops -> Operations] /\ r.pc = "advance" /\ r.why = op[o].why /\ r.hand = h
    <2>1. r = [op[o] EXCEPT !.pc = "advance", !.hand = h] BY <1>2a, OpType DEF Operations, Records
    <2>2. [op[o] EXCEPT !.pc = "advance", !.hand = h] \in Operations
      BY <1>3, OpType DEF Operations, UnderLock
    <2>3. r.pc = "advance" /\ r.why = op[o].why /\ r.hand = h BY <2>1, OpType DEF Operations
    <2>. QED BY <1>1, <2>1, <2>2, <2>3, Moved
  <1>5. /\ op'[o].pc = "advance" /\ op'[o].why = op[o].why /\ op'[o].hand.access = minted'
        /\ op'[o].hand.binding = op[o].hand.binding
        /\ op'[o].hand.refresh = IF rotates THEN minted' ELSE op[o].hand.refresh
    BY <1>1, <1>3, <1>2a, <1>4
  <1>6. /\ op[o].why \in Renewals /\ op[o].hand.access = record.access
        /\ op[o].hand.refresh = record.refresh /\ record.access \in tried[o] /\ record # NoRecord
        /\ record.binding # 0 => op[o].hand.binding = record.binding
    BY <1>1 DEF Inv, Carries
  <1>7. \A p \in Ops : p # o =>
             /\ op'[p] = op[p]
             /\ Stores(p)' = Stores(p) /\ Carrying(p)' = Carrying(p) /\ Pending(p)' = Pending(p)
             /\ Refreshing(p)' = Refreshing(p) /\ Committing(p)' = Committing(p)
    BY <1>1, Frame
  <1>8. Refreshing(o)' /\ ~Committing(o)' /\ Stores(o)' /\ ~Pending(o)' /\ Carrying(o)'
    BY <1>1, <1>5, <1>6 DEF Stores, Refreshing, Committing, Carrying, Pending, Renewals
  <1>9. \A p \in Ops : p # o => /\ op[p].pc \notin UnderLock /\ ~Carrying(p) /\ ~Refreshing(p)
                                /\ op[p].pc \notin {"exchanging", "advance", "write"}
    BY <1>1, Alone DEF UnderLock
  <1>10. record.access \in 1..minted /\ record.refresh \in 1..minted
    <2>1. record.access \in Nat /\ record.refresh \in Nat BY OpType DEF Records
    <2>. QED BY <1>2, <1>6, <2>1 DEF Inv, Known
  <1>11. minted' \in 1..minted' /\ minted' \notin 1..minted /\ \A n \in 1..minted : n \in 1..minted'
    BY <1>1, <1>2
  <1>12. spent' \subseteq spent \cup {record.refresh} /\ spent \subseteq 1..minted
    BY <1>0, <1>6 DEF Inv, Known
  <1>13. Types'
    <2>1. spent' \subseteq Nat BY <1>10, <1>12
    <2>. QED BY <1>1, <1>2, <1>4, <2>1 DEF Inv, Types, TypeOK
  <1>14. Held' BY <1>1, <1>5, <1>7 DEF Inv, Held, UnderLock
  <1>15. Known'
    <2>1. record.access <= minted' /\ record.refresh <= minted' BY <1>10, <1>1, <1>2
    <2>2. spent' \subseteq 1..minted' BY <1>10, <1>11, <1>12
    <2>3. \A p \in Ops : tried[p] \subseteq 1..minted' BY <1>11 DEF Inv, Known
    <2>. QED BY <1>1, <2>1, <2>2, <2>3 DEF Inv, Known
  <1>16. Roles' BY <1>1, <1>5, <1>7 DEF Inv, Roles
  <1>17. Carries'
    <2>. SUFFICES ASSUME NEW p \in Ops PROVE Carries!(p)' BY DEF Carries
    <2>1. CASE p = o BY <1>1, <1>5, <1>6, <2>1 DEF Renewals
    <2>2. CASE p # o BY <1>7, <1>9, <2>2
    <2>. QED BY <2>1, <2>2
  <1>18. Fresh'
    <2>1. record.access # minted' /\ minted' \notin spent /\ \A p \in Ops : minted' \notin tried[p]
      BY <1>10, <1>11 DEF Inv, Known
    <2>2. op'[o].hand.refresh \in 1..minted' BY <1>5, <1>6, <1>10, <1>11
    <2>3. op'[o].hand.refresh \notin spent'
      <3>1. CASE rotates BY <1>0, <1>5, <1>6, <1>10, <1>11, <2>1, <3>1
      <3>2. CASE ~rotates BY <1>0, <1>1, <1>5, <3>2
      <3>. QED BY <3>1, <3>2
    <2>4. \A p \in Ops : p # o /\ Stores(p) =>
            /\ Committing(p) /\ op[p].hand.access \in 1..minted /\ op[p].hand.refresh \in 1..minted
            /\ op[p].hand.access # minted' /\ op[p].hand.refresh # minted'
            /\ op[p].hand.refresh # record.refresh /\ op[p].hand.refresh \notin spent'
      BY <1>9, <1>11, <1>12 DEF Inv, Fresh, Stores
    <2>5. \A p \in Ops : p # o /\ Stores(p) => op[p].hand.refresh # op'[o].hand.refresh
      BY <1>5, <1>6, <2>4
    <2>. SUFFICES ASSUME NEW p \in Ops PROVE Fresh!(p)' BY DEF Fresh
    <2>6. CASE p = o BY <1>1, <1>5, <1>7, <1>8, <1>11, <2>1, <2>2, <2>3, <2>4, <2>6
    <2>7. CASE p # o
      <3>1. ASSUME Stores(p) PROVE \A q \in Ops : q # p /\ Stores(q)' =>
              op'[q].hand.access # op[p].hand.access /\ op'[q].hand.refresh # op[p].hand.refresh
        <4>. SUFFICES ASSUME NEW q \in Ops, q # p, Stores(q)'
                      PROVE  op'[q].hand.access # op[p].hand.access /\ op'[q].hand.refresh # op[p].hand.refresh
          OBVIOUS
        <4>1. CASE q = o BY <1>5, <2>4, <2>5, <2>7, <3>1, <4>1
        <4>2. CASE q # o BY <1>7, <2>4, <2>7, <3>1, <4>2 DEF Inv, Fresh
        <4>. QED BY <4>1, <4>2
      <3>. QED BY <1>1, <1>7, <1>11, <2>4, <2>7, <3>1 DEF Inv, Fresh
    <2>. QED BY <2>6, <2>7
  <1>19. Tries'
    <2>. SUFFICES ASSUME NEW p \in Ops PROVE Tries!(p)' BY DEF Tries
    <2>1. CASE p = o BY <1>8, <2>1
    <2>2. CASE p # o BY <1>1, <1>7, <2>2 DEF Inv, Tries
    <2>. QED BY <2>1, <2>2
  <1>20. ExchangedOnce' BY <1>1, <1>5, <1>7 DEF Inv, ExchangedOnce, At
  <1>21. Spent' BY <1>1, <1>6, <1>8 DEF Spent
  <1>22. Logins'
    <2>1. \A p \in Ops : op'[p].pc # "write" BY <1>5, <1>7, <1>9
    <2>. QED BY <1>1, <1>5, <1>6, <1>7, <1>8, <1>9, <2>1 DEF Inv, Logins, Renewals
  <1>. QED BY <1>13, <1>14, <1>15, <1>16, <1>17, <1>18, <1>19, <1>20, <1>21, <1>22 DEF Inv

\* The answer is lost: the stored token is spent, and its operation failed.
LEMMA ExchangeLostInv == ASSUME Inv, NEW o \in Ops, ExchangeLost(o) PROVE Inv'
  <1>. DEFINE r == [Blank EXCEPT !.pc = "failed"]
  <1>1. /\ Become(o, r) /\ op[o].pc = "exchanging" /\ spent' = spent \cup {op[o].hand.refresh}
        /\ Release(o) /\ UNCHANGED <<record, generation, minted, tried>>
    BY DEF ExchangeLost, At, End
  <1>2. op'[o].pc = "failed" /\ op'[o].why = "none" /\ op' \in [Ops -> Operations]
    <2>1. r \in Operations BY BlankType DEF Ended
    <2>2. r.pc = "failed" /\ r.why = "none" BY DEF Blank
    <2>. QED BY <1>1, <2>1, <2>2, Moved
  <1>3. op[o].hand.refresh = record.refresh /\ record.access \in tried[o] /\ record # NoRecord
    BY <1>1 DEF Inv, Carries
  <1>4. \A p \in Ops : p # o =>
             /\ op'[p] = op[p]
             /\ Stores(p)' = Stores(p) /\ Carrying(p)' = Carrying(p) /\ Pending(p)' = Pending(p)
             /\ Refreshing(p)' = Refreshing(p) /\ Committing(p)' = Committing(p)
    BY <1>1, Frame
  <1>5. ~Refreshing(o)' /\ ~Committing(o)' /\ ~Stores(o)' /\ ~Pending(o)' /\ ~Carrying(o)' /\ ~Refreshing(o)
    BY <1>1, <1>2 DEF Stores, Refreshing, Committing, Carrying, Pending
  <1>6. record.refresh \in 1..minted
    <2>1. record.refresh \in Nat /\ minted \in Nat BY OpType DEF Records
    <2>. QED BY <1>3, <2>1 DEF Inv, Known
  <1>7. Types' BY <1>1, <1>2, <1>3, <1>6, NobodyAssumption DEF Inv, Types, TypeOK, Release
  <1>8. Held' BY <1>1, <1>2, <1>4, NobodyAssumption DEF Inv, Held, UnderLock, Release
  <1>9. Known' BY <1>1, <1>3, <1>6 DEF Inv, Known
  <1>10. Roles' BY <1>1, <1>2, <1>4 DEF Inv, Roles
  <1>11. Carries' BY <1>1, <1>2, <1>4, <1>5 DEF Inv, Carries
  <1>12. Fresh'
    <2>1. \A p \in Ops : p # o /\ Stores(p) => Committing(p)
      BY <1>1, Alone DEF Stores, UnderLock
    <2>2. \A p \in Ops : p # o /\ Stores(p) => op[p].hand.refresh \notin spent'
      BY <1>1, <1>3, <2>1 DEF Inv, Fresh
    <2>. QED BY <1>1, <1>4, <1>5, <2>2 DEF Inv, Fresh
  <1>13. Tries' BY <1>1, <1>2, <1>4 DEF Inv, Tries
  <1>14. ExchangedOnce' BY <1>1, <1>2, <1>4 DEF Inv, ExchangedOnce, At
  <1>15. Spent' BY <1>1, <1>2, <1>3 DEF Spent
  <1>16. Logins'
    <2>1. \A p \in Ops : op'[p].pc = "write" => op[p].pc = "write" BY <1>2, <1>4
    <2>. QED BY <1>1, <1>4, <1>5, <2>1 DEF Inv, Logins
  <1>. QED BY <1>7, <1>8, <1>9, <1>10, <1>11, <1>12, <1>13, <1>14, <1>15, <1>16 DEF Inv

\* Where an operation goes when its record is written.
LEMMA WriteFacts ==
    ASSUME Inv, NEW o \in Ops, Write(o)
    PROVE  /\ op' \in [Ops -> Operations] /\ Become(o, op'[o])
           /\ op[o].pc = "write" /\ holder = o
           /\ op'[o].pc \notin {"exchanging", "advance", "write", "approval", "waiting"}
           /\ op'[o].pc = "locked" <=> holder' = o
           /\ op'[o].pc = "locked" => op'[o].why = "load"
           /\ holder' \in {o, Nobody}
           /\ op'[o].why \in {"begin", "commit", "logout"} => o \in Signers
           /\ record' = IF op[o].why = "logout" THEN NoRecord ELSE op[o].hand
           /\ UNCHANGED <<generation, minted, spent, tried>>
  <1>1. op[o].pc = "write" /\ holder = o BY DEF Write, At, Inv, Held, UnderLock
  <1>2. op[o].why \in {"begin", "commit", "logout"} => o \in Signers BY DEF Inv, Roles
  <1>3. ASSUME NEW r \in Operations, Become(o, r),
               r.pc \notin {"exchanging", "advance", "write", "approval", "waiting", "locked"},
               r.why \in {"begin", "commit", "logout"} => o \in Signers, Release(o)
        PROVE  /\ op' \in [Ops -> Operations] /\ Become(o, op'[o])
               /\ op'[o].pc \notin {"exchanging", "advance", "write", "approval", "waiting"}
               /\ op'[o].pc = "locked" <=> holder' = o
               /\ op'[o].pc = "locked" => op'[o].why = "load"
               /\ holder' \in {o, Nobody}
               /\ op'[o].why \in {"begin", "commit", "logout"} => o \in Signers
    <2>1. op'[o] = r /\ op' \in [Ops -> Operations] BY <1>3, Moved
    <2>2. holder' = Nobody /\ holder' # o BY <1>1, <1>3, NobodyAssumption DEF Release
    <2>. QED BY <1>3, <2>1, <2>2
  <1>4. CASE Become(o, [op[o] EXCEPT !.pc = "locked", !.why = "load"]) /\ UNCHANGED holder
    <2>. DEFINE r == [op[o] EXCEPT !.pc = "locked", !.why = "load"]
    <2>1. r \in Operations /\ r.pc = "locked" /\ r.why = "load" BY OpType DEF Operations, UnderLock
    <2>2. op'[o] = r /\ op' \in [Ops -> Operations] BY <1>4, <2>1, Moved
    <2>. QED BY <1>1, <1>4, <2>1, <2>2 DEF Write
  <1>5. CASE Go(o, "fetching") /\ Release(o)
    <2>. DEFINE r == [op[o] EXCEPT !.pc = "fetching"]
    <2>1. r \in Operations /\ r.pc = "fetching" /\ r.why = op[o].why BY OpType DEF Operations
    <2>. QED BY <1>1, <1>2, <1>3, <1>5, <2>1 DEF Write, Go
  <1>6. CASE (End(o, "failed") \/ End(o, "returned")) /\ Release(o)
    <2>1. PICK phase \in Ended : End(o, phase) BY <1>6 DEF Ended
    <2>. DEFINE r == [Blank EXCEPT !.pc = phase]
    <2>2. r \in Operations /\ r.pc = phase /\ r.why = "none"
      <3>1. r.pc = phase /\ r.why = "none" BY DEF Blank
      <3>. QED BY <3>1, BlankType
    <2>. QED BY <1>1, <1>3, <1>6, <2>1, <2>2 DEF Write, End, Ended
  <1>7. CASE NextSend(o) /\ Release(o)
    <2>1. CASE op[o].sent < MaxSends
      <3>. DEFINE r == [op[o] EXCEPT !.pc = "sending", !.sent = @ + 1, !.hand = NoRecord]
      <3>1. op[o].sent + 1 \in 0..MaxSends BY <2>1, SendsAssumption, OpType
      <3>2. NoRecord \in Records BY BlankType
      <3>3. r \in Operations BY <3>1, <3>2, OpType DEF Operations
      <3>4. r.pc = "sending" /\ r.why = op[o].why BY OpType DEF Operations
      <3>5. Become(o, r) BY <1>7, <2>1 DEF NextSend
      <3>. QED BY <1>1, <1>2, <1>3, <1>7, <3>3, <3>4, <3>5 DEF Write
    <2>2. CASE ~(op[o].sent < MaxSends) BY <1>6, <1>7, <2>2 DEF NextSend
    <2>. QED BY <2>1, <2>2
  <1>. QED BY <1>4, <1>5, <1>6, <1>7 DEF Write

\* The record that is written is new, or the stored one with its binding, or
\* none: nobody exchanged it, its refresh token is not spent, and no login can
\* be saved that began before.
LEMMA WriteInv == ASSUME Inv, NEW o \in Ops, Write(o) PROVE Inv'
  <1>1. Become(o, op'[o]) BY WriteFacts
  <1>2. /\ op' \in [Ops -> Operations] /\ op[o].pc = "write" /\ holder = o
        /\ op'[o].pc \notin {"exchanging", "advance", "write", "approval", "waiting"}
        /\ op'[o].pc = "locked" <=> holder' = o
        /\ op'[o].pc = "locked" => op'[o].why = "load"
        /\ holder' \in {o, Nobody}
        /\ op'[o].why \in {"begin", "commit", "logout"} => o \in Signers
    BY WriteFacts
  <1>3. /\ record' = IF op[o].why = "logout" THEN NoRecord ELSE op[o].hand
        /\ UNCHANGED <<generation, minted, spent, tried>>
    BY WriteFacts
  <1>4. \A p \in Ops : p # o =>
             /\ op'[p] = op[p]
             /\ Stores(p)' = Stores(p) /\ Carrying(p)' = Carrying(p) /\ Pending(p)' = Pending(p)
             /\ Refreshing(p)' = Refreshing(p) /\ Committing(p)' = Committing(p)
    BY <1>1, Frame
  <1>5. ~Refreshing(o)' /\ ~Committing(o)' /\ ~Stores(o)' /\ ~Pending(o)' /\ ~Carrying(o)' /\ Carrying(o)
    BY <1>2 DEF Stores, Refreshing, Committing, Carrying, Pending
  <1>6. \A p \in Ops : p # o => /\ op[p].pc \notin UnderLock /\ ~Carrying(p) /\ ~Refreshing(p)
                                /\ op[p].pc \notin {"exchanging", "advance", "write"}
    BY <1>2, Alone DEF UnderLock
  <1>7. op[o].why \in {"load", "rejected", "bind", "commit", "logout"} BY <1>5 DEF Inv, Carries, Renewals
  <1>8. record \in Records /\ record' \in Records /\ op[o].hand \in Records /\ minted \in Nat
    BY <1>3, OpType, BlankType
  <1>. DEFINE Stored ==
         /\ record'.access <= minted /\ record'.refresh <= minted
         /\ record' # NoRecord => record'.access # 0 /\ record'.refresh # 0
         /\ \A p \in Ops : p # o /\ Stores(p) =>
              op[p].hand.access # record'.access /\ op[p].hand.refresh # record'.refresh
         /\ \A p \in Ops : record'.access \in tried[p] => p # o /\ op[p].pc = "failed"
         /\ record'.refresh \in spent => \E p \in Ops : p # o /\ tried[p] # {} /\ op[p].pc = "failed"
  <1>9. \A p \in Ops : p # o /\ Stores(p) => Committing(p) BY <1>6 DEF Stores
  <1>10. ASSUME op[o].why = "logout" PROVE Stored
    <2>1. record' = NoRecord /\ record'.access = 0 /\ record'.refresh = 0 BY <1>3, <1>10 DEF NoRecord
    <2>2. 0 \notin 1..minted /\ 0 <= minted BY <1>8
    <2>3. 0 \notin spent /\ \A p \in Ops : 0 \notin tried[p] BY <2>2 DEF Inv, Known
    <2>4. \A p \in Ops : Stores(p) => op[p].hand.access # 0 /\ op[p].hand.refresh # 0
      BY <2>2 DEF Inv, Fresh
    <2>. QED BY <2>1, <2>2, <2>3, <2>4
  <1>11. ASSUME op[o].why = "bind" PROVE Stored
    <2>1. record'.access = record.access /\ record'.refresh = record.refresh /\ record # NoRecord
      BY <1>3, <1>5, <1>11 DEF Inv, Carries
    <2>2. ~Refreshing(o) /\ op[o].pc # "failed" /\ op[o].pc # "exchanging"
      BY <1>2, <1>11 DEF Refreshing, Renewals
    <2>3. \A p \in Ops : record.access \in tried[p] => p # o /\ op[p].pc = "failed"
      BY <1>6, <2>2 DEF Inv, Tries
    <2>4. record.refresh \in spent => \E p \in Ops : p # o /\ tried[p] # {} /\ op[p].pc = "failed"
      BY <1>6, <2>2 DEF Inv, Spent
    <2>5. \A p \in Ops : p # o /\ Stores(p) =>
            op[p].hand.access # record.access /\ op[p].hand.refresh # record.refresh
      BY <1>9 DEF Inv, Fresh
    <2>. QED BY <2>1, <2>3, <2>4, <2>5 DEF Inv, Known
  <1>12. ASSUME op[o].why \in {"load", "rejected", "commit"} PROVE Stored
    <2>1. Stores(o) BY <1>5, <1>12 DEF Stores, Refreshing, Committing, Renewals
    <2>2. record' = op[o].hand BY <1>3, <1>12
    <2>3. op[o].hand.access \in 1..minted /\ op[o].hand.refresh \in 1..minted BY <2>1 DEF Inv, Fresh
    <2>4. \A p \in Ops : p # o /\ Stores(p) =>
            op[p].hand.access # op[o].hand.access /\ op[p].hand.refresh # op[o].hand.refresh
      BY <1>9, <2>1 DEF Inv, Fresh
    <2>5. op[o].hand.refresh \notin spent /\ \A p \in Ops : op[o].hand.access \notin tried[p]
      BY <2>1 DEF Inv, Fresh
    <2>. QED BY <1>8, <2>2, <2>3, <2>4, <2>5
  <1>13. Stored BY <1>7, <1>10, <1>11, <1>12
  <1>14. Types' BY <1>2, <1>3, <1>8, NobodyAssumption DEF Inv, Types, TypeOK
  <1>15. Held'
    <2>1. op'[o].pc \in UnderLock <=> holder' = o BY <1>2 DEF UnderLock
    <2>. QED BY <1>2, <1>4, <1>6, <2>1, NobodyAssumption DEF Held
  <1>16. Known' BY <1>3, <1>13 DEF Inv, Known
  <1>17. Roles' BY <1>2, <1>4 DEF Inv, Roles
  <1>18. Carries' BY <1>2, <1>4, <1>5, <1>6 DEF Carries
  <1>19. Fresh' BY <1>3, <1>4, <1>5, <1>9, <1>13 DEF Inv, Fresh
  <1>20. Tries' BY <1>3, <1>4, <1>13 DEF Tries
  <1>21. ExchangedOnce' BY <1>2, <1>3, <1>4 DEF Inv, ExchangedOnce, At
  <1>22. Spent'
    <2>. SUFFICES ASSUME record'.refresh \in spent PROVE Spent' BY <1>3 DEF Spent
    <2>1. PICK p \in Ops : p # o /\ tried[p] # {} /\ op[p].pc = "failed" BY <1>13
    <2>2. tried'[p] # {} /\ op'[p].pc = "failed" BY <1>3, <1>4, <2>1
    <2>. QED BY <2>2 DEF Spent
  <1>23. Logins'
    <2>1. \A p \in Ops : Pending(p) => op[p].began <= generation /\ op[p].began # generation
      BY <1>2 DEF Inv, Logins
    <2>. QED BY <1>3, <1>4, <1>5, <1>6, <2>1 DEF Logins
  <1>. QED BY <1>14, <1>15, <1>16, <1>17, <1>18, <1>19, <1>20, <1>21, <1>22, <1>23 DEF Inv

-----------------------------------------------------------------------------
(* The theorems.                                                            *)

\* The record of an earlier version, or a current one, is stored.
LEMMA InitInv == Init => Inv
  <1>. SUFFICES ASSUME Init PROVE Inv OBVIOUS
  <1>1. \A o \in Ops : op[o] = Blank /\ tried[o] = {} BY DEF Init
  <1>2. /\ record.access = 1 /\ record.refresh = 1 /\ record \in Records
        /\ minted = 1 /\ spent = {} /\ holder = Nobody
    BY DEF Init, Records
  <1>3. Blank.pc = "idle" /\ Blank.why = "none" BY DEF Blank
  <1>4. Types
    <2>1. op \in [Ops -> Operations] BY BlankType DEF Init
    <2>. QED BY <1>2, <2>1 DEF Init, Types, TypeOK
  <1>5. Held BY <1>1, <1>2, <1>3, NobodyAssumption DEF Held, UnderLock
  <1>6. Known BY <1>1, <1>2 DEF Known
  <1>7. \A o \in Ops : ~Stores(o) /\ ~Carrying(o) /\ ~Refreshing(o) /\ ~Committing(o) /\ ~Pending(o)
    BY <1>1, <1>3 DEF Stores, Carrying, Refreshing, Committing, Pending
  <1>8. Roles /\ Carries /\ Fresh /\ Logins BY <1>1, <1>3, <1>7 DEF Roles, Carries, Fresh, Logins
  <1>9. Tries /\ ExchangedOnce /\ Spent BY <1>1, <1>2 DEF Tries, ExchangedOnce, Spent
  <1>. QED BY <1>4, <1>5, <1>6, <1>8, <1>9 DEF Inv

\* Every step keeps the invariant.
LEMMA NextInv == Inv /\ [Next]_vars => Inv'
  <1>. SUFFICES ASSUME Inv, [Next]_vars PROVE Inv' OBVIOUS
  <1>1. CASE UNCHANGED vars
    BY <1>1 DEF vars, Inv, Types, TypeOK, Held, Known, Roles, Carries, Fresh, Tries, ExchangedOnce, Spent,
                Logins, At, Stores, Carrying, Refreshing, Committing, Pending
  <1>2. ASSUME NEW o \in Ops, Step(o) PROVE Inv'
    BY <1>2, AcquireInv, RequestInv, ForceRefreshInv, ExchangeRejectedInv, ExchangeInv, ExchangeLostInv,
       AdvanceInv, WriteInv, BeginLoginInv, ApproveInv, SignerAdvancesInv, FailInv DEF Step
  <1>3. ASSUME NEW o \in Ops, StartRequest(o) \/ StartLogin(o) \/ StartLogout(o) \/ Deliver(o) \/ Crash(o)
        PROVE  Inv'
    BY <1>3, RequestInv, SignerStartsInv, FailInv
  <1>. QED BY <1>1, <1>2, <1>3, ExpireInv DEF Next

\* The inductive invariant holds throughout.
LEMMA Invariance == Spec => []Inv
  BY InitInv, NextInv, PTL DEF Spec

\* The stored credential keeps its types, and its refresh token is dead at the
\* server only while the operation that rotated it is still to save the
\* successor, or after it failed: for any number of requests and sign-ins.
THEOREM TokensSafeHolds == Spec => []TokensSafe
  <1>1. Inv => TokensSafe BY DEF Inv, Types, TokensSafe, StoredIsUsable, Spent, Refreshing, Carrying
  <1>. QED BY <1>1, Invariance, PTL

\* However many requests find one record stale or have it rejected, two
\* exchange it only if one of them failed (oauth refresh under the mutex).
THEOREM ExchangedOnceHolds == Spec => []ExchangedOnce
  <1>1. Inv => ExchangedOnce BY DEF Inv
  <1>. QED BY <1>1, Invariance, PTL

\* A login that is about to be saved began with the record now stored, also
\* when another writer died between the generation and the record.
THEOREM LoginNeverOverwritesHolds == Spec => LoginNeverOverwrites
  <1>1. Inv => \A o \in Signers : Saving(o, {"commit"}) => record.access = op[o].seen
    BY DEF Inv, Logins, Saving, At, Carrying, Ops
  <1>2. Inv /\ [Next]_vars =>
          [\A o \in Signers :
              Saving(o, {"commit"}) /\ op'[o].pc = "returned" => record.access = op[o].seen]_vars
    BY <1>1
  <1>. QED BY <1>2, Invariance, PTL DEF Spec, LoginNeverOverwrites

\* The record changes when it is written, and when time passes.
LEMMA RecordChanges ==
    ASSUME Inv, [Next]_vars, record' # record PROVE Expire \/ \E o \in Ops : Write(o)
  BY DEF Next, Step, vars, StartRequest, StartLogin, StartLogout, Deliver, Crash, Acquire, LoadFreshRecord,
         Rejected, RetryableFailure, Stream, StreamBreaks, StreamEnds, ForceRefresh, ExchangeRejected, Refresh,
         Exchange, ExchangeLost, Advance, BeginLogin, Approve, CommitLogin, Logout, Fail

\* A refresh keeps the account lineage and never brings back a record that was
\* signed out, whatever ran while it waited for the server.
THEOREM LineageKeptHolds == Spec => LineageKept
  <1>. DEFINE A == /\ record.binding # 0 /\ record'.binding # record.binding =>
                        \E o \in Signers : Saving(o, {"commit", "logout"})
                   /\ record = NoRecord /\ record' # NoRecord =>
                        \E o \in Signers : Saving(o, {"commit"})
  <1>1. Inv /\ [Next]_vars => [A]_vars
    <2>. SUFFICES ASSUME Inv, [Next]_vars, record' # record PROVE A BY DEF vars
    <2>1. CASE Expire
      <3>1. record \in Records /\ record # NoRecord BY <2>1 DEF Inv, Types, TypeOK, Expire, NoRecord
      <3>2. record'.binding = record.binding BY <2>1, <3>1 DEF Expire, Records
      <3>. QED BY <3>1, <3>2
    <2>2. ASSUME NEW o \in Ops, Write(o) PROVE A
      <3>1. op[o].pc = "write" /\ record' = IF op[o].why = "logout" THEN NoRecord ELSE op[o].hand
        BY <2>2, WriteFacts
      <3>2. Carrying(o) /\ op[o].why \in {"load", "rejected", "bind", "commit", "logout"}
        BY <3>1 DEF Inv, Carries, Carrying, Renewals
      <3>3. CASE op[o].why \in {"load", "rejected", "bind"}
        <4>1. Refreshing(o) \/ op[o].why = "bind" BY <3>2, <3>3 DEF Refreshing, Renewals
        <4>2. record # NoRecord /\ (record.binding # 0 => op[o].hand.binding = record.binding)
          BY <3>2, <4>1 DEF Inv, Carries
        <4>. QED BY <3>1, <3>3, <4>2
      <3>4. CASE op[o].why \in {"commit", "logout"}
        <4>1. o \in Signers BY <3>4 DEF Inv, Roles
        <4>. QED BY <3>1, <3>4, <4>1 DEF Saving, At
      <3>. QED BY <3>2, <3>3, <3>4
    <2>. QED BY <2>1, <2>2, RecordChanges
  <1>. QED BY <1>1, Invariance, PTL DEF Spec, LineageKept

\* One operation moves in a step.
LEMMA OneMoves ==
    ASSUME Inv, [Next]_vars, NEW o \in Ops, op'[o] # op[o]
    PROVE  Step(o) \/ StartRequest(o) \/ StartLogin(o) \/ StartLogout(o) \/ Deliver(o) \/ Crash(o)
  <1>1. ASSUME NEW p \in Ops, p # o, NEW r, Become(p, r) PROVE FALSE BY <1>1, Moved
  <1>2. ASSUME NEW p \in Ops,
               Step(p) \/ StartRequest(p) \/ StartLogin(p) \/ StartLogout(p) \/ Deliver(p) \/ Crash(p)
        PROVE  \E r : Become(p, r)
    BY <1>2 DEF Step, StartRequest, StartLogin, StartLogout, Deliver, Crash, Acquire, LoadFreshRecord,
         Rejected, RetryableFailure, Stream, StreamBreaks, StreamEnds, ForceRefresh, ExchangeRejected, Refresh,
         Exchange, ExchangeLost, Advance, Write, BeginLogin, Approve, CommitLogin, Logout, Fail,
         Go, End, LockFor, NextSend
  <1>. QED BY <1>1, <1>2 DEF Next, Expire, vars

\* The phases an operation's moves lead to.
LEMMA Phases ==
    ASSUME Inv, NEW o \in Ops
    PROVE  /\ \A phase \in Ended : End(o, phase) => op'[o].pc = phase
           /\ \A w : LockFor(o, w) => op'[o].pc = "waiting"
           /\ \A phase : Go(o, phase) => op'[o].pc = phase
           /\ NextSend(o) => op'[o].pc \in {"sending", "failed"}
  <1>1. op[o] \in Operations BY OpType
  <1>2. ASSUME NEW phase \in Ended, End(o, phase) PROVE op'[o].pc = phase
    <2>1. op'[o] = [Blank EXCEPT !.pc = phase] BY <1>2, Moved DEF End
    <2>. QED BY <2>1 DEF Blank
  <1>3. ASSUME NEW w, LockFor(o, w) PROVE op'[o].pc = "waiting"
    <2>1. op'[o] = [op[o] EXCEPT !.pc = "waiting", !.why = w] BY <1>3, Moved DEF LockFor
    <2>. QED BY <1>1, <2>1 DEF Operations
  <1>4. ASSUME NEW phase, Go(o, phase) PROVE op'[o].pc = phase
    <2>1. op'[o] = [op[o] EXCEPT !.pc = phase] BY <1>4, Moved DEF Go
    <2>. QED BY <1>1, <2>1 DEF Operations
  <1>5. ASSUME NextSend(o) PROVE op'[o].pc \in {"sending", "failed"}
    <2>1. CASE op[o].sent < MaxSends
      <3>1. op'[o] = [op[o] EXCEPT !.pc = "sending", !.sent = @ + 1, !.hand = NoRecord]
        BY <1>5, <2>1, Moved DEF NextSend
      <3>. QED BY <1>1, <3>1 DEF Operations
    <2>2. CASE ~(op[o].sent < MaxSends) BY <1>2, <1>5, <2>2 DEF NextSend, Ended
    <2>. QED BY <2>1, <2>2
  <1>. QED BY <1>2, <1>3, <1>4, <1>5

\* A record a model request is sent with was in the store when it was handed
\* over: a token the exchange returned is saved first (the fetch follows the
\* write, and the mutex keeps everybody else from the record in between).
THEOREM HandedIsStoredHolds == Spec => HandedIsStored
  <1>. DEFINE A == \A o \in Requests : ~At(o, "fetching") /\ op'[o].pc = "fetching" =>
                      SameRecord(record', op'[o].hand)
  <1>1. Inv /\ [Next]_vars => [A]_vars
    <2>. SUFFICES ASSUME Inv, [Next]_vars, NEW o \in Requests, op[o].pc # "fetching", op'[o].pc = "fetching"
                  PROVE  SameRecord(record', op'[o].hand)
      BY DEF At
    <2>. o \in Ops BY DEF Ops
    <2>1. op[o] \in Operations /\ record \in Records BY OpType
    <2>2. Step(o) \/ StartRequest(o) \/ StartLogin(o) \/ StartLogout(o) \/ Deliver(o) \/ Crash(o)
      BY OneMoves
    <2>3. ASSUME Become(o, [op[o] EXCEPT !.pc = "fetching", !.hand = record]), record' = record
          PROVE  SameRecord(record', op'[o].hand)
      <3>1. op'[o] = [op[o] EXCEPT !.pc = "fetching", !.hand = record] BY <2>3, Moved
      <3>2. op'[o].hand = record BY <2>1, <3>1 DEF Operations
      <3>. QED BY <2>3, <3>2 DEF SameRecord
    <2>4. ~StartRequest(o) /\ ~StartLogin(o) /\ ~StartLogout(o) /\ ~Deliver(o) /\ ~Crash(o)
      <3>1. ~Deliver(o)
        <4>. SUFFICES ASSUME Deliver(o) PROVE FALSE OBVIOUS
        <4>1. op'[o] = [op[o] EXCEPT !.delivered = TRUE] BY Moved DEF Deliver
        <4>. QED BY <2>1, <4>1 DEF Operations
      <3>. QED BY <3>1, Phases DEF StartRequest, StartLogin, StartLogout, Crash, Ended
    <2>5. CASE LoadFreshRecord(o) BY <2>3, <2>5, Phases DEF LoadFreshRecord, Ended
    <2>6. CASE ForceRefresh(o) \/ ExchangeRejected(o)
      <3>1. ASSUME NEW h, NEW x, Refresh(o, h, x) PROVE FALSE
        <4>1. op'[o] = [op[o] EXCEPT !.pc = IF x THEN "exchanging" ELSE "advance",
                                     !.why = IF x THEN @ ELSE "bind", !.hand = h]
          BY <3>1, Moved DEF Refresh
        <4>. QED BY <2>1, <4>1 DEF Operations
      <3>. QED BY <2>3, <2>6, <3>1, Phases DEF ForceRefresh, ExchangeRejected
    <2>7. CASE Write(o)
      <3>1. ~NextSend(o) /\ ~End(o, "returned") BY Phases DEF Ended
      <3>2. ~Become(o, [op[o] EXCEPT !.pc = "locked", !.why = "load"])
        <4>. SUFFICES ASSUME Become(o, [op[o] EXCEPT !.pc = "locked", !.why = "load"]) PROVE FALSE OBVIOUS
        <4>1. op'[o] = [op[o] EXCEPT !.pc = "locked", !.why = "load"] BY Moved
        <4>. QED BY <2>1, <4>1 DEF Operations
      <3>3. op[o].why = "load" /\ Go(o, "fetching") /\ record' = op[o].hand BY <2>7, <3>1, <3>2 DEF Write
      <3>4. op'[o].hand = op[o].hand
        <4>1. op'[o] = [op[o] EXCEPT !.pc = "fetching"] BY <3>3, Moved DEF Go
        <4>. QED BY <2>1, <4>1 DEF Operations
      <3>. QED BY <3>3, <3>4 DEF SameRecord
    <2>8. ~(Acquire(o) \/ Advance(o) \/ CommitLogin(o) \/ Logout(o)) BY Phases DEF Acquire, Advance, CommitLogin, Logout
    <2>9. ~(RetryableFailure(o) \/ StreamBreaks(o) \/ StreamEnds(o) \/ ExchangeLost(o) \/ Fail(o))
      BY Phases DEF RetryableFailure, StreamBreaks, StreamEnds, ExchangeLost, Fail, Ended
    <2>10. ~(Rejected(o) \/ Stream(o)) BY DEF Rejected, Stream, At
    <2>11. ~Exchange(o)
      <3>. SUFFICES ASSUME Exchange(o) PROVE FALSE OBVIOUS
      <3>1. PICK rotates \in Rotations :
              Become(o, [op[o] EXCEPT !.pc = "advance", !.hand.access = minted + 1, !.hand.fresh = TRUE,
                                      !.hand.refresh = IF rotates THEN minted + 1 ELSE @])
        BY DEF Exchange
      <3>2. op'[o] = [op[o] EXCEPT !.pc = "advance", !.hand.access = minted + 1, !.hand.fresh = TRUE,
                                   !.hand.refresh = IF rotates THEN minted + 1 ELSE @]
        BY <3>1, Moved
      <3>. QED BY <2>1, <3>2 DEF Operations
    <2>12. ~BeginLogin(o) /\ ~Approve(o)
      <3>1. ASSUME BeginLogin(o) PROVE FALSE
        <4>1. op'[o] = [op[o] EXCEPT !.pc = "approval", !.began = generation, !.seen = record.access]
          BY <3>1, Moved DEF BeginLogin
        <4>. QED BY <2>1, <4>1 DEF Operations
      <3>2. ASSUME Approve(o) PROVE FALSE
        <4>1. op'[o] = [op[o] EXCEPT !.pc = "waiting", !.why = "commit",
                                     !.hand = [access |-> minted + 1, refresh |-> minted + 1,
                                               binding |-> minted + 1, fresh |-> TRUE]]
          BY <3>2, Moved DEF Approve
        <4>. QED BY <2>1, <4>1 DEF Operations
      <3>. QED BY <3>1, <3>2
    <2>. QED BY <2>2, <2>4, <2>5, <2>6, <2>7, <2>8, <2>9, <2>10, <2>11, <2>12 DEF Step
  <1>. QED BY <1>1, Invariance, PTL DEF Spec, HandedIsStored
=============================================================================
