------------------------- MODULE SubscriptionTokens -------------------------
(***************************************************************************)
(* Login, logout, token refresh and model requests over one stored        *)
(* subscription record.  Every operation that changes the record holds    *)
(* the mutex of CredentialLock, here the one variable `holder`, as         *)
(* CredentialMutex promises; each await under the mutex is a step, at      *)
(* which the operation can fail, be aborted or die.                        *)
(*                                                                         *)
(* Tokens and account bindings are random in the code; here they are       *)
(* numbered as they are minted, 0 for none.                                *)
(***************************************************************************)
EXTENDS Integers

CONSTANTS
    Requests,    \* model requests
    Signers,     \* attended operations, each one login or one logout
    Nobody,
    MaxSends,    \* bound of requestAttempt: 3 in the code
    Rotations    \* whether the server may, or may not, rotate refresh tokens

Ops == Requests \cup Signers

ASSUME SendsAssumption == MaxSends \in Nat \ {0}
ASSUME NobodyAssumption == Nobody \notin Ops
ASSUME KindsAssumption == Requests \cap Signers = {}
ASSUME RotationsAssumption == Rotations \in SUBSET BOOLEAN \ {{}}

VARIABLES
    record,      \* the Keychain item
    generation,  \* the .generation file
    minted,      \* identifiers made so far
    spent,       \* refresh tokens the server will not accept again
    holder,      \* the operation that holds the credential mutex
    op,          \* [Ops -> Operations]: what an operation remembers
    tried        \* [Ops -> SUBSET Nat]: records, by access token, it exchanged

vars == <<record, generation, minted, spent, holder, op, tried>>

NoRecord == [access |-> 0, refresh |-> 0, binding |-> 0, fresh |-> FALSE]
Ended == {"returned", "failed"}
UnderLock == {"locked", "exchanging", "advance", "write"}

\* pc: where the operation is; why: what it takes the mutex for; hand: the
\* record it carries; began: the generation a login began with, and seen the
\* access token then stored; sent, refreshed: AttemptState; delivered:
\* whether content of the answer went out.
Blank == [pc |-> "idle", why |-> "none", hand |-> NoRecord, began |-> 0, seen |-> 0,
          sent |-> 0, refreshed |-> FALSE, delivered |-> FALSE]

\* The record of an earlier version has no accountBinding.
Init ==
    /\ record \in {[access |-> 1, refresh |-> 1, binding |-> b, fresh |-> f] :
                      b \in {0, 1}, f \in BOOLEAN}
    /\ generation = 0
    /\ minted = 1
    /\ spent = {}
    /\ holder = Nobody
    /\ op = [o \in Ops |-> Blank]
    /\ tried = [o \in Ops |-> {}]

At(o, phase) == op[o].pc = phase
LockedFor(o, purpose) == At(o, "locked") /\ op[o].why = purpose
Become(o, r) == op' = [op EXCEPT ![o] = r]
Go(o, phase) == Become(o, [op[o] EXCEPT !.pc = phase])
End(o, phase) == Become(o, [Blank EXCEPT !.pc = phase])

-----------------------------------------------------------------------------
(* The mutex.                                                               *)

LockFor(o, purpose) == Become(o, [op[o] EXCEPT !.pc = "waiting", !.why = purpose])
Release(o) == holder' = IF holder = o THEN Nobody ELSE holder

Acquire(o) ==
    /\ At(o, "waiting")
    /\ holder = Nobody
    /\ holder' = o
    /\ Go(o, "locked")
    /\ UNCHANGED <<record, generation, minted, spent, tried>>

\* A deadline, an abort, a failed read or write, a refused grant, an answer
\* that may not be retried: the exception leaves the critical section.
Fail(o) ==
    /\ op[o].pc \in UnderLock \cup {"waiting", "approval", "fetching"}
    /\ End(o, "failed")
    /\ Release(o)
    /\ UNCHANGED <<record, generation, minted, spent, tried>>

\* The process dies; its ticket no longer stands.
Crash(o) ==
    /\ op[o].pc \notin Ended \cup {"idle"}
    /\ End(o, "failed")
    /\ Release(o)
    /\ UNCHANGED <<record, generation, minted, spent, tried>>

-----------------------------------------------------------------------------
(* A model request: requestAttempt and subscriptionStreamAttempt.           *)

\* The next send of the shared budget, or the end of the request.
NextSend(o) ==
    IF op[o].sent < MaxSends
    THEN Become(o, [op[o] EXCEPT !.pc = "sending", !.sent = @ + 1, !.hand = NoRecord])
    ELSE End(o, "failed")

StartRequest(o) ==
    /\ o \in Requests
    /\ At(o, "idle")
    /\ NextSend(o)
    /\ UNCHANGED <<record, generation, minted, spent, holder, tried>>

Usable(r) == r.fresh /\ r.binding # 0

\* loadFreshRecord: a look at the record outside the mutex.
LoadFreshRecord(o) ==
    /\ At(o, "sending")
    /\ IF record = NoRecord THEN End(o, "failed")
       ELSE IF Usable(record)
            THEN Become(o, [op[o] EXCEPT !.pc = "fetching", !.hand = record])
            ELSE LockFor(o, "load")
    /\ UNCHANGED <<record, generation, minted, spent, holder, tried>>

\* 401: one refresh of the record that was rejected, then another send.
Rejected(o) ==
    /\ At(o, "fetching")
    /\ ~op[o].refreshed /\ op[o].sent < MaxSends
    /\ Become(o, [op[o] EXCEPT !.pc = "waiting", !.why = "rejected", !.refreshed = TRUE])
    /\ UNCHANGED <<record, generation, minted, spent, holder, tried>>

\* A reset connection, a retryable status or an empty body: back off and send.
RetryableFailure(o) ==
    /\ At(o, "fetching")
    /\ NextSend(o)
    /\ UNCHANGED <<record, generation, minted, spent, holder, tried>>

Stream(o) ==
    /\ At(o, "fetching")
    /\ Become(o, [op[o] EXCEPT !.pc = "streaming", !.hand = NoRecord])
    /\ UNCHANGED <<record, generation, minted, spent, holder, tried>>

\* An event with content is handed on.
Deliver(o) ==
    /\ At(o, "streaming")
    /\ Become(o, [op[o] EXCEPT !.delivered = TRUE])
    /\ UNCHANGED <<record, generation, minted, spent, holder, tried>>

\* The stream breaks: retried only when nothing was delivered.
StreamBreaks(o) ==
    /\ At(o, "streaming")
    /\ IF op[o].delivered THEN End(o, "failed") ELSE NextSend(o)
    /\ UNCHANGED <<record, generation, minted, spent, holder, tried>>

StreamEnds(o) ==
    /\ At(o, "streaming")
    /\ End(o, "returned")
    /\ UNCHANGED <<record, generation, minted, spent, holder, tried>>

-----------------------------------------------------------------------------
(* The critical sections.                                                   *)

Bound(r) == IF r.binding = 0 THEN [r EXCEPT !.binding = minted + 1] ELSE r

\* Save the record with its binding, or exchange it for a new one.
Refresh(o, r, exchange) ==
    /\ minted' = IF record.binding # r.binding THEN minted + 1 ELSE minted
    /\ Become(o, [op[o] EXCEPT !.pc = IF exchange THEN "exchanging" ELSE "advance",
                               !.why = IF exchange THEN @ ELSE "bind",
                               !.hand = r])
    /\ tried' = [tried EXCEPT ![o] = IF exchange THEN @ \cup {r.access} ELSE @]
    /\ UNCHANGED <<record, generation, spent, holder>>

\* Mutant: every refresh gives the record a binding of its own.
ForceRefreshRebinds(o) ==
    /\ LockedFor(o, "load")
    /\ record # NoRecord
    /\ Refresh(o, [record EXCEPT !.binding = minted + 1], ~record.fresh)

\* forceRefresh reads the record again: it may be usable by now, may lack
\* only its binding, or has to be exchanged.
ForceRefresh(o) ==
    /\ LockedFor(o, "load")
    /\ record # NoRecord
    /\ \/ /\ Usable(record)
          /\ Become(o, [op[o] EXCEPT !.pc = "fetching", !.hand = record])
          /\ Release(o)
          /\ UNCHANGED <<record, generation, minted, spent, tried>>
       \/ /\ ~Usable(record)
          /\ Refresh(o, Bound(record), ~record.fresh)

SameRecord(r, s) == r.access = s.access /\ r.refresh = s.refresh /\ r.binding = s.binding

\* Mutant: the rejected record is exchanged whatever is stored by now.
ExchangeRejectedBlindly(o) ==
    /\ LockedFor(o, "rejected")
    /\ record # NoRecord
    /\ Refresh(o, op[o].hand, TRUE)

\* exchangeUnderLock: only the very record that was rejected is exchanged.
ExchangeRejected(o) ==
    /\ LockedFor(o, "rejected")
    /\ record # NoRecord
    /\ \/ /\ SameRecord(record, op[o].hand)
          /\ Refresh(o, record, TRUE)
       \/ /\ ~SameRecord(record, op[o].hand)
          /\ NextSend(o)
          /\ Release(o)
          /\ UNCHANGED <<record, generation, minted, spent, tried>>

\* Mutant: a rotated refresh token is not kept.
ExchangeKeepsOldToken(o) ==
    /\ At(o, "exchanging")
    /\ op[o].hand.refresh \notin spent
    /\ minted' = minted + 1
    /\ Become(o, [op[o] EXCEPT !.pc = "advance", !.hand.access = minted + 1, !.hand.fresh = TRUE])
    /\ spent' = spent \cup {op[o].hand.refresh}
    /\ UNCHANGED <<record, generation, holder, tried>>

\* refreshTokenExchange (up to three requests) answers with a new access
\* token, and with a new refresh token, which spends the old one, or without.
Exchange(o) ==
    /\ At(o, "exchanging")
    /\ op[o].hand.refresh \notin spent
    /\ minted' = minted + 1
    /\ \E rotates \in Rotations :
          /\ Become(o, [op[o] EXCEPT !.pc = "advance",
                                     !.hand.access = minted + 1, !.hand.fresh = TRUE,
                                     !.hand.refresh = IF rotates THEN minted + 1 ELSE @])
          /\ spent' = IF rotates THEN spent \cup {op[o].hand.refresh} ELSE spent
    /\ UNCHANGED <<record, generation, holder, tried>>

\* The server rotates the token, and the answer never arrives.
ExchangeLost(o) ==
    /\ At(o, "exchanging")
    /\ op[o].hand.refresh \notin spent
    /\ spent' = spent \cup {op[o].hand.refresh}
    /\ End(o, "failed")
    /\ Release(o)
    /\ UNCHANGED <<record, generation, minted, tried>>

\* Mutant: only logins and logouts advance the generation.
AdvanceForSigners(o) ==
    /\ At(o, "advance")
    /\ generation' = IF op[o].why \in {"commit", "logout"} THEN generation + 1 ELSE generation
    /\ Go(o, "write")
    /\ UNCHANGED <<record, minted, spent, holder, tried>>

\* advanceCredentialGeneration, before anything else is written.  (A login
\* and a logout rotate the login epoch next, which no operation reads.)
Advance(o) ==
    /\ At(o, "advance")
    /\ generation' = generation + 1
    /\ Go(o, "write")
    /\ UNCHANGED <<record, minted, spent, holder, tried>>

\* Mutant: a failed write is not noticed.
WriteUnnoticed(o) ==
    /\ At(o, "write")
    /\ \/ record' = IF op[o].why = "logout" THEN NoRecord ELSE op[o].hand
       \/ record' = record
    /\ IF op[o].why \in {"load", "bind", "rejected"} THEN Go(o, "fetching") ELSE End(o, "returned")
    /\ Release(o)
    /\ UNCHANGED <<generation, minted, spent, tried>>

\* port.write or port.delete, and what the operation does next.  A record
\* that only gained its binding is checked for freshness once more.
Write(o) ==
    /\ At(o, "write")
    /\ record' = IF op[o].why = "logout" THEN NoRecord ELSE op[o].hand
    /\ \/ /\ op[o].why = "bind"
          /\ Become(o, [op[o] EXCEPT !.pc = "locked", !.why = "load"])
          /\ UNCHANGED holder
       \/ op[o].why = "load" /\ Go(o, "fetching") /\ Release(o)
       \/ op[o].why = "rejected" /\ NextSend(o) /\ Release(o)
       \/ op[o].why \in {"commit", "logout"} /\ End(o, "returned") /\ Release(o)
    /\ UNCHANGED <<generation, minted, spent, tried>>

-----------------------------------------------------------------------------
(* Login and logout.                                                        *)

StartLogin(o) ==
    /\ o \in Signers
    /\ At(o, "idle")
    /\ LockFor(o, "begin")
    /\ UNCHANGED <<record, generation, minted, spent, holder, tried>>

\* The generation is read under the mutex, which is released for the approval.
BeginLogin(o) ==
    /\ LockedFor(o, "begin")
    /\ Become(o, [op[o] EXCEPT !.pc = "approval", !.began = generation, !.seen = record.access])
    /\ Release(o)
    /\ UNCHANGED <<record, generation, minted, spent, tried>>

\* The user approves; loginChatGpt or loginGrok obtains a record with a binding.
Approve(o) ==
    /\ At(o, "approval")
    /\ minted' = minted + 1
    /\ Become(o, [op[o] EXCEPT !.pc = "waiting", !.why = "commit",
                               !.hand = [access |-> minted + 1, refresh |-> minted + 1,
                                         binding |-> minted + 1, fresh |-> TRUE]])
    /\ UNCHANGED <<record, generation, spent, holder, tried>>

\* guardedPort.write: refused if anything was saved since the login began.
CommitLogin(o) ==
    /\ LockedFor(o, "commit")
    /\ generation = op[o].began
    /\ Go(o, "advance")
    /\ UNCHANGED <<record, generation, minted, spent, holder, tried>>

StartLogout(o) ==
    /\ o \in Signers
    /\ At(o, "idle")
    /\ LockFor(o, "logout")
    /\ UNCHANGED <<record, generation, minted, spent, holder, tried>>

Logout(o) ==
    /\ LockedFor(o, "logout")
    /\ Go(o, "advance")
    /\ UNCHANGED <<record, generation, minted, spent, holder, tried>>

\* Time passes: the stored record comes within REFRESH_SKEW_MS of its expiry.
Expire ==
    /\ record.fresh
    /\ record' = [record EXCEPT !.fresh = FALSE]
    /\ UNCHANGED <<generation, minted, spent, holder, op, tried>>

-----------------------------------------------------------------------------
Step(o) ==
    \/ Acquire(o) \/ LoadFreshRecord(o) \/ Rejected(o) \/ RetryableFailure(o)
    \/ Stream(o) \/ StreamBreaks(o) \/ StreamEnds(o)
    \/ ForceRefresh(o) \/ ExchangeRejected(o) \/ Exchange(o) \/ ExchangeLost(o)
    \/ Advance(o) \/ Write(o)
    \/ BeginLogin(o) \/ Approve(o) \/ CommitLogin(o) \/ Logout(o) \/ Fail(o)

Next ==
    \/ \E o \in Ops : \/ StartRequest(o) \/ StartLogin(o) \/ StartLogout(o)
                      \/ Step(o) \/ Deliver(o) \/ Crash(o)
    \/ Expire

Spec == Init /\ [][Next]_vars

-----------------------------------------------------------------------------
(* Properties.                                                               *)

Records == [access : Nat, refresh : Nat, binding : Nat, fresh : BOOLEAN]
Operations ==
    [pc : Ended \cup UnderLock \cup
          {"idle", "sending", "waiting", "fetching", "streaming", "approval"},
     why : {"none", "load", "bind", "rejected", "begin", "commit", "logout"},
     hand : Records, began : Nat, seen : Nat,
     sent : 0..MaxSends, refreshed : BOOLEAN, delivered : BOOLEAN]

TypeOK ==
    /\ record \in Records
    /\ generation \in Nat /\ minted \in Nat
    /\ spent \subseteq Nat
    /\ holder \in Ops \cup {Nobody}
    /\ op \in [Ops -> Operations]
    /\ \A o \in Ops : tried[o] \subseteq Nat

\* Two requests that find the same record stale, or have the same record
\* rejected, exchange it once: the second waits and then finds the new one
\* ("A 401 only refreshes the exact generation rejected by the backend").
\* A record is exchanged again only after an operation failed or died.
ExchangedOnce ==
    \A o, p \in Ops :
        o # p /\ tried[o] \cap tried[p] # {} => At(o, "failed") \/ At(p, "failed")

\* The stored refresh token is dead at the server only if the operation
\* that had it rotated is still to save its successor, failed or died.
StoredIsUsable ==
    record.refresh \in spent =>
        \E o \in Ops : tried[o] # {} /\ op[o].pc \in {"advance", "write", "failed"}

\* The stored credential: types, and a usable refresh token.
TokensSafe == TypeOK /\ StoredIsUsable

\* A login never overwrites a record that was saved, refreshed or deleted
\* while its device approval was pending, also when the other writer died
\* between its two files.
Saving(o, purposes) == At(o, "write") /\ op[o].why \in purposes
LoginNeverOverwrites ==
    [][\A o \in Signers :
          Saving(o, {"commit"}) /\ op'[o].pc = "returned" => record.access = op[o].seen]_vars

\* Refreshing never moves a record to another account lineage: the binding
\* is fixed once, by the login or by the first request that misses it.  And a
\* signed-out credential stays signed out: only a login creates a record,
\* never a refresh that was under way.
LineageKept ==
    [][/\ record.binding # 0 /\ record'.binding # record.binding =>
            \E o \in Signers : Saving(o, {"commit", "logout"})
       /\ record = NoRecord /\ record' # NoRecord =>
            \E o \in Signers : Saving(o, {"commit"})]_vars

\* A record handed to a model request was in the store when it was handed
\* over ("never send inference using the unpersisted token").
HandedIsStored ==
    [][\A o \in Requests : ~At(o, "fetching") /\ op'[o].pc = "fetching" =>
          SameRecord(record', op'[o].hand)]_vars
=============================================================================
