--------------------------- MODULE CredentialLock ---------------------------
(***************************************************************************)
(* withCredentialLock of the subscription providers: the callers of one   *)
(* process queue on a chain of promises, and the head of each chain runs  *)
(* Lamport's bakery over one ticket file per call in a shared directory.  *)
(*                                                                         *)
(* readTickets is not a snapshot: readdir and then one readFile per entry, *)
(* each of which can miss a file that comes or goes.  Its effect on each   *)
(* other file is one look at some moment between start and end of the      *)
(* call, in any order, which is what todo, Look and Scan do.  What the two *)
(* callers of readTickets compute from the list is folded into highest     *)
(* and blocked as the looks are made.                                      *)
(***************************************************************************)
EXTENDS Integers, Sequences

CONSTANTS
    Callers,    \* calls of withCredentialLock; the numeric order is that of
                \* the file names, `pid-uuid.json`
    Procs,      \* operating-system processes, each with its start time
    ProcOf      \* [Callers -> Procs]

ASSUME CallersAssumption == Callers \subseteq Nat
ASSUME ProcOfAssumption == ProcOf \in [Callers -> Procs]

VARIABLES
    alive,          \* processes that run
    lockDirectory,  \* whether the port has one; without it the chain is all
    tails,          \* [Procs -> Seq(Callers)]: promise tails not yet resolved
    pc,             \* [Callers -> Phases]
    file,           \* [Callers -> Tickets]: the ticket file of a call
    todo,           \* [Callers -> SUBSET Callers]: files still to look at
    highest,        \* [Callers -> Nat]: largest ticket met while choosing
    blocked         \* [Callers -> BOOLEAN]: a ticket met is served before

vars == <<alive, lockDirectory, tails, pc, file, todo, highest, blocked>>

Phases == {"idle", "queued", "choosing", "waiting", "scanning", "critical",
           "returned", "crashed"}
NoTicket == [published |-> FALSE, choosing |-> FALSE, ticket |-> 0]
Ticket(choosing, n) == [published |-> TRUE, choosing |-> choosing, ticket |-> n]
Tickets == [published : BOOLEAN, choosing : BOOLEAN, ticket : Nat]

Others(c) == Callers \ {c}

\* A mutex that is private to its process has a port of its own.
Init ==
    /\ lockDirectory \in BOOLEAN
    /\ alive \in IF lockDirectory THEN {Procs} ELSE {{p} : p \in Procs}
    /\ tails = [p \in Procs |-> <<>>]
    /\ pc = [c \in Callers |-> "idle"]
    /\ file = [c \in Callers |-> NoTicket]
    /\ todo = [c \in Callers |-> {}]
    /\ highest = [c \in Callers |-> 0]
    /\ blocked = [c \in Callers |-> FALSE]

-----------------------------------------------------------------------------
(* The chain of promises of one process.                                    *)

\* withCredentialLock: append a tail behind the previous one.
Call(c) ==
    /\ pc[c] = "idle"
    /\ ProcOf[c] \in alive
    /\ tails' = [tails EXCEPT ![ProcOf[c]] = Append(@, c)]
    /\ pc' = [pc EXCEPT ![c] = "queued"]
    /\ UNCHANGED <<alive, lockDirectory, file, todo, highest, blocked>>

\* until(previous): every call made before this one has resolved its tail.
PreviousDone(c) == tails[ProcOf[c]] # <<>> /\ Head(tails[ProcOf[c]]) = c

\* previous.finally: a call that returned, served or not, resolves its tail
\* only after its predecessor's; the last one also leaves the map.
SettleTail(c) ==
    /\ pc[c] = "returned"
    /\ ProcOf[c] \in alive
    /\ PreviousDone(c)
    /\ tails' = [tails EXCEPT ![ProcOf[c]] = Tail(@)]
    /\ UNCHANGED <<alive, lockDirectory, pc, file, todo, highest, blocked>>

\* The port has no directory: the chain alone admits the caller.
EnterInProcess(c) ==
    /\ pc[c] = "queued"
    /\ PreviousDone(c)
    /\ ~lockDirectory
    /\ pc' = [pc EXCEPT ![c] = "critical"]
    /\ UNCHANGED <<alive, lockDirectory, tails, file, todo, highest, blocked>>

-----------------------------------------------------------------------------
(* acquireFileLock.                                                         *)

\* The choosing ticket is renamed into place, complete with its owner.
Announce(c) ==
    /\ pc[c] = "queued"
    /\ PreviousDone(c)
    /\ lockDirectory
    /\ file' = [file EXCEPT ![c] = Ticket(TRUE, 0)]
    /\ pc' = [pc EXCEPT ![c] = "choosing"]
    /\ todo' = [todo EXCEPT ![c] = Others(c)]
    /\ UNCHANGED <<alive, lockDirectory, tails, highest, blocked>>

\* Mutant: the owner of a ticket is not looked up.
StandingWhoever(d) == file[d].published

\* isAlive: the process with the pid and the start time of the ticket runs.
Standing(d) == file[d].published /\ ProcOf[d] \in alive

\* One file of readTickets; the ticket of a dead process is removed.
ReadTicket(c, d) ==
    /\ d \in todo[c]
    /\ todo' = [todo EXCEPT ![c] = @ \ {d}]
    /\ file' = IF Standing(d) THEN file ELSE [file EXCEPT ![d] = NoTicket]

\* readTickets at line 93.
Look(c, d) ==
    /\ pc[c] = "choosing"
    /\ ReadTicket(c, d)
    /\ highest' = IF Standing(d) /\ file[d].ticket > highest[c]
                  THEN [highest EXCEPT ![c] = file[d].ticket] ELSE highest
    /\ UNCHANGED <<alive, lockDirectory, tails, pc, blocked>>

\* The number replaces the choosing ticket in one rename.
PublishNumber(c) ==
    /\ pc[c] = "choosing"
    /\ todo[c] = {}
    /\ file' = [file EXCEPT ![c] = Ticket(FALSE, highest[c] + 1)]
    /\ pc' = [pc EXCEPT ![c] = "waiting"]
    /\ highest' = [highest EXCEPT ![c] = 0]
    /\ UNCHANGED <<alive, lockDirectory, tails, todo, blocked>>

\* The top of the loop, the deadline not reached.
BeginScan(c) ==
    /\ pc[c] = "waiting"
    /\ pc' = [pc EXCEPT ![c] = "scanning"]
    /\ todo' = [todo EXCEPT ![c] = Others(c)]
    /\ UNCHANGED <<alive, lockDirectory, tails, file, highest, blocked>>

\* Mutant: a contender that is still choosing is not waited for.
ServedBeforeUnlessChoosing(d, c) ==
    /\ ~file[d].choosing
    /\ \/ file[d].ticket < file[c].ticket
       \/ file[d].ticket = file[c].ticket /\ d < c

\* Mutant: equal numbers do not block.
ServedBeforeWithoutNames(d, c) ==
    file[d].choosing \/ file[d].ticket < file[c].ticket

\* The ticket of d blocks c.
ServedBefore(d, c) ==
    \/ file[d].choosing
    \/ file[d].ticket < file[c].ticket
    \/ file[d].ticket = file[c].ticket /\ d < c

\* readTickets at line 98.
Scan(c, d) ==
    /\ pc[c] = "scanning"
    /\ ReadTicket(c, d)
    /\ blocked' = [blocked EXCEPT ![c] = @ \/ (Standing(d) /\ ServedBefore(d, c))]
    /\ UNCHANGED <<alive, lockDirectory, tails, pc, highest>>

\* Blocked: sleep and look again.
Retry(c) ==
    /\ pc[c] = "scanning"
    /\ todo[c] = {}
    /\ blocked[c]
    /\ blocked' = [blocked EXCEPT ![c] = FALSE]
    /\ pc' = [pc EXCEPT ![c] = "waiting"]
    /\ UNCHANGED <<alive, lockDirectory, tails, file, todo, highest>>

\* Nobody is ahead, and the deadline check after it passes: fn starts.
Enter(c) ==
    /\ pc[c] = "scanning"
    /\ todo[c] = {}
    /\ ~blocked[c]
    /\ pc' = [pc EXCEPT ![c] = "critical"]
    /\ UNCHANGED <<alive, lockDirectory, tails, file, todo, highest, blocked>>

-----------------------------------------------------------------------------
(* Ends.                                                                     *)

\* A call ends: its ticket is removed.
Return(c) ==
    /\ file' = [file EXCEPT ![c] = NoTicket]
    /\ pc' = [pc EXCEPT ![c] = "returned"]
    /\ todo' = [todo EXCEPT ![c] = {}]
    /\ highest' = [highest EXCEPT ![c] = 0]
    /\ blocked' = [blocked EXCEPT ![c] = FALSE]

\* fn settles; unlock removes the ticket.
Leave(c) ==
    /\ pc[c] = "critical"
    /\ Return(c)
    /\ UNCHANGED <<alive, lockDirectory, tails>>

\* check or sleep throws on the deadline or the abort signal, or a read of
\* the directory fails: the catch removes the ticket and rethrows.
GiveUp(c) ==
    /\ pc[c] \in {"queued", "choosing", "waiting", "scanning"}
    /\ Return(c)
    /\ UNCHANGED <<alive, lockDirectory, tails>>

\* A process dies: its calls are gone and their tickets stay.  (One with no
\* call under way might as well make none.)
Crash(p) ==
    /\ p \in alive
    /\ tails[p] # <<>>
    /\ alive' = alive \ {p}
    /\ pc' = [c \in Callers |-> IF ProcOf[c] = p THEN "crashed" ELSE pc[c]]
    /\ todo' = [c \in Callers |-> IF ProcOf[c] = p THEN {} ELSE todo[c]]
    /\ highest' = [c \in Callers |-> IF ProcOf[c] = p THEN 0 ELSE highest[c]]
    /\ blocked' = [c \in Callers |-> ProcOf[c] # p /\ blocked[c]]
    /\ tails' = [tails EXCEPT ![p] = <<>>]
    /\ UNCHANGED <<lockDirectory, file>>

\* The steps a running call takes by itself.
Step(c) ==
    \/ EnterInProcess(c) \/ Announce(c) \/ PublishNumber(c) \/ BeginScan(c)
    \/ Retry(c) \/ Enter(c) \/ Leave(c) \/ SettleTail(c)
    \/ \E d \in Callers : Look(c, d) \/ Scan(c, d)

Next ==
    \/ \E c \in Callers : Call(c) \/ Step(c) \/ GiveUp(c)
    \/ \E p \in Procs : Crash(p)

Spec == Init /\ [][Next]_vars

\* The event loop of a live process keeps running its calls; fn is bounded
\* by the timer of its exchange.  Nobody is obliged to call, give up or die.
FairSpec == Spec /\ \A c \in Callers : WF_vars(Step(c))

-----------------------------------------------------------------------------
(* Properties.                                                               *)

TypeOK ==
    /\ alive \subseteq Procs
    /\ lockDirectory \in BOOLEAN
    /\ tails \in [Procs -> Seq(Callers)]
    /\ pc \in [Callers -> Phases]
    /\ file \in [Callers -> Tickets]
    /\ todo \in [Callers -> SUBSET Callers]
    /\ highest \in [Callers -> Nat]
    /\ blocked \in [Callers -> BOOLEAN]

\* The critical sections of one credential identity never overlap, whatever
\* crashes, time-outs and cancellations happen, and whether or not the
\* mutex is shared between processes (lock.ts 70-73).
MutualExclusion ==
    \A c, d \in Callers : pc[c] = "critical" /\ pc[d] = "critical" => c = d

\* A process never contends with itself: the calls behind the head of the
\* chain publish no ticket, even when one of them is cancelled ("Even a
\* cancelled queued waiter must remain behind its predecessor").
Inside(c) == pc[c] \in {"choosing", "waiting", "scanning", "critical"}
OneContenderPerProcess ==
    \A c, d \in Callers :
        Inside(c) /\ Inside(d) /\ ProcOf[c] = ProcOf[d] => c = d

\* The state of the lock: types, one contender per process, one holder.
LockSafe == TypeOK /\ OneContenderPerProcess /\ MutualExclusion

\* A caller that neither gives up nor dies gets its turn, although others
\* crash holding a ticket or the lock itself.
EveryCallerServed ==
    \A c \in Callers :
        pc[c] = "queued" ~> pc[c] \in {"critical", "returned", "crashed"}

\* The bakery and the chain together implement the abstract mutex.
Stage == [c \in Callers |->
            CASE pc[c] = "idle" -> "outside"
              [] pc[c] \in {"queued", "choosing", "waiting", "scanning"} -> "waiting"
              [] pc[c] = "critical" -> "inside"
              [] OTHER -> "done"]
Mutex == INSTANCE CredentialMutex WITH stage <- Stage
ImplementsMutex == Mutex!Spec
=============================================================================
