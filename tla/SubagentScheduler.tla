------------------------- MODULE SubagentScheduler --------------------------
(***************************************************************************)
(* SubagentScheduler.delegate of packages/sdk/src/runtime/scheduler.ts     *)
(* with the lane caps, the path lock and the tree budget it reserves from, *)
(* and the delegation events that src/router/progressEvents.ts turns into  *)
(* delegator banners.                                                      *)
(*                                                                         *)
(* A delegation is one element of Children; Parent fixes who calls it.     *)
(* delegate() runs from one await to the next without interruption: each   *)
(* action is one such stretch.  A rejected or throwing stretch runs the    *)
(* outer finally block in the same step when no await stands in between.   *)
(***************************************************************************)
EXTENDS Integers, FiniteSets

CONSTANTS
    Children,
    Root,          \* the session at the top
    Parent,        \* parentSessionId: Root or the child that calls AgentTool
    Lanes, LaneOf, Cap, Unbounded,
    Scope,         \* the write scope each writing child asks for
    Writing,       \* children that are not readOnly
    Delegators,    \* children whose agent is the delegator
    Atoms,         \* children that run in a cost lane (laneName # null)
    Timed,         \* children whose cost lane or host gives them a timeout
    MaxChildren,   \* maxChildrenPerParent
    MaxActive,     \* maxConcurrentChildren of the tree budget
    MaxTotal,      \* maxTotalChildren of the tree budget
    Faults,        \* whether host hooks (session store, provider resolver) may throw
    Nobody

ASSUME SchedulerAssumption ==
    /\ Root \notin Children
    /\ Parent \in [Children -> Children \union {Root}]
    /\ LaneOf \in [Children -> Lanes]
    /\ Cap \in [Lanes -> Nat \union {Unbounded}]
    /\ Unbounded \notin Nat
    /\ Writing \subseteq Children /\ Delegators \subseteq Children /\ Atoms \subseteq Children
    /\ Timed \subseteq Children
    /\ MaxChildren \in Nat /\ MaxActive \in Nat /\ MaxTotal \in Nat
    /\ Faults \in BOOLEAN
    /\ Nobody \notin Children
ASSUME FiniteAssumption == IsFiniteSet(Children)

VARIABLES
    pc,            \* where each delegate() call stands
    aborted,       \* children whose composed signal has aborted
    childCounts,   \* reserved children of each parent session
    activeChildren, totalChildren,             \* TreeBudget
    available, inLane, queued, inFront,        \* LaneSemaphores
    held, waiters, ahead,                      \* PathLockManager
    started, completed,                        \* lifecycle events fired
    active,        \* activeDelegatorSessionId
    atomOpen,      \* atomIndexByChildSessionId
    plans,         \* delegators with a delegator_plan and no delegator_complete yet
    displaced      \* history: delegators that another one has replaced as active

Lane == INSTANCE LaneSemaphores WITH Callers <- Children
Lock == INSTANCE PathLock WITH Writers <- Children

tree == <<activeChildren, totalChildren>>
lane == <<available, inLane, queued, inFront>>
lock == <<held, waiters, ahead>>
banner == <<active, atomOpen, plans, displaced>>
events == <<started, completed, banner>>
vars == <<pc, aborted, childCounts, tree, lane, lock, events>>

PCs == {"idle", "lane", "lock", "preparing", "running", "closing", "done"}
\* Calls that hold a reservation of their parent.
Live == {c \in Children : pc[c] \notin {"idle", "done"}}

At(c, p) == pc[c] = p
Goto(c, p) == pc' = [pc EXCEPT ![c] = p]

\* A child and everything delegated below it.
Below ==
    LET below[c \in Children] == {c} \union UNION {below[d] : d \in {x \in Children : Parent[x] = c}}
    IN  [c \in Children |-> {d \in Children : d \in below[c]}]

TypeOK ==
    /\ pc \in [Children -> PCs]
    /\ aborted \in SUBSET Children
    /\ childCounts \in [Children \union {Root} -> Nat]
    /\ activeChildren \in Nat /\ totalChildren \in Nat
    /\ Lane!LaneTypes
    /\ Lock!LockTypes
    /\ started \in SUBSET Children /\ completed \in SUBSET Children
    /\ active \in Children \union {Nobody}
    /\ atomOpen \in SUBSET Children
    /\ plans \in SUBSET Children /\ displaced \in SUBSET Children

Init ==
    /\ pc = [c \in Children |-> "idle"]
    /\ aborted = {}
    /\ childCounts = [p \in Children \union {Root} |-> 0]
    /\ activeChildren = 0 /\ totalChildren = 0
    /\ Lane!LaneInit
    /\ Lock!LockInit
    /\ started = {} /\ completed = {}
    /\ active = Nobody /\ atomOpen = {} /\ plans = {} /\ displaced = {}

-----------------------------------------------------------------------------

\* The session that calls can make a tool call now.
ParentRuns(c) == Parent[c] # Root => pc[Parent[c]] = "running"

TreeAdmits == totalChildren + 1 <= MaxTotal /\ activeChildren + 1 <= MaxActive

\* The check-and-increment before the first await.
CapOpen(c) == childCounts[Parent[c]] < MaxChildren

\* delegate() up to `await laneSemaphores.acquire`: the cap, the tree budget, the
\* provider and the deadline, then the lane.  A refusal after the increment is undone by finally.
Delegate(c) ==
    /\ At(c, "idle") /\ ParentRuns(c)
    /\ IF CapOpen(c) /\ TreeAdmits
       THEN \/ /\ c \notin aborted
               /\ Goto(c, "lane")
               /\ childCounts' = [childCounts EXCEPT ![Parent[c]] = @ + 1]
               /\ activeChildren' = activeChildren + 1
               /\ totalChildren' = totalChildren + 1
               /\ Lane!AcquireLane(c)
            \/ /\ Faults \/ c \in aborted
               /\ Goto(c, "done")
               /\ totalChildren' = totalChildren + 1
               /\ UNCHANGED <<childCounts, activeChildren, lane>>
       ELSE Goto(c, "done") /\ UNCHANGED <<childCounts, tree, lane>>
    /\ UNCHANGED <<aborted, lock, events>>

\* Mutant: a call that never got its path lock gives no lane slot back.
FinallyLeaky(c) ==
    /\ Goto(c, "done")
    /\ childCounts' = [childCounts EXCEPT ![Parent[c]] = @ - 1]
    /\ activeChildren' = activeChildren - 1
    /\ IF c \in held THEN Lock!ReleaseLock(c) /\ Lane!ReleaseLane(c) ELSE UNCHANGED <<lock, lane>>
    /\ UNCHANGED totalChildren

\* The outer finally block: the reservation, the tree slot, the path lock, the lane.
Finally(c) ==
    /\ Goto(c, "done")
    /\ childCounts' = [childCounts EXCEPT ![Parent[c]] = @ - 1]
    /\ activeChildren' = activeChildren - 1
    /\ IF c \in held THEN Lock!ReleaseLock(c) ELSE UNCHANGED lock
    /\ IF c \in inLane THEN Lane!ReleaseLane(c) ELSE UNCHANGED lane
    /\ UNCHANGED totalChildren

\* synthesizeDelegationEvents on delegation_started.
BannerStarts(c) ==
    \/ /\ c \in Delegators
       /\ active' = c
       /\ plans' = plans \union {c}
       /\ displaced' = displaced \union ({active} \ {Nobody})
       /\ UNCHANGED atomOpen
    \/ /\ c \in Atoms \ Delegators /\ active # Nobody /\ active = Parent[c]
       /\ atomOpen' = atomOpen \union {c}
       /\ UNCHANGED <<active, plans, displaced>>
    \/ /\ c \notin Delegators
       /\ ~(c \in Atoms /\ active # Nobody /\ active = Parent[c])
       /\ UNCHANGED banner

\* Mutant: an atom is counted as finished but keeps its index.
BannerCompletesLeaky(c) ==
    \/ /\ c # active
       /\ UNCHANGED banner
    \/ /\ c = active
       /\ active' = Nobody
       /\ plans' = plans \ {active}
       /\ UNCHANGED <<atomOpen, displaced>>

\* synthesizeDelegationEvents on delegation_completed.
BannerCompletes(c) ==
    \/ /\ c \in atomOpen
       /\ atomOpen' = atomOpen \ {c}
       /\ UNCHANGED <<active, plans, displaced>>
    \/ /\ c \notin atomOpen /\ c = active
       /\ active' = Nobody
       /\ plans' = plans \ {active}
       /\ UNCHANGED <<atomOpen, displaced>>
    \/ /\ c \notin atomOpen /\ c # active
       /\ UNCHANGED banner

\* createChildSession and delegation_started, or a throw of the session store.
Start(c) ==
    \/ /\ Goto(c, "preparing")
       /\ started' = started \union {c}
       /\ BannerStarts(c)
       /\ UNCHANGED <<completed, childCounts, tree, lane, lock>>
    \/ Faults /\ Finally(c) /\ UNCHANGED events

\* The lane slot arrives: the deadline, then the path lock of a writer.
LaneGranted(c) ==
    /\ At(c, "lane") /\ c \in inLane
    /\ \/ /\ c \in aborted
          /\ Finally(c)
          /\ UNCHANGED events
       \/ /\ c \notin aborted /\ c \in Writing
          /\ Goto(c, "lock")
          /\ Lock!AcquireLock(c)
          /\ UNCHANGED <<childCounts, tree, lane, events>>
       \/ /\ c \notin aborted /\ c \notin Writing
          /\ Start(c)
    /\ UNCHANGED aborted

\* The path lock arrives.
LockGranted(c) ==
    /\ At(c, "lock") /\ c \in held
    /\ \/ c \in aborted /\ Finally(c) /\ UNCHANGED events
       \/ c \notin aborted /\ Start(c)
    /\ UNCHANGED aborted

\* From delegation_started to the dispatch: the provider, the skill continuity and
\* the last deadline check.  What throws here is not caught by the dispatch.
Prepared(c) ==
    /\ At(c, "preparing")
    /\ \/ c \notin aborted /\ Goto(c, "running")
       \/ (Faults \/ c \in aborted) /\ Goto(c, "closing")
    /\ UNCHANGED <<aborted, childCounts, tree, lane, lock, events>>

\* The child's run ends, with any outcome; its tool calls have returned.  The
\* trajectory, memory and review hooks that follow change nothing here.
RunEnds(c) ==
    /\ At(c, "running")
    /\ \A d \in Live : Parent[d] # c
    /\ Goto(c, "closing")
    /\ completed' = completed \union {c}
    /\ BannerCompletes(c)
    /\ UNCHANGED <<aborted, childCounts, tree, lane, lock, started>>

\* The trace writer is drained, or a rejected acquire reaches the finally block.
Close(c) ==
    /\ At(c, "closing")
    /\ Finally(c)
    /\ UNCHANGED <<aborted, events>>

\* The composed signal of c fires (a stop or the deadline) and with it the signals
\* below it; the queued acquires of these calls are rejected.
Abort(c) ==
    LET S == Below[c] IN
    /\ c \in Live /\ c \notin aborted
    /\ aborted' = aborted \union S
    /\ pc' = [d \in Children |-> IF d \in S \intersect (queued \union waiters) THEN "closing" ELSE pc[d]]
    /\ Lane!AbortLane(S \intersect queued)
    /\ Lock!AbortLock(S \intersect waiters)
    /\ UNCHANGED <<childCounts, tree, events>>

Next == \E c \in Children :
    \/ Delegate(c) \/ LaneGranted(c) \/ LockGranted(c) \/ Prepared(c)
    \/ RunEnds(c) \/ Close(c) \/ Abort(c)

Spec == Init /\ [][Next]_vars

\* The event loop runs every ready continuation, and a run ends once its child calls
\* have returned.
Continues(c) == LaneGranted(c) \/ LockGranted(c) \/ Prepared(c) \/ RunEnds(c) \/ Close(c)
\* A call with a timeout is aborted, with all below it.  No other call has a deadline
\* of its own.
FairSpec == Spec /\ \A c \in Children :
    /\ WF_vars(Continues(c))
    /\ c \in Timed => WF_vars(Abort(c))

-----------------------------------------------------------------------------

\* Two children whose write scopes overlap never work at the same time.
Working(c) == c \in Writing /\ pc[c] \in {"preparing", "running"}
NoWriteClash == \A c, d \in Children :
    c # d /\ Working(c) /\ Working(d) => ~Lock!Clash(c, d)

\* Whatever throws or aborts, a lane's slots are free or in use by a live call.
SlotsConserved == \A l \in Lanes : Cap[l] # Unbounded =>
    available[l] + Cardinality({c \in Live : LaneOf[c] = l /\ c \in inLane}) = Cap[l]

\* The per-parent count is the number of live calls, and within the cap.
ChildrenCounted == \A p \in Children \union {Root} :
    /\ childCounts[p] = Cardinality({c \in Live : Parent[c] = p})
    /\ childCounts[p] <= MaxChildren

\* The tree budget counts the live calls, and never goes over its limits.
TreeCounted ==
    /\ activeChildren = Cardinality(Live) /\ activeChildren <= MaxActive
    /\ totalChildren <= MaxTotal

\* Nothing a call reserves is lost or made: lane slots, child counts, tree slots.
ReservationsConserved == SlotsConserved /\ ChildrenCounted /\ TreeCounted

\* No wakeup is lost: a queued call waits for a slot or a scope that is in use.
NoLostWakeup ==
    /\ \A c \in queued : available[LaneOf[c]] = 0
    /\ \A c \in waiters : \E h \in held : h \in Live /\ Lock!Clash(h, c)

\* The calls of S wait for each other only: a run for a call it made, a writer for
\* a scope, a queued call for every slot of its lane; and no abort or timeout is to come.
Knot(S) ==
    /\ S \intersect (aborted \union UNION {Below[t] : t \in Timed}) = {}
    /\ \A c \in S :
         \/ pc[c] = "running" /\ \E d \in S : Parent[d] = c
         \/ c \in waiters /\ \E h \in held \intersect S : Lock!Clash(h, c)
         \/ c \in queued /\ \A u \in inLane : LaneOf[u] = LaneOf[c] => u \in S

\* Every delegate() call returns, whatever aborts or throws around it, but those of
\* a knot: a writer below a writer with no timeout above either may wait for its
\* own ancestor's scope.  Nothing else is ever left waiting: no lane slot or scope
\* is lost, and a timeout frees all that waits below it.  (Each call is made once.)
EveryCallReturns == <>[]Knot(Live)

\* Back-compatibility with the v0 write mutex: when every scope is the whole tree the
\* path lock is, under every schedule of delegate() calls, a Semaphore of one slot,
\* first come first served.
V0 == INSTANCE LaneSemaphores WITH
    Callers <- Children,
    Lanes <- {"write"},
    LaneOf <- [c \in Children |-> "write"],
    Cap <- [l \in {"write"} |-> 1],
    Unbounded <- 2,
    available <- [l \in {"write"} |-> IF held = {} THEN 1 ELSE 0],
    inLane <- held,
    queued <- waiters,
    inFront <- ahead
V0Mutex == V0!LaneSpec

\* Banners and delegations agree, for nested delegators and several at once.  An open
\* atom has started and not completed, and its delegator completes after it (but for an
\* atom that threw before its dispatch).  A delegator has its delegator_plan open exactly
\* from its start to its completion, unless another delegator replaced it in between.
AtomsClose == \A c \in atomOpen :
    /\ c \in started \ completed /\ Parent[c] \in started
    /\ Parent[c] \in completed => pc[c] = "done"
PlansClose ==
    /\ plans \ displaced = {active} \ {Nobody}
    /\ plans \ displaced = (Delegators \intersect (started \ completed)) \ displaced
BannersClose == AtomsClose /\ PlansClose
=============================================================================
