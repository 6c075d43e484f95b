--------------------------- MODULE LaneSemaphores ---------------------------
(***************************************************************************)
(* The per-lane concurrency caps of packages/sdk/src/runtime: Semaphore    *)
(* (semaphore.ts) and LaneSemaphores (laneSemaphores.ts).  A caller takes  *)
(* a slot of its lane, or queues; a release hands the slot to the first    *)
(* waiter; an abort removes a waiter from the queue.                       *)
(*                                                                         *)
(* A queue is kept as a set of waiters and, for each waiter, the set of    *)
(* waiters in front of it in the array.                                    *)
(***************************************************************************)
EXTENDS Naturals, FiniteSets

CONSTANTS
    Callers,
    Lanes,
    LaneOf,    \* the lane each caller asks for
    Cap,       \* slots of each lane; Unbounded when no cap is configured
    Unbounded

VARIABLES
    available, \* free slots of each lane
    inLane,    \* callers whose acquire has resolved and that have not released
    queued,    \* callers in some lane's waiters array
    inFront    \* who is ahead of a queued caller

laneVars == <<available, inLane, queued, inFront>>

LaneTypes ==
    /\ available \in [Lanes -> Nat]
    /\ inLane \in SUBSET Callers
    /\ queued \in SUBSET Callers
    /\ inFront \in [Callers -> SUBSET Callers]

LaneInit ==
    /\ available = [l \in Lanes |-> IF Cap[l] = Unbounded THEN 0 ELSE Cap[l]]
    /\ inLane = {}
    /\ queued = {}
    /\ inFront = [c \in Callers |-> {}]

Capped(l) == Cap[l] # Unbounded
Queue(l) == {c \in queued : LaneOf[c] = l}

\* Take the callers of S out of the arrays.
Dequeue(S) ==
    /\ queued' = queued \ S
    /\ inFront' = [c \in Callers |-> IF c \in S THEN {} ELSE inFront[c] \ S]

\* acquire with a live signal; an aborted one rejects and changes nothing.
AcquireLane(c) ==
    LET l == LaneOf[c] IN
    /\ c \notin inLane \union queued
    /\ \/ /\ ~Capped(l)
          /\ inLane' = inLane \union {c}
          /\ UNCHANGED <<available, queued, inFront>>
       \/ /\ Capped(l) /\ available[l] > 0
          /\ available' = [available EXCEPT ![l] = @ - 1]
          /\ inLane' = inLane \union {c}
          /\ UNCHANGED <<queued, inFront>>
       \/ /\ Capped(l) /\ available[l] = 0
          /\ queued' = queued \union {c}
          /\ inFront' = [inFront EXCEPT ![c] = Queue(l)]
          /\ UNCHANGED <<available, inLane>>

\* The abort handlers of the callers of S: each leaves its queue.
AbortLane(S) == Dequeue(S) /\ UNCHANGED <<available, inLane>>

\* Mutant: the slot is freed and handed over.
ReleaseLaneTwice(c) ==
    LET l == LaneOf[c] IN
    /\ c \in inLane
    /\ available' = IF Capped(l) THEN [available EXCEPT ![l] = @ + 1] ELSE available
    /\ \/ \E n \in Queue(l) :
            /\ inFront[n] = {}
            /\ inLane' = (inLane \ {c}) \union {n}
            /\ Dequeue({n})
       \/ /\ Queue(l) = {}
          /\ inLane' = inLane \ {c}
          /\ UNCHANGED <<queued, inFront>>

\* The release function: hand the slot to the first waiter, else free it.
ReleaseLane(c) ==
    LET l == LaneOf[c] IN
    /\ c \in inLane
    /\ \/ \E n \in Queue(l) :
            /\ inFront[n] = {}
            /\ inLane' = (inLane \ {c}) \union {n}
            /\ Dequeue({n})
            /\ UNCHANGED available
       \/ /\ Queue(l) = {}
          /\ inLane' = inLane \ {c}
          /\ available' = IF Capped(l) THEN [available EXCEPT ![l] = @ + 1] ELSE available
          /\ UNCHANGED <<queued, inFront>>

\* One abort event runs the handlers of every queued caller that listens to it.
LaneNext ==
    \/ \E c \in Callers : AcquireLane(c) \/ ReleaseLane(c)
    \/ \E S \in SUBSET queued : AbortLane(S)

LaneSpec == LaneInit /\ [][LaneNext]_laneVars
=============================================================================
