------------------------------ MODULE PathLock ------------------------------
(***************************************************************************)
(* PathLockManager of packages/sdk/src/runtime/pathLock.ts: write scopes   *)
(* that do not overlap are held together, overlapping ones in turn.        *)
(*                                                                         *)
(* A scope is the whole tree or a set of prefixes, the bounding            *)
(* directories of its globs (globPrefix), each a sequence of path          *)
(* segments.  The waiters array is kept as a set and, for each waiter, the *)
(* set of waiters in front of it.                                          *)
(***************************************************************************)
EXTENDS Naturals, Sequences, FiniteSets

CONSTANTS
    Writers,
    Scope      \* the PathScope of each writer, [all : BOOLEAN, prefixes : set of paths]

VARIABLES
    held,      \* writers that hold their scope
    waiters,   \* writers in the waiters array
    ahead      \* who is in front of a waiter

lockVars == <<held, waiters, ahead>>

IsPrefix(p, q) == Len(p) <= Len(q) /\ \A i \in 1 .. Len(p) : p[i] = q[i]
\* One path is at or under the other.
PrefixesTouch(p, q) == IsPrefix(p, q) \/ IsPrefix(q, p)

ScopesOverlap(a, b) ==
    \/ a.all \/ b.all
    \/ \E p \in a.prefixes, q \in b.prefixes : PrefixesTouch(p, q)

Clash(c, d) == ScopesOverlap(Scope[c], Scope[d])
OverlapsHeld(c) == \E h \in held : Clash(h, c)

LockTypes ==
    /\ held \in SUBSET Writers
    /\ waiters \in SUBSET Writers
    /\ ahead \in [Writers -> SUBSET Writers]

LockInit ==
    /\ held = {}
    /\ waiters = {}
    /\ ahead = [c \in Writers |-> {}]

Leave(S) ==
    /\ waiters' = waiters \ S
    /\ ahead' = [c \in Writers |-> IF c \in S THEN {} ELSE ahead[c] \ S]

\* acquire with a live signal: a scope that clashes with no held one is granted
\* at once, past any waiter.
AcquireLock(c) ==
    /\ c \notin held \union waiters
    /\ \/ /\ ~OverlapsHeld(c)
          /\ held' = held \union {c}
          /\ UNCHANGED <<waiters, ahead>>
       \/ /\ OverlapsHeld(c)
          /\ waiters' = waiters \union {c}
          /\ ahead' = [ahead EXCEPT ![c] = waiters]
          /\ UNCHANGED held

\* The abort handlers of the writers of S.
AbortLock(S) == Leave(S) /\ UNCHANGED held

\* Mutant: the granted scopes do not join held during the scan.
DrainedTogether(rest, G) ==
    \A c \in waiters : c \in G <=> \A h \in rest : ~Clash(h, c)

\* Mutant: the newest waiter is served first.
DrainedNewest(rest, G) ==
    \A c \in waiters :
        c \in G <=> \A h \in rest \union {g \in G : c \in ahead[g]} : ~Clash(h, c)

\* drainQueue in arrival order: G is granted when rest stays held, each waiter
\* judged against rest and the waiters granted before it.
Drained(rest, G) ==
    \A c \in waiters :
        c \in G <=> \A h \in rest \union (G \intersect ahead[c]) : ~Clash(h, c)

\* The release function: give the scope back and drain the queue.
ReleaseLock(c) ==
    /\ c \in held
    /\ \E G \in SUBSET waiters :
        /\ Drained(held \ {c}, G)
        /\ held' = (held \ {c}) \union G
        /\ Leave(G)
=============================================================================
