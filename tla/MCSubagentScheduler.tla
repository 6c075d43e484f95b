------------------------ MODULE MCSubagentScheduler -------------------------
(***************************************************************************)
(* A small tree of delegations.  a is a writer that calls a writer b; c is *)
(* a delegator that calls two atoms, d and g, and another delegator f; e   *)
(* is a third delegator, beside c.  a, c, e and f share a lane of two      *)
(* slots; the writers a, b, d and g write to the whole tree, so that two   *)
(* of them may wait while a third one works.  Only d and g, in cost lanes, *)
(* have a timeout.                                                         *)
(***************************************************************************)
EXTENDS SubagentScheduler, TLC

CONSTANTS a, b, c, d, e, f, g

Nested == b :> a @@ d :> c @@ f :> c @@ g :> c @@ [x \in Children |-> Root]
FourFrontier == [x \in Children |-> IF x \in {b, d, g} THEN "local" ELSE "frontier"]
TwoFrontier == [l \in Lanes |-> IF l = "frontier" THEN 2 ELSE Unbounded]
WholeTrees == [x \in Children |-> [all |-> TRUE, prefixes |-> {}]]
=============================================================================
