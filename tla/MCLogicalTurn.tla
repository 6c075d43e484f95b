---------------------------- MODULE MCLogicalTurn ----------------------------
(* Instances of LogicalTurn for TLC: a creator and one or two resumes.        *)
EXTENDS LogicalTurn, TLC

CONSTANTS w1, w2, m1

\* The creator and the resume run in two processes.
TwoProcesses == (w1 :> "p1") @@ (w2 :> "p2")
\* Both run in one process and meet in activeSegments.
OneProcess == (w1 :> "p1") @@ (w2 :> "p1")
=============================================================================
