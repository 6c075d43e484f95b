----------------------------- MODULE MCAgentRun -----------------------------
(* A reader and a writer of one path that may run side by side, and a      *)
(* serial tool; answers call none of them, one or two.                     *)
EXTENDS AgentRun

CONSTANTS read, write, bash, none

MCPathOf == [t \in Tools |-> IF t = bash THEN none ELSE "p"]

MCBatches == {<<>>, <<bash>>, <<read, write>>, <<read, read>>}
=============================================================================
