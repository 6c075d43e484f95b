--------------------------- MODULE CredentialMutex ---------------------------
(***************************************************************************)
(* What withCredentialLock promises its callers: the critical sections of  *)
(* one credential identity never overlap, and a caller that keeps waiting  *)
(* is served.  A caller makes one call; a crash of its process ends the    *)
(* call wherever it is.                                                    *)
(***************************************************************************)
CONSTANT Callers

VARIABLE stage      \* [Callers -> {"outside", "waiting", "inside", "done"}]

Init == stage = [c \in Callers |-> "outside"]

Request(c) ==
    /\ stage[c] = "outside"
    /\ stage' = [stage EXCEPT ![c] = "waiting"]

\* fn may start only when no other fn is running.
Enter(c) ==
    /\ stage[c] = "waiting"
    /\ \A d \in Callers : stage[d] # "inside"
    /\ stage' = [stage EXCEPT ![c] = "inside"]

\* fn returned, the caller gave up, or one process died with its callers.
End(C) ==
    /\ C # {}
    /\ \A c \in C : stage[c] # "done"
    /\ stage' = [c \in Callers |-> IF c \in C THEN "done" ELSE stage[c]]

Next ==
    \/ \E c \in Callers : Request(c) \/ Enter(c)
    \/ \E C \in SUBSET Callers : End(C)

Spec == Init /\ [][Next]_stage
=============================================================================
