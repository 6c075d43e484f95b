------------------------- MODULE MCSessionWorkQueue -------------------------
(* Instances of SessionWorkQueue: one session with several jobs, which      *)
(* exercises the per-session order and limit, and others that compete with  *)
(* it for the slots.                                                        *)
EXTENDS SessionWorkQueue, TLC

CONSTANTS s1, s2, s3, j1, j2, j3, j4, j5

FiveJobs == (j1 :> s1) @@ (j2 :> s1) @@ (j3 :> s1) @@ (j4 :> s2) @@ (j5 :> s3)

\* The jobs of session s1 are interchangeable.
JobSymmetry == Permutations({j1, j2, j3})
=============================================================================
