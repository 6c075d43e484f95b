-------------------------- MODULE MCCredentialLock --------------------------
(* Two processes with two calls each.                                    *)
EXTENDS CredentialLock, TLC

CONSTANTS p1, p2

FourCalls == (1 :> p1) @@ (2 :> p2) @@ (3 :> p1) @@ (4 :> p2)
=============================================================================
