------------------------ MODULE MCSubscriptionTokens ------------------------
(* Two requests and a user who signs in or out.                            *)
EXTENDS SubscriptionTokens, TLC

CONSTANTS r1, r2

RequestSymmetry == Permutations({r1, r2})
=============================================================================
