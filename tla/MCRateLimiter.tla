---------------------------- MODULE MCRateLimiter ----------------------------
(* Values for the constants of RateLimiter.                                *)
EXTENDS RateLimiter, TLC

CONSTANTS p1, p2

Symmetry == Permutations(Procs)

\* "a" sends more than the bound allows, "b" enough to crowd it out.
PerTick == [c \in Clients |-> IF c = "a" THEN 5 ELSE 1]
=============================================================================
