---------------------------- MODULE MCVerifyCache ----------------------------
(* Values for the constants of VerifyCache.                                *)
EXTENDS VerifyCache, TLC

CONSTANTS p1, p2

Symmetry == Permutations(Procs)

\* Two sessions of different length, and a cookie that is no token at all.
ThreeTokens == {"ann", "bob", "junk"}
Expiries == [t \in Tokens |-> CASE t = "ann" -> 1 [] t = "bob" -> 3 [] OTHER -> 0]
=============================================================================
