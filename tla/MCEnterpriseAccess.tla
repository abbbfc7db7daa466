------------------------- MODULE MCEnterpriseAccess -------------------------
(* Two agents of one store and two of its customers, who may name the same  *)
(* conversation, while every statement succeeds and all that changes is that *)
(* somebody signs in.                                                        *)
EXTENDS EnterpriseAccess, TLC

CONSTANTS ann, sue, north, c1, c2, v1, k1, k2, r1, r2

Users == {ann, sue}
Homes == (ann :> north) @@ (sue :> north)
Symmetric == Permutations({c1, c2}) \cup Permutations({k1, k2}) \cup Permutations({r1, r2})
=============================================================================
