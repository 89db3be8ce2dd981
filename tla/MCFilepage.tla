----------------------------- MODULE MCFilepage -----------------------------
EXTENDS Filepage, TLC

CONSTANTS n1, n2, v1, v2

MCSize == v1 :> 1 @@ v2 :> 2

Symmetry == Permutations(Name)
=============================================================================
