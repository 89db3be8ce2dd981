------------------------------ MODULE MCCynder ------------------------------
EXTENDS Cynder, TLC

CONSTANTS q1, q2, small, big, bigger

\* The value of the second record's entry is a key of the first one's, its key is
\* not in lower case, and the last entry of the first one's group is not under a
\* keyword.
MCMeta ==
    q1 :> << << [key |-> "name", value |-> "val"], [key |-> "weight", value |-> "val"] >> >> @@
    q2 :> << << [key |-> "Type", value |-> "name"] >> >>
MCLower == "name" :> "name" @@ "weight" :> "weight" @@ "Type" :> "type"
\* memcmp: a capital comes before the small letters.
MCKeyOrder == "Type" :> 0 @@ "name" :> 1 @@ "type" :> 2 @@ "val" :> 3 @@ "weight" :> 4

\* The two large contents are interchangeable.
Symmetry == Permutations(Large)
=============================================================================
