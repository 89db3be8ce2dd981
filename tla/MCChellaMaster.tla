--------------------------- MODULE MCChellaMaster ---------------------------
(* Small instances of ChellaMaster. *)
EXTENDS ChellaMaster, TLC

\* Jobs are interchangeable, and so are workers.
Symmetry == Permutations(Job) \cup Permutations(Worker)
=============================================================================
