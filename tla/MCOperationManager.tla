------------------------- MODULE MCOperationManager -------------------------
(* Instances of OperationManager for TLC. *)
EXTENDS OperationManager, TLC

\* Ids and calls of close() are interchangeable; entries are not, as they
\* are numbered in the order of their creation.
Symmetry == Permutations(Ids) \cup Permutations(Closers)
=============================================================================
