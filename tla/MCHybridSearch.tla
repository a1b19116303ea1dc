--------------------------- MODULE MCHybridSearch ---------------------------
(* Small instances of HybridSearch for TLC.                                 *)
EXTENDS HybridSearch, TLC

\* The lower a row's id, the nearer it is; the last is too far away.
MCDistance == [m \in Rows |-> m]

Symmetry == Permutations(Searchers)

=============================================================================
