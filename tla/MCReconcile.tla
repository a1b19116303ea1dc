----------------------------- MODULE MCReconcile -----------------------------
(* Small instances of Reconcile for TLC.                                    *)
EXTENDS Reconcile, TLC

Symmetry == Permutations(Contents) \cup Permutations(Operators)

\* A bound: a row is rewritten twice while it has one job, or once while it
\* has two.
RewritesOrJobs == \A m \in Memories : Exists(m) => memory[m].rev + lastJob <= 4

=============================================================================
