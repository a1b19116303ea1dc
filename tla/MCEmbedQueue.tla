---------------------------- MODULE MCEmbedQueue ----------------------------
(* Small instances of EmbedQueue for TLC.                                   *)
EXTENDS EmbedQueue, FiniteSets, TLC

\* Texts, threads and drainers are interchangeable in every safety property;
\* rows only when none of them is a legacy row.
Symmetry == Permutations(Contents) \cup Permutations(Threads)
                \cup Permutations(Drainers) \cup Permutations(Spaces)

\* A bound: one thing goes wrong, or nothing with three rows (two jobs), and
\* these are not rewritten.  It cuts off steps of threads and faults, of which
\* no fairness is assumed, so that what is left is fair as before.
FewerRows ==
    /\ crashes + lost <= 1
    /\ Cardinality({m \in Memories : memory[m] # None}) > 2
         => /\ crashes + lost = 0
            /\ \A m \in Memories : Exists(m) => memory[m].rev = 1

=============================================================================
