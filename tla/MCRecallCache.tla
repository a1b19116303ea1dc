---------------------------- MODULE MCRecallCache ----------------------------
(* Small instances of RecallCache for TLC.                                  *)
EXTENDS RecallCache, TLC

CONSTANTS q1, q2, o1

\* Queries that the cuts leave as they are.
Short == [q \in Queries |-> q]
\* q2 starts with the 256 characters of q1 and goes on.
Long == [q \in Queries |-> IF q = q2 THEN q1 ELSE q]

\* q2 is asked for with one set of options only.
FewerKinds ==
    /\ \A t \in Threads : call[t].query = q2 => call[t].options = o1
    /\ hit # None /\ hit.query = q2 => hit.options = o1

Symmetry == Permutations(Threads)

=============================================================================
