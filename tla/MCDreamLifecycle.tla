-------------------------- MODULE MCDreamLifecycle --------------------------
(* Small instances of DreamLifecycle for TLC.                               *)
EXTENDS DreamLifecycle, TLC

\* Rows differ by age; who acts does not matter.
Symmetry == Permutations(Dreamers) \cup Permutations(Clients)

\* A bound: of all dreams, users and purges two are under way at a time.
TwoAtOnce ==
    Cardinality({d \in Dreamers : dreamer[d] # Asleep})
    + Cardinality({c \in Clients : client[c] # Waiting})
    + Cardinality({p \in Purgers : purger[p] # {}}) <= 2

\* A bound: of the youngest readable row and the unreadable one, which is
\* younger still, only one is involved.
OneLeftAlone ==
    \E m \in {3, 4} :
        /\ status[m] = "active" /\ merged[m] = {} /\ audit[m].action = "none"
        /\ \A d \in Dreamers :
              m \notin UNION dreamer[d].clusters \cup dreamer[d].live \cup dreamer[d].forget

Bounded == TwoAtOnce /\ OneLeftAlone

=============================================================================
