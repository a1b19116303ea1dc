---------------------------- MODULE VectorSearch ----------------------------
(***************************************************************************)
(* vec_search of storage.py: the rows nearest to a query that pass its     *)
(* filters, in the order of their distance and, at equal distance, of      *)
(* their id.                                                               *)
(*                                                                         *)
(* The index (sqlite-vec) answers with the k nearest vectors, whatever the *)
(* filters say, in any order and choice among equals.  The search asks for *)
(* more until the farthest answer proves that none is missing, or gives    *)
(* the index up and measures every row.  All of it reads one snapshot.     *)
(***************************************************************************)
EXTENDS Integers, FiniteSets, SequencesExt

CONSTANTS
    Ids,                \* ids of cold_memory, as numbers in their order
    Distances,          \* distances a vector may have
    Limits,             \* values of limit
    DistanceThreshold,  \* VEC_DISTANCE_THRESHOLD
    FirstWindow,        \* 32
    Ceiling             \* 4096, the most the index answers

ASSUME WindowAssumption ==
    /\ Ids \subseteq Nat /\ IsFiniteSet(Ids) /\ Distances \subseteq Nat /\ Limits \subseteq Int
    /\ DistanceThreshold \in Nat
    /\ FirstWindow \in Nat \ {0} /\ FirstWindow <= Ceiling /\ Ceiling \in Nat

VARIABLES
    indexed,   \* the rows that have a vector
    eligible,  \* the rows that pass the filters
    distance,  \* of each row's vector from the query
    limit,
    pc, window, result

corpus == <<indexed, eligible, distance, limit>>
vvars == <<corpus, pc, window, result>>

VTypeOK ==
    /\ indexed \subseteq Ids /\ eligible \subseteq indexed
    /\ distance \in [Ids -> Distances] /\ limit \in Limits
    /\ pc \in {"start", "knn", "scalar", "done"}
    /\ window \in 0..Ceiling
    /\ result \in Seq(indexed)

VInit ==
    /\ indexed \in SUBSET Ids /\ eligible \in SUBSET indexed
    /\ distance \in [Ids -> Distances] /\ limit \in Limits
    /\ pc = "start" /\ window = 0 /\ result = <<>>

-----------------------------------------------------------------------------
Near(S) == {m \in S : distance[m] <= DistanceThreshold}
Before(m, n) == distance[m] < distance[n] \/ (distance[m] = distance[n] /\ m < n)
Rank(m, S) == Cardinality({n \in S : Before(n, m)})
ByDistance(S) == [i \in 1..Cardinality(S) |-> CHOOSE m \in S : Rank(m, S) = i - 1]
Farthest(S) == distance[Last(ByDistance(S))]
UpToLimit(s) == SubSeq(s, 1, Min({limit, Len(s)}))

(* Mistakes this code could plausibly have made.                            *)

\* A boundary at the distance of the last hit is taken for proof.
Proven_NotStrict(S, prefix) ==
    \/ Cardinality(S) < window
    \/ Farthest(S) > DistanceThreshold
    \/ Len(prefix) >= limit /\ Farthest(S) >= distance[prefix[limit]]

\* The window is never widened.
Wider_Never(w) == w

-----------------------------------------------------------------------------
(* _vec_search_checked                                                      *)

FirstOf(lim) == Min({Ceiling, Max({FirstWindow, lim + 1})})

VBegin ==
    /\ pc = "start"
    /\ pc' = IF limit <= 0 THEN "done" ELSE IF limit <= Ceiling THEN "knn" ELSE "scalar"
    /\ window' = IF pc' = "knn" THEN FirstOf(limit) ELSE 0
    /\ UNCHANGED <<corpus, result>>

\* What the index may answer to a query for the k nearest vectors.
Neighbours(k) ==
    {S \in SUBSET indexed :
        /\ Cardinality(S) = Min({k, Cardinality(indexed)})
        /\ \A m \in S, n \in indexed \ S : distance[m] <= distance[n]}

\* Nothing that the index did not name can belong to the result.
Proven(S, prefix) ==
    \/ Cardinality(S) < window
    \/ Farthest(S) > DistanceThreshold
    \/ Len(prefix) >= limit /\ Farthest(S) > distance[prefix[limit]]

Wider(w) == Min({Ceiling, w * 2})

Knn ==
    /\ pc = "knn"
    /\ \E S \in Neighbours(window) :
          LET prefix == ByDistance(Near(S) \cap eligible) IN
          IF Proven(S, prefix)
          THEN pc' = "done" /\ result' = UpToLimit(prefix) /\ UNCHANGED window
          ELSE /\ pc' = IF window = Ceiling THEN "scalar" ELSE "knn"
               /\ window' = IF window = Ceiling THEN window ELSE Wider(window)
               /\ UNCHANGED result
    /\ UNCHANGED corpus

\* The index refuses the query.
KnnFails ==
    /\ pc = "knn" /\ pc' = "scalar"
    /\ UNCHANGED <<corpus, window, result>>

\* What is near of the first limit rows, which keeps their order.
Scalar ==
    /\ pc = "scalar" /\ pc' = "done"
    /\ result' = ByDistance(Near(ToSet(UpToLimit(ByDistance(eligible)))))
    /\ UNCHANGED <<corpus, window>>

VNext == VBegin \/ Knn \/ KnnFails \/ Scalar

VSpec == VInit /\ [][VNext]_vvars
\* The code runs on; the index need not fail.
VFairSpec == VSpec /\ WF_vvars(VBegin \/ Knn \/ Scalar)

-----------------------------------------------------------------------------
(* Properties.                                                             *)

\* The search returns the nearest rows that pass the filters, all of them up
\* to limit and in their order, whichever equals the index left out and on
\* whichever path the answer was found ("never truncate recall").
ResultIsExact ==
    pc = "done" => result = IF limit <= 0 THEN <<>> ELSE UpToLimit(ByDistance(Near(eligible)))

\* Every search comes to its end (the loop over window).
Answers == <>(pc = "done")

=============================================================================
