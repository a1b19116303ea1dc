---------------------------- MODULE HybridSearch ----------------------------
(***************************************************************************)
(* Searches of cold memory by text, by vector and by both (engine.py:      *)
(* search, _vec_search, _hybrid_search; storage.py: cold_search,           *)
(* record_access).                                                         *)
(*                                                                         *)
(* A search reads the rows that match the text, asks the provider for a    *)
(* vector, reads the nearest rows and counts what it returns, each in a    *)
(* transaction of its own.  Meanwhile rows are forgotten, merged, restored *)
(* and purged, and other searches run.  The vector read is that of         *)
(* VectorSearch, of which only the result matters here.                    *)
(***************************************************************************)
EXTENDS Integers, FiniteSets, SequencesExt

CONSTANTS
    Rows,         \* ids of cold_memory, as numbers in their order
    Matching,     \* the rows whose text matches the query
    Distance,     \* the distance of each row's vector from it
    Threshold,    \* VEC_DISTANCE_THRESHOLD
    Limit,        \* limit, more than 0
    K,            \* rrf_k, 60
    Searchers,    \* requests that search at the same time
    MaxSearches,  \* bound: searches begun
    MaxChanges    \* bound: changes of a row's status

ASSUME RowsAssumption ==
    Rows \subseteq Nat /\ IsFiniteSet(Rows) /\ Matching \subseteq Rows /\ Distance \in [Rows -> Nat]
ASSUME NumbersAssumption ==
    Threshold \in Nat /\ Limit \in Nat \ {0} /\ K \in Nat \ {0}
    /\ MaxSearches \in Nat /\ MaxChanges \in Nat

VARIABLES
    status,    \* dream_status of each row, or "gone"
    access,    \* access_count
    search,    \* what each searcher is doing
    begun, changes,
    returned   \* history: how many finished searches returned each row

vars == <<status, access, search, begun, changes, returned>>

Statuses == {"active", "consolidated", "dormant", "gone"}
Modes == {"fts", "vector", "hybrid"}
Search ==
    [pc : {"idle", "text", "embed", "vectors", "count"}, mode : Modes,
     fts : Seq(Matching), vec : Seq(Rows), result : Seq(Rows),
     seen : SUBSET Rows]  \* history: the rows that were active meanwhile
Idle == [pc |-> "idle", mode |-> "fts", fts |-> <<>>, vec |-> <<>>, result |-> <<>>, seen |-> {}]

Active == {m \in Rows : status[m] = "active"}

TypeOK ==
    /\ status \in [Rows -> Statuses]
    /\ access \in [Rows -> Nat] /\ returned \in [Rows -> Nat]
    /\ search \in [Searchers -> Search]
    /\ begun \in 0..MaxSearches /\ changes \in 0..MaxChanges

Init ==
    /\ status = [m \in Rows |-> "active"]
    /\ access = [m \in Rows |-> 0] /\ returned = access
    /\ search = [s \in Searchers |-> Idle]
    /\ begun = 0 /\ changes = 0

Becomes(s, state) ==
    /\ search' = [search EXCEPT ![s] = state]
    /\ UNCHANGED <<status, access, begun, changes, returned>>

First(s) == SubSeq(s, 1, Min({Limit, Len(s)}))

\* The fused result with its ranks: of a row in neither list, in one, in both.
RankIn(s, m) == (CHOOSE i \in DOMAIN s : s[i] = m) - 1
ScoreOne(r) == <<1, K + r>>
ScoreBoth(i, j) == <<(K + i) + (K + j), (K + i) * (K + j)>>
Higher(p, q) == p[1] * q[2] > q[1] * p[2]

\* The sequences of all members of a set in which none comes before what it
\* should follow.
Sorted(S, Before(_, _)) ==
    {s \in SetToSeqs(S) : \A i, j \in DOMAIN s : i < j => Before(s[i], s[j])}

-----------------------------------------------------------------------------
(* Mistakes this code could plausibly have made.                            *)

\* Only forgotten rows are hidden.
Visible_Merged == {m \in Rows : status[m] \in {"active", "consolidated"}}

\* The later list overwrites the score of a row that both found.
Score_Overwritten(fts, vec, m) ==
    IF m \in ToSet(vec) THEN ScoreOne(RankIn(vec, m)) ELSE ScoreOne(RankIn(fts, m))

\* Every candidate is counted, not only what is returned.
Counted_Candidates(state) == ToSet(state.fts) \cup ToSet(state.vec)

-----------------------------------------------------------------------------
(* cold_search: rows that match, the best of them in an order of their own. *)

Visible == Active

TextResults ==
    LET found == Visible \cap Matching
        size  == Min({Limit, Cardinality(found)})
    IN  UNION {SetToSeqs(S) : S \in {T \in SUBSET found : Cardinality(T) = size}}

(* vec_search                                                               *)
Nearer(m, n) == Distance[m] < Distance[n] \/ (Distance[m] = Distance[n] /\ m < n)
VectorResults == {First(s) : s \in Sorted({m \in Visible : Distance[m] <= Threshold}, Nearer)}

(* Reciprocal rank fusion: a row scores 1 / (K + rank) in each list that    *)
(* has it; scores are fractions.                                            *)
Score(fts, vec, m) ==
    IF m \in ToSet(fts) /\ m \in ToSet(vec) THEN ScoreBoth(RankIn(fts, m), RankIn(vec, m))
    ELSE IF m \in ToSet(fts) THEN ScoreOne(RankIn(fts, m)) ELSE ScoreOne(RankIn(vec, m))

\* The order in which rows got their first score, kept among equals.
ScoredFirst(fts, vec, m, n) ==
    \/ m \in ToSet(fts) /\ (n \in ToSet(fts) => RankIn(fts, m) < RankIn(fts, n))
    \/ m \notin ToSet(fts) /\ n \notin ToSet(fts) /\ RankIn(vec, m) < RankIn(vec, n)

Ahead(fts, vec, m, n) ==
    LET p == Score(fts, vec, m)
        q == Score(fts, vec, n)
    IN  Higher(p, q) \/ (~Higher(q, p) /\ ScoredFirst(fts, vec, m, n))

Fused(fts, vec) ==
    {First(s) : s \in Sorted(ToSet(fts) \cup ToSet(vec), LAMBDA m, n : Ahead(fts, vec, m, n))}

\* What a search answers after its read of the vectors.
Results(mode, fts, vec) ==
    IF mode = "vector" THEN {vec} ELSE IF vec = <<>> THEN {fts} ELSE Fused(fts, vec)

-----------------------------------------------------------------------------
Begin(s, mode) ==
    /\ search[s].pc = "idle" /\ begun < MaxSearches
    /\ begun' = begun + 1
    /\ search' = [search EXCEPT ![s] =
                    [Idle EXCEPT !.pc = IF mode = "vector" THEN "embed" ELSE "text",
                                 !.mode = mode, !.seen = Active]]
    /\ UNCHANGED <<status, access, changes, returned>>

ReadText(s) ==
    /\ search[s].pc = "text"
    /\ \E fts \in TextResults :
          Becomes(s, IF search[s].mode = "fts"
                     THEN [search[s] EXCEPT !.pc = "count", !.result = fts]
                     ELSE [search[s] EXCEPT !.pc = "embed", !.fts = fts])

Embed(s) ==
    /\ search[s].pc = "embed"
    /\ Becomes(s, [search[s] EXCEPT !.pc = "vectors"])

\* The provider gives no vector: the search is one by text.
EmbedFails(s) ==
    /\ search[s].pc = "embed"
    /\ Becomes(s, IF search[s].mode = "vector"
                  THEN [search[s] EXCEPT !.pc = "text", !.mode = "fts"]
                  ELSE [search[s] EXCEPT !.pc = "count", !.result = search[s].fts])

\* Nothing is found by vector while the gate of the space is closed.
ReadVectors(s) ==
    /\ search[s].pc = "vectors"
    /\ \E vec \in VectorResults \cup {<<>>} :
          \E result \in Results(search[s].mode, search[s].fts, vec) :
              Becomes(s, [search[s] EXCEPT !.pc = "count", !.vec = vec, !.result = result])

Counted(state) == ToSet(state.result)

\* record_access, which a busy database may skip; then the answer goes out.
RecordAccess(s) ==
    /\ search[s].pc = "count"
    /\ \/ access' = [m \in Rows |-> IF m \in Counted(search[s]) /\ status[m] # "gone"
                                    THEN access[m] + 1 ELSE access[m]]
       \/ UNCHANGED access
    /\ returned' = [m \in Rows |-> IF m \in ToSet(search[s].result)
                                   THEN returned[m] + 1 ELSE returned[m]]
    /\ search' = [search EXCEPT ![s] = Idle]
    /\ UNCHANGED <<status, begun, changes>>

\* Forgetting, merging, restoring and purging, as in DreamLifecycle.
ChangeStatus(m, to) ==
    /\ changes < MaxChanges /\ status[m] \notin {"gone", to}
    /\ to = "gone" => status[m] = "dormant"
    /\ status' = [status EXCEPT ![m] = to]
    /\ changes' = changes + 1
    /\ search' = [s \in Searchers |->
                    IF to = "active" /\ search[s].pc # "idle"
                    THEN [search[s] EXCEPT !.seen = @ \cup {m}] ELSE search[s]]
    /\ UNCHANGED <<access, begun, returned>>

Next ==
    \/ \E s \in Searchers :
          \/ \E mode \in Modes : Begin(s, mode)
          \/ ReadText(s) \/ Embed(s) \/ EmbedFails(s) \/ ReadVectors(s) \/ RecordAccess(s)
    \/ \E m \in Rows, to \in Statuses : ChangeStatus(m, to)

Spec == Init /\ [][Next]_vars

-----------------------------------------------------------------------------
(* Properties.                                                             *)

Answering == {search[s] : s \in {t \in Searchers : search[t].pc = "count"}}

\* What a search returns is at most limit rows, none twice, each of which was
\* active at some time while it ran, however its two reads and the changes of
\* other requests interleave (_hybrid_search).
ReturnsWhatWasActive ==
    \A a \in Answering :
        Len(a.result) <= Limit /\ IsInjective(a.result) /\ ToSet(a.result) \subseteq a.seen

\* access_count never exceeds the number of searches that returned the row:
\* candidates that are not returned are not counted, and a row found by both
\* paths is counted once (record_access).
CountsOnlyReturned == \A m \in Rows : access[m] <= returned[m]

\* As long as limit is at most rrf_k, rows that both paths found come before
\* those that one found, at whatever rank, and the best match by text is always
\* among the results; the nearest row has no such guarantee (_hybrid_search).
BothFirst ==
    \A a \in Answering :
        LET both == ToSet(a.fts) \cap ToSet(a.vec) IN
        Limit <= K /\ a.mode = "hybrid" /\ a.vec # <<>> =>
            \A i, j \in DOMAIN a.result : i < j /\ a.result[j] \in both => a.result[i] \in both
BestTextKept ==
    \A a \in Answering :
        Limit <= K /\ a.mode = "hybrid" /\ a.fts # <<>> => Head(a.fts) \in ToSet(a.result)
FusionIsFair == BothFirst /\ BestTextKept

=============================================================================
