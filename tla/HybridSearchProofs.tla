------------------------- MODULE HybridSearchProofs -------------------------
(***************************************************************************)
(* Proofs about HybridSearch and VectorSearch: counting, the arithmetic of *)
(* fusion, what searches answer while rows change, and that the search by  *)
(* vector finds exactly the nearest rows.                                  *)
(***************************************************************************)
EXTENDS HybridSearch, VectorSearch, SequenceTheorems, FiniteSetTheorems, TLAPS

\* The product of two numbers below 2K is less than K times their sum.
LEMMA ProductBelowSum ==
    ASSUME NEW k \in Nat \ {0},
           NEW a \in Nat, k <= a, a < 2 * k,
           NEW b \in Nat, k <= b, b < 2 * k, a <= b
    PROVE  a * b < k * (a + b)
<1>1. a * b < a * (2 * k)
  <2>1. a > 0
    OBVIOUS
  <2>2. \A x, y, z \in Nat : x > 0 /\ y < z => x * y < x * z
    BY Z3
  <2> QED
    BY <2>1, <2>2
<1>2. a * (2 * k) = k * a + k * a
  BY Z3
<1>3. k * a <= k * b
  BY Z3
<1>4. k * (a + b) = k * a + k * b
  BY Z3
<1>5. a * b \in Nat /\ k * a \in Nat /\ k * b \in Nat
  BY Z3
<1> QED
  BY <1>1, <1>2, <1>3, <1>4, <1>5

\* Why BothFirst holds (_hybrid_search): with limit at most rrf_k, a row that
\* both paths found scores higher than any row that only one found, whatever
\* their ranks.
THEOREM BothBeatOne ==
    ASSUME Limit <= K,
           NEW i \in 0 .. Limit - 1, NEW j \in 0 .. Limit - 1, NEW r \in 0 .. Limit - 1
    PROVE  Higher(ScoreBoth(i, j), ScoreOne(r))
<1> DEFINE a == K + i
           b == K + j
           c == K + r
<1>1. /\ K \in Nat \ {0}
      /\ a \in Nat /\ K <= a /\ a < 2 * K
      /\ b \in Nat /\ K <= b /\ b < 2 * K
      /\ c \in Nat /\ K <= c
  BY NumbersAssumption
<1> HIDE DEF a, b, c
<1>2. a * b < K * (a + b)
  <2>1. CASE a <= b
    BY <1>1, <2>1, ProductBelowSum
  <2>2. CASE b <= a
    <3>1. b * a < K * (b + a)
      BY <1>1, <2>2, ProductBelowSum
    <3>2. b * a = a * b /\ b + a = a + b
      BY <1>1
    <3> QED
      BY <3>1, <3>2
  <2> QED
    BY <1>1, <2>1, <2>2
<1>3. K * (a + b) <= (a + b) * c
  <2>1. \A x, y, z \in Nat : x <= y => x * z <= z * y
    BY Z3
  <2> QED
    BY <1>1, <2>1
<1>4. a * b \in Nat /\ K * (a + b) \in Nat /\ (a + b) * c \in Nat
  BY <1>1
<1>5. (a + b) * c > 1 * (a * b)
  BY <1>2, <1>3, <1>4
<1> QED
  BY <1>5 DEF Higher, ScoreBoth, ScoreOne, a, b, c

-----------------------------------------------------------------------------
\* A row's count and the number of searches that returned it are numbers.
Counters == access \in [Rows -> Nat] /\ returned \in [Rows -> Nat]

CInv == Counters /\ CountsOnlyReturned

LEMMA CInvInit == Init => CInv
  BY DEF Init, CInv, Counters, CountsOnlyReturned

LEMMA CInvStep == CInv /\ [Next]_vars => CInv'
<1> SUFFICES ASSUME CInv, [Next]_vars PROVE CInv'
  OBVIOUS
<1> USE DEF CInv, Counters, CountsOnlyReturned
<1>1. CASE UNCHANGED <<access, returned>>
  BY <1>1
<1>2. ASSUME NEW s \in Searchers, RecordAccess(s) PROVE CInv'
  <2>1. returned' = [m \in Rows |-> IF m \in ToSet(search[s].result)
                                    THEN returned[m] + 1 ELSE returned[m]]
    BY <1>2 DEF RecordAccess
  <2>2. CASE access' = access
    BY <2>1, <2>2
  <2>3. CASE access' = [m \in Rows |-> IF m \in Counted(search[s]) /\ status[m] # "gone"
                                       THEN access[m] + 1 ELSE access[m]]
    BY <2>1, <2>3 DEF Counted
  <2> QED
    BY <1>2, <2>2, <2>3 DEF RecordAccess
<1>3. ASSUME NEW s \in Searchers, NEW mode \in Modes, Begin(s, mode) PROVE CInv'
  BY <1>1, <1>3 DEF Begin
<1>4. ASSUME NEW s \in Searchers,
             ReadText(s) \/ Embed(s) \/ EmbedFails(s) \/ ReadVectors(s)
      PROVE  CInv'
  BY <1>1, <1>4 DEF ReadText, Embed, EmbedFails, ReadVectors, Becomes
<1>5. ASSUME NEW m \in Rows, NEW to \in Statuses, ChangeStatus(m, to) PROVE CInv'
  BY <1>1, <1>5 DEF ChangeStatus
<1>6. CASE UNCHANGED vars
  BY <1>1, <1>6 DEF vars
<1> QED
  BY <1>2, <1>3, <1>4, <1>5, <1>6 DEF Next

\* access_count never exceeds the number of searches that returned the row,
\* for any number of concurrent searches (record_access).
THEOREM CountsHonest == Spec => []CountsOnlyReturned
<1>1. CInv => CountsOnlyReturned
  BY DEF CInv
<1> QED
  BY <1>1, CInvInit, CInvStep, PTL DEF Spec

-----------------------------------------------------------------------------
(* What the reads and the fusion return.                                    *)

\* A list of members of S, none twice.
Listing(l, S) == l \in Seq(S) /\ IsInjective(l)

LEMMA SmallerOf ==
    ASSUME NEW a \in Nat, NEW b \in Nat
    PROVE  Min({a, b}) = IF a <= b THEN a ELSE b
<1> DEFINE m == IF a <= b THEN a ELSE b
<1>1. m \in {a, b} /\ \A y \in {a, b} : m <= y
  OBVIOUS
<1>2. \A x \in {a, b} : (\A y \in {a, b} : x <= y) => x = m
  OBVIOUS
<1> QED
  BY <1>1, <1>2 DEF Min

\* The first rows of a list.
LEMMA FirstOfListing ==
    ASSUME NEW S, NEW s, Listing(s, S)
    PROVE  /\ Listing(First(s), S) /\ Len(First(s)) <= Limit
           /\ \A i \in DOMAIN First(s) : i \in DOMAIN s /\ First(s)[i] = s[i]
           /\ \A i \in DOMAIN s : i <= Limit => i \in DOMAIN First(s)
<1> DEFINE n == Min({Limit, Len(s)})
<1>1. s \in Seq(S) /\ Len(s) \in Nat /\ DOMAIN s = 1 .. Len(s) /\ Limit \in Nat
  BY LenProperties, NumbersAssumption DEF Listing
<1>2. n \in Nat /\ n <= Limit /\ n <= Len(s) /\ (n = Limit \/ n = Len(s))
  BY <1>1, SmallerOf
<1> HIDE DEF n
<1> DEFINE l == Len(s)
<1>3. \A i \in 1 .. n : i \in 1 .. l
  <2>1. l \in Nat /\ n <= l
    BY <1>1, <1>2
  <2> QED
    BY <1>2, <2>1
<1>10. \A i \in 1 .. l : i <= Limit => i \in 1 .. n
  <2>1. CASE n = Limit
    BY <1>2, <2>1
  <2>2. CASE n = l
    BY <2>2
  <2> QED
    BY <1>2, <2>1, <2>2
<1>11. \A i \in 1 .. n : s[i] \in S
  BY <1>1, <1>3, ElementOfSeq
<1>4. /\ SubSeq(s, 1, n) \in Seq(S) /\ Len(SubSeq(s, 1, n)) = n
      /\ \A i \in 1 .. n : SubSeq(s, 1, n)[i] = s[i]
  <2>1. /\ SubSeq(s, 1, n) \in Seq(S)
        /\ Len(SubSeq(s, 1, n)) = IF 1 <= n THEN n - 1 + 1 ELSE 0
        /\ \A i \in 1 .. n - 1 + 1 : SubSeq(s, 1, n)[i] = s[1 + i - 1]
    BY <1>2, <1>11, SubSeqProperties
  <2>2. \A i \in 1 .. n : SubSeq(s, 1, n)[i] = s[i]
    <3> TAKE i \in 1 .. n
    <3>1. i \in 1 .. n - 1 + 1 /\ 1 + i - 1 = i
      BY <1>2
    <3> QED
      BY <2>1, <3>1
  <2> QED
    BY <1>2, <2>1, <2>2
<1>5. First(s) = SubSeq(s, 1, n)
  BY DEF First, n
<1>6. First(s) \in Seq(S) /\ Len(First(s)) = n /\ DOMAIN First(s) = 1 .. n
  BY <1>4, <1>5, LenProperties
<1>7. \A i \in DOMAIN First(s) : i \in DOMAIN s /\ First(s)[i] = s[i]
  BY <1>1, <1>3, <1>4, <1>5, <1>6
<1>8. IsInjective(First(s))
  BY <1>7 DEF IsInjective, Listing
<1>9. \A i \in DOMAIN s : i <= Limit => i \in DOMAIN First(s)
  BY <1>1, <1>10, <1>6
<1> QED
  BY <1>2, <1>6, <1>7, <1>8, <1>9 DEF Listing

\* The sequences of all members of a finite set.
LEMMA AllMembers ==
    ASSUME NEW S, IsFiniteSet(S), NEW s \in SetToSeqs(S)
    PROVE  Listing(s, S) /\ Len(s) = Cardinality(S) /\ ToSet(s) = S
<1> DEFINE c == Cardinality(S)
<1>1. c \in Nat
  BY FS_CardinalityType
<1>2. s \in [1 .. c -> S] /\ \A i, j \in 1 .. c : i # j => s[i] # s[j]
  BY DEF SetToSeqs
<1>3. s \in Seq(S) /\ Len(s) = c
  BY <1>1, <1>2, SeqDef, LenProperties
<1>4. IsInjective(s)
  BY <1>2 DEF IsInjective
<1>5. s \in Injection(1 .. c, S)
  BY <1>2, <1>4 DEF Injection
<1>6. Cardinality(1 .. c) = c
  BY <1>1, FS_Interval
<1>7. s \in Surjection(1 .. c, S)
  BY <1>5, <1>6, FS_Injection
<1>8. ToSet(s) = S
  BY <1>2, <1>7 DEF Surjection, ToSet
<1> QED
  BY <1>3, <1>4, <1>8 DEF Listing

LEMMA RankInList ==
    ASSUME NEW S, NEW s \in Seq(S), NEW m \in ToSet(s)
    PROVE  /\ RankIn(s, m) \in 0 .. Len(s) - 1
           /\ RankIn(s, m) + 1 \in DOMAIN s /\ s[RankIn(s, m) + 1] = m
<1>1. \E i \in DOMAIN s : s[i] = m
  BY DEF ToSet
<1> DEFINE i == CHOOSE i \in DOMAIN s : s[i] = m
<1>2. i \in DOMAIN s /\ s[i] = m
  BY <1>1
<1> HIDE DEF i
<1>3. i \in 1 .. Len(s) /\ Len(s) \in Nat /\ DOMAIN s = 1 .. Len(s)
  BY <1>2, LenProperties
<1>4. RankIn(s, m) = i - 1
  BY DEF RankIn, i
<1> QED
  BY <1>2, <1>3, <1>4

\* What the two reads may return: at most limit of the visible rows.
LEMMA TextReads ==
    ASSUME NEW fts \in TextResults
    PROVE  Listing(fts, Matching) /\ Len(fts) <= Limit /\ ToSet(fts) \subseteq Active
<1> DEFINE found == Visible \cap Matching
<1>1. found \subseteq Active /\ found \subseteq Matching /\ IsFiniteSet(found)
  BY RowsAssumption, FS_Subset DEF Visible, Active
<1>2. Cardinality(found) \in Nat
  BY <1>1, FS_CardinalityType
<1>3. Min({Limit, Cardinality(found)}) <= Limit
  <2> DEFINE c == Cardinality(found)
  <2>1. c \in Nat /\ Limit \in Nat
    BY <1>2, NumbersAssumption
  <2> HIDE DEF c
  <2>2. Min({Limit, c}) <= Limit
    BY <2>1, SmallerOf
  <2> QED
    BY <2>2 DEF c
<1>4. PICK T \in SUBSET found : Cardinality(T) = Min({Limit, Cardinality(found)}) /\ fts \in SetToSeqs(T)
  BY DEF TextResults
<1>5. IsFiniteSet(T)
  BY <1>1, FS_Subset
<1>6. Listing(fts, T) /\ Len(fts) = Cardinality(T) /\ ToSet(fts) = T
  BY <1>4, <1>5, AllMembers
<1>7. fts \in Seq(Matching)
  BY <1>1, <1>6, SeqMonotonic DEF Listing
<1> QED
  BY <1>1, <1>3, <1>4, <1>6, <1>7 DEF Listing

LEMMA Cut ==
    ASSUME NEW S, NEW s, Listing(s, S)
    PROVE  ToSet(First(s)) \subseteq ToSet(s)
<1>1. \A i \in DOMAIN First(s) : i \in DOMAIN s /\ First(s)[i] = s[i]
  BY FirstOfListing
<1> QED
  BY <1>1 DEF ToSet

LEMMA VectorReads ==
    ASSUME NEW vec \in VectorResults \cup {<<>>}
    PROVE  Listing(vec, Rows) /\ Len(vec) <= Limit /\ ToSet(vec) \subseteq Active
<1>1. CASE vec = <<>>
  <2>1. vec \in Seq(Rows) /\ Len(vec) = 0 /\ DOMAIN vec = {}
    BY <1>1, EmptySeq, LenProperties
  <2> QED
    BY <2>1, NumbersAssumption DEF Listing, IsInjective, ToSet
<1>2. CASE vec \in VectorResults
  <2> DEFINE S == {m \in Visible : Distance[m] <= Threshold}
  <2>1. PICK s \in Sorted(S, Nearer) : vec = First(s)
    BY <1>2 DEF VectorResults
  <2>2. S \subseteq Active /\ S \subseteq Rows /\ IsFiniteSet(S)
    BY RowsAssumption, FS_Subset DEF Visible, Active
  <2>3. s \in SetToSeqs(S)
    BY <2>1 DEF Sorted
  <2> HIDE DEF S
  <2>4. Listing(s, S) /\ ToSet(s) = S
    BY <2>2, <2>3, AllMembers
  <2>5. Listing(vec, S) /\ Len(vec) <= Limit /\ ToSet(vec) \subseteq S
    BY <2>1, <2>4, FirstOfListing, Cut
  <2>6. vec \in Seq(Rows)
    BY <2>2, <2>5, SeqMonotonic DEF Listing
  <2> QED
    BY <2>2, <2>5, <2>6 DEF Listing
<1> QED
  BY <1>1, <1>2

\* The members of a list are finitely many members of its range.
LEMMA Members ==
    ASSUME NEW S, NEW s \in Seq(S), IsFiniteSet(S)
    PROVE  ToSet(s) \subseteq S /\ IsFiniteSet(ToSet(s))
<1>1. \A i \in DOMAIN s : s[i] \in S
  BY ElementOfSeq, LenProperties
<1>2. ToSet(s) \subseteq S
  BY <1>1 DEF ToSet
<1> QED
  BY <1>2, FS_Subset

\* The fused list holds only rows of the two lists, at most limit of them.
LEMMA Fusion ==
    ASSUME NEW fts \in Seq(Rows), NEW vec \in Seq(Rows), NEW answer \in Fused(fts, vec)
    PROVE  /\ Listing(answer, Rows) /\ Len(answer) <= Limit
           /\ ToSet(answer) \subseteq ToSet(fts) \cup ToSet(vec)
           /\ \E s : /\ Listing(s, Rows) /\ ToSet(s) = ToSet(fts) \cup ToSet(vec)
                     /\ \A i, j \in DOMAIN s : i < j => Ahead(fts, vec, s[i], s[j])
                     /\ answer = First(s)
<1> DEFINE S == ToSet(fts) \cup ToSet(vec)
<1>1. S \subseteq Rows /\ IsFiniteSet(S)
  BY RowsAssumption, Members, FS_Union
<1>2. PICK s \in Sorted(S, LAMBDA m, n : Ahead(fts, vec, m, n)) : answer = First(s)
  BY DEF Fused
<1>3. s \in SetToSeqs(S) /\ \A i, j \in DOMAIN s : i < j => Ahead(fts, vec, s[i], s[j])
  BY <1>2 DEF Sorted
<1>4. Listing(s, S) /\ ToSet(s) = S
  BY <1>1, <1>3, AllMembers
<1>5. Listing(s, Rows)
  BY <1>1, <1>4, SeqMonotonic DEF Listing
<1>6. Listing(answer, Rows) /\ Len(answer) <= Limit /\ ToSet(answer) \subseteq ToSet(s)
  BY <1>2, <1>5, FirstOfListing, Cut
<1> QED
  BY <1>2, <1>3, <1>4, <1>5, <1>6

-----------------------------------------------------------------------------
(* The order of the fused list.                                             *)

LEMMA ScoreTypes ==
    ASSUME NEW fts \in Seq(Rows), NEW vec \in Seq(Rows), NEW m \in ToSet(fts) \cup ToSet(vec)
    PROVE  /\ Score(fts, vec, m)[1] \in Nat /\ Score(fts, vec, m)[2] \in Nat
<1>1. K \in Nat
  BY NumbersAssumption
<1>2. m \in ToSet(fts) => RankIn(fts, m) \in Nat
  <2> HAVE m \in ToSet(fts)
  <2>1. RankIn(fts, m) \in 0 .. Len(fts) - 1
    BY RankInList
  <2> QED
    BY <2>1
<1>3. m \in ToSet(vec) => RankIn(vec, m) \in Nat
  <2> HAVE m \in ToSet(vec)
  <2>1. RankIn(vec, m) \in 0 .. Len(vec) - 1
    BY RankInList
  <2> QED
    BY <2>1
<1>4. \A i \in Nat : ScoreOne(i)[1] \in Nat /\ ScoreOne(i)[2] \in Nat
  BY <1>1 DEF ScoreOne
<1>5. \A i, j \in Nat : ScoreBoth(i, j)[1] \in Nat /\ ScoreBoth(i, j)[2] \in Nat
  <2> TAKE i, j \in Nat
  <2>1. K + i \in Nat /\ K + j \in Nat
    BY <1>1
  <2>2. \A x, y \in Nat : x + y \in Nat /\ x * y \in Nat
    OBVIOUS
  <2>3. (K + i) + (K + j) \in Nat /\ (K + i) * (K + j) \in Nat
    BY <2>1, <2>2
  <2> QED
    BY <2>3 DEF ScoreBoth
<1>6. CASE m \in ToSet(fts) /\ m \in ToSet(vec)
  BY <1>2, <1>3, <1>5, <1>6 DEF Score
<1>7. CASE m \in ToSet(fts) /\ m \notin ToSet(vec)
  BY <1>2, <1>4, <1>7 DEF Score
<1>8. CASE m \notin ToSet(fts)
  BY <1>3, <1>4, <1>8 DEF Score
<1> QED
  BY <1>6, <1>7, <1>8

\* Of two scores, not each is the higher.
LEMMA HigherOneWay ==
    ASSUME NEW p, NEW q, p[1] \in Nat, p[2] \in Nat, q[1] \in Nat, q[2] \in Nat, Higher(p, q)
    PROVE  ~Higher(q, p)
<1>1. \A a, b, c, d \in Nat : a * d > c * b => ~(c * b > a * d)
  BY Z3
<1> QED
  BY <1>1 DEF Higher

\* Two lists as a search reads them.
Lists(fts, vec) ==
    /\ Listing(fts, Rows) /\ Len(fts) <= Limit
    /\ Listing(vec, Rows) /\ Len(vec) <= Limit

\* No row of one list goes ahead of a row of both.
LEMMA OneNotAhead ==
    ASSUME Limit <= K, NEW fts, NEW vec, Lists(fts, vec),
           NEW m \in ToSet(fts) \cup ToSet(vec), NEW n \in ToSet(fts) \cap ToSet(vec),
           Ahead(fts, vec, m, n)
    PROVE  m \in ToSet(fts) \cap ToSet(vec)
<1>1. fts \in Seq(Rows) /\ vec \in Seq(Rows) /\ Len(fts) \in Nat /\ Len(vec) \in Nat /\ Limit \in Nat
  BY LenProperties, NumbersAssumption DEF Lists, Listing
<1>2. SUFFICES ASSUME m \notin ToSet(fts) \cap ToSet(vec) PROVE FALSE
  OBVIOUS
<1>3. PICK r \in 0 .. Limit - 1 : Score(fts, vec, m) = ScoreOne(r)
  <2>1. CASE m \in ToSet(fts)
    <3>1. RankIn(fts, m) \in 0 .. Len(fts) - 1
      BY <1>1, <2>1, RankInList
    <3>2. RankIn(fts, m) \in 0 .. Limit - 1
      BY <1>1, <3>1 DEF Lists
    <3> QED
      BY <1>2, <2>1, <3>2 DEF Score
  <2>2. CASE m \notin ToSet(fts)
    <3>1. RankIn(vec, m) \in 0 .. Len(vec) - 1
      BY <1>1, <2>2, RankInList
    <3>2. RankIn(vec, m) \in 0 .. Limit - 1
      BY <1>1, <3>1 DEF Lists
    <3> QED
      BY <2>2, <3>2 DEF Score
  <2> QED
    BY <2>1, <2>2
<1>4. PICK i \in 0 .. Limit - 1, j \in 0 .. Limit - 1 : Score(fts, vec, n) = ScoreBoth(i, j)
  <2>1. RankIn(fts, n) \in 0 .. Len(fts) - 1 /\ RankIn(vec, n) \in 0 .. Len(vec) - 1
    BY <1>1, RankInList
  <2>2. RankIn(fts, n) \in 0 .. Limit - 1 /\ RankIn(vec, n) \in 0 .. Limit - 1
    BY <1>1, <2>1 DEF Lists
  <2> QED
    BY <2>2 DEF Score
<1>5. Higher(Score(fts, vec, n), Score(fts, vec, m))
  BY <1>3, <1>4, BothBeatOne
<1>6. ~Higher(Score(fts, vec, m), Score(fts, vec, n))
  BY <1>1, <1>5, ScoreTypes, HigherOneWay
<1> QED
  BY <1>5, <1>6 DEF Ahead

\* The best match by text goes behind rows of both lists only.
LEMMA AheadOfBest ==
    ASSUME Limit <= K, NEW fts, NEW vec, Lists(fts, vec), fts # <<>>,
           NEW m \in ToSet(fts) \cup ToSet(vec), m # Head(fts), Ahead(fts, vec, m, Head(fts))
    PROVE  m \in ToSet(fts) /\ RankIn(fts, m) \in 1 .. Len(fts) - 1
<1> DEFINE h == Head(fts)
<1>1. fts \in Seq(Rows) /\ vec \in Seq(Rows) /\ Len(fts) \in Nat /\ Len(vec) \in Nat
  BY LenProperties DEF Lists, Listing
<1>2. Len(fts) > 0 /\ DOMAIN fts = 1 .. Len(fts)
  BY <1>1, LenProperties, EmptySeq
<1>3. h = fts[1] /\ 1 \in DOMAIN fts
  BY <1>1, <1>2, HeadTailProperties
<1>4. h \in ToSet(fts)
  BY <1>3 DEF ToSet
<1>5. RankIn(fts, h) = 0
  <2>1. RankIn(fts, h) + 1 \in DOMAIN fts /\ fts[RankIn(fts, h) + 1] = h /\ RankIn(fts, h) \in 0 .. Len(fts) - 1
    BY <1>1, <1>4, RankInList
  <2>2. RankIn(fts, h) + 1 = 1
    BY <1>3, <2>1 DEF Lists, Listing, IsInjective
  <2> QED
    BY <1>1, <2>1, <2>2
<1> HIDE DEF h
<1>6. m \in ToSet(fts)
  <2>1. CASE h \in ToSet(vec)
    <3>1. Ahead(fts, vec, m, h)
      BY DEF h
    <3> QED
      BY <1>4, <2>1, <3>1, OneNotAhead
  <2>2. CASE h \notin ToSet(vec)
    <3>1. SUFFICES ASSUME m \notin ToSet(fts) PROVE FALSE
      OBVIOUS
    <3>2. Score(fts, vec, h) = ScoreOne(0)
      BY <1>4, <1>5, <2>2 DEF Score
    <3>3. Score(fts, vec, m) = ScoreOne(RankIn(vec, m))
      BY <3>1 DEF Score
    <3>4. RankIn(vec, m) \in Nat
      <4>1. RankIn(vec, m) \in 0 .. Len(vec) - 1
        BY <1>1, <3>1, RankInList
      <4> QED
        BY <4>1
    <3>5. ~Higher(ScoreOne(RankIn(vec, m)), ScoreOne(0))
      BY <3>4, NumbersAssumption DEF Higher, ScoreOne
    <3>6. ~ScoredFirst(fts, vec, m, h)
      BY <1>4, <3>1 DEF ScoredFirst
    <3> QED
      BY <3>2, <3>3, <3>5, <3>6 DEF Ahead, h
  <2> QED
    BY <2>1, <2>2
<1>7. RankIn(fts, m) \in 0 .. Len(fts) - 1 /\ fts[RankIn(fts, m) + 1] = m
  BY <1>1, <1>6, RankInList
<1>8. RankIn(fts, m) # 0
  <2> SUFFICES ASSUME RankIn(fts, m) = 0 PROVE FALSE
    OBVIOUS
  <2>1. fts[1] = m
    <3>1. RankIn(fts, m) + 1 = 1
      OBVIOUS
    <3> QED
      BY <1>7, <3>1
  <2> QED
    BY <1>3, <2>1 DEF h
<1> QED
  BY <1>1, <1>6, <1>7, <1>8

\* The best match by text is among the first rows.
LEMMA BestKept ==
    ASSUME Limit <= K, NEW fts, NEW vec, Lists(fts, vec), fts # <<>>,
           NEW answer \in Fused(fts, vec)
    PROVE  Head(fts) \in ToSet(answer)
<1> DEFINE h == Head(fts)
           n == Len(fts)
<1>1. fts \in Seq(Rows) /\ vec \in Seq(Rows)
  BY DEF Lists, Listing
<1>2. n \in Nat /\ n > 0 /\ n <= Limit /\ h \in ToSet(fts)
  <2>1. n \in Nat /\ n > 0 /\ n <= Limit
    BY <1>1, LenProperties, EmptySeq DEF Lists
  <2>2. h = fts[1] /\ 1 \in DOMAIN fts
    BY <1>1, <2>1, HeadTailProperties, LenProperties
  <2> QED
    BY <2>1, <2>2 DEF ToSet
<1>3. PICK s : /\ Listing(s, Rows) /\ ToSet(s) = ToSet(fts) \cup ToSet(vec)
               /\ \A i, j \in DOMAIN s : i < j => Ahead(fts, vec, s[i], s[j])
               /\ answer = First(s)
  BY <1>1, Fusion
<1>4. PICK p \in DOMAIN s : s[p] = h
  BY <1>2, <1>3 DEF ToSet
<1>5. DOMAIN s = 1 .. Len(s) /\ Len(s) \in Nat /\ p \in 1 .. Len(s)
  BY <1>3, LenProperties DEF Listing
<1>6. \A q \in 1 .. p - 1 : q \in DOMAIN s /\ s[q] \in ToSet(fts) /\ RankIn(fts, s[q]) \in 1 .. n - 1
  <2> TAKE q \in 1 .. p - 1
  <2>1. q \in DOMAIN s /\ q < p
    BY <1>5
  <2>2. s[q] # h
    BY <1>3, <1>4, <1>5, <2>1 DEF Listing, IsInjective
  <2>3. s[q] \in ToSet(fts) \cup ToSet(vec)
    BY <1>3, <2>1 DEF ToSet
  <2>4. Ahead(fts, vec, s[q], h)
    BY <1>3, <1>4, <2>1
  <2> QED
    BY <2>1, <2>2, <2>3, <2>4, AheadOfBest
<1> DEFINE f == [q \in 1 .. p - 1 |-> RankIn(fts, s[q])]
<1>7. f \in Injection(1 .. p - 1, 1 .. n - 1)
  <2>1. f \in [1 .. p - 1 -> 1 .. n - 1]
    BY <1>6
  <2>2. \A a, b \in 1 .. p - 1 : RankIn(fts, s[a]) = RankIn(fts, s[b]) => a = b
    <3> SUFFICES ASSUME NEW a \in 1 .. p - 1, NEW b \in 1 .. p - 1,
                        RankIn(fts, s[a]) = RankIn(fts, s[b])
                 PROVE  a = b
      OBVIOUS
    <3>1. fts[RankIn(fts, s[a]) + 1] = s[a] /\ fts[RankIn(fts, s[b]) + 1] = s[b]
      BY <1>1, <1>6, RankInList
    <3> QED
      BY <1>3, <1>6, <3>1 DEF Listing, IsInjective
  <2> QED
    BY <2>1, <2>2 DEF Injection, IsInjective
<1> HIDE DEF f, h, n
<1>8. p <= n
  <2>1. Cardinality(1 .. p - 1) = p - 1
    <3>1. 1 \in Int /\ p - 1 \in Int /\ p - 1 - 1 + 1 = p - 1 /\ (1 > p - 1 => p - 1 = 0)
      BY <1>5
    <3> QED
      BY <3>1, FS_Interval
  <2>2. Cardinality(1 .. n - 1) = n - 1 /\ IsFiniteSet(1 .. n - 1)
    <3>1. 1 \in Int /\ n - 1 \in Int /\ n - 1 - 1 + 1 = n - 1 /\ (1 > n - 1 => n - 1 = 0)
      BY <1>2
    <3> QED
      BY <3>1, FS_Interval
  <2>3. Cardinality(1 .. p - 1) <= Cardinality(1 .. n - 1)
    BY <1>7, <2>2, FS_Injection
  <2> QED
    BY <1>2, <1>5, <2>1, <2>2, <2>3
<1>9. p <= Limit
  BY <1>2, <1>5, <1>8, NumbersAssumption
<1>10. p \in DOMAIN First(s) /\ First(s)[p] = s[p]
  BY <1>3, <1>9, FirstOfListing
<1> QED
  BY <1>3, <1>4, <1>10 DEF ToSet, h

-----------------------------------------------------------------------------
(* What a search has read so far: lists of rows that were active while it   *)
(* ran, every row active now among those it may still read.                 *)

Seen(a, l, S) == Listing(l, S) /\ Len(l) <= Limit /\ ToSet(l) \subseteq a.seen

Sound(a) ==
    /\ Seen(a, a.fts, Matching) /\ Seen(a, a.vec, Rows) /\ Seen(a, a.result, Rows)
    /\ a.pc # "count" => a.vec = <<>>
    /\ a.pc = "count" /\ a.mode = "hybrid" =>
          \/ a.vec = <<>> /\ a.result = a.fts
          \/ a.vec # <<>> /\ a.result \in Fused(a.fts, a.vec)

HInv ==
    /\ status \in [Rows -> Statuses] /\ search \in [Searchers -> Search]
    /\ \A s \in Searchers :
          Sound(search[s]) /\ (search[s].pc # "idle" => Active \subseteq search[s].seen)

LEMMA NothingSeen == \A a, S : Seen(a, <<>>, S)
<1> TAKE a, S
<1>1. <<>> \in Seq(S) /\ Len(<<>>) = 0 /\ DOMAIN <<>> = {}
  BY EmptySeq, LenProperties
<1> QED
  BY <1>1, NumbersAssumption DEF Seen, Listing, IsInjective, ToSet

LEMMA IdleSound == Idle \in Search /\ Sound(Idle)
<1>1. Idle \in Search
  BY EmptySeq DEF Idle, Search, Modes
<1> QED
  BY <1>1, NothingSeen DEF Idle, Sound

LEMMA HInvInit == Init => HInv
  BY IdleSound DEF Init, HInv, Idle, Statuses

\* A step of one search keeps the invariant when its new state is sound.
LEMMA OneBecomes ==
    ASSUME HInv, NEW s \in Searchers, NEW a \in Search, Sound(a), Active \subseteq a.seen,
           search' = [search EXCEPT ![s] = a], status' = status
    PROVE  HInv'
<1>1. search' \in [Searchers -> Search]
  BY DEF HInv
<1>2. Active' = Active
  BY DEF Active
<1> SUFFICES ASSUME NEW t \in Searchers
             PROVE  Sound(search[t])' /\ (search'[t].pc # "idle" => Active \subseteq search'[t].seen)
  BY <1>1, <1>2 DEF HInv
<1>3. CASE t = s
  <2>1. search'[t] = a
    BY <1>3 DEF HInv
  <2> QED
    BY <2>1 DEF Sound, Seen
<1>4. CASE t # s
  <2>1. search'[t] = search[t]
    BY <1>4 DEF HInv
  <2> QED
    BY <2>1 DEF HInv, Sound, Seen
<1> QED
  BY <1>3, <1>4

LEMMA BeginSound ==
    ASSUME HInv, NEW s \in Searchers, NEW mode \in Modes, Begin(s, mode)
    PROVE  HInv'
<1> DEFINE p == IF mode = "vector" THEN "embed" ELSE "text"
           a == [Idle EXCEPT !.pc = p, !.mode = mode, !.seen = Active]
<1>5. p \in {"embed", "text"}
  OBVIOUS
<1>4. search' = [search EXCEPT ![s] = a] /\ status' = status
  BY DEF Begin
<1> HIDE DEF p
<1>1. /\ a.pc = p /\ a.mode = mode /\ a.seen = Active
      /\ a.fts = <<>> /\ a.vec = <<>> /\ a.result = <<>>
  BY Zenon DEF Idle
<1>2. a \in Search
  <2>1. Idle \in Search /\ Active \in SUBSET Rows
    BY IdleSound DEF Active
  <2> QED
    BY <1>5, <2>1 DEF Search
<1> HIDE DEF a
<1>3. Sound(a) /\ Active \subseteq a.seen
  BY <1>1, <1>5, NothingSeen DEF Sound
<1> QED
  BY <1>2, <1>3, <1>4, OneBecomes

LEMMA ReadTextSound ==
    ASSUME HInv, NEW s \in Searchers, ReadText(s)
    PROVE  HInv'
<1> DEFINE o == search[s]
<1>1. o \in Search /\ o.pc = "text" /\ Sound(o) /\ Active \subseteq o.seen /\ o.vec = <<>>
  BY DEF HInv, ReadText, Sound
<1>2. PICK fts \in TextResults :
          Becomes(s, IF o.mode = "fts" THEN [o EXCEPT !.pc = "count", !.result = fts]
                                       ELSE [o EXCEPT !.pc = "embed", !.fts = fts])
  BY DEF ReadText
<1>3. Listing(fts, Matching) /\ Len(fts) <= Limit /\ ToSet(fts) \subseteq Active
  BY TextReads
<1>4. fts \in Seq(Matching) /\ fts \in Seq(Rows)
  BY <1>3, RowsAssumption, SeqMonotonic DEF Listing
<1>5. Seen(o, fts, Matching) /\ Seen(o, fts, Rows)
  BY <1>1, <1>3, <1>4 DEF Seen, Listing
<1> HIDE DEF o
<1>6. CASE o.mode = "fts"
  <2> DEFINE a == [o EXCEPT !.pc = "count", !.result = fts]
  <2>1. a \in Search
    BY <1>1, <1>4 DEF Search
  <2>2. /\ a.fts = o.fts /\ a.vec = o.vec /\ a.result = fts /\ a.seen = o.seen
        /\ a.pc = "count" /\ a.mode = "fts"
    BY <1>1, <1>6 DEF Search
  <2>3. Sound(a) /\ Active \subseteq a.seen
    BY <1>1, <1>5, <2>2 DEF Sound, Seen
  <2>4. search' = [search EXCEPT ![s] = a] /\ status' = status
    BY <1>2, <1>6 DEF Becomes
  <2> HIDE DEF a
  <2> QED
    BY <2>1, <2>3, <2>4, OneBecomes
<1>7. CASE o.mode # "fts"
  <2> DEFINE a == [o EXCEPT !.pc = "embed", !.fts = fts]
  <2>1. a \in Search
    BY <1>1, <1>4 DEF Search
  <2>2. /\ a.fts = fts /\ a.vec = o.vec /\ a.result = o.result /\ a.seen = o.seen
        /\ a.pc = "embed" /\ a.mode = o.mode
    BY <1>1 DEF Search
  <2>3. Sound(a) /\ Active \subseteq a.seen
    BY <1>1, <1>5, <2>2 DEF Sound, Seen
  <2>4. search' = [search EXCEPT ![s] = a] /\ status' = status
    BY <1>2, <1>7 DEF Becomes
  <2> HIDE DEF a
  <2> QED
    BY <2>1, <2>3, <2>4, OneBecomes
<1> QED
  BY <1>6, <1>7

LEMMA EmbedSound ==
    ASSUME HInv, NEW s \in Searchers, Embed(s)
    PROVE  HInv'
<1> DEFINE o == search[s]
           a == [o EXCEPT !.pc = "vectors"]
<1>1. o \in Search /\ o.pc = "embed" /\ Sound(o) /\ Active \subseteq o.seen
  BY DEF HInv, Embed
<1>2. search' = [search EXCEPT ![s] = a] /\ status' = status
  BY DEF Embed, Becomes
<1> HIDE DEF o
<1>3. a \in Search
  BY <1>1 DEF Search
<1>4. /\ a.fts = o.fts /\ a.vec = o.vec /\ a.result = o.result /\ a.seen = o.seen
      /\ a.pc = "vectors"
  BY <1>1 DEF Search
<1>5. Sound(a) /\ Active \subseteq a.seen
  BY <1>1, <1>4 DEF Sound, Seen
<1> HIDE DEF a
<1> QED
  BY <1>2, <1>3, <1>5, OneBecomes

LEMMA EmbedFailsSound ==
    ASSUME HInv, NEW s \in Searchers, EmbedFails(s)
    PROVE  HInv'
<1> DEFINE o == search[s]
<1>1. o \in Search /\ o.pc = "embed" /\ Sound(o) /\ Active \subseteq o.seen /\ o.vec = <<>>
  BY DEF HInv, EmbedFails, Sound
<1>2. /\ search' = [search EXCEPT ![s] =
            IF o.mode = "vector" THEN [o EXCEPT !.pc = "text", !.mode = "fts"]
                                 ELSE [o EXCEPT !.pc = "count", !.result = o.fts]]
      /\ status' = status
  BY DEF EmbedFails, Becomes
<1> HIDE DEF o
<1>3. CASE o.mode = "vector"
  <2> DEFINE a == [o EXCEPT !.pc = "text", !.mode = "fts"]
  <2>1. a \in Search
    BY <1>1 DEF Search, Modes
  <2>2. /\ a.fts = o.fts /\ a.vec = o.vec /\ a.result = o.result /\ a.seen = o.seen
        /\ a.pc = "text"
    BY <1>1 DEF Search
  <2>3. Sound(a) /\ Active \subseteq a.seen
    BY <1>1, <2>2 DEF Sound, Seen
  <2>4. search' = [search EXCEPT ![s] = a]
    BY <1>2, <1>3
  <2> HIDE DEF a
  <2> QED
    BY <1>2, <2>1, <2>3, <2>4, OneBecomes
<1>4. CASE o.mode # "vector"
  <2> DEFINE a == [o EXCEPT !.pc = "count", !.result = o.fts]
  <2>1. o.fts \in Seq(Matching) /\ o.fts \in Seq(Rows)
    BY <1>1, RowsAssumption, SeqMonotonic DEF Sound, Seen, Listing
  <2>2. a \in Search
    BY <1>1, <2>1 DEF Search
  <2>3. /\ a.fts = o.fts /\ a.vec = o.vec /\ a.result = o.fts /\ a.seen = o.seen
        /\ a.pc = "count"
    BY <1>1 DEF Search
  <2>4. Seen(o, o.fts, Rows)
    BY <1>1, <2>1 DEF Sound, Seen, Listing
  <2>5. Sound(a) /\ Active \subseteq a.seen
    BY <1>1, <2>3, <2>4 DEF Sound, Seen
  <2>6. search' = [search EXCEPT ![s] = a]
    BY <1>2, <1>4
  <2> HIDE DEF a
  <2> QED
    BY <1>2, <2>2, <2>5, <2>6, OneBecomes
<1> QED
  BY <1>3, <1>4

LEMMA ReadVectorsSound ==
    ASSUME HInv, NEW s \in Searchers, ReadVectors(s)
    PROVE  HInv'
<1> DEFINE o == search[s]
<1>1. o \in Search /\ o.pc = "vectors" /\ Sound(o) /\ Active \subseteq o.seen
  BY DEF HInv, ReadVectors
<1>2. PICK vec \in VectorResults \cup {<<>>} :
          \E answer \in Results(o.mode, o.fts, vec) :
              Becomes(s, [o EXCEPT !.pc = "count", !.vec = vec, !.result = answer])
  BY DEF ReadVectors
<1>3. PICK answer \in Results(o.mode, o.fts, vec) :
          Becomes(s, [o EXCEPT !.pc = "count", !.vec = vec, !.result = answer])
  BY <1>2
<1> DEFINE a == [o EXCEPT !.pc = "count", !.vec = vec, !.result = answer]
<1>4. search' = [search EXCEPT ![s] = a] /\ status' = status
  BY <1>3 DEF Becomes
<1> HIDE DEF o
<1>5. Seen(o, vec, Rows) /\ vec \in Seq(Rows)
  BY <1>1, VectorReads DEF Seen, Listing
<1>6. o.fts \in Seq(Rows) /\ Seen(o, o.fts, Rows)
  <2>1. o.fts \in Seq(Rows)
    BY <1>1, RowsAssumption, SeqMonotonic DEF Sound, Seen, Listing
  <2> QED
    BY <1>1, <2>1 DEF Sound, Seen, Listing
<1>7. Seen(o, answer, Rows)
  <2>1. CASE o.mode = "vector"
    BY <1>5, <2>1 DEF Results
  <2>2. CASE o.mode # "vector" /\ vec = <<>>
    BY <1>6, <2>2 DEF Results
  <2>3. CASE o.mode # "vector" /\ vec # <<>>
    <3>1. answer \in Fused(o.fts, vec)
      BY <2>3 DEF Results
    <3>2. /\ Listing(answer, Rows) /\ Len(answer) <= Limit
          /\ ToSet(answer) \subseteq ToSet(o.fts) \cup ToSet(vec)
      BY <1>5, <1>6, <3>1, Fusion
    <3> QED
      BY <1>5, <1>6, <3>2 DEF Seen
  <2> QED
    BY <2>1, <2>2, <2>3
<1>8. a \in Search
  BY <1>1, <1>5, <1>7 DEF Search, Seen, Listing
<1>9. /\ a.fts = o.fts /\ a.vec = vec /\ a.result = answer /\ a.seen = o.seen
      /\ a.pc = "count" /\ a.mode = o.mode
  BY <1>1 DEF Search
<1>10. o.mode = "hybrid" => \/ vec = <<>> /\ answer = o.fts
                            \/ vec # <<>> /\ answer \in Fused(o.fts, vec)
  BY DEF Results
<1>11. Sound(a) /\ Active \subseteq a.seen
  <2>1. Seen(a, a.fts, Matching) /\ Seen(a, a.vec, Rows) /\ Seen(a, a.result, Rows)
    BY <1>1, <1>5, <1>7, <1>9 DEF Sound, Seen
  <2> QED
    BY <1>1, <1>9, <1>10, <2>1 DEF Sound
<1> HIDE DEF a
<1> QED
  BY <1>4, <1>8, <1>11, OneBecomes

LEMMA RecordAccessSound ==
    ASSUME HInv, NEW s \in Searchers, RecordAccess(s)
    PROVE  HInv'
<1>1. search' = [search EXCEPT ![s] = Idle] /\ status' = status
  BY DEF RecordAccess
<1>2. search' \in [Searchers -> Search] /\ Active' = Active
  BY <1>1, IdleSound DEF HInv, Active
<1> SUFFICES ASSUME NEW t \in Searchers
             PROVE  Sound(search[t])' /\ (search'[t].pc # "idle" => Active \subseteq search'[t].seen)
  BY <1>1, <1>2 DEF HInv
<1>3. CASE t = s
  <2>1. search'[t] = Idle /\ Idle.pc = "idle"
    BY <1>1, <1>3 DEF HInv, Idle
  <2> QED
    BY <2>1, IdleSound DEF Sound, Seen
<1>4. CASE t # s
  <2>1. search'[t] = search[t]
    BY <1>1, <1>4 DEF HInv
  <2> QED
    BY <2>1 DEF HInv, Sound, Seen
<1> QED
  BY <1>3, <1>4

\* A row that becomes active is one that searches under way may return.
LEMMA ChangeStatusSound ==
    ASSUME HInv, NEW m \in Rows, NEW to \in Statuses, ChangeStatus(m, to)
    PROVE  HInv'
<1>1. /\ status' = [status EXCEPT ![m] = to]
      /\ search' = [s \in Searchers |->
                      IF to = "active" /\ search[s].pc # "idle"
                      THEN [search[s] EXCEPT !.seen = @ \cup {m}] ELSE search[s]]
  BY DEF ChangeStatus
<1>2. Active' \subseteq Active \cup {m} /\ (to # "active" => Active' \subseteq Active)
  <2>1. \A n \in Rows : n # m /\ status'[n] = "active" => status[n] = "active"
    BY <1>1 DEF HInv
  <2>2. to # "active" => status'[m] # "active"
    BY <1>1 DEF HInv
  <2> QED
    BY <2>1, <2>2 DEF Active
<1>3. \A s \in Searchers :
        /\ search'[s] \in Search /\ Sound(search'[s])
        /\ search'[s].pc # "idle" => Active' \subseteq search'[s].seen
  <2> TAKE s \in Searchers
  <2> DEFINE o == search[s]
  <2>1. o \in Search /\ Sound(o) /\ (o.pc # "idle" => Active \subseteq o.seen)
    BY DEF HInv
  <2>2. CASE to = "active" /\ o.pc # "idle"
    <3> DEFINE a == [o EXCEPT !.seen = @ \cup {m}]
    <3>1. search'[s] = a
      BY <1>1, <2>2
    <3> HIDE DEF o
    <3>2. a \in Search
      BY <2>1 DEF Search
    <3>3. /\ a.fts = o.fts /\ a.vec = o.vec /\ a.result = o.result /\ a.pc = o.pc
          /\ a.mode = o.mode /\ a.seen = o.seen \cup {m}
      BY <2>1 DEF Search
    <3>4. \A l, S : Seen(o, l, S) => Seen(a, l, S)
      BY <3>3 DEF Seen
    <3>5. Sound(a)
      BY <2>1, <3>3, <3>4 DEF Sound
    <3> HIDE DEF a
    <3> QED
      BY <1>2, <2>1, <2>2, <3>1, <3>2, <3>3, <3>5
  <2>3. CASE ~(to = "active" /\ o.pc # "idle")
    <3>1. search'[s] = o
      BY <1>1, <2>3
    <3> HIDE DEF o
    <3> QED
      BY <1>2, <2>1, <2>3, <3>1
  <2> QED
    BY <2>2, <2>3
<1>5. status' \in [Rows -> Statuses]
  BY <1>1 DEF HInv
<1>4. search' \in [Searchers -> Search]
  <2> DEFINE f == [s \in Searchers |->
                      IF to = "active" /\ search[s].pc # "idle"
                      THEN [search[s] EXCEPT !.seen = @ \cup {m}] ELSE search[s]]
  <2>1. search' = f /\ \A s \in Searchers : search'[s] = f[s]
    BY <1>1
  <2>2. \A s \in Searchers : f[s] \in Search
    BY <1>3, <2>1
  <2>3. f \in [Searchers -> Search]
    BY <2>2
  <2> QED
    BY <2>1, <2>3
<1> QED
  BY <1>3, <1>4, <1>5 DEF HInv, Sound, Seen

LEMMA HInvStep == HInv /\ [Next]_vars => HInv'
<1> SUFFICES ASSUME HInv, [Next]_vars PROVE HInv'
  OBVIOUS
<1>1. ASSUME NEW s \in Searchers, NEW mode \in Modes, Begin(s, mode) PROVE HInv'
  BY <1>1, BeginSound
<1>2. ASSUME NEW s \in Searchers, ReadText(s) PROVE HInv'
  BY <1>2, ReadTextSound
<1>3. ASSUME NEW s \in Searchers, Embed(s) PROVE HInv'
  BY <1>3, EmbedSound
<1>4. ASSUME NEW s \in Searchers, EmbedFails(s) PROVE HInv'
  BY <1>4, EmbedFailsSound
<1>5. ASSUME NEW s \in Searchers, ReadVectors(s) PROVE HInv'
  BY <1>5, ReadVectorsSound
<1>6. ASSUME NEW s \in Searchers, RecordAccess(s) PROVE HInv'
  BY <1>6, RecordAccessSound
<1>7. ASSUME NEW m \in Rows, NEW to \in Statuses, ChangeStatus(m, to) PROVE HInv'
  BY <1>7, ChangeStatusSound
<1>8. CASE UNCHANGED vars
  BY <1>8 DEF vars, HInv, Active, Sound, Seen
<1> QED
  BY <1>1, <1>2, <1>3, <1>4, <1>5, <1>6, <1>7, <1>8 DEF Next

\* What a search answers is at most limit rows, none twice, each active at some
\* time while it ran, for any number of searches and of changes between their
\* reads (_hybrid_search).
THEOREM AnswersWereActive == Spec => []ReturnsWhatWasActive
<1>1. HInv => ReturnsWhatWasActive
  BY DEF HInv, Sound, Seen, Listing, ReturnsWhatWasActive, Answering
<1> QED
  BY <1>1, HInvInit, HInvStep, PTL DEF Spec

\* With limit at most rrf_k, every answer of a hybrid search lists the rows that
\* both reads found before the others, and never loses the best match by text,
\* for any distances and any order of the text results (_hybrid_search).
THEOREM FusionAlwaysFair == Spec => []FusionIsFair
<1>1. HInv => FusionIsFair
  <2> SUFFICES ASSUME HInv, Limit <= K, NEW a \in Answering, a.mode = "hybrid"
               PROVE  /\ a.vec # <<>> =>
                           \A i, j \in DOMAIN a.result :
                               i < j /\ a.result[j] \in ToSet(a.fts) \cap ToSet(a.vec)
                               => a.result[i] \in ToSet(a.fts) \cap ToSet(a.vec)
                      /\ a.fts # <<>> => Head(a.fts) \in ToSet(a.result)
    BY DEF FusionIsFair, BothFirst, BestTextKept
  <2>1. a \in Search /\ a.pc = "count" /\ Sound(a)
    BY DEF HInv, Answering
  <2>2. a.fts \in Seq(Rows)
    BY <2>1, RowsAssumption, SeqMonotonic DEF Sound, Seen, Listing
  <2>3. Lists(a.fts, a.vec)
    BY <2>1, <2>2 DEF Sound, Seen, Listing, Lists
  <2>4. CASE a.vec = <<>>
    <3>1. a.result = a.fts
      BY <2>1, <2>4 DEF Sound
    <3>2. a.fts # <<>> => Head(a.fts) \in ToSet(a.fts)
      <4> HAVE a.fts # <<>>
      <4>1. Head(a.fts) = a.fts[1] /\ 1 \in DOMAIN a.fts
        BY <2>2, HeadTailProperties, LenProperties, EmptySeq
      <4> QED
        BY <4>1 DEF ToSet
    <3> QED
      BY <2>4, <3>1, <3>2
  <2>5. CASE a.vec # <<>>
    <3>1. a.result \in Fused(a.fts, a.vec)
      BY <2>1, <2>5 DEF Sound
    <3>2. a.fts # <<>> => Head(a.fts) \in ToSet(a.result)
      BY <2>3, <3>1, BestKept
    <3>3. PICK s : /\ Listing(s, Rows) /\ ToSet(s) = ToSet(a.fts) \cup ToSet(a.vec)
                   /\ \A i, j \in DOMAIN s : i < j => Ahead(a.fts, a.vec, s[i], s[j])
                   /\ a.result = First(s)
      BY <2>2, <2>3, <3>1, Fusion DEF Lists, Listing
    <3>4. ASSUME NEW i \in DOMAIN a.result, NEW j \in DOMAIN a.result, i < j,
                 a.result[j] \in ToSet(a.fts) \cap ToSet(a.vec)
          PROVE  a.result[i] \in ToSet(a.fts) \cap ToSet(a.vec)
      <4>1. /\ i \in DOMAIN s /\ a.result[i] = s[i]
            /\ j \in DOMAIN s /\ a.result[j] = s[j]
        BY <3>3, FirstOfListing
      <4>2. Ahead(a.fts, a.vec, s[i], s[j]) /\ s[i] \in ToSet(a.fts) \cup ToSet(a.vec)
        BY <3>3, <3>4, <4>1 DEF ToSet
      <4> QED
        BY <2>3, <3>4, <4>1, <4>2, OneNotAhead
    <3> QED
      BY <3>2, <3>4
  <2> QED
    BY <2>4, <2>5
<1> QED
  BY <1>1, HInvInit, HInvStep, PTL DEF Spec

-----------------------------------------------------------------------------
(* VectorSearch.                                                            *)

\* The corpus: finite sets of numbered rows with their distances.
CorpusOK ==
    /\ indexed \subseteq Ids /\ eligible \subseteq indexed
    /\ distance \in [Ids -> Distances] /\ limit \in Limits

-----------------------------------------------------------------------------
(* The order by distance and id.                                            *)

LEMMA BeforeOrders ==
    ASSUME CorpusOK
    PROVE  /\ \A m \in Ids : ~Before(m, m) /\ m \in Nat /\ distance[m] \in Nat
           /\ \A m, n \in Ids : Before(m, n) \/ Before(n, m) \/ m = n
           /\ \A l, m, n \in Ids : Before(l, m) /\ Before(m, n) => Before(l, n)
           /\ \A m, n \in Ids : Before(m, n) => distance[m] <= distance[n] /\ ~Before(n, m)
<1>1. \A m \in Ids : m \in Nat /\ distance[m] \in Nat
  BY WindowAssumption DEF CorpusOK
<1>2. \A m \in Ids : ~Before(m, m) BY <1>1 DEF Before
<1>3. \A m, n \in Ids : Before(m, n) \/ Before(n, m) \/ m = n BY <1>1 DEF Before
<1>4. \A l, m, n \in Ids : Before(l, m) /\ Before(m, n) => Before(l, n)
  BY <1>1 DEF Before
<1>5. \A m, n \in Ids : Before(m, n) => distance[m] <= distance[n] /\ ~Before(n, m)
  BY <1>1 DEF Before
<1> QED BY <1>1, <1>2, <1>3, <1>4, <1>5

\* The ranks of the rows of a set are the numbers below its size, each once,
\* and rise in the order of the rows.
LEMMA RankFacts ==
    ASSUME CorpusOK, NEW S \in SUBSET Ids
    PROVE  /\ IsFiniteSet(S) /\ Cardinality(S) \in Nat
           /\ \A m \in S : Rank(m, S) \in 0..Cardinality(S) - 1
           /\ \A m, n \in S : Before(m, n) <=> Rank(m, S) < Rank(n, S)
           /\ \A m, n \in S : Rank(m, S) = Rank(n, S) => m = n
           /\ \A i \in 0..Cardinality(S) - 1 : \E m \in S : Rank(m, S) = i
<1>1. IsFiniteSet(S) /\ Cardinality(S) \in Nat
  BY WindowAssumption, FS_Subset, FS_CardinalityType
<1>2. ASSUME NEW m \in S PROVE Rank(m, S) \in 0..Cardinality(S) - 1
  <2> DEFINE A == {n \in S : Before(n, m)}
  <2>1. A \in SUBSET S /\ m \notin A BY BeforeOrders
  <2>2. /\ IsFiniteSet(A) /\ Cardinality(A) <= Cardinality(S)
        /\ Cardinality(S) = Cardinality(A) => S = A
    BY <2>1, <1>1, FS_Subset
  <2>3. Cardinality(A) \in Nat BY <2>2, FS_CardinalityType
  <2>4. Cardinality(A) # Cardinality(S) BY <2>1, <2>2
  <2> QED BY <2>2, <2>3, <2>4, <1>1 DEF Rank
<1>3. ASSUME NEW m \in S, NEW n \in S, Before(m, n) PROVE Rank(m, S) < Rank(n, S)
  <2> DEFINE A == {l \in S : Before(l, m)}
             B == {l \in S : Before(l, n)}
  <2>1. A \in SUBSET B
    <3>1. \A l \in S : Before(l, m) => Before(l, n) BY <1>3, BeforeOrders
    <3> QED BY <3>1
  <2>2. m \in B /\ m \notin A BY <1>3, BeforeOrders
  <2>3. IsFiniteSet(B) BY <1>1, FS_Subset
  <2>4. /\ IsFiniteSet(A) /\ Cardinality(A) <= Cardinality(B)
        /\ Cardinality(B) = Cardinality(A) => B = A
    BY <2>1, <2>3, FS_Subset
  <2>5. Cardinality(A) \in Nat /\ Cardinality(B) \in Nat BY <2>3, <2>4, FS_CardinalityType
  <2>6. Cardinality(A) # Cardinality(B) BY <2>2, <2>4
  <2> QED BY <2>4, <2>5, <2>6 DEF Rank
<1>4. \A m, n \in S : Before(m, n) <=> Rank(m, S) < Rank(n, S)
  <2> SUFFICES ASSUME NEW m \in S, NEW n \in S, Rank(m, S) < Rank(n, S)
               PROVE  Before(m, n)
    BY <1>3
  <2>1. Rank(m, S) \in Nat /\ Rank(n, S) \in Nat BY <1>1, <1>2
  <2>2. ~Before(n, m) BY <2>1, <1>3
  <2>3. m # n BY <2>1
  <2> QED BY <2>2, <2>3, BeforeOrders
<1>5. \A m, n \in S : Rank(m, S) = Rank(n, S) => m = n
  <2> SUFFICES ASSUME NEW m \in S, NEW n \in S, Rank(m, S) = Rank(n, S) PROVE m = n
    OBVIOUS
  <2>1. Rank(m, S) \in Nat /\ Rank(n, S) \in Nat BY <1>1, <1>2
  <2>2. ~Before(m, n) /\ ~Before(n, m) BY <2>1, <1>4
  <2> QED BY <2>2, BeforeOrders
<1>6. \A i \in 0..Cardinality(S) - 1 : \E m \in S : Rank(m, S) = i
  <2> DEFINE T == 0..Cardinality(S) - 1
             f == [m \in S |-> Rank(m, S)]
  <2>1. IsFiniteSet(T) /\ Cardinality(T) = Cardinality(S)
    <3>1. /\ IsFiniteSet(T)
          /\ Cardinality(T) = IF 0 > Cardinality(S) - 1 THEN 0 ELSE (Cardinality(S) - 1) - 0 + 1
      BY <1>1, FS_Interval
    <3> QED BY <3>1, <1>1
  <2>2. f \in Injection(S, T) BY <1>2, <1>5 DEF Injection, IsInjective
  <2>3. f \in Surjection(S, T) BY <2>1, <2>2, FS_Injection
  <2> QED BY <2>3 DEF Surjection
<1> QED BY <1>1, <1>2, <1>4, <1>5, <1>6

\* ByDistance lists the rows of a set by rank.
LEMMA SortedFacts ==
    ASSUME CorpusOK, NEW S \in SUBSET Ids
    PROVE  /\ ByDistance(S) \in Seq(S) /\ Len(ByDistance(S)) = Cardinality(S)
           /\ DOMAIN ByDistance(S) = 1..Cardinality(S) /\ Cardinality(S) \in Nat
           /\ \A i \in 1..Cardinality(S) : ByDistance(S)[i] \in S /\ Rank(ByDistance(S)[i], S) = i - 1
           /\ \A m \in S : Rank(m, S) + 1 \in 1..Cardinality(S) /\ ByDistance(S)[Rank(m, S) + 1] = m
<1>1. Cardinality(S) \in Nat BY RankFacts
<1>2. ASSUME NEW i \in 1..Cardinality(S)
      PROVE  ByDistance(S)[i] \in S /\ Rank(ByDistance(S)[i], S) = i - 1
  <2>1. \E m \in S : Rank(m, S) = i - 1
    <3>1. i - 1 \in 0..Cardinality(S) - 1 BY <1>1
    <3> QED BY <3>1, RankFacts
  <2>2. ByDistance(S)[i] = CHOOSE m \in S : Rank(m, S) = i - 1 BY DEF ByDistance
  <2> QED BY <2>1, <2>2, Zenon
<1>3. ByDistance(S) \in [1..Cardinality(S) -> S]
  <2>1. ByDistance(S) = [i \in 1..Cardinality(S) |-> ByDistance(S)[i]] BY DEF ByDistance
  <2> QED BY <2>1, <1>2
<1>4. ByDistance(S) \in Seq(S) /\ Len(ByDistance(S)) = Cardinality(S)
  BY <1>1, <1>3, SeqDef, LenProperties
<1>5. ASSUME NEW m \in S
      PROVE  Rank(m, S) + 1 \in 1..Cardinality(S) /\ ByDistance(S)[Rank(m, S) + 1] = m
  <2>1. Rank(m, S) \in 0..Cardinality(S) - 1 BY RankFacts
  <2>2. Rank(m, S) + 1 \in 1..Cardinality(S) /\ (Rank(m, S) + 1) - 1 = Rank(m, S)
    BY <2>1, <1>1
  <2>3. /\ ByDistance(S)[Rank(m, S) + 1] \in S
        /\ Rank(ByDistance(S)[Rank(m, S) + 1], S) = Rank(m, S)
    BY <2>2, <1>2
  <2> QED BY <2>2, <2>3, RankFacts
<1> QED BY <1>1, <1>2, <1>3, <1>4, <1>5

-----------------------------------------------------------------------------
(* The first rows of a set.                                                 *)

LEMMA LargerOf ==
    ASSUME NEW a \in Nat, NEW b \in Nat
    PROVE  Max({a, b}) = IF a >= b THEN a ELSE b
<1> DEFINE c == IF a >= b THEN a ELSE b
<1>1. c \in {a, b} /\ \A y \in {a, b} : c >= y OBVIOUS
<1>2. ASSUME NEW x \in {a, b}, \A y \in {a, b} : x >= y PROVE x = c
  <2>1. x <= c /\ c <= x /\ x \in Nat /\ c \in Nat BY <1>1, <1>2
  <2> QED BY <2>1
<1>3. Max({a, b}) = CHOOSE x \in {a, b} : \A y \in {a, b} : x >= y BY DEF Max
<1> HIDE DEF c
<1>4. Max({a, b}) \in {a, b} /\ \A y \in {a, b} : Max({a, b}) >= y
  BY <1>1, <1>3, Zenon
<1>5. Max({a, b}) = c BY <1>2, <1>4
<1> QED BY <1>5 DEF c

LEMMA FirstFacts ==
    ASSUME CorpusOK, limit \in Nat, NEW S \in SUBSET Ids
    PROVE  /\ UpToLimit(ByDistance(S)) \in Seq(S)
           /\ Len(UpToLimit(ByDistance(S))) = IF limit <= Cardinality(S) THEN limit ELSE Cardinality(S)
           /\ \A i \in 1..Len(UpToLimit(ByDistance(S))) : UpToLimit(ByDistance(S))[i] = ByDistance(S)[i]
<1>1. /\ ByDistance(S) \in Seq(S) /\ Len(ByDistance(S)) = Cardinality(S) /\ Cardinality(S) \in Nat
  BY SortedFacts
<1> DEFINE n == Min({limit, Len(ByDistance(S))})
<1>2. n = IF limit <= Cardinality(S) THEN limit ELSE Cardinality(S)
  BY <1>1, SmallerOf
<1>3. n \in Nat /\ n <= Len(ByDistance(S)) BY <1>1, <1>2
<1> HIDE DEF n
<1>4. /\ SubSeq(ByDistance(S), 1, n) \in Seq(S)
      /\ Len(SubSeq(ByDistance(S), 1, n)) = n
      /\ \A i \in 1..n : SubSeq(ByDistance(S), 1, n)[i] = ByDistance(S)[i]
  <2>1. \A i \in 1..n : i \in 1..Len(ByDistance(S)) BY <1>1, <1>3
  <2>2. 1 \in Nat /\ 1 \in 1..Len(ByDistance(S)) + 1 /\ n \in 0..Len(ByDistance(S)) BY <1>1, <1>3
  <2> QED BY <1>1, <1>3, <2>1, <2>2, SubSeqProperties, Z3
<1> QED BY <1>2, <1>4 DEF UpToLimit, n

\* A set and a larger one begin alike, when the rest of the larger comes later.
LEMMA SameBeginning ==
    ASSUME CorpusOK, NEW B \in SUBSET Ids, NEW A \in SUBSET B, NEW k \in Nat,
           \A m \in A, n \in B \ A : Rank(m, A) < k => Before(m, n)
    PROVE  \A i \in 1..Cardinality(A) : i <= k => ByDistance(A)[i] = ByDistance(B)[i]
<1> SUFFICES ASSUME NEW i \in 1..Cardinality(A), i <= k PROVE ByDistance(A)[i] = ByDistance(B)[i]
  OBVIOUS
<1>1. PICK m : m = ByDistance(A)[i] OBVIOUS
<1>2. m \in A /\ Rank(m, A) = i - 1 /\ Cardinality(A) \in Nat BY <1>1, SortedFacts
<1>3. \A n \in B \ A : ~Before(n, m)
  <2>1. Rank(m, A) < k BY <1>2
  <2> QED BY <1>2, <2>1, BeforeOrders
<1>4. {n \in B : Before(n, m)} = {n \in A : Before(n, m)} BY <1>3
<1>5. Rank(m, B) = i - 1 BY <1>2, <1>4 DEF Rank
<1>6. ByDistance(B)[Rank(m, B) + 1] = m BY <1>2, SortedFacts
<1>7. Rank(m, B) + 1 = i BY <1>5, <1>2
<1> QED BY <1>1, <1>6, <1>7

\* No row of a set is farther than its last.
LEMMA FarthestFacts ==
    ASSUME CorpusOK, NEW S \in SUBSET Ids, S # {}
    PROVE  \E x \in S : Farthest(S) = distance[x] /\ \A m \in S : distance[m] <= distance[x]
<1>1. /\ ByDistance(S) \in Seq(S) /\ Len(ByDistance(S)) = Cardinality(S) /\ Cardinality(S) \in Nat
      /\ \A i \in 1..Cardinality(S) : ByDistance(S)[i] \in S /\ Rank(ByDistance(S)[i], S) = i - 1
  BY SortedFacts
<1>2. Cardinality(S) >= 1
  <2>1. Cardinality(S) # 0 BY RankFacts, FS_EmptySet
  <2> QED BY <2>1, <1>1
<1>3. PICK x : x = Last(ByDistance(S)) OBVIOUS
<1>4. x = ByDistance(S)[Cardinality(S)] BY <1>1, <1>3 DEF Last
<1>5. x \in S /\ Rank(x, S) = Cardinality(S) - 1 BY <1>1, <1>2, <1>4
<1>6. ASSUME NEW m \in S PROVE distance[m] <= distance[x]
  <2>1. Rank(m, S) \in 0..Cardinality(S) - 1 BY RankFacts
  <2>2. ~(Rank(x, S) < Rank(m, S)) BY <2>1, <1>1, <1>5
  <2>3. ~Before(x, m) BY <2>2, <1>5, RankFacts
  <2>4. Before(m, x) \/ m = x BY <2>3, <1>5, BeforeOrders
  <2>5. distance[x] \in Nat BY <1>5, BeforeOrders
  <2> QED BY <2>4, <2>5, <1>5, BeforeOrders
<1> QED BY <1>3, <1>5, <1>6 DEF Farthest

-----------------------------------------------------------------------------
(* Both ways to a result find the nearest rows.                             *)

LEMMA NeighboursFacts ==
    ASSUME CorpusOK, NEW k \in Nat \ {0}, NEW S \in Neighbours(k)
    PROVE  /\ S \in SUBSET indexed /\ S \in SUBSET Ids
           /\ \A m \in S, n \in indexed \ S : distance[m] <= distance[n]
           /\ Cardinality(S) < k => S = indexed
           /\ Cardinality(S) >= k => S # {}
<1>1. /\ S \in SUBSET indexed
      /\ Cardinality(S) = Min({k, Cardinality(indexed)})
      /\ \A m \in S, n \in indexed \ S : distance[m] <= distance[n]
  BY DEF Neighbours
<1>2. indexed \in SUBSET Ids /\ S \in SUBSET Ids BY <1>1 DEF CorpusOK
<1>3. /\ IsFiniteSet(indexed) /\ Cardinality(indexed) \in Nat
      /\ IsFiniteSet(S) /\ Cardinality(S) \in Nat
  BY <1>2, RankFacts
<1>4. Cardinality(S) = IF k <= Cardinality(indexed) THEN k ELSE Cardinality(indexed)
  BY <1>1, <1>3, SmallerOf
<1>5. Cardinality(S) < k => Cardinality(S) = Cardinality(indexed) BY <1>3, <1>4
<1>6. Cardinality(S) < k => S = indexed BY <1>1, <1>3, <1>5, FS_Subset
<1>7. Cardinality(S) >= k => S # {} BY <1>3, FS_EmptySet
<1> QED BY <1>1, <1>2, <1>6, <1>7

\* What Proven accepts is the result.
LEMMA KnnExact ==
    ASSUME CorpusOK, limit \in Nat \ {0}, window \in Nat \ {0},
           NEW S \in Neighbours(window), Proven(S, ByDistance(Near(S) \cap eligible))
    PROVE  UpToLimit(ByDistance(Near(S) \cap eligible)) = UpToLimit(ByDistance(Near(eligible)))
<1> DEFINE A == Near(S) \cap eligible
           B == Near(eligible)
<1>1. /\ S \in SUBSET indexed /\ S \in SUBSET Ids
      /\ \A m \in S, n \in indexed \ S : distance[m] <= distance[n]
      /\ Cardinality(S) < window => S = indexed
      /\ Cardinality(S) >= window => S # {}
  BY NeighboursFacts
<1>2. A \in SUBSET B /\ B \in SUBSET Ids /\ A \in SUBSET Ids /\ B \subseteq indexed
  BY <1>1 DEF CorpusOK, Near
<1>3. \A n \in B \ A : n \in indexed \ S /\ distance[n] <= DistanceThreshold
  BY <1>2 DEF Near
<1>4. Cardinality(S) \in Nat BY <1>1, RankFacts
<1>5. CASE Cardinality(S) < window
  <2>1. A = B BY <1>1, <1>2, <1>3, <1>5
  <2> QED BY <2>1
<1>6. CASE Cardinality(S) >= window
  <2>1. PICK x \in S : Farthest(S) = distance[x] /\ \A m \in S : distance[m] <= distance[x]
    BY <1>1, <1>6, FarthestFacts
  <2>2. \A n \in B \ A : distance[x] <= distance[n] BY <1>1, <1>3
  <2>3. distance[x] \in Nat /\ \A n \in B : distance[n] \in Nat
    BY <1>1, <1>2, BeforeOrders
  <2>4. CASE distance[x] > DistanceThreshold
    <3>1. \A n \in B \ A : FALSE BY <2>2, <2>3, <2>4, <1>3, WindowAssumption
    <3>2. A = B BY <3>1, <1>2
    <3> QED BY <3>2
  <2>5. CASE Len(ByDistance(A)) >= limit /\ distance[x] > distance[ByDistance(A)[limit]]
    <3>1. /\ Len(ByDistance(A)) = Cardinality(A) /\ Cardinality(A) \in Nat
          /\ \A i \in 1..Cardinality(A) : ByDistance(A)[i] \in A /\ Rank(ByDistance(A)[i], A) = i - 1
      BY <1>2, SortedFacts
    <3>2. limit \in 1..Cardinality(A) BY <2>5, <3>1
    <3>3. PICK p : p = ByDistance(A)[limit] OBVIOUS
    <3>4. p \in A /\ Rank(p, A) = limit - 1 /\ distance[p] < distance[x]
      <4>1. distance[x] > distance[p] /\ p \in A /\ Rank(p, A) = limit - 1
        BY <2>5, <3>1, <3>2, <3>3
      <4>2. distance[p] \in Nat BY <4>1, <1>2, <2>3
      <4> QED BY <4>1, <4>2, <2>3
    <3>5. ASSUME NEW m \in A, NEW n \in B \ A, Rank(m, A) < limit PROVE Before(m, n)
      <4>1. Rank(m, A) \in 0..Cardinality(A) - 1 BY <1>2, RankFacts
      <4>2. ~(Rank(p, A) < Rank(m, A)) BY <4>1, <3>4, <3>5
      <4>3. ~Before(p, m) BY <4>2, <3>4, <1>2, RankFacts
      <4>4. Before(m, p) \/ m = p BY <4>3, <3>4, <1>2, BeforeOrders
      <4>5. /\ distance[m] \in Nat /\ distance[p] \in Nat /\ distance[n] \in Nat
            /\ m \in Ids /\ p \in Ids
        BY <3>4, <1>2, <2>3
      <4>6. distance[m] <= distance[p] BY <4>4, <4>5, BeforeOrders
      <4>7. distance[x] <= distance[n] BY <2>2
      <4> QED BY <4>5, <4>6, <4>7, <3>4, <2>3 DEF Before
    <3>6. \A i \in 1..Cardinality(A) : i <= limit => ByDistance(A)[i] = ByDistance(B)[i]
      BY <3>5, <1>2, SameBeginning
    <3>7. Cardinality(A) <= Cardinality(B) /\ Cardinality(B) \in Nat
      BY <1>2, RankFacts, FS_Subset
    <3>8. limit <= Cardinality(A) /\ limit <= Cardinality(B) BY <3>2, <3>7, <3>1
    <3>9. /\ UpToLimit(ByDistance(A)) \in Seq(A) /\ Len(UpToLimit(ByDistance(A))) = limit
          /\ \A i \in 1..limit : UpToLimit(ByDistance(A))[i] = ByDistance(A)[i]
      BY <3>8, <1>2, FirstFacts
    <3>10. /\ UpToLimit(ByDistance(B)) \in Seq(B) /\ Len(UpToLimit(ByDistance(B))) = limit
           /\ \A i \in 1..limit : UpToLimit(ByDistance(B))[i] = ByDistance(B)[i]
      BY <3>8, <1>2, FirstFacts
    <3>11. \A i \in 1..limit : UpToLimit(ByDistance(A))[i] = UpToLimit(ByDistance(B))[i]
      <4>1. \A i \in 1..limit : i \in 1..Cardinality(A) /\ i <= limit BY <3>1, <3>8
      <4> QED BY <4>1, <3>6, <3>9, <3>10
    <3>12. UpToLimit(ByDistance(A)) \in Seq(Ids) /\ UpToLimit(ByDistance(B)) \in Seq(Ids)
      BY <3>9, <3>10, <1>2, SeqMonotonic
    <3> QED BY <3>9, <3>10, <3>11, <3>12, SeqEqual
  <2>6. distance[x] > DistanceThreshold
        \/ (Len(ByDistance(A)) >= limit /\ distance[x] > distance[ByDistance(A)[limit]])
    <3>1. ~(Cardinality(S) < window) BY <1>4, <1>6
    <3> QED BY <3>1, <2>1 DEF Proven
  <2> QED BY <2>4, <2>5, <2>6
<1> QED BY <1>4, <1>5, <1>6

\* The rows that Scalar filters are those it seeks.
LEMMA ScalarExact ==
    ASSUME CorpusOK, limit \in Nat \ {0}
    PROVE  ByDistance(Near(ToSet(UpToLimit(ByDistance(eligible))))) = UpToLimit(ByDistance(Near(eligible)))
<1> DEFINE E == eligible
           B == Near(E)
           T == ToSet(UpToLimit(ByDistance(E)))
           A == Near(T)
<1>1. E \in SUBSET Ids /\ B \in SUBSET E /\ B \in SUBSET Ids BY DEF CorpusOK, Near
<1>2. Cardinality(E) \in Nat /\ Cardinality(B) \in Nat BY <1>1, RankFacts
<1>3. T = {m \in E : Rank(m, E) < limit}
  <2> DEFINE f == UpToLimit(ByDistance(E))
  <2>1. /\ f \in Seq(E)
        /\ Len(f) = IF limit <= Cardinality(E) THEN limit ELSE Cardinality(E)
        /\ \A i \in 1..Len(f) : f[i] = ByDistance(E)[i]
    BY <1>1, FirstFacts
  <2>2. DOMAIN f = 1..Len(f) BY <2>1, LenProperties
  <2> HIDE DEF f
  <2>3. ASSUME NEW i \in 1..Len(f) PROVE f[i] \in E /\ Rank(f[i], E) < limit
    <3>1. i \in 1..Cardinality(E) /\ i <= limit BY <2>1, <1>2
    <3>2. f[i] \in E /\ Rank(f[i], E) = i - 1 BY <2>1, <3>1, <1>1, SortedFacts
    <3> QED BY <3>1, <3>2
  <2>4. ASSUME NEW m \in E, Rank(m, E) < limit PROVE \E i \in 1..Len(f) : f[i] = m
    <3>1. Rank(m, E) + 1 \in 1..Cardinality(E) /\ ByDistance(E)[Rank(m, E) + 1] = m
      BY <1>1, SortedFacts
    <3>2. Rank(m, E) + 1 \in 1..Len(f)
      <4>1. Rank(m, E) \in 0..Cardinality(E) - 1 BY <1>1, RankFacts
      <4> QED BY <4>1, <2>1, <2>4, <1>2
    <3> QED BY <3>1, <3>2, <2>1
  <2>5. ToSet(f) = {m \in E : Rank(m, E) < limit} BY <2>2, <2>3, <2>4 DEF ToSet
  <2> QED BY <2>5 DEF f
<1> HIDE DEF T
<1>4. A = {m \in B : Rank(m, E) < limit} BY <1>3 DEF Near
<1>5. A \in SUBSET B /\ A \in SUBSET Ids /\ A \in SUBSET E BY <1>1, <1>4
<1> HIDE DEF A
<1>6. Cardinality(A) \in Nat /\ Cardinality(A) <= Cardinality(B)
  BY <1>1, <1>5, RankFacts, FS_Subset
<1>7. ASSUME NEW m \in A, NEW n \in B \ A PROVE Before(m, n)
  <2>1. m \in E /\ n \in E /\ Rank(m, E) < limit /\ ~(Rank(n, E) < limit)
    BY <1>1, <1>4, <1>5
  <2>2. Rank(m, E) \in Nat /\ Rank(n, E) \in Nat BY <2>1, <1>1, <1>2, RankFacts
  <2>3. Rank(m, E) < Rank(n, E) BY <2>1, <2>2
  <2> QED BY <2>1, <2>3, <1>1, RankFacts
<1>8. \A i \in 1..Cardinality(A) : ByDistance(A)[i] = ByDistance(B)[i]
  <2>1. \A i \in 1..Cardinality(A) : i <= Cardinality(A) => ByDistance(A)[i] = ByDistance(B)[i]
    BY <1>1, <1>5, <1>6, <1>7, SameBeginning
  <2> QED BY <2>1, <1>6
<1>9. Cardinality(A) <= limit
  <2> SUFFICES ASSUME Cardinality(A) > limit PROVE FALSE BY <1>6
  <2>1. limit + 1 \in 1..Cardinality(A) /\ (limit + 1) - 1 = limit BY <1>6
  <2>2. PICK m : m = ByDistance(A)[limit + 1] OBVIOUS
  <2>3. m \in A /\ Rank(m, A) = limit BY <2>1, <2>2, <1>5, SortedFacts
  <2>4. Rank(m, A) <= Rank(m, E)
    <3> DEFINE X == {n \in A : Before(n, m)}
               Y == {n \in E : Before(n, m)}
    <3>1. X \in SUBSET Y BY <1>5
    <3>2. IsFiniteSet(Y) BY <1>1, RankFacts, FS_Subset
    <3>3. Cardinality(X) <= Cardinality(Y) BY <3>1, <3>2, FS_Subset
    <3> QED BY <3>3 DEF Rank
  <2>5. Rank(m, E) < limit /\ Rank(m, E) \in Nat BY <2>3, <1>1, <1>2, <1>4, <1>5, RankFacts
  <2> QED BY <2>3, <2>4, <2>5
<1>10. Cardinality(A) = IF limit <= Cardinality(B) THEN limit ELSE Cardinality(B)
  <2> SUFFICES ASSUME Cardinality(A) < limit, Cardinality(A) < Cardinality(B) PROVE FALSE
    BY <1>2, <1>6, <1>9
  <2>1. Cardinality(A) + 1 \in 1..Cardinality(B)
        /\ (Cardinality(A) + 1) - 1 = Cardinality(A)
    BY <1>2, <1>6
  <2>2. PICK p : p = ByDistance(B)[Cardinality(A) + 1] OBVIOUS
  <2>3. p \in B /\ Rank(p, B) = Cardinality(A) BY <2>1, <2>2, <1>1, SortedFacts
  <2>4. p \notin A
    <3> SUFFICES ASSUME p \in A PROVE FALSE OBVIOUS
    <3>1. PICK j \in 1..Cardinality(A) : ByDistance(A)[j] = p BY <1>5, SortedFacts
    <3>2. ByDistance(B)[j] = p BY <3>1, <1>8
    <3>3. j \in 1..Cardinality(B) /\ j - 1 # Cardinality(A) BY <1>2, <1>6
    <3>4. Rank(p, B) = j - 1 BY <3>2, <3>3, <1>1, SortedFacts
    <3> QED BY <3>3, <3>4, <2>3
  <2>5. ~(Rank(p, E) < limit) BY <2>3, <2>4, <1>4
  <2>6. {n \in E : Before(n, p)} = {n \in B : Before(n, p)}
    <3>1. ASSUME NEW n \in E, Before(n, p) PROVE n \in B
      <4>1. distance[n] <= distance[p] /\ distance[p] <= DistanceThreshold
        BY <2>3, <3>1, <1>1, BeforeOrders DEF Near
      <4>2. distance[n] \in Nat /\ distance[p] \in Nat BY <2>3, <1>1, BeforeOrders
      <4> QED BY <4>1, <4>2, WindowAssumption DEF Near
    <3> QED BY <3>1, <1>1
  <2>7. Rank(p, E) = Cardinality(A) BY <2>3, <2>6 DEF Rank
  <2> QED BY <2>5, <2>7
<1>11. /\ ByDistance(A) \in Seq(A) /\ Len(ByDistance(A)) = Cardinality(A) BY <1>5, SortedFacts
<1>12. /\ UpToLimit(ByDistance(B)) \in Seq(B) /\ Len(UpToLimit(ByDistance(B))) = Cardinality(A)
       /\ \A i \in 1..Cardinality(A) : UpToLimit(ByDistance(B))[i] = ByDistance(B)[i]
  BY <1>1, <1>10, FirstFacts
<1>13. ByDistance(A) \in Seq(Ids) /\ UpToLimit(ByDistance(B)) \in Seq(Ids)
  BY <1>1, <1>5, <1>11, <1>12, SeqMonotonic
<1>14. \A i \in 1..Len(ByDistance(A)) : ByDistance(A)[i] = UpToLimit(ByDistance(B))[i]
  BY <1>8, <1>11, <1>12
<1>15. ByDistance(A) = UpToLimit(ByDistance(B)) BY <1>11, <1>12, <1>13, <1>14, SeqEqual
<1> QED BY <1>15 DEF A, T

-----------------------------------------------------------------------------
SearchInv ==
    /\ CorpusOK /\ ResultIsExact
    /\ pc = "start" => result = <<>>
    /\ pc = "knn" => limit \in Nat \ {0} /\ window \in Nat \ {0}
    /\ pc = "scalar" => limit \in Nat \ {0}

LEMMA WindowFacts ==
    ASSUME NEW n \in Nat \ {0}
    PROVE  FirstOf(n) \in Nat \ {0} /\ Wider(n) \in Nat \ {0}
<1>1. /\ FirstWindow \in Nat \ {0} /\ Ceiling \in Nat \ {0}
      /\ n + 1 \in Nat \ {0} /\ n * 2 \in Nat \ {0}
  BY WindowAssumption
<1>2. Max({FirstWindow, n + 1}) \in Nat \ {0} BY <1>1, LargerOf
<1>3. Min({Ceiling, Max({FirstWindow, n + 1})}) \in Nat \ {0} BY <1>1, <1>2, SmallerOf
<1>4. Min({Ceiling, n * 2}) \in Nat \ {0} BY <1>1, SmallerOf
<1> QED BY <1>3, <1>4 DEF FirstOf, Wider

LEMMA SearchKeepsInv == SearchInv /\ [VNext]_vvars => SearchInv'
<1> SUFFICES ASSUME SearchInv, [VNext]_vvars PROVE SearchInv' OBVIOUS
<1>1. limit \in Int BY WindowAssumption DEF SearchInv, CorpusOK
<1>2. CASE VBegin
  <2>1. UNCHANGED corpus /\ CorpusOK' BY <1>2 DEF VBegin, corpus, SearchInv, CorpusOK
  <2>2. CASE limit <= 0
    <3>1. pc' = "done" /\ result' = <<>> /\ limit' = limit
      BY <2>1, <2>2, <1>2 DEF VBegin, SearchInv, corpus
    <3> QED BY <2>1, <2>2, <3>1 DEF SearchInv, ResultIsExact
  <2>3. CASE ~(limit <= 0)
    <3>1. limit \in Nat \ {0} BY <2>3, <1>1
    <3>2. /\ pc' = IF limit <= Ceiling THEN "knn" ELSE "scalar"
          /\ window' = IF pc' = "knn" THEN FirstOf(limit) ELSE 0
      BY <2>3, <1>2 DEF VBegin
    <3>3. FirstOf(limit) \in Nat \ {0} BY <3>1, WindowFacts
    <3>4. limit' = limit BY <2>1 DEF corpus
    <3> QED BY <2>1, <3>1, <3>2, <3>3, <3>4 DEF SearchInv, ResultIsExact
  <2> QED BY <2>2, <2>3
<1>3. CASE Knn
  <2>1. UNCHANGED corpus /\ CorpusOK' /\ limit' = limit
    BY <1>3 DEF Knn, corpus, SearchInv, CorpusOK
  <2>2. limit \in Nat \ {0} /\ window \in Nat \ {0} /\ pc = "knn" BY <1>3 DEF Knn, SearchInv
  <2>3. PICK S \in Neighbours(window) :
          IF Proven(S, ByDistance(Near(S) \cap eligible))
          THEN pc' = "done" /\ result' = UpToLimit(ByDistance(Near(S) \cap eligible)) /\ UNCHANGED window
          ELSE /\ pc' = IF window = Ceiling THEN "scalar" ELSE "knn"
               /\ window' = IF window = Ceiling THEN window ELSE Wider(window)
               /\ UNCHANGED result
    BY <1>3 DEF Knn
  <2>4. CASE Proven(S, ByDistance(Near(S) \cap eligible))
    <3>1. pc' = "done" /\ result' = UpToLimit(ByDistance(Near(eligible)))
      BY <2>2, <2>3, <2>4, KnnExact DEF SearchInv
    <3>2. UpToLimit(ByDistance(Near(eligible)))' = UpToLimit(ByDistance(Near(eligible)))
      BY <2>1 DEF corpus, UpToLimit, ByDistance, Rank, Before, Near
    <3>3. ~(limit <= 0) BY <2>2
    <3>4. ResultIsExact' BY <2>1, <3>1, <3>2, <3>3 DEF ResultIsExact
    <3> QED BY <2>1, <3>1, <3>4 DEF SearchInv
  <2>5. CASE ~Proven(S, ByDistance(Near(S) \cap eligible))
    <3>1. /\ pc' \in {"knn", "scalar"}
          /\ window' = IF window = Ceiling THEN window ELSE Wider(window)
      BY <2>3, <2>5
    <3>2. window' \in Nat \ {0} BY <2>2, <3>1, WindowFacts
    <3> QED BY <2>1, <2>2, <3>1, <3>2 DEF SearchInv, ResultIsExact
  <2> QED BY <2>4, <2>5
<1>4. CASE KnnFails
  <2>1. CorpusOK' /\ limit' = limit BY <1>4 DEF KnnFails, corpus, SearchInv, CorpusOK
  <2> QED BY <1>4, <2>1 DEF KnnFails, SearchInv, ResultIsExact
<1>5. CASE Scalar
  <2>1. UNCHANGED corpus /\ CorpusOK' /\ limit' = limit
    BY <1>5 DEF Scalar, corpus, SearchInv, CorpusOK
  <2>2. limit \in Nat \ {0} BY <1>5 DEF Scalar, SearchInv
  <2>3. pc' = "done" /\ result' = UpToLimit(ByDistance(Near(eligible)))
    BY <2>2, <1>5, ScalarExact DEF Scalar, SearchInv
  <2>4. UpToLimit(ByDistance(Near(eligible)))' = UpToLimit(ByDistance(Near(eligible)))
    BY <2>1 DEF corpus, UpToLimit, ByDistance, Rank, Before, Near
  <2>5. ~(limit <= 0) BY <2>2
  <2>6. ResultIsExact' BY <2>1, <2>3, <2>4, <2>5 DEF ResultIsExact
  <2> QED BY <2>1, <2>3, <2>6 DEF SearchInv
<1>6. CASE UNCHANGED vvars
  <2>1. CorpusOK' /\ UNCHANGED <<pc, result, limit, window>>
    BY <1>6 DEF vvars, corpus, SearchInv, CorpusOK
  <2>2. UpToLimit(ByDistance(Near(eligible)))' = UpToLimit(ByDistance(Near(eligible)))
    BY <1>6 DEF vvars, corpus, UpToLimit, ByDistance, Rank, Before, Near
  <2>3. ResultIsExact' BY <2>1, <2>2 DEF SearchInv, ResultIsExact
  <2> QED BY <2>1, <2>3 DEF SearchInv
<1> QED BY <1>2, <1>3, <1>4, <1>5, <1>6 DEF VNext

\* Whatever the corpus, the filters and the choice of the index among equals, a
\* search returns exactly the nearest rows that pass, in their order.
THEOREM SearchesAreExact == VSpec => []ResultIsExact
<1>1. VInit => SearchInv
  BY DEF VInit, SearchInv, CorpusOK, ResultIsExact
<1>2. SearchInv => ResultIsExact BY DEF SearchInv
<1> QED BY <1>1, <1>2, SearchKeepsInv, PTL DEF VSpec

-----------------------------------------------------------------------------
(* VectorSearch gives what HybridSearch takes for granted.                  *)

LEMMA ListsOfNearest ==
    ASSUME CorpusOK, limit \in Nat \ {0}, Ids = Rows, DistanceThreshold = Threshold,
           eligible = Visible, distance = Distance, limit = Limit
    PROVE  UpToLimit(ByDistance(Near(eligible))) \in VectorResults
<1> DEFINE N == Near(eligible)
           s == ByDistance(N)
<1>1. N \in SUBSET Ids BY DEF CorpusOK, Near
<1>2. /\ s \in Seq(N) /\ Len(s) = Cardinality(N) /\ DOMAIN s = 1..Cardinality(N)
      /\ Cardinality(N) \in Nat
      /\ \A i \in 1..Cardinality(N) : s[i] \in N /\ Rank(s[i], N) = i - 1
  BY <1>1, SortedFacts
<1>3. N = {m \in Visible : Distance[m] <= Threshold} BY DEF Near
<1> HIDE DEF N, s
<1>4. s \in SetToSeqs(N)
  <2>1. s \in [1..Cardinality(N) -> N] BY <1>2, LenProperties
  <2>2. \A i, j \in 1..Cardinality(N) : i # j => s[i] # s[j]
    <3> SUFFICES ASSUME NEW i \in 1..Cardinality(N), NEW j \in 1..Cardinality(N), s[i] = s[j]
                 PROVE  i = j
      OBVIOUS
    <3>1. i - 1 = j - 1 BY <1>2
    <3> QED BY <3>1, <1>2
  <2> QED BY <2>1, <2>2 DEF SetToSeqs
<1>5. \A i, j \in DOMAIN s : i < j => Nearer(s[i], s[j])
  <2> SUFFICES ASSUME NEW i \in 1..Cardinality(N), NEW j \in 1..Cardinality(N), i < j
               PROVE  Nearer(s[i], s[j])
    BY <1>2
  <2>1. s[i] \in N /\ s[j] \in N /\ Rank(s[i], N) < Rank(s[j], N)
    <3>1. i - 1 < j - 1 BY <1>2
    <3> QED BY <3>1, <1>2
  <2>2. Before(s[i], s[j]) BY <1>1, <2>1, RankFacts
  <2> QED BY <2>2 DEF Before, Nearer
<1>6. s \in Sorted({m \in Visible : Distance[m] <= Threshold}, Nearer)
  BY <1>3, <1>4, <1>5 DEF Sorted
<1>7. UpToLimit(s) = First(s) BY DEF UpToLimit, First
<1> QED BY <1>6, <1>7 DEF VectorResults, N, s

\* The reads of vectors that HybridSearch assumes are those that VectorSearch
\* makes: whenever the rows that pass its filters are the visible ones, what
\* vec_search answers is one of VectorResults.
THEOREM VectorReadsJustified ==
    ASSUME Ids = Rows, DistanceThreshold = Threshold
    PROVE  VSpec => [](pc = "done" /\ eligible = Visible /\ distance = Distance /\ limit = Limit
                          => result \in VectorResults)
<1>1. SearchInv => (pc = "done" /\ eligible = Visible /\ distance = Distance /\ limit = Limit
                       => result \in VectorResults)
  <2> SUFFICES ASSUME SearchInv, pc = "done",
                      eligible = Visible, distance = Distance, limit = Limit
               PROVE  result \in VectorResults
    OBVIOUS
  <2>1. limit \in Nat \ {0} /\ ~(limit <= 0) BY NumbersAssumption
  <2>2. result = UpToLimit(ByDistance(Near(eligible))) BY <2>1 DEF SearchInv, ResultIsExact
  <2> QED BY <2>1, <2>2, ListsOfNearest DEF SearchInv
<1>2. VInit => SearchInv
  BY DEF VInit, SearchInv, CorpusOK, ResultIsExact
<1> QED BY <1>1, <1>2, SearchKeepsInv, PTL DEF VSpec

=============================================================================
