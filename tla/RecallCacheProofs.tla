-------------------------- MODULE RecallCacheProofs --------------------------
(***************************************************************************)
(* Proofs about RecallCache, for any number of threads, any queries and    *)
(* options and any capacity.                                               *)
(***************************************************************************)
EXTENDS RecallCache, SequenceTheorems, TLAPS

-----------------------------------------------------------------------------
(* Removing one element of a sequence.                                      *)

\* The places of s, without i, as the places of the shorter sequence.
Skip(i, j) == IF j < i THEN j ELSE j + 1

LEMMA RemoveAtFacts ==
    ASSUME NEW S, NEW s \in Seq(S), NEW i \in DOMAIN s
    PROVE  /\ RemoveAt(s, i) \in Seq(S)
           /\ Len(RemoveAt(s, i)) = Len(s) - 1
           /\ DOMAIN RemoveAt(s, i) = 1..Len(s) - 1
           /\ \A j \in 1..Len(s) - 1 : RemoveAt(s, i)[j] = s[Skip(i, j)]
<1>1. Len(s) \in Nat /\ i \in 1..Len(s) /\ DOMAIN s = 1..Len(s) BY LenProperties
<1> DEFINE a == SubSeq(s, 1, i - 1)
           b == SubSeq(s, i + 1, Len(s))
<1>2. a \in Seq(S) /\ Len(a) = i - 1 /\ \A j \in 1..i - 1 : a[j] = s[j]
  BY <1>1, SubSeqProperties, Z3
<1>3. b \in Seq(S) /\ Len(b) = Len(s) - i /\ \A j \in 1..Len(s) - i : b[j] = s[i + j]
  BY <1>1, SubSeqProperties, Z3
<1> HIDE DEF a, b
<1>4. /\ a \o b \in Seq(S) /\ Len(a \o b) = Len(s) - 1
      /\ \A j \in 1..Len(s) - 1 : (a \o b)[j] = IF j <= i - 1 THEN a[j] ELSE b[j - (i - 1)]
  <2>1. /\ a \o b \in Seq(S) /\ Len(a \o b) = Len(a) + Len(b)
        /\ \A j \in 1..Len(a) + Len(b) :
              (a \o b)[j] = IF j <= Len(a) THEN a[j] ELSE b[j - Len(a)]
    BY <1>2, <1>3, ConcatProperties
  <2>2. Len(a) = i - 1 /\ Len(a) + Len(b) = Len(s) - 1 BY <1>1, <1>2, <1>3
  <2> QED BY <2>1, <2>2
<1>5. ASSUME NEW j \in 1..Len(s) - 1 PROVE (a \o b)[j] = s[Skip(i, j)]
  <2>1. CASE j < i BY <2>1, <1>1, <1>2, <1>4 DEF Skip
  <2>2. CASE ~(j < i)
    <3>1. (a \o b)[j] = b[j - (i - 1)]
      <4>1. ~(j <= i - 1) BY <2>2, <1>1
      <4> QED BY <4>1, <1>4
    <3>2. j - (i - 1) \in 1..Len(s) - i /\ i + (j - (i - 1)) = j + 1 BY <2>2, <1>1
    <3> QED BY <3>1, <3>2, <2>2, <1>3 DEF Skip
  <2> QED BY <2>1, <2>2
<1>6. RemoveAt(s, i) = a \o b BY DEF RemoveAt, a, b
<1>7. DOMAIN (a \o b) = 1..Len(s) - 1 BY <1>4, LenProperties
<1> QED BY <1>4, <1>5, <1>6, <1>7

LEMMA SkipFacts ==
    ASSUME NEW n \in Nat, NEW i \in 1..n
    PROVE  /\ \A j \in 1..n - 1 : Skip(i, j) \in (1..n) \ {i}
           /\ \A j, l \in 1..n - 1 : j < l => Skip(i, j) < Skip(i, l)
           /\ \A m \in (1..n) \ {i} : \E j \in 1..n - 1 : Skip(i, j) = m
<1>1. ASSUME NEW m \in (1..n) \ {i} PROVE \E j \in 1..n - 1 : Skip(i, j) = m
  <2>1. CASE m < i
    <3>1. m \in 1..n - 1 /\ Skip(i, m) = m BY <2>1 DEF Skip
    <3> QED BY <3>1
  <2>2. CASE ~(m < i)
    <3>1. m - 1 \in 1..n - 1 /\ Skip(i, m - 1) = m BY <2>2 DEF Skip
    <3> QED BY <3>1
  <2> QED BY <2>1, <2>2
<1> QED BY <1>1 DEF Skip

-----------------------------------------------------------------------------
(* One sequence is another without the places of a set, in the same order.  *)

Thins(f, w, s, D) ==
    /\ f \in [DOMAIN w -> DOMAIN s]
    /\ \A i, j \in DOMAIN w : i < j => f[i] < f[j]
    /\ \A i \in DOMAIN w : w[i] = s[f[i]] /\ f[i] \notin D
    /\ \A m \in DOMAIN s : m \notin D => \E i \in DOMAIN w : f[i] = m

LEMMA Removing ==
    ASSUME NEW S, NEW s \in Seq(S), NEW i \in DOMAIN s
    PROVE  \E f : Thins(f, RemoveAt(s, i), s, {i})
<1>1. Len(s) \in Nat /\ i \in 1..Len(s) /\ DOMAIN s = 1..Len(s) BY LenProperties
<1> DEFINE w == RemoveAt(s, i)
           f == [j \in 1..Len(s) - 1 |-> Skip(i, j)]
<1>2. DOMAIN w = 1..Len(s) - 1 /\ \A j \in 1..Len(s) - 1 : w[j] = s[Skip(i, j)]
  BY RemoveAtFacts
<1>3. /\ \A j \in 1..Len(s) - 1 : Skip(i, j) \in (1..Len(s)) \ {i}
      /\ \A j, l \in 1..Len(s) - 1 : j < l => Skip(i, j) < Skip(i, l)
      /\ \A m \in (1..Len(s)) \ {i} : \E j \in 1..Len(s) - 1 : Skip(i, j) = m
  BY <1>1, SkipFacts
<1> HIDE DEF w
<1>4. Thins(f, w, s, {i}) BY <1>1, <1>2, <1>3 DEF Thins
<1> QED BY <1>4 DEF w

LEMMA KeepingAll == ASSUME NEW S, NEW s \in Seq(S) PROVE \E f : Thins(f, s, s, {})
<1>1. Thins([i \in DOMAIN s |-> i], s, s, {}) BY DEF Thins
<1> QED BY <1>1

-----------------------------------------------------------------------------
(* The order of the cache is the order of use.                              *)

\* One entry for a key, every key used, and the entries s in the order in which
\* the keys were last used, r.
Ordered(s, r) ==
    /\ \A i, j \in DOMAIN s : s[i].key = s[j].key => i = j
    /\ \A p, q \in DOMAIN r : r[p] = r[q] => p = q
    /\ \A i \in DOMAIN s : \E p \in DOMAIN r : r[p] = s[i].key
    /\ \A i, j \in DOMAIN s, p, q \in DOMAIN r :
          (i < j /\ r[p] = s[i].key /\ r[q] = s[j].key) => p < q

LEMMA ThinsIncreases ==
    ASSUME NEW S, NEW s \in Seq(S), NEW w \in Seq(S), NEW D, NEW f, Thins(f, w, s, D),
           NEW i \in DOMAIN w, NEW j \in DOMAIN w
    PROVE  i < j <=> f[i] < f[j]
<1>1. DOMAIN w = 1..Len(w) /\ DOMAIN s = 1..Len(s) /\ Len(w) \in Nat /\ Len(s) \in Nat
  BY LenProperties
<1>2. f[i] \in Nat /\ f[j] \in Nat /\ i \in Nat /\ j \in Nat BY <1>1 DEF Thins
<1>3. (i < j => f[i] < f[j]) /\ (j < i => f[j] < f[i]) /\ (i = j => f[i] = f[j])
  BY DEF Thins
<1> QED BY <1>2, <1>3

LEMMA OrderThinned ==
    ASSUME NEW s \in Seq(Entry), NEW w \in Seq(Entry), NEW r, Ordered(s, r),
           NEW D, NEW f, Thins(f, w, s, D)
    PROVE  Ordered(w, r)
<1>1. DOMAIN w = 1..Len(w) /\ Len(w) \in Nat BY LenProperties
<1>2. \A i \in DOMAIN w : f[i] \in DOMAIN s /\ w[i] = s[f[i]] BY DEF Thins
<1>3. \A i, j \in DOMAIN w : i < j <=> f[i] < f[j] BY ThinsIncreases
<1>4. ASSUME NEW i \in DOMAIN w, NEW j \in DOMAIN w, w[i].key = w[j].key PROVE i = j
  <2>1. f[i] = f[j] BY <1>2, <1>4 DEF Ordered
  <2>2. f[i] \in Nat
    <3>1. DOMAIN s = 1..Len(s) BY LenProperties
    <3> QED BY <3>1, <1>2
  <2> QED BY <2>1, <2>2, <1>1, <1>3
<1> QED BY <1>2, <1>3, <1>4 DEF Ordered

\* Moving a key to the end of both.
LEMMA OrderMoved ==
    ASSUME NEW s \in Seq(Entry), NEW w \in Seq(Entry), NEW r \in Seq(Key), NEW v \in Seq(Key),
           NEW e \in Entry, NEW f, NEW g, Ordered(s, r),
           Thins(f, w, s, {m \in DOMAIN s : s[m].key = e.key}),
           Thins(g, v, r, {m \in DOMAIN r : r[m] = e.key})
    PROVE  Ordered(Append(w, e), Append(v, e.key))
<1> DEFINE a == Append(w, e)
           b == Append(v, e.key)
           n == Len(w)
           l == Len(v)
<1>1. n \in Nat /\ l \in Nat /\ DOMAIN w = 1..n /\ DOMAIN v = 1..l BY LenProperties
<1>2. e.key \in Key BY DEF Entry
<1>3. /\ a \in Seq(Entry) /\ Len(a) = n + 1 /\ a[n + 1] = e /\ \A i \in 1..n : a[i] = w[i]
  BY AppendProperties
<1>4. /\ b \in Seq(Key) /\ Len(b) = l + 1 /\ b[l + 1] = e.key /\ \A p \in 1..l : b[p] = v[p]
  BY <1>2, AppendProperties
<1>5. DOMAIN a = 1..n + 1 /\ DOMAIN b = 1..l + 1 BY <1>3, <1>4, LenProperties
<1>6. ASSUME NEW i \in 1..n
      PROVE  f[i] \in DOMAIN s /\ a[i] = s[f[i]] /\ a[i].key # e.key
  <2>1. i \in DOMAIN w /\ a[i] = w[i] BY <1>1, <1>3
  <2>2. /\ f[i] \in DOMAIN s /\ w[i] = s[f[i]]
        /\ f[i] \notin {m \in DOMAIN s : s[m].key = e.key}
    BY <2>1 DEF Thins
  <2>3. s[f[i]].key # e.key BY <2>2
  <2> QED BY <2>1, <2>2, <2>3
<1>7. \A p \in 1..l : g[p] \in DOMAIN r /\ b[p] = r[g[p]] /\ b[p] # e.key
  BY <1>1, <1>4 DEF Thins
<1>8. Ordered(w, r) BY OrderThinned
<1>9. \A p, q \in DOMAIN v : p < q <=> g[p] < g[q] BY ThinsIncreases
<1>10. \A i \in DOMAIN a : i # n + 1 => i \in 1..n BY <1>1, <1>5
<1>11. \A p \in DOMAIN b : p # l + 1 => p \in 1..l BY <1>1, <1>5
<1> HIDE DEF a, b, n, l
<1>12. ASSUME NEW i \in DOMAIN a, NEW j \in DOMAIN a, a[i].key = a[j].key PROVE i = j
  <2>1. CASE i = n + 1 BY <2>1, <1>3, <1>6, <1>10, <1>12
  <2>2. CASE j = n + 1 BY <2>2, <1>3, <1>6, <1>10, <1>12
  <2>3. CASE i # n + 1 /\ j # n + 1
    BY <2>3, <1>1, <1>3, <1>8, <1>10, <1>12 DEF Ordered
  <2> QED BY <2>1, <2>2, <2>3
<1>13. ASSUME NEW p \in DOMAIN b, NEW q \in DOMAIN b, b[p] = b[q] PROVE p = q
  <2>1. CASE p = l + 1 BY <2>1, <1>4, <1>7, <1>11, <1>13
  <2>2. CASE q = l + 1 BY <2>2, <1>4, <1>7, <1>11, <1>13
  <2>3. CASE p # l + 1 /\ q # l + 1
    <3>1. p \in 1..l /\ q \in 1..l BY <2>3, <1>11
    <3>2. g[p] = g[q] BY <3>1, <1>7, <1>13 DEF Ordered
    <3>3. g[p] \in Nat
      <4>1. DOMAIN r = 1..Len(r) BY LenProperties
      <4> QED BY <4>1, <3>1, <1>7
    <3> QED BY <3>1, <3>2, <3>3, <1>1, <1>9
  <2> QED BY <2>1, <2>2, <2>3
<1>14. ASSUME NEW i \in DOMAIN a PROVE \E p \in DOMAIN b : b[p] = a[i].key
  <2>1. CASE i = n + 1
    <3>1. l + 1 \in DOMAIN b BY <1>1, <1>5
    <3> QED BY <2>1, <3>1, <1>3, <1>4
  <2>2. CASE i # n + 1
    <3>1. i \in 1..n BY <2>2, <1>10
    <3>2. PICK m \in DOMAIN r : r[m] = a[i].key BY <3>1, <1>6 DEF Ordered
    <3>3. r[m] # e.key BY <3>1, <3>2, <1>6
    <3>4. PICK p \in DOMAIN v : g[p] = m BY <3>3 DEF Thins
    <3>5. b[p] = a[i].key BY <3>2, <3>4, <1>1, <1>7
    <3>6. p \in DOMAIN b BY <1>1, <1>5
    <3> QED BY <3>5, <3>6
  <2> QED BY <2>1, <2>2
<1>15. ASSUME NEW i \in DOMAIN a, NEW j \in DOMAIN a, NEW p \in DOMAIN b, NEW q \in DOMAIN b,
              i < j, b[p] = a[i].key, b[q] = a[j].key
       PROVE  p < q
  <2>1. i \in 1..n BY <1>15, <1>1, <1>5
  <2>2. p \in 1..l BY <2>1, <1>4, <1>6, <1>11, <1>15
  <2>3. CASE j = n + 1
    <3>1. q = l + 1 BY <2>3, <1>3, <1>7, <1>11, <1>15
    <3> QED BY <3>1, <2>2, <1>1
  <2>4. CASE j # n + 1
    <3>1. j \in 1..n BY <2>4, <1>10
    <3>2. q \in 1..l BY <3>1, <1>4, <1>6, <1>11, <1>15
    <3>3. g[p] < g[q]
      <4>1. r[g[p]] = w[i].key /\ r[g[q]] = w[j].key BY <2>1, <2>2, <3>1, <3>2, <1>3, <1>7, <1>15
      <4>2. g[p] \in DOMAIN r /\ g[q] \in DOMAIN r BY <2>2, <3>2, <1>7
      <4> QED BY <4>1, <4>2, <2>1, <3>1, <1>1, <1>8, <1>15 DEF Ordered
    <3> QED BY <3>2, <3>3, <2>2, <1>1, <1>9
  <2> QED BY <2>3, <2>4
<1>16. Ordered(a, b) BY <1>12, <1>13, <1>14, <1>15 DEF Ordered
<1> QED BY <1>16 DEF a, b

-----------------------------------------------------------------------------
(* The inductive invariant.                                                 *)

Typed ==
    /\ now \in Time
    /\ store \in Seq(Entry)
    /\ call \in [Threads -> Call]
    /\ recent \in Seq(Key)

\* An entry is filed under the key of its own answer, and its time is at most
\* Delay after the server looked.
Filed(e) ==
    /\ e.key = MakeKey(e.value.query, e.value.options)
    /\ e.ts <= now /\ e.ts - e.value.read <= Delay

StoreFits == Len(store) <= Capacity /\ \A i \in DOMAIN store : Filed(store[i])

Asking(c) ==
    /\ c.pc # "idle" => c.query \in Queries /\ c.options \in Options
    /\ c.pc = "searched" => c.read <= now /\ now - c.read <= Delay

InOrder == Ordered(store, recent)

HitSound ==
    hit # None => /\ hit.at - hit.value.read <= TTL + Delay
                  /\ Cut256[hit.value.query] = Cut256[hit.query]
                  /\ hit.value.options = hit.options

CacheInv ==
    /\ Typed /\ StoreFits /\ InOrder /\ HitSound
    /\ \A t \in Threads : Asking(call[t])

-----------------------------------------------------------------------------
(* The operators of the cache.                                              *)

LEMMA PlaceFacts ==
    ASSUME CacheInv, NEW k \in Keys
    PROVE  /\ Place(k) \in DOMAIN store /\ store[Place(k)].key = k
           /\ \A i \in DOMAIN store : store[i].key = k => i = Place(k)
           /\ EntryOf(k) \in Entry /\ EntryOf(k).key = k /\ Filed(EntryOf(k))
<1>1. PICK i \in DOMAIN store : store[i].key = k BY DEF Keys, ToSet
<1>2. Place(k) \in DOMAIN store /\ store[Place(k)].key = k BY <1>1, Zenon DEF Place
<1>3. store[Place(k)] \in Entry
  <2>1. store \in Seq(Entry) BY DEF CacheInv, Typed
  <2> QED BY <1>2, <2>1, ElementOfSeq, LenProperties
<1> QED BY <1>2, <1>3 DEF CacheInv, StoreFits, InOrder, Ordered, EntryOf

\* Where the cache, and the history, have the key.
Filled(k) == {m \in DOMAIN store : store[m].key = k}
Ranks(k)  == {m \in DOMAIN recent : recent[m] = k}

\* What is left without k is the cache, in its order, without k.
LEMMA WithoutFacts ==
    ASSUME CacheInv, NEW k
    PROVE  /\ Without(k) \in Seq(Entry) /\ Len(Without(k)) <= Len(store)
           /\ k \in Keys => Len(Without(k)) < Len(store)
           /\ \E f : Thins(f, Without(k), store, Filled(k))
<1>1. store \in Seq(Entry) /\ Len(store) \in Nat /\ DOMAIN store = 1..Len(store)
  BY LenProperties DEF CacheInv, Typed
<1>2. CASE k \in Keys
  <2>1. Place(k) \in DOMAIN store /\ Filled(k) = {Place(k)}
    BY <1>2, PlaceFacts DEF Filled
  <2>2. Without(k) = RemoveAt(store, Place(k)) BY <1>2 DEF Without
  <2>3. /\ RemoveAt(store, Place(k)) \in Seq(Entry)
        /\ Len(RemoveAt(store, Place(k))) = Len(store) - 1
    BY <1>1, <2>1, RemoveAtFacts
  <2>4. \E f : Thins(f, RemoveAt(store, Place(k)), store, {Place(k)})
    BY <1>1, <2>1, Removing
  <2> QED BY <1>1, <2>1, <2>2, <2>3, <2>4
<1>3. CASE k \notin Keys
  <2>1. Without(k) = store BY <1>3 DEF Without
  <2>2. Filled(k) = {} BY <1>3 DEF Keys, ToSet, Filled
  <2>3. \E f : Thins(f, store, store, {}) BY <1>1, KeepingAll
  <2> QED BY <1>1, <1>3, <2>1, <2>2, <2>3
<1> QED BY <1>2, <1>3

LEMMA RankFacts ==
    ASSUME NEW k, NEW p \in DOMAIN recent, recent[p] = k
    PROVE  Rank(k) \in DOMAIN recent /\ recent[Rank(k)] = k
BY Zenon DEF Rank

\* What Used leaves: the same keys in the same order, but k last.
LEMMA UsedFacts ==
    ASSUME CacheInv, NEW k \in Key, Used(k)
    PROVE  \E w, g : /\ w \in Seq(Key) /\ recent' = Append(w, k)
                     /\ Thins(g, w, recent, Ranks(k))
<1>1. recent \in Seq(Key) BY DEF CacheInv, Typed
<1>2. CASE k \in ToSet(recent)
  <2>1. PICK p \in DOMAIN recent : recent[p] = k BY <1>2 DEF ToSet
  <2>2. Rank(k) \in DOMAIN recent /\ recent[Rank(k)] = k BY <2>1, RankFacts
  <2>3. Ranks(k) = {Rank(k)} BY <2>2 DEF CacheInv, InOrder, Ordered, Ranks
  <2>4. recent' = Append(RemoveAt(recent, Rank(k)), k) BY <1>2 DEF Used
  <2>5. RemoveAt(recent, Rank(k)) \in Seq(Key) BY <2>2, <1>1, RemoveAtFacts
  <2>6. PICK g : Thins(g, RemoveAt(recent, Rank(k)), recent, {Rank(k)})
    BY <1>1, <2>2, Removing
  <2> QED BY <2>3, <2>4, <2>5, <2>6
<1>3. CASE k \notin ToSet(recent)
  <2>1. recent' = Append(recent, k) BY <1>3 DEF Used
  <2>2. Ranks(k) = {} BY <1>3 DEF ToSet, Ranks
  <2>3. PICK g : Thins(g, recent, recent, {}) BY <1>1, KeepingAll
  <2> QED BY <1>1, <2>1, <2>2, <2>3
<1> QED BY <1>2, <1>3

\* The cache and the history after an entry was used or stored.
LEMMA MovedFacts ==
    ASSUME CacheInv, NEW e \in Entry, Used(e.key)
    PROVE  /\ Append(Without(e.key), e) \in Seq(Entry)
           /\ Len(Append(Without(e.key), e)) = Len(Without(e.key)) + 1
           /\ \A i \in DOMAIN Append(Without(e.key), e) :
                 \/ Append(Without(e.key), e)[i] = e
                 \/ \E m \in DOMAIN store : Append(Without(e.key), e)[i] = store[m]
           /\ \A k \in Keys \cup {e.key} :
                 \E i \in DOMAIN Append(Without(e.key), e) : Append(Without(e.key), e)[i].key = k
           /\ recent' \in Seq(Key)
           /\ Ordered(Append(Without(e.key), e), recent')
<1> DEFINE w == Without(e.key)
           a == Append(w, e)
<1>1. e.key \in Key BY DEF Entry
<1>2. w \in Seq(Entry) /\ Len(w) \in Nat /\ DOMAIN w = 1..Len(w)
  BY WithoutFacts, LenProperties
<1>3. PICK f : Thins(f, w, store, Filled(e.key)) BY WithoutFacts
<1>4. PICK v, g : /\ v \in Seq(Key) /\ recent' = Append(v, e.key)
                  /\ Thins(g, v, recent, Ranks(e.key))
  BY <1>1, UsedFacts
<1>5. store \in Seq(Entry) /\ recent \in Seq(Key) /\ Ordered(store, recent)
  BY DEF CacheInv, Typed, InOrder
<1> HIDE DEF w
<1>6. /\ a \in Seq(Entry) /\ Len(a) = Len(w) + 1 /\ a[Len(w) + 1] = e
      /\ \A i \in 1..Len(w) : a[i] = w[i]
  BY <1>2, AppendProperties
<1>7. DOMAIN a = 1..Len(w) + 1 BY <1>6, LenProperties
<1>8. Ordered(a, recent')
  BY <1>2, <1>3, <1>4, <1>5, OrderMoved DEF Filled, Ranks
<1> HIDE DEF a
<1>9. \A i \in DOMAIN a : a[i] = e \/ \E m \in DOMAIN store : a[i] = store[m]
  <2> SUFFICES ASSUME NEW i \in DOMAIN a, i # Len(w) + 1
               PROVE  \E m \in DOMAIN store : a[i] = store[m]
    BY <1>6
  <2>1. i \in 1..Len(w) BY <1>2, <1>7
  <2>2. a[i] = store[f[i]] /\ f[i] \in DOMAIN store BY <2>1, <1>2, <1>3, <1>6 DEF Thins
  <2> QED BY <2>2
<1>10. \A k \in Keys \cup {e.key} : \E i \in DOMAIN a : a[i].key = k
  <2> SUFFICES ASSUME NEW k \in Keys \cup {e.key} PROVE \E i \in DOMAIN a : a[i].key = k
    OBVIOUS
  <2>1. CASE k = e.key
    <3>1. Len(w) + 1 \in DOMAIN a BY <1>2, <1>7
    <3> QED BY <2>1, <3>1, <1>6
  <2>2. CASE k # e.key
    <3>1. PICK m \in DOMAIN store : store[m].key = k BY <2>2 DEF Keys, ToSet
    <3>2. PICK i \in DOMAIN w : f[i] = m BY <2>2, <3>1, <1>3 DEF Thins, Filled
    <3>3. i \in DOMAIN a /\ a[i] = store[m] BY <3>2, <1>2, <1>3, <1>6, <1>7 DEF Thins
    <3> QED BY <3>1, <3>3
  <2> QED BY <2>1, <2>2
<1> QED BY <1>4, <1>6, <1>8, <1>9, <1>10, <1>1, AppendProperties DEF a, w

\* The first entry goes, the order stays.
LEMMA TailFacts ==
    ASSUME NEW s \in Seq(Entry), Len(s) > 0, NEW r, Ordered(s, r)
    PROVE  /\ Tail(s) \in Seq(Entry) /\ Len(Tail(s)) = Len(s) - 1
           /\ DOMAIN Tail(s) = 1..Len(s) - 1
           /\ \A i \in 1..Len(s) - 1 : Tail(s)[i] = s[i + 1]
           /\ Ordered(Tail(s), r)
<1>1. Len(s) \in Nat /\ DOMAIN s = 1..Len(s) /\ s # <<>> BY LenProperties, EmptySeq
<1>2. /\ Tail(s) \in Seq(Entry) /\ Len(Tail(s)) = Len(s) - 1
      /\ \A i \in 1..Len(Tail(s)) : Tail(s)[i] = s[i + 1]
  BY <1>1, HeadTailProperties
<1>3. DOMAIN Tail(s) = 1..Len(s) - 1 BY <1>2, LenProperties
<1> DEFINE f == [i \in 1..Len(s) - 1 |-> i + 1]
           w == Tail(s)
<1> HIDE DEF w
<1>4. DOMAIN w = 1..Len(s) - 1 /\ \A i \in 1..Len(s) - 1 : w[i] = s[i + 1]
  BY <1>2, <1>3 DEF w
<1>5. \A m \in DOMAIN s : m \notin {1} => m - 1 \in DOMAIN w /\ f[m - 1] = m BY <1>1, <1>4
<1>6. Thins(f, w, s, {1})
  <2>1. f \in [DOMAIN w -> DOMAIN s] BY <1>1, <1>4
  <2>2. \A i, j \in DOMAIN w : i < j => f[i] < f[j] BY <1>1, <1>4
  <2>3. \A i \in DOMAIN w : w[i] = s[f[i]] /\ f[i] \notin {1} BY <1>1, <1>4
  <2> QED BY <2>1, <2>2, <2>3, <1>5 DEF Thins
<1>7. Ordered(Tail(s), r) BY <1>2, <1>6, OrderThinned DEF w
<1> QED BY <1>2, <1>3, <1>7

-----------------------------------------------------------------------------
(* Every step keeps the invariant.                                          *)

LEMMA CacheInit == Init => CacheInv
<1> SUFFICES ASSUME Init PROVE CacheInv OBVIOUS
<1>1. 0 \in Time /\ Idle \in Call BY BoundsAssumption DEF Time, Idle, Call
<1>2. store = <<>> /\ recent = <<>> /\ Len(store) = 0 /\ DOMAIN store = {} /\ DOMAIN recent = {}
  BY EmptySeq DEF Init
<1>3. Typed BY <1>1, <1>2, EmptySeq DEF Init, Typed
<1>4. StoreFits BY <1>2, BoundsAssumption DEF StoreFits
<1>5. InOrder BY <1>2 DEF InOrder, Ordered
<1>6. HitSound BY DEF HitSound, Init
<1>7. \A t \in Threads : Asking(call[t]) BY DEF Init, Asking, Idle
<1> QED BY <1>3, <1>4, <1>5, <1>6, <1>7 DEF CacheInv

LEMMA TickKeeps == CacheInv /\ Tick => CacheInv'
<1> SUFFICES ASSUME CacheInv, Tick PROVE CacheInv' OBVIOUS
<1>1. now' = now + 1 /\ now \in Nat /\ now' \in Time
  BY BoundsAssumption DEF CacheInv, Typed, Tick, Time
<1>2. store' = store /\ call' = call /\ recent' = recent /\ hit' = hit BY DEF Tick
<1>3. Typed' BY <1>1, <1>2 DEF CacheInv, Typed
<1>4. StoreFits'
  <2> SUFFICES ASSUME NEW i \in DOMAIN store PROVE Filed(store[i])'
    BY <1>2 DEF CacheInv, StoreFits
  <2>1. Filed(store[i]) BY DEF CacheInv, StoreFits
  <2>2. store[i].ts \in Nat
    <3>1. store[i] \in Entry BY LenProperties DEF CacheInv, Typed
    <3> QED BY <3>1, BoundsAssumption DEF Entry, Time
  <2> QED BY <1>1, <1>2, <2>1, <2>2 DEF Filed
<1>5. InOrder' /\ HitSound' BY <1>2 DEF CacheInv, InOrder, Ordered, HitSound
<1>6. ASSUME NEW t \in Threads PROVE Asking(call[t])'
  <2>1. Asking(call[t]) /\ call[t] \in Call BY DEF CacheInv, Typed
  <2>2. call[t].read \in Nat BY <2>1, BoundsAssumption DEF Call, Time
  <2>3. call[t].pc = "searched" => now - call[t].read < Delay BY DEF Tick
  <2> QED BY <1>1, <1>2, <2>1, <2>2, <2>3, BoundsAssumption DEF Asking
<1> QED BY <1>3, <1>4, <1>5, <1>6 DEF CacheInv

LEMMA SearchKeeps ==
    ASSUME CacheInv, NEW t \in Threads, Search(t)
    PROVE  CacheInv'
<1>1. now' = now /\ store' = store /\ recent' = recent /\ hit' = hit BY DEF Search
<1>2. now \in Nat /\ now \in Time BY BoundsAssumption DEF CacheInv, Typed, Time
<1>3. PICK c \in Call : c = call[t] BY DEF CacheInv, Typed
<1>4. Asking(c) /\ c.pc = "asked" BY <1>3 DEF CacheInv, Search
<1>5. PICK d : d = [c EXCEPT !.pc = "searched", !.read = now] OBVIOUS
<1>6. /\ d \in Call /\ d.query = c.query /\ d.options = c.options
      /\ d.pc = "searched" /\ d.read = now
  BY <1>2, <1>3, <1>5 DEF Call
<1>7. call' = [call EXCEPT ![t] = d] BY <1>3, <1>5 DEF Search
<1>8. call \in [Threads -> Call] BY DEF CacheInv, Typed
<1>9. Typed' BY <1>1, <1>6, <1>7, <1>8 DEF CacheInv, Typed
<1>10. StoreFits' /\ InOrder' /\ HitSound'
  BY <1>1 DEF CacheInv, StoreFits, Filed, InOrder, Ordered, HitSound
<1>11. ASSUME NEW x \in Threads PROVE Asking(call[x])'
  <2>1. CASE x = t
    <3>1. call'[x] = d BY <2>1, <1>7, <1>8
    <3> QED BY <3>1, <1>1, <1>2, <1>4, <1>6, BoundsAssumption DEF Asking
  <2>2. CASE x # t
    <3>1. call'[x] = call[x] BY <2>2, <1>7, <1>8
    <3> QED BY <3>1, <1>1 DEF CacheInv, Asking
  <2> QED BY <2>1, <2>2
<1> QED BY <1>9, <1>10, <1>11 DEF CacheInv

\* What holds of the calls after one of them ended.
LEMMA EndKeeps ==
    ASSUME CacheInv, NEW t \in Threads, now' = now, call' = [call EXCEPT ![t] = Idle]
    PROVE  call' \in [Threads -> Call] /\ \A x \in Threads : Asking(call[x])'
<1>1. call \in [Threads -> Call] BY DEF CacheInv, Typed
<1>2. Idle \in Call BY BoundsAssumption DEF Idle, Call, Time
<1>3. \A x \in Threads : call'[x] = IF x = t THEN Idle ELSE call[x] BY <1>1
<1>4. ASSUME NEW x \in Threads PROVE Asking(call[x])'
  <2>1. CASE x = t
    <3>1. call'[x] = Idle BY <2>1, <1>3
    <3> QED BY <3>1 DEF Asking, Idle
  <2>2. CASE x # t
    <3>1. call'[x] = call[x] BY <2>2, <1>3
    <3> QED BY <3>1 DEF CacheInv, Asking
  <2> QED BY <2>1, <2>2
<1> QED BY <1>1, <1>2, <1>4

LEMMA FailKeeps ==
    ASSUME CacheInv, NEW t \in Threads, Fail(t)
    PROVE  CacheInv'
<1>1. now' = now /\ store' = store /\ recent' = recent /\ hit' = hit BY DEF Fail
<1>2. call' \in [Threads -> Call] /\ \A x \in Threads : Asking(call[x])'
  BY <1>1, EndKeeps DEF Fail
<1> QED BY <1>1, <1>2 DEF CacheInv, Typed, StoreFits, Filed, InOrder, Ordered, HitSound

\* What holds of the cache after an entry, filed as it must be, was moved to or
\* put at the end, and possibly the first dropped.
LEMMA StoreKeeps ==
    ASSUME CacheInv, NEW e \in Entry, Filed(e), Used(e.key), now' = now,
           \/ e.key \in Keys /\ store' = Append(Without(e.key), e)
           \/ store' = Trimmed(Append(Without(e.key), e))
    PROVE  /\ store' \in Seq(Entry) /\ recent' \in Seq(Key)
           /\ StoreFits' /\ InOrder'
<1>1. PICK a : a = Append(Without(e.key), e) OBVIOUS
<1>2. /\ a \in Seq(Entry) /\ Len(a) = Len(Without(e.key)) + 1
      /\ \A i \in DOMAIN a : a[i] = e \/ \E m \in DOMAIN store : a[i] = store[m]
      /\ recent' \in Seq(Key) /\ Ordered(a, recent')
  BY <1>1, MovedFacts
<1>3. PICK r : r = recent' OBVIOUS
<1>4. Len(a) \in Nat /\ DOMAIN a = 1..Len(a) BY <1>2, LenProperties
<1>5. Len(Without(e.key)) \in Nat /\ Len(store) \in Nat
  <2>1. store \in Seq(Entry) BY DEF CacheInv, Typed
  <2> QED BY <2>1, WithoutFacts, LenProperties
<1>6. Len(a) <= Capacity + 1 /\ (e.key \in Keys => Len(a) <= Capacity)
  BY <1>2, <1>5, WithoutFacts, BoundsAssumption DEF CacheInv, StoreFits
<1>7. \A i \in DOMAIN a : Filed(a[i]) BY <1>2 DEF CacheInv, StoreFits
<1>8. CASE store' = a /\ Len(a) <= Capacity
  <2>1. StoreFits' BY <1>7, <1>8 DEF StoreFits, Filed
  <2>2. InOrder' BY <1>2, <1>8 DEF InOrder, Ordered
  <2> QED BY <2>1, <2>2, <1>2, <1>8
<1>9. CASE store' = Tail(a) /\ Len(a) > Capacity
  <2>1. Ordered(a, r) /\ Len(a) > 0 BY <1>2, <1>3, <1>4, <1>9, BoundsAssumption
  <2>2. /\ Tail(a) \in Seq(Entry) /\ Len(Tail(a)) = Len(a) - 1
        /\ DOMAIN Tail(a) = 1..Len(a) - 1
        /\ \A i \in 1..Len(a) - 1 : Tail(a)[i] = a[i + 1]
        /\ Ordered(Tail(a), r)
    BY <2>1, <1>2, TailFacts
  <2>3. \A i \in DOMAIN Tail(a) : Filed(Tail(a)[i])
    <3>1. \A i \in 1..Len(a) - 1 : i + 1 \in DOMAIN a BY <1>4
    <3> QED BY <3>1, <2>2, <1>7
  <2>4. Len(Tail(a)) <= Capacity BY <2>2, <1>4, <1>6, BoundsAssumption
  <2>5. StoreFits' BY <2>3, <2>4, <1>9 DEF StoreFits, Filed
  <2>6. InOrder' BY <2>2, <1>3, <1>9 DEF InOrder, Ordered
  <2> QED BY <2>2, <2>5, <2>6, <1>2, <1>9
<1> QED BY <1>1, <1>4, <1>6, <1>8, <1>9, BoundsAssumption DEF Trimmed

\* An entry that answers a request has the caller's options and a query that
\* begins as the caller's.
LEMMA SameKeySameQuery ==
    ASSUME NEW q \in Queries, NEW o \in Options, NEW e \in Entry, Filed(e),
           e.key = MakeKey(q, o)
    PROVE  Cut256[e.value.query] = Cut256[q] /\ e.value.options = o
<1>1. e.key = <<Cut256[e.value.query], e.value.options>> BY DEF Filed, MakeKey
<1>2. e.key = <<Cut256[q], o>> BY DEF MakeKey
<1> QED BY <1>1, <1>2

LEMMA HitKeeps ==
    ASSUME CacheInv, NEW t \in Threads, NEW q \in Queries, NEW o \in Options, Hit(t, q, o)
    PROVE  CacheInv'
<1>1. PICK k : k = MakeKey(q, o) OBVIOUS
<1>2. PICK e : e = EntryOf(k) OBVIOUS
<1>3. /\ k \in Keys /\ ~Expired(e) /\ now' = now /\ call' = call
      /\ store' = Append(Without(k), e) /\ Used(k)
      /\ hit' = [query |-> q, options |-> o, value |-> e.value, at |-> now]
  BY <1>1, <1>2 DEF Hit, Touched
<1>4. e \in Entry /\ e.key = k /\ Filed(e) BY <1>2, <1>3, PlaceFacts
<1>5. store' \in Seq(Entry) /\ recent' \in Seq(Key) /\ StoreFits' /\ InOrder'
  BY <1>3, <1>4, StoreKeeps
<1>6. Cut256[e.value.query] = Cut256[q] /\ e.value.options = o
  BY <1>1, <1>4, SameKeySameQuery
<1>7. now - e.value.read <= TTL + Delay
  <2>1. now \in Nat /\ e.ts \in Nat /\ e.value.read \in Nat
    BY <1>4, BoundsAssumption DEF CacheInv, Typed, Entry, Answer, Time
  <2>2. now - e.ts <= TTL
    <3>1. ~(now - e.ts > TTL) BY <1>3 DEF Expired
    <3> QED BY <3>1, <2>1, BoundsAssumption
  <2>3. e.ts - e.value.read <= Delay BY <1>4 DEF Filed
  <2> QED BY <2>1, <2>2, <2>3, BoundsAssumption
<1>8. HitSound' BY <1>3, <1>6, <1>7 DEF HitSound
<1>9. Typed' BY <1>3, <1>5 DEF CacheInv, Typed
<1>10. \A x \in Threads : Asking(call[x])' BY <1>3 DEF CacheInv, Asking
<1> QED BY <1>5, <1>8, <1>9, <1>10 DEF CacheInv

LEMMA MissKeeps ==
    ASSUME CacheInv, NEW t \in Threads, NEW q \in Queries, NEW o \in Options, Miss(t, q, o)
    PROVE  CacheInv'
<1>1. PICK k : k = MakeKey(q, o) OBVIOUS
<1>2. PICK d : d = [Idle EXCEPT !.pc = "asked", !.query = q, !.options = o] OBVIOUS
<1>3. /\ now' = now /\ recent' = recent /\ hit' = hit
      /\ store' = Without(k) /\ call' = [call EXCEPT ![t] = d]
  BY <1>1, <1>2 DEF Miss
<1>4. d \in Call /\ d.pc = "asked" /\ d.query = q /\ d.options = o
  <2>1. d = [pc |-> "asked", query |-> q, options |-> o, read |-> 0] BY <1>2 DEF Idle
  <2>2. 0 \in Time BY BoundsAssumption DEF Time
  <2> QED BY <2>1, <2>2 DEF Call
<1>5. PICK w : w = Without(k) OBVIOUS
<1>6. w \in Seq(Entry) /\ Len(w) <= Len(store) BY <1>5, WithoutFacts
<1>7. PICK f : Thins(f, w, store, Filled(k)) BY <1>5, WithoutFacts
<1>8. store \in Seq(Entry) /\ Len(store) \in Nat /\ Len(w) \in Nat /\ call \in [Threads -> Call]
  BY <1>6, LenProperties DEF CacheInv, Typed
<1>9. StoreFits'
  <2>1. \A i \in DOMAIN w : \E m \in DOMAIN store : w[i] = store[m] BY <1>7 DEF Thins
  <2>2. \A i \in DOMAIN w : Filed(w[i]) BY <2>1 DEF CacheInv, StoreFits
  <2>3. Len(w) <= Capacity BY <1>6, <1>8, BoundsAssumption DEF CacheInv, StoreFits
  <2> QED BY <1>3, <1>5, <2>2, <2>3 DEF StoreFits, Filed
<1>10. InOrder'
  <2>1. PICK r : r = recent OBVIOUS
  <2>2. Ordered(store, r) BY <2>1 DEF CacheInv, InOrder
  <2>3. Ordered(w, r) BY <2>2, <1>6, <1>7, <1>8, OrderThinned
  <2> QED BY <1>3, <1>5, <2>1, <2>3 DEF InOrder, Ordered
<1>11. Typed' BY <1>3, <1>4, <1>5, <1>6, <1>8 DEF CacheInv, Typed
<1>12. ASSUME NEW x \in Threads PROVE Asking(call[x])'
  <2>1. CASE x = t
    <3>1. call'[x] = d BY <2>1, <1>3, <1>8
    <3> QED BY <3>1, <1>4 DEF Asking
  <2>2. CASE x # t
    <3>1. call'[x] = call[x] BY <2>2, <1>3, <1>8
    <3> QED BY <3>1, <1>3 DEF CacheInv, Asking
  <2> QED BY <2>1, <2>2
<1> QED BY <1>3, <1>9, <1>10, <1>11, <1>12 DEF CacheInv, HitSound

\* The entry that an answer becomes.
LEMMA ReceivedFacts ==
    ASSUME CacheInv, NEW t \in Threads, Receive(t)
    PROVE  \E e \in Entry : /\ Filed(e) /\ Used(e.key)
                            /\ store' = Trimmed(Append(Without(e.key), e))
<1>1. PICK c \in Call : c = call[t] BY DEF CacheInv, Typed
<1>2. PICK k : k = MakeKey(c.query, c.options) OBVIOUS
<1>3. PICK v : v = [query |-> Cut500[c.query], options |-> c.options, read |-> c.read] OBVIOUS
<1>4. PICK e : e = [key |-> k, ts |-> now, value |-> v] OBVIOUS
<1>5. /\ c.query \in Queries /\ c.options \in Options /\ c.read \in Time
      /\ now - c.read <= Delay
  BY <1>1 DEF CacheInv, Asking, Receive, Call
<1>6. e \in Entry
  BY <1>2, <1>3, <1>4, <1>5, CutAssumption DEF CacheInv, Typed, MakeKey, Entry, Key, Answer
<1>7. now \in Nat BY BoundsAssumption DEF CacheInv, Typed, Time
<1>8. MakeKey(v.query, v.options) = k
  BY <1>2, <1>3, <1>5, CutAssumption DEF MakeKey
<1>9. Filed(e) BY <1>3, <1>4, <1>5, <1>7, <1>8 DEF Filed
<1>10. e.key = k BY <1>4
<1>11. Used(k) /\ store' = Trimmed(Append(Without(k), e))
  BY <1>1, <1>2, <1>3, <1>4, <1>10 DEF Receive, Stored
<1> QED BY <1>6, <1>9, <1>10, <1>11

LEMMA ReceiveKeeps ==
    ASSUME CacheInv, NEW t \in Threads, Receive(t)
    PROVE  CacheInv'
<1>1. PICK e \in Entry : /\ Filed(e) /\ Used(e.key)
                         /\ store' = Trimmed(Append(Without(e.key), e))
  BY ReceivedFacts
<1>2. now' = now /\ hit' = hit /\ call' = [call EXCEPT ![t] = Idle] BY DEF Receive
<1>3. store' \in Seq(Entry) /\ recent' \in Seq(Key) /\ StoreFits' /\ InOrder'
  BY <1>1, <1>2, StoreKeeps
<1>4. call' \in [Threads -> Call] /\ \A x \in Threads : Asking(call[x])'
  BY <1>2, EndKeeps
<1> QED BY <1>2, <1>3, <1>4 DEF CacheInv, Typed, HitSound

LEMMA CacheSteps == CacheInv /\ [Next]_vars => CacheInv'
<1> SUFFICES ASSUME CacheInv, [Next]_vars PROVE CacheInv' OBVIOUS
<1>1. CASE Tick BY <1>1, TickKeeps
<1>2. ASSUME NEW t \in Threads, NEW q \in Queries, NEW o \in Options,
             Hit(t, q, o) \/ Miss(t, q, o)
      PROVE  CacheInv'
  BY <1>2, HitKeeps, MissKeeps
<1>3. ASSUME NEW t \in Threads, Search(t) \/ Receive(t) \/ Fail(t) PROVE CacheInv'
  BY <1>3, SearchKeeps, ReceiveKeeps, FailKeeps
<1>4. CASE UNCHANGED vars
  BY <1>4 DEF vars, CacheInv, Typed, StoreFits, Filed, InOrder, Ordered, HitSound, Asking
<1> QED BY <1>1, <1>2, <1>3, <1>4 DEF Next

LEMMA CacheInvariant == Spec => []CacheInv
BY CacheInit, CacheSteps, PTL DEF Spec

-----------------------------------------------------------------------------
(* The theorems.                                                            *)

\* A hit is what the server would have said at most TTL and one request ago, in
\* whatever order the answers of however many threads come back.
THEOREM HitsAreRecent == Spec => []HitIsRecent
<1>1. CacheInv => HitIsRecent BY DEF CacheInv, HitSound, HitIsRecent
<1> QED BY <1>1, CacheInvariant, PTL

\* A hit has the caller's options, and the answer to a query that begins with
\* the same 256 characters.
THEOREM HitsAnswerTheQuery == Spec => []HitAnswersQuery
<1>1. CacheInv => HitAnswersQuery BY DEF CacheInv, HitSound, HitAnswersQuery
<1> QED BY <1>1, CacheInvariant, PTL

EvictsOldest ==
    \A k \in Keys \ Keys' :
        \/ Expired(EntryOf(k))
        \/ Len(store) = Capacity /\ \A other \in Keys : Rank(k) <= Rank(other)

\* The first entry is the least recently used.
LEMMA FirstIsOldest ==
    ASSUME CacheInv, NEW k \in Keys, Len(store) > 0, store[1].key = k, NEW other \in Keys
    PROVE  Rank(k) <= Rank(other)
<1>1. PICK i \in DOMAIN store : store[i].key = other BY DEF Keys, ToSet
<1>2. /\ DOMAIN store = 1..Len(store) /\ Len(store) \in Nat
      /\ DOMAIN recent = 1..Len(recent) /\ Len(recent) \in Nat
  BY LenProperties DEF CacheInv, Typed
<1>3. Ordered(store, recent) BY DEF CacheInv, InOrder
<1>4. 1 \in DOMAIN store BY <1>2
<1>5. PICK p \in DOMAIN recent : recent[p] = k BY <1>3, <1>4 DEF Ordered
<1>6. PICK q \in DOMAIN recent : recent[q] = other BY <1>1, <1>3 DEF Ordered
<1>7. /\ Rank(k) \in DOMAIN recent /\ recent[Rank(k)] = k
      /\ Rank(other) \in DOMAIN recent /\ recent[Rank(other)] = other
  BY <1>5, <1>6, RankFacts
<1>8. CASE i = 1
  <2>1. k = other BY <1>1, <1>8
  <2> QED BY <2>1, <1>2, <1>7
<1>9. CASE i # 1
  <2>1. 1 < i BY <1>9, <1>1, <1>2
  <2>2. Rank(k) < Rank(other) BY <2>1, <1>1, <1>3, <1>4, <1>7 DEF Ordered
  <2> QED BY <2>2, <1>2, <1>7
<1> QED BY <1>8, <1>9

\* Storing an answer drops no key but, from a full cache, the first.
LEMMA StoringEvicts ==
    ASSUME CacheInv, NEW e \in Entry, Used(e.key),
           \/ e.key \in Keys /\ store' = Append(Without(e.key), e)
           \/ store' = Trimmed(Append(Without(e.key), e)),
           NEW k \in Keys \ Keys'
    PROVE  Len(store) = Capacity /\ Len(store) > 0 /\ store[1].key = k
<1>1. PICK w : w = Without(e.key) OBVIOUS
<1>2. PICK a : a = Append(w, e) OBVIOUS
<1>3. /\ a \in Seq(Entry) /\ Len(a) = Len(w) + 1
      /\ \E i \in DOMAIN a : a[i].key = k
  BY <1>1, <1>2, MovedFacts
<1>4. /\ w \in Seq(Entry) /\ Len(w) <= Len(store) /\ (e.key \in Keys => Len(w) < Len(store))
  BY <1>1, WithoutFacts
<1>5. Len(w) \in Nat /\ Len(store) \in Nat /\ DOMAIN a = 1..Len(a) /\ Len(store) <= Capacity
      /\ store \in Seq(Entry) /\ DOMAIN store = 1..Len(store)
  BY <1>3, <1>4, LenProperties DEF CacheInv, Typed, StoreFits
<1>6. store' # a
  <2> SUFFICES ASSUME store' = a PROVE FALSE OBVIOUS
  <2>1. k \in Keys' BY <1>3 DEF Keys, ToSet
  <2> QED BY <2>1
<1>7. store' = Tail(a) /\ Len(a) > Capacity BY <1>1, <1>2, <1>6 DEF Trimmed
<1>8. Len(store) = Capacity /\ e.key \notin Keys /\ Len(store) > 0
  <2>1. Len(w) + 1 > Capacity /\ Capacity \in Nat \ {0} BY <1>3, <1>7, BoundsAssumption
  <2>2. Len(w) = Capacity /\ Len(store) = Capacity
    <3>1. \A x, y, z \in Nat : (x + 1 > z /\ x <= y /\ y <= z) => x = z /\ y = z OBVIOUS
    <3>2. Len(w) \in Nat /\ Len(store) \in Nat /\ Len(w) <= Len(store) /\ Len(store) <= Capacity
      BY <1>4, <1>5
    <3> QED BY <2>1, <3>1, <3>2
  <2>3. ~(Len(w) < Len(store)) BY <2>2, <1>5
  <2> QED BY <2>1, <2>2, <2>3, <1>4
<1>9. w = store BY <1>1, <1>8 DEF Without
<1>10. a[1] = store[1]
  <2>1. \A i \in 1..Len(w) : Append(w, e)[i] = w[i] BY <1>4, AppendProperties
  <2> QED BY <2>1, <1>2, <1>5, <1>8, <1>9
<1>11. a[1].key = k
  <2>1. PICK i \in DOMAIN a : a[i].key = k BY <1>3
  <2>2. SUFFICES ASSUME i # 1 PROVE FALSE BY <2>1
  <2>3. PICK r : r = recent' OBVIOUS
  <2>4. Ordered(a, r) BY <1>1, <1>2, <2>3, MovedFacts
  <2>5. /\ DOMAIN Tail(a) = 1..Len(a) - 1
        /\ \A j \in 1..Len(a) - 1 : Tail(a)[j] = a[j + 1]
    BY <1>3, <1>5, <2>4, TailFacts
  <2>6. i - 1 \in 1..Len(a) - 1 /\ (i - 1) + 1 = i BY <2>1, <2>2, <1>3, <1>5
  <2>7. i - 1 \in DOMAIN Tail(a) /\ Tail(a)[i - 1].key = k BY <2>1, <2>5, <2>6
  <2>8. k \in Keys' BY <2>7, <1>7 DEF Keys, ToSet
  <2> QED BY <2>8
<1> QED BY <1>8, <1>10, <1>11

\* Whatever the threads do in between, an entry leaves the cache only when it
\* has expired, or when the cache is full and no other key was used longer ago.
THEOREM LeastRecentGoesFirst == Spec => EvictsLeastRecent
<1>1. ASSUME CacheInv, [Next]_vars PROVE EvictsOldest \/ UNCHANGED vars
  <2> SUFFICES ASSUME NEW k \in Keys \ Keys'
               PROVE  \/ Expired(EntryOf(k))
                      \/ Len(store) = Capacity /\ \A other \in Keys : Rank(k) <= Rank(other)
    BY DEF EvictsOldest
  <2>1. store' # store BY DEF Keys
  <2>2. ASSUME NEW e \in Entry, Used(e.key),
               \/ e.key \in Keys /\ store' = Append(Without(e.key), e)
               \/ store' = Trimmed(Append(Without(e.key), e))
        PROVE  Len(store) = Capacity /\ \A other \in Keys : Rank(k) <= Rank(other)
    <3>1. Len(store) = Capacity /\ Len(store) > 0 /\ store[1].key = k
      BY <1>1, <2>2, StoringEvicts
    <3> QED BY <3>1, <1>1, FirstIsOldest
  <2>3. ASSUME NEW t \in Threads, NEW q \in Queries, NEW o \in Options, Hit(t, q, o)
        PROVE  Len(store) = Capacity /\ \A other \in Keys : Rank(k) <= Rank(other)
    <3>1. PICK x : x = MakeKey(q, o) OBVIOUS
    <3>2. PICK e : e = EntryOf(x) OBVIOUS
    <3>3. x \in Keys /\ store' = Append(Without(x), e) /\ Used(x)
      BY <2>3, <3>1, <3>2 DEF Hit, Touched
    <3>4. e \in Entry /\ e.key = x BY <1>1, <3>2, <3>3, PlaceFacts
    <3> QED BY <3>3, <3>4, <2>2
  <2>4. ASSUME NEW t \in Threads, NEW q \in Queries, NEW o \in Options, Miss(t, q, o)
        PROVE  Expired(EntryOf(k))
    <3>1. PICK x : x = MakeKey(q, o) OBVIOUS
    <3>2. store' = Without(x) /\ (x \in Keys => Expired(EntryOf(x)))
      BY <2>4, <3>1 DEF Miss
    <3>3. PICK w : w = Without(x) OBVIOUS
    <3>4. PICK f : Thins(f, w, store, Filled(x)) BY <1>1, <3>3, WithoutFacts
    <3>5. PICK m \in DOMAIN store : store[m].key = k BY DEF Keys, ToSet
    <3>6. k = x
      <4> SUFFICES ASSUME k # x PROVE FALSE OBVIOUS
      <4>1. m \notin Filled(x) BY <3>5 DEF Filled
      <4>2. PICK i \in DOMAIN w : f[i] = m BY <3>4, <4>1 DEF Thins
      <4>3. w[i].key = k BY <3>4, <3>5, <4>2 DEF Thins
      <4>4. k \in Keys' BY <4>3, <3>2, <3>3 DEF Keys, ToSet
      <4> QED BY <4>4
    <3> QED BY <3>2, <3>6
  <2>5. ASSUME NEW t \in Threads, Receive(t)
        PROVE  Len(store) = Capacity /\ \A other \in Keys : Rank(k) <= Rank(other)
    <3>1. PICK e \in Entry : Used(e.key) /\ store' = Trimmed(Append(Without(e.key), e))
      BY <1>1, <2>5, ReceivedFacts
    <3> QED BY <3>1, <2>2
  <2> QED BY <1>1, <2>1, <2>3, <2>4, <2>5 DEF Next, vars, Tick, Search, Fail
<1>2. CacheInv /\ [Next]_vars => [EvictsOldest]_vars BY <1>1
<1>3. EvictsLeastRecent <=> [][EvictsOldest]_vars BY DEF EvictsLeastRecent, EvictsOldest
<1> QED BY <1>2, <1>3, CacheInvariant, PTL DEF Spec

=============================================================================
