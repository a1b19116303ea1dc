---------------------------- MODULE SdkWalProofs ----------------------------
(* What the write-ahead log of SdkWal guarantees to one agent, for any      *)
(* number of writes, retries, lines, deaths and failures.                             *)
EXTENDS SdkWal, SequenceTheorems, TLAPS

-----------------------------------------------------------------------------
(* Lines of a file, and the entries among them.                             *)

Entries(s) == ToSet(s) \cap Entry

\* No write has two entries.
Once(s) ==
    \A i, k \in DOMAIN s :
        s[i] \in Entry /\ s[k] \in Entry /\ s[i].write = s[k].write => i = k

LEMMA WrittenEntries ==
    ASSUME NEW s
    PROVE  Written(s) = {e.write : e \in Entries(s)}
  BY DEF Written, Entries

LEMMA EntryType ==
    ASSUME NEW e \in Entry
    PROVE  e.write \in Writes /\ e.retries \in Nat /\ e.retries <= MaxRetries
  BY BoundsAssumption DEF Entry

LEMMA OneEntry ==
    ASSUME NEW s, Once(s), NEW e \in Entries(s), NEW f \in Entries(s), e.write = f.write
    PROVE  e = f
  BY DEF Once, Entries, ToSet

LEMMA NoLines ==
    /\ <<>> \in Seq(Line) /\ Once(<<>>) /\ ToSet(<<>>) = {}
    /\ Entries(<<>>) = {} /\ Written(<<>>) = {}
  <1>1. DOMAIN <<>> = {}
    OBVIOUS
  <1> QED BY <1>1, EmptySeq DEF Once, Entries, ToSet, Written

LEMMA InFile ==
    ASSUME NEW s \in Seq(Line)
    PROVE  /\ DOMAIN s = 1..Len(s) /\ Len(s) \in Nat
           /\ \A i \in 1..Len(s) : s[i] \in Line
           /\ s # <<>> => Len(s) >= 1
  BY LenProperties, ElementOfSeq, EmptySeq

LEMMA HeadAndTail ==
    ASSUME NEW s \in Seq(Line), s # <<>>
    PROVE  /\ Head(s) \in Line /\ Tail(s) \in Seq(Line)
           /\ ToSet(s) = {Head(s)} \cup ToSet(Tail(s))
           /\ Once(s) => /\ Once(Tail(s))
                         /\ Head(s) \in Entry => Head(s).write \notin Written(Tail(s))
  <1>1. /\ Head(s) \in Line /\ Tail(s) \in Seq(Line) /\ Len(Tail(s)) = Len(s) - 1
        /\ \A i \in 1..Len(Tail(s)) : Tail(s)[i] = s[i + 1]
        /\ Head(s) = s[1]
    BY HeadTailProperties
  <1>2. /\ DOMAIN s = 1..Len(s) /\ DOMAIN Tail(s) = 1..Len(s) - 1
        /\ Len(s) \in Nat /\ Len(s) >= 1
    BY <1>1, InFile
  <1>3. \A i \in DOMAIN Tail(s) : i + 1 \in DOMAIN s /\ i + 1 # 1 /\ Tail(s)[i] = s[i + 1]
    BY <1>1, <1>2
  <1>4. ToSet(Tail(s)) \subseteq ToSet(s) /\ Head(s) \in ToSet(s)
    BY <1>1, <1>2, <1>3 DEF ToSet
  <1>5. ASSUME NEW x \in ToSet(s), x # Head(s) PROVE x \in ToSet(Tail(s))
    <2>1. PICK i \in DOMAIN s : x = s[i]
      BY DEF ToSet
    <2>2. i # 1 /\ i - 1 \in DOMAIN Tail(s) /\ (i - 1) + 1 = i
      BY <1>1, <1>2, <1>5, <2>1
    <2>3. Tail(s)[i - 1] = x
      BY <1>3, <2>1, <2>2
    <2> QED BY <2>2, <2>3 DEF ToSet
  <1>6. ASSUME Once(s) PROVE Once(Tail(s))
    <2> SUFFICES ASSUME NEW i \in DOMAIN Tail(s), NEW k \in DOMAIN Tail(s),
                        Tail(s)[i] \in Entry, Tail(s)[k] \in Entry,
                        Tail(s)[i].write = Tail(s)[k].write
                 PROVE  i = k
      BY DEF Once
    <2>1. i + 1 = k + 1
      BY <1>3, <1>6 DEF Once
    <2> QED BY <1>2, <2>1
  <1>7. ASSUME Once(s), Head(s) \in Entry, Head(s).write \in Written(Tail(s)) PROVE FALSE
    <2>1. PICK i \in DOMAIN Tail(s) : Tail(s)[i] \in Entry /\ Tail(s)[i].write = Head(s).write
      BY <1>7 DEF Written, ToSet
    <2> QED BY <1>1, <1>2, <1>3, <1>7, <2>1 DEF Once
  <1> QED BY <1>1, <1>4, <1>5, <1>6, <1>7

LEMMA AppendLine ==
    ASSUME NEW s \in Seq(Line), NEW x \in Line
    PROVE  /\ Append(s, x) \in Seq(Line)
           /\ ToSet(Append(s, x)) = ToSet(s) \cup {x}
           /\ Once(s) /\ (x \in Entry => x.write \notin Written(s)) => Once(Append(s, x))
  <1> DEFINE t == Append(s, x)
             l == Len(s) + 1
  <1>1. /\ t \in Seq(Line) /\ Len(t) = l
        /\ \A i \in 1..Len(s) : t[i] = s[i]
        /\ t[l] = x
    BY AppendProperties
  <1>2. /\ DOMAIN s = 1..Len(s) /\ Len(s) \in Nat
        /\ DOMAIN t = 1..l
    BY <1>1, InFile
  <1> HIDE DEF t
  <1>3. ToSet(t) = ToSet(s) \cup {x}
    BY <1>1, <1>2 DEF ToSet
  <1>4. ASSUME Once(s), x \in Entry => x.write \notin Written(s) PROVE Once(t)
    <2> SUFFICES ASSUME NEW i \in DOMAIN t, NEW k \in DOMAIN t, i < k,
                        t[i] \in Entry, t[k] \in Entry, t[i].write = t[k].write
                 PROVE  FALSE
      BY <1>2 DEF Once
    <2>1. i \in DOMAIN s /\ t[i] = s[i]
      BY <1>1, <1>2
    <2>2. CASE k = l
      <3>1. s[i].write \in Written(s)
        BY <2>1 DEF Written, ToSet
      <3> QED BY <1>1, <1>4, <2>1, <2>2, <3>1
    <2>3. CASE k # l
      <3>1. k \in DOMAIN s /\ t[k] = s[k]
        BY <1>1, <1>2, <2>3
      <3> QED BY <1>2, <1>4, <2>1, <3>1 DEF Once
    <2> QED BY <2>2, <2>3
  <1> QED BY <1>1, <1>3, <1>4 DEF t

LEMMA FewerEntries ==
    ASSUME NEW s \in Seq(Line), NEW t \in Seq(Line), DOMAIN s = DOMAIN t,
           \A i \in DOMAIN s : t[i] \in Entry => s[i] = t[i]
    PROVE  /\ Entries(t) \subseteq Entries(s)
           /\ Once(s) => Once(t)
  BY DEF Entries, ToSet, Once

LEMMA LineKinds ==
    /\ Half \in Line /\ Torn \in Line /\ Junk \in Line /\ Broken \in Line /\ Odd \in Line
    /\ Half \notin Entry /\ Torn \notin Entry /\ Junk \notin Entry
    /\ Broken \notin Entry /\ Odd \notin Entry
    /\ Half # Junk /\ Half # Odd /\ Cut \subseteq Line /\ Cut \cap Entry = {}
  BY NoneAssumption DEF Line, Cut

LEMMA FirstLines ==
    ASSUME NEW s \in Seq(Line), NEW n \in 0..Len(s)
    PROVE  LET t == SubSeq(s, 1, n)
           IN  /\ t \in Seq(Line) /\ Len(t) = n /\ DOMAIN t = 1..n
               /\ \A i \in 1..n : t[i] = s[i]
               /\ ToSet(t) \subseteq ToSet(s) /\ (Once(s) => Once(t))
  <1> DEFINE l == Len(s)
             t == SubSeq(s, 1, n)
  <1>1. /\ DOMAIN s = 1..l /\ l \in Nat /\ n \in 0..l
        /\ \A i \in 1..l : s[i] \in Line
    BY InFile
  <1> HIDE DEF l
  <1>2. /\ t \in Seq(Line) /\ Len(t) = n
        /\ \A i \in 1..n : t[i] = s[i]
    <2>1. /\ 1 \in Int /\ n \in Int /\ \A i \in 1..n : s[i] \in Line
      BY <1>1
    <2>2. /\ t \in Seq(Line)
          /\ Len(t) = IF 1 <= n THEN n - 1 + 1 ELSE 0
          /\ \A i \in 1..n - 1 + 1 : t[i] = s[1 + i - 1]
      BY <2>1, SubSeqProperties
    <2> HIDE DEF t
    <2> QED BY <1>1, <2>2
  <1>3. DOMAIN t = 1..n
    BY <1>2, InFile
  <1> HIDE DEF t
  <1>4. \A i \in DOMAIN t : i \in DOMAIN s /\ t[i] = s[i]
    BY <1>1, <1>2, <1>3
  <1>5. ToSet(t) \subseteq ToSet(s) /\ (Once(s) => Once(t))
    BY <1>4 DEF ToSet, Once
  <1> QED BY <1>2, <1>3, <1>5 DEF t

LEMMA JoinedType ==
    ASSUME NEW c \in Cut, NEW x \in Line
    PROVE  Joined(c, x) \in Line \ Entry
  BY LineKinds DEF Joined

\* A line that is written after a cut line is lost.
LEMMA WithLineKeeps ==
    ASSUME NEW s \in Seq(Line), NEW x \in Line
    PROVE  /\ WithLine(s, x) \in Seq(Line)
           /\ Entries(s) \subseteq Entries(WithLine(s, x))
           /\ Entries(WithLine(s, x)) \subseteq Entries(s) \cup ({x} \cap Entry)
           /\ x \in Entry /\ ~ (s # <<>> /\ Last(s) \in Cut) => x \in Entries(WithLine(s, x))
           /\ Once(s) /\ (x \in Entry => x.write \notin Written(s)) => Once(WithLine(s, x))
  <1>1. CASE ~ (s # <<>> /\ Last(s) \in Cut)
    <2>1. WithLine(s, x) = Append(s, x)
      BY <1>1 DEF WithLine
    <2> QED BY <1>1, <2>1, AppendLine DEF Entries
  <1>2. CASE s # <<>> /\ Last(s) \in Cut
    <2> DEFINE l == Len(s)
               f == Front(s)
               j == Joined(Last(s), x)
               t == Append(f, j)
    <2>1. /\ DOMAIN s = 1..l /\ l \in Nat /\ l >= 1 /\ s[l] \in Cut
          /\ l - 1 \in 0..l
      BY <1>2, InFile DEF Last
    <2>2. f = SubSeq(s, 1, l - 1)
      BY DEF Front
    <2>3. /\ f \in Seq(Line) /\ Len(f) = l - 1
          /\ \A i \in 1..l - 1 : f[i] = s[i]
      BY <2>1, <2>2, FirstLines
    <2>4. j \in Line \ Entry
      BY <1>2, JoinedType
    <2> HIDE DEF f, j
    <2>5. /\ t \in Seq(Line) /\ Len(t) = l
          /\ \A i \in 1..l - 1 : t[i] = s[i]
          /\ t[l] = j
      <3>1. /\ t \in Seq(Line) /\ Len(t) = Len(f) + 1
            /\ \A i \in 1..Len(f) : t[i] = f[i]
            /\ t[Len(f) + 1] = j
        BY <2>3, <2>4, AppendProperties
      <3> HIDE DEF t, l
      <3> QED BY <2>1, <2>3, <3>1
    <2>6. WithLine(s, x) = t
      BY <1>2 DEF WithLine, f, j
    <2> HIDE DEF t
    <2>7. DOMAIN t = DOMAIN s
      BY <2>1, <2>5, InFile
    <2>8. \A i \in DOMAIN s : s[i] \in Entry \/ t[i] \in Entry => s[i] = t[i]
      BY <2>1, <2>4, <2>5, LineKinds
    <2> HIDE DEF l
    <2>9. Entries(t) \subseteq Entries(s) /\ Entries(s) \subseteq Entries(t) /\ (Once(s) => Once(t))
      BY <2>5, <2>7, <2>8, FewerEntries
    <2> QED BY <1>2, <2>5, <2>6, <2>9
  <1> QED BY <1>1, <1>2

\* Reading leaves out the entries that splitlines has cut.
LEMMA ReadKeeps ==
    ASSUME NEW s \in Seq(Line)
    PROVE  /\ Read(s) \in Seq(Line) /\ Half \notin ToSet(Read(s))
           /\ Entries(Read(s)) = {e \in Entries(s) : e.write \notin Splits}
           /\ Once(s) => Once(Read(s))
  <1> DEFINE t == Read(s)
  <1>1. /\ DOMAIN s = 1..Len(s) /\ Len(s) \in Nat
        /\ \A i \in 1..Len(s) : s[i] \in Line
    BY InFile
  <1>2. t = [i \in 1..Len(s) |-> AsRead(s[i])]
    BY <1>1 DEF Read
  <1>3. ASSUME NEW x \in Line
        PROVE  /\ AsRead(x) \in Line /\ AsRead(x) # Half
               /\ AsRead(x) \in Entry => AsRead(x) = x /\ x.write \notin Splits
               /\ x \in Entry /\ x.write \notin Splits => AsRead(x) = x
    BY LineKinds, SplitsAssumption DEF AsRead
  <1>4. t \in [1..Len(s) -> Line]
    BY <1>1, <1>2, <1>3
  <1>5. t \in Seq(Line)
    BY <1>1, <1>4, SeqDef
  <1>6. DOMAIN t = DOMAIN s /\ \A i \in DOMAIN s : t[i] = AsRead(s[i]) /\ s[i] \in Line
    BY <1>1, <1>2
  <1> HIDE DEF t
  <1>7. \A i \in DOMAIN s : t[i] \in Entry => s[i] = t[i]
    BY <1>3, <1>6
  <1>8. Half \notin ToSet(t)
    BY <1>3, <1>6 DEF ToSet
  <1>9. Entries(t) = {e \in Entries(s) : e.write \notin Splits}
    BY <1>3, <1>6 DEF Entries, ToSet
  <1>10. Once(s) => Once(t)
    BY <1>5, <1>6, <1>7, FewerEntries
  <1> QED BY <1>5, <1>8, <1>9, <1>10 DEF t

\* What _rotate takes apart.
LEMMA SplitFile ==
    ASSUME NEW s \in Seq(Line), NEW old \in 1..Len(s)
    PROVE  LET t == SubSeq(s, 1, old)
               r == SubSeq(s, old + 1, Len(s))
           IN  /\ t \in Seq(Line) /\ r \in Seq(Line)
               /\ Entries(t) \cup Entries(r) = Entries(s)
               /\ Once(s) => Once(t) /\ Once(r) /\ Written(t) \cap Written(r) = {}
  <1> DEFINE l == Len(s)
             t == SubSeq(s, 1, old)
             r == SubSeq(s, old + 1, l)
  <1>1. /\ DOMAIN s = 1..l /\ l \in Nat /\ old \in 1..l
        /\ \A i \in 1..l : s[i] \in Line
    BY InFile
  <1> HIDE DEF l
  <1>2. /\ t \in Seq(Line) /\ DOMAIN t = 1..old
        /\ \A i \in 1..old : t[i] = s[i]
    <2>1. /\ 1 \in Int /\ old \in Int /\ \A i \in 1..old : s[i] \in Line
      BY <1>1
    <2>2. /\ t \in Seq(Line)
          /\ Len(t) = IF 1 <= old THEN old - 1 + 1 ELSE 0
          /\ \A i \in 1..old - 1 + 1 : t[i] = s[1 + i - 1]
      BY <2>1, SubSeqProperties
    <2> HIDE DEF t
    <2> QED BY <1>1, <2>2, InFile
  <1>3. /\ r \in Seq(Line) /\ DOMAIN r = 1..l - old
        /\ \A i \in 1..l - old : r[i] = s[old + i]
    <2>1. /\ old + 1 \in Int /\ l \in Int /\ \A i \in old + 1..l : s[i] \in Line
      BY <1>1
    <2>2. /\ r \in Seq(Line)
          /\ Len(r) = IF old + 1 <= l THEN l - (old + 1) + 1 ELSE 0
          /\ \A i \in 1..l - (old + 1) + 1 : r[i] = s[(old + 1) + i - 1]
      BY <2>1, SubSeqProperties
    <2> HIDE DEF r
    <2>3. DOMAIN r = 1..l - old
      BY <1>1, <2>2, InFile
    <2>4. ASSUME NEW i \in 1..l - old PROVE r[i] = s[old + i]
      <3>1. i \in 1..l - (old + 1) + 1 /\ (old + 1) + i - 1 = old + i
        BY <1>1
      <3> QED BY <2>2, <3>1
    <2> QED BY <2>2, <2>3, <2>4
  <1> HIDE DEF t, r
  <1>4. Entries(t) \cup Entries(r) = Entries(s)
    <2>1. ToSet(t) \subseteq ToSet(s)
      BY <1>1, <1>2 DEF ToSet
    <2>2. ToSet(r) \subseteq ToSet(s)
      <3>1. \A i \in DOMAIN r : old + i \in DOMAIN s /\ r[i] = s[old + i]
        BY <1>1, <1>3
      <3> QED BY <3>1 DEF ToSet
    <2>3. ToSet(s) \subseteq ToSet(t) \cup ToSet(r)
      <3> SUFFICES ASSUME NEW i \in DOMAIN s PROVE s[i] \in ToSet(t) \cup ToSet(r)
        BY DEF ToSet
      <3>1. CASE i <= old
        BY <1>1, <1>2, <3>1 DEF ToSet
      <3>2. CASE i > old
        <4>1. i - old \in DOMAIN r /\ old + (i - old) = i
          BY <1>1, <1>3, <3>2
        <4>2. r[i - old] = s[i]
          BY <1>3, <4>1
        <4> QED BY <4>1, <4>2 DEF ToSet
      <3> QED BY <1>1, <3>1, <3>2
    <2> QED BY <2>1, <2>2, <2>3 DEF Entries
  <1>5. ASSUME Once(s) PROVE Once(t) /\ Once(r) /\ Written(t) \cap Written(r) = {}
    <2>1. Once(t)
      BY <1>1, <1>2, <1>5 DEF Once
    <2>2. Once(r)
      <3> SUFFICES ASSUME NEW i \in DOMAIN r, NEW k \in DOMAIN r, r[i] \in Entry, r[k] \in Entry,
                          r[i].write = r[k].write
                   PROVE  i = k
        BY DEF Once
      <3>1. old + i \in DOMAIN s /\ old + k \in DOMAIN s
        BY <1>1, <1>3
      <3>2. old + i = old + k
        BY <1>3, <1>5, <3>1 DEF Once
      <3> QED BY <1>1, <1>3, <3>2
    <2>3. ASSUME NEW w \in Written(t), w \in Written(r) PROVE FALSE
      <3>1. PICK i \in DOMAIN t : t[i] \in Entry /\ t[i].write = w
        BY DEF Written, ToSet
      <3>2. PICK k \in DOMAIN r : r[k] \in Entry /\ r[k].write = w
        BY <2>3 DEF Written, ToSet
      <3>3. i \in DOMAIN s /\ old + k \in DOMAIN s /\ i # old + k
        BY <1>1, <1>2, <1>3
      <3> QED BY <1>2, <1>3, <1>5, <3>1, <3>2, <3>3 DEF Once
    <2> QED BY <2>1, <2>2, <2>3
  <1> QED BY <1>2, <1>3, <1>4, <1>5 DEF t, r, l

LEMMA SplitRead ==
    ASSUME NEW s \in Seq(Line), NEW old \in 1..Len(s), Once(s)
    PROVE  LET t == Read(SubSeq(s, 1, old))
               k == Read(SubSeq(s, old + 1, Len(s)))
           IN  /\ t \in Seq(Line) /\ k \in Seq(Line) /\ Half \notin ToSet(t)
               /\ Entries(t) \cup Entries(k) = {e \in Entries(s) : e.write \notin Splits}
               /\ Once(t) /\ Once(k) /\ Written(t) \cap Written(k) = {}
  <1> DEFINE p == SubSeq(s, 1, old)
             r == SubSeq(s, old + 1, Len(s))
  <1>1. /\ p \in Seq(Line) /\ r \in Seq(Line)
        /\ Entries(p) \cup Entries(r) = Entries(s)
        /\ Once(p) /\ Once(r) /\ Written(p) \cap Written(r) = {}
    BY SplitFile
  <1> HIDE DEF p, r
  <1>2. /\ Read(p) \in Seq(Line) /\ Half \notin ToSet(Read(p)) /\ Once(Read(p))
        /\ Entries(Read(p)) = {e \in Entries(p) : e.write \notin Splits}
        /\ Read(r) \in Seq(Line) /\ Once(Read(r))
        /\ Entries(Read(r)) = {e \in Entries(r) : e.write \notin Splits}
    BY <1>1, ReadKeeps
  <1>3. Entries(Read(p)) \cup Entries(Read(r)) = {e \in Entries(s) : e.write \notin Splits}
    BY <1>1, <1>2
  <1>4. Written(Read(p)) \subseteq Written(p) /\ Written(Read(r)) \subseteq Written(r)
    BY <1>2, WrittenEntries
  <1> QED BY <1>1, <1>2, <1>3, <1>4 DEF p, r

-----------------------------------------------------------------------------
(* The dead file.                                                           *)

Graves(d) == {e.write : e \in d \cap Entry}

LEMMA InterredKeeps ==
    ASSUME NEW s \in Seq(Line), dead \subseteq Line
    PROVE  /\ Interred(s) \subseteq Line /\ dead \cap Entry \subseteq Interred(s)
           /\ Interred(s) \cap Entry \subseteq dead \cup Entries(s)
           /\ Written(s) \subseteq Graves(Interred(s)) \cup Garbled(s)
           /\ Garbled(s) \subseteq Written(s) /\ (Garbled(s) # {} => Half \in dead)
           /\ Half \in Interred(s) => Half \in dead \/ Half \in ToSet(s)
  <1>1. ToSet(s) \subseteq Line
    BY InFile DEF ToSet
  <1>2. CASE Half \in dead /\ s # <<>>
    <2>1. /\ ToSet(s) = {Head(s)} \cup ToSet(Tail(s))
      BY <1>2, HeadAndTail
    <2>2. /\ Interred(s) = (dead \ {Half}) \cup {Junk} \cup ToSet(Tail(s))
          /\ Garbled(s) = {e.write : e \in {Head(s)} \cap Entry}
      BY <1>2 DEF Interred, Garbled
    <2>3. /\ Interred(s) \subseteq Line /\ dead \cap Entry \subseteq Interred(s)
          /\ Interred(s) \cap Entry \subseteq dead \cup Entries(s)
      BY <1>1, <2>1, <2>2, LineKinds DEF Entries
    <2>4. Written(s) \subseteq Graves(Interred(s)) \cup Garbled(s)
      BY <2>1, <2>2 DEF Written, Graves
    <2>5. Garbled(s) \subseteq Written(s)
      BY <2>1, <2>2 DEF Written
    <2> QED BY <1>2, <2>3, <2>4, <2>5
  <1>3. CASE ~ (Half \in dead /\ s # <<>>)
    <2>1. Interred(s) = dead \cup ToSet(s) /\ Garbled(s) = {}
      BY <1>3 DEF Interred, Garbled
    <2>2. Written(s) \subseteq Graves(Interred(s))
      BY <2>1 DEF Written, Graves
    <2> QED BY <1>1, <2>1, <2>2 DEF Entries
  <1> QED BY <1>2, <1>3

LEMMA PartlyInterredKeeps ==
    ASSUME NEW s \in Seq(Line), dead \subseteq Line, NEW d \in PartlyInterred(s)
    PROVE  /\ d \subseteq Line /\ dead \cap Entry \subseteq d
           /\ d \cap Entry \subseteq dead \cup Entries(s)
  <1>1. PICK n \in 0..Len(s) : \/ d = Interred(SubSeq(s, 1, n))
                               \/ d = Interred(SubSeq(s, 1, n)) \cup {Half}
    <2>1. Len(s) \in Nat /\ \A n \in 0..Len(s) - 1 : n \in 0..Len(s)
      BY InFile
    <2> QED BY <2>1 DEF PartlyInterred
  <1>2. SubSeq(s, 1, n) \in Seq(Line) /\ ToSet(SubSeq(s, 1, n)) \subseteq ToSet(s)
    BY FirstLines
  <1>3. PICK t \in Seq(Line) : t = SubSeq(s, 1, n) /\ Entries(t) \subseteq Entries(s)
    BY <1>2 DEF Entries
  <1>4. /\ Interred(t) \subseteq Line /\ dead \cap Entry \subseteq Interred(t)
        /\ Interred(t) \cap Entry \subseteq dead \cup Entries(t)
    BY InterredKeeps
  <1> QED BY <1>1, <1>3, <1>4, LineKinds

-----------------------------------------------------------------------------
(* What holds between the steps of an agent that has the log for itself.    *)

\* What it has read and not yet dealt with, and what it will write back.
Hands(a) ==
    LET s == agent[a]
    IN  /\ s.pc \notin {"bury", "replay", "truncate", "fill"} => s.todo = <<>> /\ s.kept = <<>>
        /\ s.pc \in {"truncate", "fill"} => s.todo = <<>>
        /\ s.pc = "fill" => wal = <<>>
        /\ Half \notin ToSet(s.todo)

\* A write is in one place at a time: to be made, to be appended, or one entry.
Copies(a) ==
    LET s == agent[a]
    IN  /\ Once(wal) /\ Once(s.todo) /\ Once(s.kept)
        /\ Written(s.todo) \cap Written(s.kept) = {}
        /\ s.pc # "fill" => /\ Entries(s.todo) \subseteq Entries(wal)
                            /\ Written(s.kept) \subseteq Written(wal)
        /\ (Written(wal) \cup Written(s.kept)) \cap fresh = {}
        /\ s.pc = "append" => s.write \in Writes \ fresh /\ s.write \notin Written(wal)

\* What is neither to be dealt with nor to be written back needs no place.
Covered(a) ==
    LET s == agent[a]
    IN  /\ s.pc = "bury" => Written(wal) \subseteq Written(s.todo) \cup Written(s.kept) \cup Splits
        /\ s.pc \in {"replay", "truncate"} =>
             \A w \in Written(wal) :
                \/ w \in Written(s.todo) \cup Written(s.kept) \cup Splits
                \/ w \in Buried \cup forgotten \/ applied[w] > 0

\* The bounds for a write that will be sent again, after its next failure.
MayResend(w, retries) ==
    sent[w] <= 1 + retries + Faults /\ applied[w] <= unanswered[w] + Faults

Fair(e) == MayResend(e.write, e.retries)

\* During a replay an entry of the file may have been sent once more than it
\* says; a fault now makes up for it.
Counts(a) ==
    LET s == agent[a]
    IN  /\ \A e \in Entries(s.todo) \cup Entries(s.kept) : Fair(e)
        /\ s.pc \notin {"replay", "truncate"} => \A e \in Entries(wal) : Fair(e)
        /\ \A e \in Entries(wal) : sent[e.write] <= 2 + e.retries + Faults
        /\ s.pc = "append" => MayResend(s.write, 0)

\* Only a fault leaves the dead file with a cut line.
CutDead == Half \in dead => Faults > 0

Unmade == \A w \in fresh : sent[w] = 0 /\ applied[w] = 0

AgentInv(a) == Hands(a) /\ Copies(a) /\ Covered(a) /\ Counts(a)

WInv == TypeOK /\ CutDead /\ Unmade /\ SendsBounded /\ \A a \in Agents : AgentInv(a)

LEMMA InitWInv == Init => WInv
  <1> SUFFICES ASSUME Init PROVE WInv
    OBVIOUS
  <1>1. Idle \in Agent
    BY NoLines DEF Idle, Agent
  <1>2. TypeOK
    BY <1>1, NoLines, BoundsAssumption DEF Init, TypeOK
  <1>3. CutDead /\ Unmade /\ SendsBounded
    BY BoundsAssumption DEF Init, CutDead, Unmade, SendsBounded, RetriesCapped,
                            DuplicatesExplained, Faults
  <1>4. ASSUME NEW a \in Agents PROVE AgentInv(a)
    BY NoLines DEF Init, Idle, AgentInv, Hands, Copies, Covered, Counts
  <1> QED BY <1>2, <1>3, <1>4 DEF WInv

LEMMA AgentTypes ==
    ASSUME TypeOK, NEW a \in Agents
    PROVE  /\ agent[a] \in Agent /\ agent[a].todo \in Seq(Line) /\ agent[a].kept \in Seq(Line)
           /\ wal \in Seq(Line) /\ dead \subseteq Line /\ Faults \in Nat
           /\ crashes \in Nat /\ failures \in Nat
           /\ \A w \in Writes : sent[w] \in Nat /\ applied[w] \in Nat /\ unanswered[w] \in Nat
  BY BoundsAssumption DEF TypeOK, Agent, Faults

\* A fault more is room for a send more.
LEMMA FaultRoom ==
    ASSUME TypeOK, SendsBounded, Faults' \in {Faults, Faults + 1},
           UNCHANGED <<applied, unanswered, sent>>, NEW w \in Writes, NEW r \in Nat
    PROVE  /\ sent[w] <= 1 + r + Faults => sent'[w] <= 1 + r + Faults'
           /\ sent[w] <= 2 + r + Faults => sent'[w] <= 2 + r + Faults'
           /\ applied[w] <= unanswered[w] + Faults => applied'[w] <= unanswered'[w] + Faults'
           /\ Faults' = Faults + 1 =>
                /\ applied'[w] <= unanswered'[w] + Faults'
                /\ sent[w] <= 2 + r + Faults => sent'[w] <= 1 + r + Faults'
  <1>1. Faults \in Nat
    BY BoundsAssumption DEF TypeOK, Faults
  <1>2. PICK n \in Nat, k \in Nat, u \in Nat : n = sent[w] /\ k = applied[w] /\ u = unanswered[w]
    BY DEF TypeOK
  <1>3. k <= 1 + u + Faults
    BY <1>2 DEF SendsBounded, DuplicatesExplained
  <1>4. n = sent'[w] /\ k = applied'[w] /\ u = unanswered'[w]
    BY <1>2
  <1>5. PICK g \in Nat, h \in Nat : g = Faults /\ h = Faults' /\ h \in {g, g + 1}
    BY <1>1
  <1>6. k <= 1 + u + g
    BY <1>3, <1>5
  <1>7. /\ n <= 1 + r + g => n <= 1 + r + h
        /\ n <= 2 + r + g => n <= 2 + r + h
        /\ k <= u + g => k <= u + h
        /\ h = g + 1 => k <= u + h /\ (n <= 2 + r + g => n <= 1 + r + h)
    <2>1. CASE h = g
      BY <2>1
    <2>2. CASE h = g + 1
      BY <1>6, <2>2
    <2> QED BY <1>5, <2>1, <2>2
  <1> QED BY <1>2, <1>4, <1>5, <1>7

\* So a fault breaks no bound, and mends a copy that was sent once too often.
LEMMA MoreFaults ==
    ASSUME TypeOK, SendsBounded, Faults' \in {Faults, Faults + 1},
           UNCHANGED <<applied, unanswered, sent>>
    PROVE  /\ SendsBounded'
           /\ \A e \in Entry : /\ Fair(e) => Fair(e)'
                              /\ sent[e.write] <= 2 + e.retries + Faults =>
                                   /\ sent'[e.write] <= 2 + e.retries + Faults'
                                   /\ Faults' = Faults + 1 => Fair(e)'
  <1>1. Faults \in Nat /\ MaxRetries \in Nat
    BY BoundsAssumption DEF TypeOK, Faults
  <1>2. ASSUME NEW w \in Writes
        PROVE  /\ sent[w] \in Nat /\ applied[w] \in Nat /\ unanswered[w] \in Nat
               /\ sent'[w] = sent[w] /\ applied'[w] = applied[w] /\ unanswered'[w] = unanswered[w]
               /\ sent[w] <= 1 + MaxRetries + Faults /\ applied[w] <= 1 + unanswered[w] + Faults
    BY DEF TypeOK, SendsBounded, RetriesCapped, DuplicatesExplained
  <1>3. SendsBounded'
    <2> SUFFICES ASSUME NEW w \in Writes
                 PROVE  /\ sent'[w] <= 1 + MaxRetries + Faults'
                        /\ applied'[w] <= 1 + unanswered'[w] + Faults'
      BY DEF SendsBounded, RetriesCapped, DuplicatesExplained
    <2>1. PICK n \in Nat, k \in Nat, u \in Nat : n = sent[w] /\ k = applied[w] /\ u = unanswered[w]
      BY <1>2
    <2>2. n <= 1 + MaxRetries + Faults /\ k <= 1 + u + Faults
      BY <1>2, <2>1
    <2>3. n <= 1 + MaxRetries + Faults' /\ k <= 1 + u + Faults'
      <3>1. CASE Faults' = Faults
        BY <2>2, <3>1
      <3>2. CASE Faults' = Faults + 1
        <4>1. n <= 1 + MaxRetries + (Faults + 1) /\ k <= 1 + u + (Faults + 1)
          BY <1>1, <2>1, <2>2
        <4> QED BY <3>2, <4>1
      <3> QED BY <3>1, <3>2
    <2> QED BY <1>2, <2>1, <2>3
  <1>4. ASSUME NEW e \in Entry
        PROVE  /\ Fair(e) => Fair(e)'
               /\ sent[e.write] <= 2 + e.retries + Faults =>
                    /\ sent'[e.write] <= 2 + e.retries + Faults'
                    /\ Faults' = Faults + 1 => Fair(e)'
    <2>1. PICK w \in Writes, r \in Nat : w = e.write /\ r = e.retries
      BY EntryType
    <2>2. PICK n \in Nat, k \in Nat, u \in Nat : n = sent[w] /\ k = applied[w] /\ u = unanswered[w]
      BY <1>2
    <2>3. n = sent'[w] /\ k = applied'[w] /\ u = unanswered'[w] /\ k <= 1 + u + Faults
      BY <1>2, <2>2
    <2>4. Fair(e) <=> n <= 1 + r + Faults /\ k <= u + Faults
      BY <2>1, <2>2 DEF Fair, MayResend
    <2>5. Fair(e)' <=> n <= 1 + r + Faults' /\ k <= u + Faults'
      BY <2>1, <2>3 DEF Fair, MayResend
    <2>6. /\ n <= 1 + r + Faults /\ k <= u + Faults =>
               n <= 1 + r + (Faults + 1) /\ k <= u + (Faults + 1)
          /\ n <= 2 + r + Faults => n <= 2 + r + (Faults + 1) /\ n <= 1 + r + (Faults + 1)
          /\ k <= u + (Faults + 1)
      BY <1>1, <2>1, <2>2, <2>3
    <2>7. /\ n <= 1 + r + Faults /\ k <= u + Faults => n <= 1 + r + Faults' /\ k <= u + Faults'
          /\ n <= 2 + r + Faults => n <= 2 + r + Faults'
      BY <2>6
    <2>8. Faults' = Faults + 1 =>
            /\ k <= u + Faults'
            /\ n <= 2 + r + Faults => n <= 1 + r + Faults'
      BY <2>6
    <2> QED BY <2>1, <2>2, <2>3, <2>4, <2>5, <2>6, <2>7, <2>8
  <1> QED BY <1>3, <1>4

LEMMA IdleAgent ==
    Idle \in Agent /\ Idle.pc = "idle" /\ Idle.todo = <<>> /\ Idle.kept = <<>>
  BY NoLines DEF Idle, Agent

LEMMA OldBuried == Buried = Graves(dead) /\ Buried' = Graves(dead')
  BY DEF Buried, Graves

LEMMA BecomesType ==
    ASSUME TypeOK, NEW a \in Agents, NEW s \in Agent, Becomes(a, s)
    PROVE  agent' \in [Agents -> Agent] /\ agent'[a] = s
  BY DEF TypeOK, Becomes

LEMMA Posted ==
    ASSUME TypeOK, NEW w \in Writes, NEW outcome \in Outcomes, Post(w, outcome)
    PROVE  /\ applied' \in [Writes -> Nat] /\ unanswered' \in [Writes -> Nat]
           /\ sent' \in [Writes -> Nat]
           /\ \A v \in Writes : v # w => /\ applied'[v] = applied[v] /\ sent'[v] = sent[v]
                                         /\ unanswered'[v] = unanswered[v]
           /\ sent'[w] = sent[w] + 1
           /\ applied'[w] = applied[w] \/ applied'[w] = applied[w] + 1
           /\ Answered(outcome) => /\ applied'[w] = applied[w] + 1
                                   /\ unanswered'[w] = unanswered[w]
           /\ ~ Answered(outcome) =>
                applied'[w] + unanswered[w] = applied[w] + unanswered'[w]
  <1>1. /\ applied \in [Writes -> Nat] /\ unanswered \in [Writes -> Nat]
        /\ sent \in [Writes -> Nat]
    BY DEF TypeOK
  <1>2. CASE outcome = "answered"
    BY <1>1, <1>2 DEF Post, Answered
  <1>3. CASE outcome = "unanswered"
    BY <1>1, <1>3 DEF Post, Answered
  <1>4. CASE outcome = "failed"
    BY <1>1, <1>4 DEF Post, Answered
  <1> QED BY <1>2, <1>3, <1>4 DEF Outcomes

LEMMA WriteKeeps ==
    ASSUME NEW a, Agents = {a}, WInv, NEW w \in Writes, NEW outcome \in Outcomes,
           Write(a, w, outcome)
    PROVE  WInv'
  <1> DEFINE s == IF Answered(outcome) THEN Idle ELSE [Idle EXCEPT !.pc = "append", !.write = w]
  <1>1. /\ a \in Agents /\ TypeOK /\ AgentInv(a) /\ CutDead /\ Unmade /\ SendsBounded
        /\ agent[a].pc = "idle" /\ w \in fresh /\ fresh' = fresh \ {w} /\ Post(w, outcome)
        /\ UNCHANGED <<wal, dead, crashes, failures, Faults, accepted, forgotten>> /\ Becomes(a, s)
    BY DEF WInv, Write, mishaps, Faults
  <1>2. /\ s \in Agent /\ s.todo = <<>> /\ s.kept = <<>>
        /\ s.pc = "idle" \/ (s.pc = "append" /\ s.write = w /\ ~ Answered(outcome))
    <2>1. CASE Answered(outcome)
      BY <2>1, NoLines DEF Idle, Agent, Answered
    <2>2. CASE ~ Answered(outcome)
      <3>1. s = [pc |-> "append", write |-> w, todo |-> <<>>, kept |-> <<>>]
        BY <2>2 DEF Idle, Answered
      <3>2. [pc |-> "append", write |-> w, todo |-> <<>>, kept |-> <<>>] \in Agent
        BY NoLines DEF Agent
      <3> HIDE DEF s
      <3> QED BY <2>2, <3>1, <3>2
    <2> QED BY <2>1, <2>2
  <1>3. agent' \in [Agents -> Agent] /\ agent'[a] = s
    BY <1>1, <1>2, BecomesType
  <1> HIDE DEF s
  <1>4. /\ applied' \in [Writes -> Nat] /\ unanswered' \in [Writes -> Nat]
        /\ sent' \in [Writes -> Nat] /\ sent'[w] = 1 /\ applied'[w] <= 1
        /\ \A v \in Writes : v # w => /\ applied'[v] = applied[v] /\ sent'[v] = sent[v]
                                      /\ unanswered'[v] = unanswered[v]
        /\ ~ Answered(outcome) => applied'[w] <= unanswered'[w]
    <2>1. sent[w] = 0 /\ applied[w] = 0 /\ unanswered[w] \in Nat
      BY <1>1, AgentTypes DEF Unmade
    <2>2. unanswered' \in [Writes -> Nat]
      BY <1>1, Posted
    <2> QED BY <1>1, <2>1, <2>2, Posted
  <1>5. TypeOK'
    BY <1>1, <1>3, <1>4 DEF TypeOK
  <1>6. CutDead' /\ Unmade'
    BY <1>1, <1>4 DEF CutDead, Unmade, TypeOK
  <1>7. SendsBounded'
    <2> SUFFICES ASSUME NEW v \in Writes
                 PROVE  /\ sent'[v] <= 1 + MaxRetries + Faults'
                        /\ applied'[v] <= 1 + unanswered'[v] + Faults'
      BY DEF SendsBounded, RetriesCapped, DuplicatesExplained
    <2>1. Faults' = Faults /\ Faults \in Nat /\ unanswered'[v] \in Nat
      BY <1>1, <1>4, AgentTypes
    <2>2. CASE v = w
      <3>1. sent'[v] = 1 /\ applied'[v] <= 1 /\ applied'[v] \in Nat
        BY <1>4, <2>2
      <3> QED BY <2>1, <3>1, BoundsAssumption
    <2>3. CASE v # w
      BY <1>1, <1>4, <2>1, <2>3 DEF SendsBounded, RetriesCapped, DuplicatesExplained
    <2> QED BY <2>2, <2>3
  <1>8. \A e \in Entries(wal) : e.write \in Writes /\ e.write # w
    BY <1>1, EntryType, WrittenEntries DEF AgentInv, Copies, Entries
  <1>9. Hands(a)' /\ Covered(a)'
    BY <1>1, <1>2, <1>3, NoLines DEF Hands, Covered
  <1>10. Copies(a)'
    <2>1. w \notin Written(wal)
      BY <1>1 DEF AgentInv, Copies
    <2> QED BY <1>1, <1>2, <1>3, <2>1, NoLines DEF AgentInv, Copies
  <1>11. Counts(a)'
    <2>1. Faults \in Nat
      BY <1>1, AgentTypes
    <2>2. \A e \in Entries(wal) : Fair(e)' /\ sent'[e.write] <= 2 + e.retries + Faults'
      BY <1>1, <1>4, <1>8 DEF AgentInv, Counts, Fair, MayResend
    <2>3. s.pc = "append" => MayResend(w, 0)'
      <3>1. unanswered'[w] \in Nat
        BY <1>4
      <3> QED BY <1>1, <1>2, <1>4, <2>1, <3>1 DEF MayResend
    <2> QED BY <1>1, <1>2, <1>3, <2>2, <2>3, NoLines DEF Counts, MayResend
  <1> QED BY <1>5, <1>6, <1>7, <1>9, <1>10, <1>11 DEF WInv, AgentInv

LEMMA AppendKeeps ==
    ASSUME NEW a, Agents = {a}, WInv, AppendEntry(a)
    PROVE  WInv'
  <1>1. /\ a \in Agents /\ TypeOK /\ AgentInv(a) /\ CutDead /\ Unmade /\ SendsBounded
        /\ agent[a].pc = "append"
        /\ UNCHANGED <<dead, fresh, crashes, failures, Faults,
                       applied, unanswered, sent, forgotten>>
    BY DEF WInv, AppendEntry, server, mishaps, Faults
  <1>2. PICK w \in Writes : /\ w = agent[a].write /\ w \notin fresh /\ w \notin Written(wal)
                            /\ MayResend(w, 0)
    BY <1>1 DEF AgentInv, Copies, Counts
  <1>3. PICK e \in Entry : e = [write |-> w, retries |-> 0]
    <2>1. [write |-> w, retries |-> 0] \in Entry
      BY BoundsAssumption DEF Entry
    <2> QED BY <2>1
  <1>4. PICK s \in Agent : /\ Becomes(a, s) /\ s.todo = <<>> /\ s.kept = <<>>
                           /\ s.pc \in {"idle", "rotate"}
    <2>1. Idle \in Agent /\ [Idle EXCEPT !.pc = "rotate"] \in Agent
      BY NoLines DEF Idle, Agent
    <2>2. Becomes(a, [Idle EXCEPT !.pc = "rotate"]) \/ Becomes(a, Idle)
      BY DEF AppendEntry
    <2> QED BY <2>1, <2>2 DEF Idle
  <1>5. agent' \in [Agents -> Agent] /\ agent'[a] = s
    BY <1>1, <1>4, BecomesType
  <1>6. /\ wal' \in Seq(Line) /\ Once(wal')
        /\ Entries(wal') \subseteq Entries(wal) \cup {e}
        /\ accepted' = accepted \cup {w}
    <2>1. wal' = WithLine(wal, e) /\ accepted' = accepted \cup {w}
      BY <1>2, <1>3 DEF AppendEntry
    <2>2. wal \in Seq(Line) /\ Once(wal) /\ e \in Line /\ e.write = w
      BY <1>1, <1>3, AgentTypes DEF AgentInv, Copies, Line
    <2> QED BY <1>2, <2>1, <2>2, WithLineKeeps
  <1>7. TypeOK'
    BY <1>1, <1>2, <1>5, <1>6 DEF TypeOK
  <1>8. CutDead' /\ Unmade' /\ SendsBounded'
    BY <1>1 DEF CutDead, Unmade, SendsBounded, RetriesCapped, DuplicatesExplained
  <1>9. Written(wal') \subseteq Written(wal) \cup {w}
    BY <1>3, <1>6, WrittenEntries
  <1>10. Hands(a)' /\ Covered(a)'
    BY <1>4, <1>5, NoLines DEF Hands, Covered
  <1>11. Copies(a)'
    BY <1>1, <1>2, <1>4, <1>5, <1>6, <1>9, NoLines DEF AgentInv, Copies
  <1>12. Counts(a)'
    <2>1. \A f \in Entries(wal) : Fair(f) /\ sent[f.write] <= 2 + f.retries + Faults
      BY <1>1 DEF AgentInv, Counts
    <2>2. Fair(e) /\ sent[e.write] <= 2 + e.retries + Faults
      <3>1. e.write = w /\ e.retries = 0
        BY <1>3
      <3> QED BY <1>1, <1>2, <3>1, AgentTypes DEF Fair, MayResend
    <2>3. \A f \in Entries(wal') : Fair(f) /\ sent[f.write] <= 2 + f.retries + Faults
      BY <1>6, <2>1, <2>2
    <2> QED BY <1>1, <1>4, <1>5, <2>3, NoLines DEF Counts, Fair, MayResend
  <1> QED BY <1>1, <1>7, <1>8, <1>10, <1>11, <1>12 DEF WInv, AgentInv

LEMMA RotateKeeps ==
    ASSUME NEW a, Agents = {a}, WInv, RotateRead(a)
    PROVE  WInv'
  <1>1. /\ a \in Agents /\ TypeOK /\ AgentInv(a) /\ CutDead /\ Unmade /\ SendsBounded
        /\ agent[a].pc = "rotate" /\ wal \in Seq(Line)
        /\ UNCHANGED <<wal, dead, fresh, crashes, failures, Faults, applied, unanswered, sent,
                       accepted, forgotten>>
    BY AgentTypes DEF WInv, RotateRead, server, mishaps, Faults
  <1>2. /\ Once(wal) /\ Written(wal) \cap fresh = {}
        /\ \A e \in Entries(wal) : Fair(e) /\ sent[e.write] <= 2 + e.retries + Faults
    BY <1>1 DEF AgentInv, Copies, Counts
  <1>3. PICK s \in Agent :
          /\ Becomes(a, s)
          /\ \/ s.pc = "idle" /\ s.todo = <<>> /\ s.kept = <<>>
             \/ /\ s.pc = "bury"
                /\ Entries(s.todo) \cup Entries(s.kept)
                     = {e \in Entries(wal) : e.write \notin Splits}
                /\ Half \notin ToSet(s.todo)
                /\ Once(s.todo) /\ Once(s.kept) /\ Written(s.todo) \cap Written(s.kept) = {}
    <2> DEFINE old == Len(wal) - Keep
               t == Read(SubSeq(wal, 1, old))
               k == Read(SubSeq(wal, old + 1, Len(wal)))
    <2>1. CASE old <= 0 \/ ~ Readable(wal)
      <3>1. Becomes(a, Idle)
        BY <2>1 DEF RotateRead
      <3> QED BY <3>1, IdleAgent
    <2>2. CASE ~ (old <= 0 \/ ~ Readable(wal))
      <3>1. old \in 1..Len(wal)
        BY <1>1, <2>2, InFile, BoundsAssumption
      <3>2. /\ t \in Seq(Line) /\ k \in Seq(Line) /\ Half \notin ToSet(t)
            /\ Entries(t) \cup Entries(k) = {e \in Entries(wal) : e.write \notin Splits}
            /\ Once(t) /\ Once(k) /\ Written(t) \cap Written(k) = {}
        BY <1>1, <1>2, <3>1, SplitRead
      <3>3. Becomes(a, [Idle EXCEPT !.pc = "bury", !.todo = t, !.kept = k])
        BY <2>2 DEF RotateRead
      <3> HIDE DEF t, k, old
      <3> DEFINE s == [Idle EXCEPT !.pc = "bury", !.todo = t, !.kept = k]
      <3>4. s \in Agent /\ s.pc = "bury" /\ s.todo = t /\ s.kept = k
        BY <3>2, IdleAgent DEF Agent
      <3> HIDE DEF s
      <3>5. Becomes(a, s)
        BY <3>3 DEF s
      <3> QED BY <3>2, <3>4, <3>5
    <2> QED BY <2>1, <2>2
  <1>4. agent' \in [Agents -> Agent] /\ agent'[a] = s
    BY <1>1, <1>3, BecomesType
  <1>5. TypeOK'
    BY <1>1, <1>4 DEF TypeOK
  <1>6. CutDead' /\ Unmade' /\ SendsBounded'
    BY <1>1 DEF CutDead, Unmade, SendsBounded, RetriesCapped, DuplicatesExplained
  <1>7. Hands(a)'
    BY <1>3, <1>4, NoLines DEF Hands
  <1>8. s.pc = "bury" =>
          /\ Written(s.todo) \cup Written(s.kept) \subseteq Written(wal)
          /\ Written(wal) \subseteq Written(s.todo) \cup Written(s.kept) \cup Splits
    BY <1>3, WrittenEntries
  <1>9. Covered(a)'
    BY <1>1, <1>3, <1>4, <1>8 DEF Covered
  <1>10. Copies(a)'
    BY <1>1, <1>2, <1>3, <1>4, <1>8, NoLines DEF Copies
  <1>11. Counts(a)'
    BY <1>1, <1>2, <1>3, <1>4, NoLines DEF Counts, Fair, MayResend
  <1> QED BY <1>1, <1>5, <1>6, <1>7, <1>9, <1>10, <1>11 DEF WInv, AgentInv

LEMMA BuryKeeps ==
    ASSUME NEW a, Agents = {a}, WInv, Bury(a)
    PROVE  /\ WInv'
           /\ Buried \subseteq Buried' /\ Buried' \subseteq Buried \cup Written(agent[a].todo)
           /\ forgotten \subseteq forgotten'
           /\ forgotten' \subseteq forgotten \cup Written(agent[a].todo)
           /\ forgotten' # forgotten => Faults > 0
  <1>1. /\ a \in Agents /\ TypeOK /\ AgentInv(a) /\ CutDead /\ Unmade /\ SendsBounded
        /\ agent[a].pc = "bury" /\ agent[a] \in Agent /\ dead \subseteq Line
        /\ dead' = Interred(agent[a].todo)
        /\ forgotten' = forgotten \cup Garbled(agent[a].todo)
        /\ UNCHANGED <<wal, fresh, crashes, failures, Faults, applied, unanswered, sent, accepted>>
    BY AgentTypes DEF WInv, Bury, server, mishaps, Faults
  <1>2. PICK s \in Agent : /\ Becomes(a, s) /\ s.pc = "truncate" /\ s.todo = <<>>
                           /\ s.kept = agent[a].kept
    <2>1. [agent[a] EXCEPT !.pc = "truncate", !.todo = <<>>] \in Agent
      BY <1>1, NoLines DEF Agent
    <2>2. Becomes(a, [agent[a] EXCEPT !.pc = "truncate", !.todo = <<>>])
      BY DEF Bury
    <2> QED BY <1>1, <2>1, <2>2 DEF Agent
  <1>3. agent' \in [Agents -> Agent] /\ agent'[a] = s
    BY <1>1, <1>2, BecomesType
  <1>4. PICK t \in Seq(Line) : t = agent[a].todo /\ Half \notin ToSet(t)
    BY <1>1, AgentTypes DEF AgentInv, Hands
  <1>5. /\ dead' \subseteq Line /\ dead \cap Entry \subseteq dead'
        /\ dead' \cap Entry \subseteq dead \cup Entries(t)
        /\ Written(t) \subseteq Graves(dead') \cup Garbled(t)
        /\ Garbled(t) \subseteq Written(t) /\ (Garbled(t) # {} => Half \in dead)
        /\ Half \in dead' => Half \in dead
    BY <1>1, <1>4, InterredKeeps
  <1>6. /\ Buried \subseteq Buried' /\ Buried' \subseteq Buried \cup Written(t)
        /\ Written(t) \subseteq Buried' \cup forgotten'
    <2>1. Graves(dead) \subseteq Graves(dead')
      BY <1>5 DEF Graves
    <2>2. Graves(dead') \subseteq Graves(dead) \cup Written(t)
      BY <1>5, WrittenEntries DEF Graves
    <2> QED BY <1>1, <1>4, <1>5, <2>1, <2>2, OldBuried
  <1>7. TypeOK'
    <2>1. Written(t) \subseteq Writes
      BY EntryType DEF Written
    <2> QED BY <1>1, <1>3, <1>4, <1>5, <2>1 DEF TypeOK
  <1>8. CutDead' /\ Unmade' /\ SendsBounded'
    BY <1>1, <1>5 DEF CutDead, Unmade, SendsBounded, RetriesCapped, DuplicatesExplained
  <1>9. Hands(a)'
    BY <1>2, <1>3, NoLines DEF Hands
  <1>10. Covered(a)'
    BY <1>1, <1>2, <1>3, <1>4, <1>6 DEF AgentInv, Covered
  <1>11. Copies(a)'
    BY <1>1, <1>2, <1>3, NoLines DEF AgentInv, Copies
  <1>12. Counts(a)'
    BY <1>1, <1>2, <1>3, NoLines DEF AgentInv, Counts, Fair, MayResend
  <1>13. WInv'
    BY <1>1, <1>7, <1>8, <1>9, <1>10, <1>11, <1>12 DEF WInv, AgentInv
  <1> QED BY <1>1, <1>4, <1>5, <1>6, <1>13 DEF CutDead

LEMMA BeginKeeps ==
    ASSUME NEW a, Agents = {a}, WInv, BeginReplay(a)
    PROVE  WInv'
  <1>1. /\ a \in Agents /\ TypeOK /\ AgentInv(a) /\ CutDead /\ Unmade /\ SendsBounded
        /\ agent[a].pc = "idle" /\ wal \in Seq(Line)
        /\ UNCHANGED <<wal, dead, fresh, crashes, failures, Faults, applied, unanswered, sent,
                       accepted, forgotten>>
    BY AgentTypes DEF WInv, BeginReplay, server, mishaps, Faults
  <1>0. PICK t \in Seq(Line) :
          /\ t = Read(wal) /\ Half \notin ToSet(t) /\ Once(t)
          /\ Entries(t) = {e \in Entries(wal) : e.write \notin Splits}
    BY <1>1, ReadKeeps DEF AgentInv, Copies
  <1>2. PICK s \in Agent : /\ Becomes(a, s) /\ s.pc = "replay" /\ s.todo = t
                           /\ s.kept = <<>>
    <2> DEFINE s == [Idle EXCEPT !.pc = "replay", !.todo = t]
    <2>1. s \in Agent /\ s.pc = "replay" /\ s.todo = t /\ s.kept = <<>>
      BY <1>1, IdleAgent DEF Agent
    <2>2. Becomes(a, s)
      BY <1>0 DEF BeginReplay
    <2> HIDE DEF s
    <2> QED BY <2>1, <2>2
  <1>3. agent' \in [Agents -> Agent] /\ agent'[a] = s
    BY <1>1, <1>2, BecomesType
  <1>4. TypeOK'
    BY <1>1, <1>3 DEF TypeOK
  <1>5. CutDead' /\ Unmade' /\ SendsBounded'
    BY <1>1 DEF CutDead, Unmade, SendsBounded, RetriesCapped, DuplicatesExplained
  <1>6. Hands(a)' /\ Covered(a)'
    <2>1. Written(wal) \subseteq Written(t) \cup Splits
      BY <1>0, WrittenEntries
    <2> QED BY <1>0, <1>1, <1>2, <1>3, <2>1 DEF Hands, Covered
  <1>7. Copies(a)'
    BY <1>0, <1>1, <1>2, <1>3, NoLines DEF AgentInv, Copies
  <1>8. Counts(a)'
    BY <1>0, <1>1, <1>2, <1>3, NoLines DEF AgentInv, Counts, Fair, MayResend
  <1> QED BY <1>1, <1>4, <1>5, <1>6, <1>7, <1>8 DEF WInv, AgentInv

\* The line that a replay takes next.
LEMMA NextLine ==
    ASSUME NEW a \in Agents, TypeOK, AgentInv(a), agent[a].pc = "replay", agent[a].todo # <<>>
    PROVE  LET s == agent[a]
               e == Head(s.todo)
               t == Tail(s.todo)
           IN  /\ e \in Line /\ t \in Seq(Line) /\ Once(t) /\ Half \notin ToSet(t)
               /\ Entries(t) \subseteq Entries(s.todo)
               /\ e \notin Entry => Entries(t) = Entries(s.todo)
               /\ e \in Entry =>
                    /\ Entries(s.todo) = Entries(t) \cup {e} /\ e \in Entries(wal)
                    /\ e.write \notin Written(t) /\ e.write \notin Written(s.kept)
                    /\ Fair(e) /\ e.write \in Writes
  <1> DEFINE s == agent[a]
             e == Head(s.todo)
             t == Tail(s.todo)
  <1>1. s.todo \in Seq(Line) /\ s.todo # <<>> /\ Once(s.todo)
    BY AgentTypes DEF AgentInv, Copies
  <1>2. /\ e \in Line /\ t \in Seq(Line) /\ Once(t)
        /\ ToSet(s.todo) = {e} \cup ToSet(t)
        /\ e \in Entry => e.write \notin Written(t)
    BY <1>1, HeadAndTail
  <1>3. /\ Entries(t) \subseteq Entries(s.todo)
        /\ e \notin Entry => Entries(t) = Entries(s.todo)
        /\ e \in Entry => Entries(s.todo) = Entries(t) \cup {e}
    BY <1>2 DEF Entries
  <1>4. ASSUME e \in Entry
        PROVE  /\ e \in Entries(wal) /\ e.write \notin Written(s.kept)
               /\ Fair(e) /\ e.write \in Writes
    <2>1. e \in Entries(s.todo) /\ e.write \in Written(s.todo)
      BY <1>3, <1>4, WrittenEntries
    <2>2. /\ Entries(s.todo) \subseteq Entries(wal) /\ Written(s.todo) \cap Written(s.kept) = {}
          /\ \A f \in Entries(s.todo) : Fair(f)
      BY DEF AgentInv, Copies, Counts
    <2> HIDE DEF e, s
    <2> QED BY <1>4, <2>1, <2>2, EntryType
  <1>5. Half \notin ToSet(t)
    BY <1>2 DEF AgentInv, Hands
  <1> QED BY <1>2, <1>3, <1>4, <1>5

\* A line that is passed over: it is no entry, or goes to the dead file, or
\* should have gone there.
LEMMA PassedKeeps ==
    ASSUME NEW a, Agents = {a}, WInv, agent[a].pc = "replay", agent[a].todo # <<>>,
           Becomes(a, [agent[a] EXCEPT !.todo = Tail(@)]),
           UNCHANGED <<wal, fresh, applied, unanswered, sent, accepted>>,
           crashes' \in 0..MaxCrashes, failures' \in 0..MaxFailures,
           Faults' \in {Faults, Faults + 1}, CutDead',
           dead' \subseteq Line, Buried \subseteq Buried',
           forgotten \subseteq forgotten', forgotten' \subseteq Writes,
           Head(agent[a].todo) \in Entry => Head(agent[a].todo).write \in Buried' \cup forgotten'
    PROVE  WInv'
  <1> DEFINE e == Head(agent[a].todo)
             t == Tail(agent[a].todo)
  <1>1. /\ a \in Agents /\ TypeOK /\ AgentInv(a) /\ CutDead /\ Unmade /\ SendsBounded
        /\ agent[a] \in Agent
    BY AgentTypes DEF WInv
  <1>2. /\ t \in Seq(Line) /\ Once(t) /\ Entries(t) \subseteq Entries(agent[a].todo)
        /\ Half \notin ToSet(t)
        /\ e \notin Entry => Entries(t) = Entries(agent[a].todo)
        /\ e \in Entry => Entries(agent[a].todo) = Entries(t) \cup {e}
    BY <1>1, NextLine
  <1>3. PICK s \in Agent : /\ Becomes(a, s) /\ s.pc = "replay" /\ s.todo = t
                           /\ s.kept = agent[a].kept
    <2> DEFINE r == [agent[a] EXCEPT !.todo = t]
    <2> HIDE DEF t
    <2>1. r \in Agent /\ r.pc = "replay" /\ r.todo = t /\ r.kept = agent[a].kept
      BY <1>1, <1>2 DEF Agent
    <2>2. Becomes(a, r)
      BY DEF t
    <2> HIDE DEF r
    <2> QED BY <2>1, <2>2
  <1>4. agent' \in [Agents -> Agent] /\ agent'[a] = s
    BY <1>1, <1>3, BecomesType
  <1>5. TypeOK'
    BY <1>1, <1>4 DEF TypeOK
  <1>6. Unmade' /\ SendsBounded'
    BY <1>1, MoreFaults DEF Unmade
  <1>7. Hands(a)'
    BY <1>2, <1>3, <1>4 DEF Hands
  <1>8. /\ Written(t) \subseteq Written(agent[a].todo)
        /\ \A w \in Written(agent[a].todo) : w \in Written(t) \/ (e \in Entry /\ w = e.write)
    BY <1>2, WrittenEntries
  <1> HIDE DEF e, t
  <1>9. e \in Entry => e.write \in Buried' \cup forgotten'
    BY DEF e
  <1>10. Covered(a)'
    BY <1>1, <1>3, <1>4, <1>8, <1>9 DEF AgentInv, Covered
  <1>11. Copies(a)'
    BY <1>1, <1>2, <1>3, <1>4, <1>8 DEF AgentInv, Copies
  <1>12. Counts(a)'
    <2>1. \A f \in Entries(t) \cup Entries(s.kept) : Fair(f)
      BY <1>1, <1>2, <1>3 DEF AgentInv, Counts
    <2>2. \A f \in Entries(wal) : sent[f.write] <= 2 + f.retries + Faults
      BY <1>1 DEF AgentInv, Counts
    <2>3. /\ TypeOK /\ SendsBounded /\ Faults' \in {Faults, Faults + 1}
          /\ UNCHANGED <<applied, unanswered, sent>>
      BY <1>1
    <2>4. ASSUME NEW f \in Entries(t) \cup Entries(s.kept) PROVE Fair(f)'
      <3>1. PICK w \in Writes, r \in Nat : w = f.write /\ r = f.retries
        BY EntryType DEF Entries
      <3>2. sent[w] <= 1 + r + Faults /\ applied[w] <= unanswered[w] + Faults
        BY <2>1, <3>1 DEF Fair, MayResend
      <3>3. sent'[w] <= 1 + r + Faults' /\ applied'[w] <= unanswered'[w] + Faults'
        BY <2>3, <3>2, FaultRoom
      <3> QED BY <3>1, <3>3 DEF Fair, MayResend
    <2>5. ASSUME NEW f \in Entries(wal) PROVE sent'[f.write] <= 2 + f.retries + Faults'
      <3>1. PICK w \in Writes, r \in Nat : w = f.write /\ r = f.retries
        BY EntryType DEF Entries
      <3>2. sent'[w] <= 2 + r + Faults'
        BY <2>2, <2>3, <3>1, FaultRoom
      <3> QED BY <3>1, <3>2
    <2> QED BY <1>3, <1>4, <2>4, <2>5 DEF Counts
  <1> QED BY <1>1, <1>5, <1>6, <1>7, <1>10, <1>11, <1>12 DEF WInv, AgentInv

LEMMA SendKeeps ==
    ASSUME NEW a, Agents = {a}, WInv, NEW outcome \in Outcomes, ReplaySend(a, outcome)
    PROVE  WInv'
  <1>1. /\ a \in Agents /\ TypeOK /\ AgentInv(a) /\ CutDead /\ Unmade /\ SendsBounded
        /\ agent[a] \in Agent
        /\ agent[a].pc = "replay" /\ agent[a].todo # <<>>
        /\ UNCHANGED <<wal, dead, fresh, crashes, failures, Faults, accepted, forgotten>>
    BY AgentTypes DEF WInv, ReplaySend, At, mishaps, Faults
  <1>2. PICK e \in Entry : /\ e = Head(agent[a].todo) /\ ~ Exhausted(e) /\ Post(e.write, outcome)
                           /\ Becomes(a, AfterSend(agent[a], e, Answered(outcome)))
    BY DEF ReplaySend, At
  <1>3. PICK w \in Writes : w = e.write
    BY EntryType
  <1>4. PICK t \in Seq(Line) : t = Tail(agent[a].todo)
    BY <1>1, NextLine
  <1>5. PICK k \in Seq(Line) : k = agent[a].kept
    BY <1>1, AgentTypes
  <1>6. /\ Once(t) /\ Half \notin ToSet(t)
        /\ Entries(agent[a].todo) = Entries(t) \cup {e} /\ e \in Entries(wal)
        /\ w \notin Written(t) /\ w \notin Written(k) /\ Fair(e)
    BY <1>1, <1>2, <1>3, <1>4, <1>5, NextLine
  <1>7. e.retries \in Nat /\ e.retries < MaxRetries /\ Post(w, outcome)
    BY <1>2, <1>3, EntryType, BoundsAssumption DEF Exhausted
  <1>8. PICK f \in Entry : /\ f = [e EXCEPT !.retries = @ + 1]
                           /\ f.write = w /\ f.retries = e.retries + 1
    <2>1. [e EXCEPT !.retries = @ + 1] \in Entry
      BY <1>7, BoundsAssumption DEF Entry
    <2>2. /\ [e EXCEPT !.retries = @ + 1].write = w
          /\ [e EXCEPT !.retries = @ + 1].retries = e.retries + 1
      BY <1>3 DEF Entry
    <2> QED BY <2>1, <2>2
  <1>9. PICK s \in Agent :
          /\ Becomes(a, s) /\ s.pc = "replay" /\ s.todo = t /\ Once(s.kept)
          /\ \/ Answered(outcome) /\ s.kept = k
             \/ /\ ~ Answered(outcome) /\ Entries(s.kept) = Entries(k) \cup {f}
                /\ Written(s.kept) = Written(k) \cup {w}
    <2>0. Once(k)
      BY <1>1, <1>5 DEF AgentInv, Copies
    <2>1. /\ Append(k, f) \in Seq(Line) /\ Entries(Append(k, f)) = Entries(k) \cup {f}
          /\ Once(Append(k, f))
      <3>1. f \in Line /\ f.write \notin Written(k)
        BY <1>6, <1>8 DEF Line
      <3>2. /\ Append(k, f) \in Seq(Line) /\ ToSet(Append(k, f)) = ToSet(k) \cup {f}
            /\ Once(Append(k, f))
        BY <2>0, <3>1, AppendLine
      <3> QED BY <1>8, <3>2 DEF Entries
    <2>2. Written(Append(k, f)) = Written(k) \cup {w}
      BY <1>8, <2>1, WrittenEntries
    <2>3. CASE Answered(outcome)
      <3> DEFINE r == [agent[a] EXCEPT !.todo = t, !.kept = k]
      <3>1. r \in Agent /\ r.pc = "replay" /\ r.todo = t /\ r.kept = k
        BY <1>1 DEF Agent
      <3>2. Becomes(a, r)
        BY <1>2, <1>4, <1>5, <2>3 DEF AfterSend, Answered
      <3> HIDE DEF r
      <3> QED BY <2>0, <2>3, <3>1, <3>2
    <2>4. CASE ~ Answered(outcome)
      <3> DEFINE r == [agent[a] EXCEPT !.todo = t, !.kept = Append(k, f)]
      <3>1. r \in Agent /\ r.pc = "replay" /\ r.todo = t /\ r.kept = Append(k, f)
        BY <1>1, <2>1 DEF Agent
      <3>2. Becomes(a, r)
        BY <1>2, <1>4, <1>5, <1>8, <2>4 DEF AfterSend, Answered
      <3> HIDE DEF r
      <3> QED BY <2>1, <2>2, <2>4, <3>1, <3>2
    <2> QED BY <2>3, <2>4
  <1>10. agent' \in [Agents -> Agent] /\ agent'[a] = s
    BY <1>1, <1>9, BecomesType
  <1>11. /\ applied' \in [Writes -> Nat] /\ unanswered' \in [Writes -> Nat]
         /\ sent' \in [Writes -> Nat]
         /\ \A v \in Writes : v # w => /\ applied'[v] = applied[v] /\ sent'[v] = sent[v]
                                       /\ unanswered'[v] = unanswered[v]
         /\ sent'[w] = sent[w] + 1
         /\ applied'[w] = applied[w] \/ applied'[w] = applied[w] + 1
         /\ Answered(outcome) => /\ applied'[w] = applied[w] + 1
                                 /\ unanswered'[w] = unanswered[w]
         /\ ~ Answered(outcome) =>
              applied'[w] + unanswered[w] = applied[w] + unanswered'[w]
    BY <1>1, <1>7, Posted
  <1>12. TypeOK'
    BY <1>1, <1>10, <1>11 DEF TypeOK
  <1>13. /\ Faults \in Nat /\ sent[w] \in Nat /\ applied[w] \in Nat /\ unanswered[w] \in Nat
         /\ applied'[w] \in Nat /\ unanswered'[w] \in Nat
         /\ sent[w] <= 1 + e.retries + Faults /\ applied[w] <= unanswered[w] + Faults
    BY <1>1, <1>3, <1>6, <1>11, AgentTypes DEF Fair, MayResend
  <1>14. /\ sent'[w] <= 2 + e.retries + Faults
         /\ sent'[w] <= 1 + MaxRetries + Faults
         /\ applied'[w] <= 1 + unanswered'[w] + Faults
         /\ ~ Answered(outcome) => MayResend(w, f.retries)'
    <2>1. sent'[w] = sent[w] + 1 /\ Faults' = Faults /\ f.retries = e.retries + 1
      BY <1>1, <1>8, <1>11
    <2>2. applied'[w] <= 1 + unanswered'[w] + Faults
      BY <1>11, <1>13, SMTT(20)
    <2>3. ~ Answered(outcome) => applied'[w] <= unanswered'[w] + Faults
      BY <1>11, <1>13
    <2>4. sent'[w] <= 2 + e.retries + Faults /\ sent'[w] <= 1 + f.retries + Faults'
      BY <1>7, <1>13, <2>1, SMTT(20)
    <2>5. sent'[w] <= 1 + MaxRetries + Faults
      BY <1>7, <1>13, <2>1, BoundsAssumption
    <2>6. ~ Answered(outcome) => MayResend(w, f.retries)'
      <3>1. applied'[w] <= unanswered'[w] + Faults' <=> applied'[w] <= unanswered'[w] + Faults
        BY <2>1
      <3> QED BY <1>13, <2>3, <2>4, <3>1 DEF MayResend
    <2> QED BY <2>2, <2>4, <2>5, <2>6
  <1>15. CutDead' /\ Unmade'
    <2>1. w \notin fresh
      BY <1>1, <1>3, <1>6, WrittenEntries DEF AgentInv, Copies
    <2> QED BY <1>1, <1>11, <2>1 DEF CutDead, Unmade, TypeOK
  <1>16. SendsBounded'
    <2> SUFFICES ASSUME NEW v \in Writes
                 PROVE  /\ sent'[v] <= 1 + MaxRetries + Faults'
                        /\ applied'[v] <= 1 + unanswered'[v] + Faults'
      BY DEF SendsBounded, RetriesCapped, DuplicatesExplained
    <2>1. CASE v = w
      BY <1>1, <1>14, <2>1
    <2>2. CASE v # w
      BY <1>1, <1>11, <2>2 DEF SendsBounded, RetriesCapped, DuplicatesExplained
    <2> QED BY <2>1, <2>2
  <1>17. /\ Written(agent[a].todo) = Written(t) \cup {w}
         /\ w \in Written(wal)
    BY <1>3, <1>6, WrittenEntries
  <1>18. Hands(a)'
    BY <1>6, <1>9, <1>10 DEF Hands
  <1>19. Covered(a)'
    <2> SUFFICES ASSUME NEW v \in Written(wal)
                 PROVE  \/ v \in Written(t) \cup Written(s.kept) \cup Splits
                        \/ v \in Buried \cup forgotten
                        \/ applied'[v] > 0
      BY <1>1, <1>9, <1>10 DEF Covered, Buried
    <2>1. v \in Writes
      BY EntryType, WrittenEntries DEF Entries
    <2>2. \/ v \in Written(t) \cup {w} \cup Written(k) \cup Splits
          \/ v \in Buried \cup forgotten \/ applied[v] > 0
      BY <1>1, <1>5, <1>17 DEF AgentInv, Covered
    <2>3. CASE v = w
      BY <1>9, <1>11, <1>13, <2>3
    <2>4. CASE v # w
      BY <1>9, <1>11, <2>1, <2>2, <2>4
    <2> QED BY <2>3, <2>4
  <1>20. Copies(a)'
    <2>1. /\ Once(wal) /\ Written(t) \cap Written(k) = {} /\ Entries(t) \subseteq Entries(wal)
          /\ Written(k) \subseteq Written(wal) /\ Written(wal) \cap fresh = {}
      BY <1>1, <1>5, <1>6, <1>17 DEF AgentInv, Copies
    <2>2. /\ Written(t) \cap Written(s.kept) = {} /\ Written(s.kept) \subseteq Written(wal)
      BY <1>6, <1>9, <1>17, <2>1
    <2> QED BY <1>1, <1>6, <1>9, <1>10, <2>1, <2>2 DEF Copies
  <1>21. Counts(a)'
    <2>1. ASSUME NEW g \in Entries(t) \cup Entries(k) PROVE Fair(g)'
      <3>1. Fair(g) /\ g.write \in Writes /\ g.write # w
        BY <1>1, <1>5, <1>6, EntryType, WrittenEntries DEF AgentInv, Counts, Entries
      <3> QED BY <1>1, <1>11, <3>1 DEF Fair, MayResend
    <2>2. ~ Answered(outcome) => Fair(f)'
      BY <1>8, <1>14 DEF Fair
    <2>3. ASSUME NEW g \in Entries(wal) PROVE sent'[g.write] <= 2 + g.retries + Faults
      <3>1. CASE g.write = w
        <4>1. g = e
          BY <1>1, <1>3, <1>6, <3>1, OneEntry DEF AgentInv, Copies
        <4> QED BY <1>3, <1>14, <4>1
      <3>2. CASE g.write # w
        <4>1. g.write \in Writes /\ sent[g.write] <= 2 + g.retries + Faults
          BY <1>1, EntryType DEF AgentInv, Counts, Entries
        <4> QED BY <1>11, <3>2, <4>1
      <3> QED BY <3>1, <3>2
    <2>4. \A g \in Entries(t) \cup Entries(s.kept) : Fair(g)'
      BY <1>9, <2>1, <2>2
    <2> QED BY <1>1, <1>9, <1>10, <2>3, <2>4 DEF Counts, Fair, MayResend
  <1> QED BY <1>1, <1>12, <1>15, <1>16, <1>18, <1>19, <1>20, <1>21 DEF WInv, AgentInv

\* What an entry at its last retry adds to the dead file.
LEMMA ReplayBuried ==
    ASSUME NEW a, Agents = {a}, WInv, ReplayBury(a)
    PROVE  \E e \in Entry :
             /\ agent[a].pc = "replay" /\ agent[a].todo # <<>> /\ e = Head(agent[a].todo)
             /\ Buried \subseteq Buried' /\ Buried' \subseteq Buried \cup {e.write}
             /\ forgotten \subseteq forgotten' /\ forgotten' \subseteq forgotten \cup {e.write}
             /\ e.write \in Buried' \cup forgotten'
             /\ forgotten' # forgotten => Faults > 0
             /\ dead' \subseteq Line /\ (Half \in dead' => Half \in dead)
  <1>1. TypeOK /\ dead \subseteq Line /\ CutDead
    BY DEF WInv, TypeOK
  <1>2. PICK e \in Entry : /\ agent[a].pc = "replay" /\ agent[a].todo # <<>>
                           /\ e = Head(agent[a].todo)
                           /\ dead' = Interred(<<e>>) /\ forgotten' = forgotten \cup Garbled(<<e>>)
    BY DEF ReplayBury, At
  <1>3. PICK s \in Seq(Line) : s = <<e>> /\ ToSet(s) = {e}
    <2>1. e \in Line
      BY DEF Line
    <2>2. <<e>> \in Seq(Line) /\ Len(<<e>>) = 1 /\ <<e>>[1] = e
      BY <2>1
    <2>3. DOMAIN <<e>> = {1}
      BY <2>2
    <2> QED BY <2>2, <2>3 DEF ToSet
  <1>4. Entries(s) = {e} /\ Written(s) = {e.write} /\ Half \notin ToSet(s)
    BY <1>3, LineKinds DEF Entries, Written
  <1>5. /\ dead' \subseteq Line /\ dead \cap Entry \subseteq dead'
        /\ dead' \cap Entry \subseteq dead \cup Entries(s)
        /\ Written(s) \subseteq Graves(dead') \cup Garbled(s)
        /\ Garbled(s) \subseteq Written(s) /\ (Garbled(s) # {} => Half \in dead)
        /\ Half \in dead' => Half \in dead
    BY <1>1, <1>2, <1>3, <1>4, InterredKeeps
  <1>6. Graves(dead) \subseteq Graves(dead')
    BY <1>5 DEF Graves
  <1>7. Graves(dead') \subseteq Graves(dead) \cup {e.write}
    BY <1>4, <1>5 DEF Graves
  <1>8. forgotten' = forgotten \cup Garbled(s)
    BY <1>2, <1>3
  <1> QED BY <1>1, <1>2, <1>4, <1>5, <1>6, <1>7, <1>8, OldBuried DEF CutDead

LEMMA ReplayBuryKeeps ==
    ASSUME NEW a, Agents = {a}, WInv, ReplayBury(a)
    PROVE  WInv'
  <1>1. /\ a \in Agents /\ TypeOK /\ CutDead
        /\ Becomes(a, [agent[a] EXCEPT !.todo = Tail(@)])
        /\ UNCHANGED <<wal, fresh, crashes, failures, Faults, applied, unanswered, sent, accepted>>
    BY DEF WInv, ReplayBury, AfterBury, server, mishaps, Faults
  <1>2. PICK e \in Entry :
          /\ agent[a].pc = "replay" /\ agent[a].todo # <<>> /\ e = Head(agent[a].todo)
          /\ Buried \subseteq Buried' /\ forgotten \subseteq forgotten'
          /\ forgotten' \subseteq forgotten \cup {e.write} /\ e.write \in Buried' \cup forgotten'
          /\ dead' \subseteq Line /\ (Half \in dead' => Half \in dead)
    BY ReplayBuried
  <1>3. CutDead' /\ forgotten' \subseteq Writes
    BY <1>1, <1>2, EntryType DEF CutDead, TypeOK
  <1>4. crashes' \in 0..MaxCrashes /\ failures' \in 0..MaxFailures
    BY <1>1 DEF TypeOK
  <1> QED BY <1>1, <1>2, <1>3, <1>4, PassedKeeps

LEMMA BuryFailsKeeps ==
    ASSUME NEW a, Agents = {a}, WInv, ReplayBuryFails(a)
    PROVE  WInv' /\ Buried' = Buried /\ Faults' = Faults + 1
  <1>1. /\ a \in Agents /\ TypeOK /\ Faults \in Nat /\ crashes \in Nat /\ failures \in Nat
    BY AgentTypes DEF WInv
  <1>2. PICK e \in Entry :
          /\ agent[a].pc = "replay" /\ agent[a].todo # <<>> /\ e = Head(agent[a].todo)
          /\ forgotten' = forgotten \cup {e.write} /\ dead' \in {dead, dead \cup {Half}}
    BY DEF ReplayBuryFails, At
  <1>3. /\ Becomes(a, [agent[a] EXCEPT !.todo = Tail(@)])
        /\ failures < MaxFailures /\ failures' = failures + 1 /\ crashes' = crashes
        /\ UNCHANGED <<wal, fresh, applied, unanswered, sent, accepted>>
    BY DEF ReplayBuryFails, AfterBury, server
  <1>4. Faults' = Faults + 1
    BY <1>1, <1>3 DEF Faults
  <1>5. crashes' \in 0..MaxCrashes /\ failures' \in 0..MaxFailures
    BY <1>1, <1>3, BoundsAssumption DEF TypeOK
  <1>6. CutDead'
    BY <1>1, <1>4 DEF CutDead
  <1>7. dead' \subseteq Line /\ dead' \cap Entry = dead \cap Entry /\ forgotten' \subseteq Writes
    BY <1>1, <1>2, LineKinds, EntryType DEF TypeOK
  <1>8. Buried' = Buried
    BY <1>7 DEF Buried
  <1>9. WInv'
    BY <1>1, <1>2, <1>3, <1>4, <1>5, <1>6, <1>7, <1>8, PassedKeeps
  <1> QED BY <1>4, <1>8, <1>9

LEMMA ReplayDropKeeps ==
    ASSUME NEW a, Agents = {a}, WInv, ReplayDrop(a)
    PROVE  WInv'
  <1>1. /\ a \in Agents /\ TypeOK /\ CutDead /\ dead \subseteq Line
        /\ agent[a].pc = "replay" /\ agent[a].todo # <<>>
        /\ Head(agent[a].todo) \notin Entry
        /\ Becomes(a, [agent[a] EXCEPT !.todo = Tail(@)])
        /\ UNCHANGED <<wal, dead, fresh, crashes, failures, Faults, applied, unanswered, sent,
                       accepted, forgotten>>
    BY LineKinds DEF WInv, TypeOK, ReplayDrop, At, server, mishaps, Faults
  <1>2. /\ CutDead' /\ dead' \subseteq Line /\ forgotten' \subseteq Writes
        /\ crashes' \in 0..MaxCrashes /\ failures' \in 0..MaxFailures
    BY <1>1 DEF CutDead, TypeOK
  <1>3. Buried' = Buried
    BY <1>1 DEF Buried
  <1> QED BY <1>1, <1>2, <1>3, PassedKeeps

LEMMA ReplayEndsKeeps ==
    ASSUME NEW a, Agents = {a}, WInv, ReplayEnds(a)
    PROVE  WInv'
  <1>1. /\ a \in Agents /\ TypeOK /\ AgentInv(a) /\ CutDead /\ Unmade /\ SendsBounded
        /\ agent[a].pc = "replay" /\ agent[a].todo = <<>> /\ agent[a] \in Agent
        /\ UNCHANGED <<wal, dead, fresh, crashes, failures, Faults, applied, unanswered, sent,
                       accepted, forgotten>>
    BY AgentTypes DEF WInv, ReplayEnds, server, mishaps, Faults
  <1>2. PICK s \in Agent : /\ Becomes(a, s) /\ s.pc = "truncate" /\ s.todo = agent[a].todo
                           /\ s.kept = agent[a].kept
    <2> DEFINE s == [agent[a] EXCEPT !.pc = "truncate"]
    <2>1. s \in Agent /\ s.pc = "truncate" /\ s.todo = agent[a].todo /\ s.kept = agent[a].kept
      BY <1>1 DEF Agent
    <2>2. Becomes(a, s)
      BY DEF ReplayEnds
    <2> HIDE DEF s
    <2> QED BY <2>1, <2>2
  <1>3. agent' \in [Agents -> Agent] /\ agent'[a] = s
    BY <1>1, <1>2, BecomesType
  <1>4. TypeOK'
    BY <1>1, <1>3 DEF TypeOK
  <1>5. CutDead' /\ Unmade' /\ SendsBounded'
    BY <1>1 DEF CutDead, Unmade, SendsBounded, RetriesCapped, DuplicatesExplained
  <1>6. Hands(a)' /\ Covered(a)' /\ Copies(a)'
    BY <1>1, <1>2, <1>3 DEF AgentInv, Hands, Covered, Copies, Buried
  <1>7. Counts(a)'
    BY <1>1, <1>2, <1>3 DEF AgentInv, Counts, Fair, MayResend
  <1> QED BY <1>1, <1>4, <1>5, <1>6, <1>7 DEF WInv, AgentInv

LEMMA TruncateKeeps ==
    ASSUME NEW a, Agents = {a}, WInv, Truncate(a)
    PROVE  WInv'
  <1>1. /\ a \in Agents /\ TypeOK /\ AgentInv(a) /\ CutDead /\ Unmade /\ SendsBounded
        /\ agent[a].pc = "truncate" /\ agent[a] \in Agent /\ wal' = <<>>
        /\ UNCHANGED <<dead, fresh, crashes, failures, Faults, applied, unanswered, sent,
                       accepted, forgotten>>
    BY AgentTypes DEF WInv, Truncate, server, mishaps, Faults
  <1>2. PICK s \in Agent : /\ Becomes(a, s) /\ s.pc = "fill" /\ s.todo = agent[a].todo
                           /\ s.kept = agent[a].kept
    <2> DEFINE s == [agent[a] EXCEPT !.pc = "fill"]
    <2>1. s \in Agent /\ s.pc = "fill" /\ s.todo = agent[a].todo /\ s.kept = agent[a].kept
      BY <1>1 DEF Agent
    <2>2. Becomes(a, s)
      BY DEF Truncate
    <2> HIDE DEF s
    <2> QED BY <2>1, <2>2
  <1>3. agent' \in [Agents -> Agent] /\ agent'[a] = s
    BY <1>1, <1>2, BecomesType
  <1>4. TypeOK'
    BY <1>1, <1>3, NoLines DEF TypeOK
  <1>5. CutDead' /\ Unmade' /\ SendsBounded'
    BY <1>1 DEF CutDead, Unmade, SendsBounded, RetriesCapped, DuplicatesExplained
  <1>6. Hands(a)' /\ Covered(a)'
    BY <1>1, <1>2, <1>3 DEF AgentInv, Hands, Covered
  <1>7. Copies(a)'
    BY <1>1, <1>2, <1>3, NoLines DEF AgentInv, Copies
  <1>8. Counts(a)'
    BY <1>1, <1>2, <1>3, NoLines DEF AgentInv, Counts, Fair, MayResend
  <1> QED BY <1>1, <1>4, <1>5, <1>6, <1>7, <1>8 DEF WInv, AgentInv

LEMMA NothingOverwritten ==
    ASSUME NEW text \in Seq(Line)
    PROVE  Overwritten(<<>>, text) = {text}
  <1>1. Overwritten(<<>>, text) = {text \o <<>>}
    BY DEF Overwritten
  <1> QED BY <1>1, ConcatEmptySeq

LEMMA FillKeeps ==
    ASSUME NEW a, Agents = {a}, WInv, Fill(a)
    PROVE  WInv' /\ wal' = agent[a].kept /\ wal = <<>> /\ agent'[a] = Idle
  <1>1. /\ a \in Agents /\ TypeOK /\ AgentInv(a) /\ CutDead /\ Unmade /\ SendsBounded
        /\ agent[a].pc = "fill" /\ agent[a].kept \in Seq(Line) /\ Faults \in Nat
        /\ UNCHANGED <<dead, fresh, crashes, failures, Faults, applied, unanswered, sent,
                       accepted, forgotten>>
        /\ Becomes(a, Idle)
    BY AgentTypes DEF WInv, Fill, server, mishaps, Faults
  <1>2. agent' \in [Agents -> Agent] /\ agent'[a] = Idle
    BY <1>1, BecomesType, IdleAgent
  <1>3. wal = <<>>
    BY <1>1 DEF AgentInv, Hands
  <1>4. wal' = agent[a].kept
    BY <1>1, <1>3, NothingOverwritten DEF Fill
  <1>5. TypeOK'
    BY <1>1, <1>2, <1>4 DEF TypeOK
  <1>6. CutDead' /\ Unmade' /\ SendsBounded'
    BY <1>1 DEF CutDead, Unmade, SendsBounded, RetriesCapped, DuplicatesExplained
  <1>7. Hands(a)' /\ Covered(a)'
    BY <1>2, IdleAgent, NoLines DEF Hands, Covered
  <1>8. Copies(a)'
    BY <1>1, <1>2, <1>4, IdleAgent, NoLines DEF AgentInv, Copies
  <1>9. Counts(a)'
    <2>1. ASSUME NEW e \in Entries(wal')
          PROVE  Fair(e)' /\ sent'[e.write] <= 2 + e.retries + Faults'
      <3>1. Fair(e)
        BY <1>1, <1>4, <2>1 DEF AgentInv, Counts
      <3>2. e.retries \in Nat /\ sent[e.write] \in Nat
        BY <1>1, EntryType, AgentTypes DEF Entries
      <3> QED BY <1>1, <3>1, <3>2 DEF Fair, MayResend
    <2> QED BY <1>2, <2>1, IdleAgent, NoLines DEF Counts
  <1> QED BY <1>1, <1>2, <1>3, <1>4, <1>5, <1>6, <1>7, <1>8, <1>9 DEF WInv, AgentInv

\* What a stop leaves of the text that an agent was writing.
LEMMA PartKeeps ==
    ASSUME NEW s \in Seq(Line), Once(s), NEW p \in PartsOf(s)
    PROVE  p \in Seq(Line) /\ Entries(p) \subseteq Entries(s) /\ Once(p)
  <1>1. PICK n \in 0..Len(s) : \/ p = SubSeq(s, 1, n)
                               \/ \E c \in Cut : p = Append(SubSeq(s, 1, n), c)
    <2>1. Len(s) \in Nat /\ \A n \in 0..Len(s) - 1 : n \in 0..Len(s)
      BY InFile
    <2> QED BY <2>1 DEF PartsOf
  <1>2. PICK t \in Seq(Line) : t = SubSeq(s, 1, n) /\ Entries(t) \subseteq Entries(s) /\ Once(t)
    BY FirstLines DEF Entries
  <1>3. CASE p = t
    BY <1>2, <1>3
  <1>4. CASE p # t
    <2>1. PICK c \in Cut : p = Append(t, c)
      BY <1>1, <1>2, <1>4
    <2>2. c \in Line /\ c \notin Entry
      BY LineKinds
    <2>3. p \in Seq(Line) /\ ToSet(p) = ToSet(t) \cup {c} /\ Once(p)
      BY <1>2, <2>1, <2>2, AppendLine
    <2> QED BY <1>2, <2>2, <2>3 DEF Entries
  <1> QED BY <1>3, <1>4

\* What a stop leaves of the log and of the dead file.
LEMMA LeftKeeps ==
    ASSUME NEW a, Agents = {a}, WInv, Stops(a)
    PROVE  LET s == agent[a]
           IN  /\ wal' \in Seq(Line) /\ Once(wal')
               /\ s.pc # "fill" => Entries(wal') = Entries(wal)
               /\ s.pc = "fill" => Entries(wal') \subseteq Entries(s.kept)
               /\ dead' \subseteq Line /\ Buried \subseteq Buried'
               /\ s.pc # "fill" => Buried' \subseteq Buried \cup Written(wal)
               /\ s.pc = "fill" => Buried' = Buried
  <1> DEFINE s == agent[a]
  <1>1. /\ a \in Agents /\ TypeOK /\ AgentInv(a) /\ wal \in Seq(Line) /\ dead \subseteq Line
        /\ s.todo \in Seq(Line) /\ s.kept \in Seq(Line)
        /\ wal' \in LogLeft(s) /\ dead' \in PartlyInterred(Burying(s))
    BY AgentTypes DEF WInv, Stops
  <1>2. /\ Once(wal) /\ Once(s.kept)
        /\ s.pc # "fill" => Entries(s.todo) \subseteq Entries(wal)
        /\ s.pc = "fill" => wal = <<>>
    BY <1>1 DEF AgentInv, Copies, Hands
  <1> HIDE DEF s
  <1>3. /\ wal' \in Seq(Line) /\ Once(wal')
        /\ s.pc # "fill" => Entries(wal') = Entries(wal)
        /\ s.pc = "fill" => Entries(wal') \subseteq Entries(s.kept)
    <2>1. CASE s.pc = "fill"
      <3>1. PICK p \in PartsOf(s.kept) : wal' \in Overwritten(wal, p)
        BY <1>1, <2>1 DEF LogLeft
      <3>2. p \in Seq(Line) /\ Entries(p) \subseteq Entries(s.kept) /\ Once(p)
        BY <1>1, <1>2, PartKeeps
      <3>3. wal' = p
        BY <1>2, <2>1, <3>1, <3>2, NothingOverwritten
      <3> QED BY <2>1, <3>2, <3>3
    <2>2. CASE s.pc # "fill" /\ wal' = wal
      BY <1>1, <1>2, <2>2
    <2>3. CASE s.pc # "fill" /\ wal' # wal
      <3>1. PICK c \in Cut : wal' = WithLine(wal, c)
        BY <1>1, <2>3 DEF LogLeft
      <3>2. PICK x \in Line : x = c /\ x \notin Entry
        BY LineKinds
      <3>3. /\ WithLine(wal, x) \in Seq(Line)
            /\ Entries(wal) \subseteq Entries(WithLine(wal, x))
            /\ Entries(WithLine(wal, x)) \subseteq Entries(wal) \cup ({x} \cap Entry)
            /\ Once(WithLine(wal, x))
        BY <1>1, <1>2, <3>2, WithLineKeeps
      <3> QED BY <2>3, <3>1, <3>2, <3>3
    <2> QED BY <2>1, <2>2, <2>3
  <1>4. PICK b \in Seq(Line) : /\ b = Burying(s)
                               /\ s.pc # "fill" => Entries(b) \subseteq Entries(wal)
                               /\ s.pc = "fill" => Entries(b) = {}
    <2>1. CASE Burying(s) = <<>>
      BY <2>1, NoLines
    <2>2. CASE s.pc = "bury"
      BY <1>1, <1>2, <2>2 DEF Burying
    <2>3. CASE Burying(s) # <<>> /\ s.pc # "bury"
      <3>1. PICK e \in Entry : /\ s.pc = "replay" /\ s.todo # <<>> /\ e = Head(s.todo)
                               /\ Burying(s) = <<e>>
        BY <2>3 DEF Burying
      <3>2. e \in Entries(s.todo)
        BY <1>1, <3>1, HeadAndTail DEF Entries
      <3>3. <<e>> \in Seq(Line) /\ Len(<<e>>) = 1 /\ <<e>>[1] = e
        BY DEF Line
      <3>4. DOMAIN <<e>> = {1}
        BY <3>3
      <3>5. Entries(<<e>>) = {e}
        BY <3>3, <3>4 DEF Entries, ToSet
      <3> QED BY <1>2, <3>1, <3>2, <3>3, <3>5
    <2> QED BY <2>1, <2>2, <2>3
  <1>5. /\ dead' \subseteq Line /\ dead \cap Entry \subseteq dead'
        /\ dead' \cap Entry \subseteq dead \cup Entries(b)
    BY <1>1, <1>4, PartlyInterredKeeps
  <1>6. Graves(dead) \subseteq Graves(dead')
    BY <1>5 DEF Graves
  <1>7. Graves(dead') \subseteq Graves(dead) \cup Written(b)
    BY <1>5, WrittenEntries DEF Graves
  <1>8. /\ s.pc # "fill" => Written(b) \subseteq Written(wal)
        /\ s.pc = "fill" => Written(b) = {}
    BY <1>4, WrittenEntries
  <1> QED BY <1>3, <1>5, <1>6, <1>7, <1>8, OldBuried DEF s

\* After a stop what the file says may be one less than what was sent, and one
\* more fault is counted.
LEMMA StoppedKeeps ==
    ASSUME NEW a, Agents = {a}, WInv, Becomes(a, Idle),
           crashes' \in 0..MaxCrashes, failures' \in 0..MaxFailures, Faults' = Faults + 1,
           wal' \in Seq(Line), Once(wal'), dead' \subseteq Line,
           \/ Entries(wal') \subseteq Entries(wal)
           \/ Entries(wal') \subseteq Entries(agent[a].kept),
           UNCHANGED <<fresh, applied, unanswered, sent, accepted, forgotten>>
    PROVE  WInv'
  <1>1. /\ a \in Agents /\ TypeOK /\ AgentInv(a) /\ Unmade /\ SendsBounded /\ Faults \in Nat
    BY AgentTypes DEF WInv
  <1>2. agent' \in [Agents -> Agent] /\ agent'[a] = Idle
    BY <1>1, BecomesType, IdleAgent
  <1>3. TypeOK'
    BY <1>1, <1>2 DEF TypeOK
  <1>4. CutDead' /\ Unmade' /\ SendsBounded'
    BY <1>1, MoreFaults DEF CutDead, Unmade
  <1>5. Hands(a)' /\ Covered(a)'
    BY <1>2, IdleAgent, NoLines DEF Hands, Covered
  <1>6. Written(wal') \subseteq Written(wal) \cup Written(agent[a].kept)
    BY WrittenEntries
  <1>7. Copies(a)'
    BY <1>1, <1>2, <1>6, IdleAgent, NoLines DEF AgentInv, Copies
  <1>8. \A e \in Entries(wal') : e \in Entry /\ sent[e.write] <= 2 + e.retries + Faults
    <2> SUFFICES ASSUME NEW e \in Entries(wal')
                 PROVE  e \in Entry /\ sent[e.write] <= 2 + e.retries + Faults
      OBVIOUS
    <2>1. e \in Entry /\ e.retries \in Nat /\ sent[e.write] \in Nat
      BY <1>1, EntryType, AgentTypes DEF Entries
    <2>2. CASE e \in Entries(wal)
      BY <1>1, <2>1, <2>2 DEF AgentInv, Counts
    <2>3. CASE e \in Entries(agent[a].kept)
      <3>1. sent[e.write] <= 1 + e.retries + Faults
        BY <1>1, <2>3 DEF AgentInv, Counts, Fair, MayResend
      <3> QED BY <1>1, <2>1, <3>1
    <2> QED BY <2>2, <2>3
  <1>9. \A e \in Entries(wal') : Fair(e)' /\ sent'[e.write] <= 2 + e.retries + Faults'
    <2> SUFFICES ASSUME NEW e \in Entries(wal')
                 PROVE  Fair(e)' /\ sent'[e.write] <= 2 + e.retries + Faults'
      OBVIOUS
    <2>1. PICK w \in Writes, r \in Nat : w = e.write /\ r = e.retries
      BY <1>8, EntryType
    <2>2. sent[w] <= 2 + r + Faults
      BY <1>8, <2>1
    <2>3. /\ TypeOK /\ SendsBounded /\ Faults' = Faults + 1
          /\ UNCHANGED <<applied, unanswered, sent>>
      BY <1>1
    <2>4. /\ sent'[w] <= 2 + r + Faults' /\ sent'[w] <= 1 + r + Faults'
          /\ applied'[w] <= unanswered'[w] + Faults'
      BY <2>2, <2>3, FaultRoom
    <2> QED BY <2>1, <2>4 DEF Fair, MayResend
  <1>10. Counts(a)'
    BY <1>2, <1>9, IdleAgent, NoLines DEF Counts
  <1> QED BY <1>1, <1>3, <1>4, <1>5, <1>7, <1>10 DEF WInv, AgentInv

LEMMA StopKeeps ==
    ASSUME NEW a, Agents = {a}, WInv, Crash(a) \/ Fails(a)
    PROVE  WInv' /\ Stops(a) /\ Faults' = Faults + 1
  <1>1. /\ a \in Agents /\ TypeOK /\ Faults \in Nat /\ crashes \in Nat /\ failures \in Nat
    BY AgentTypes DEF WInv
  <1>2. Stops(a)
    BY DEF Crash, Fails
  <1>3. \/ crashes' = crashes + 1 /\ crashes < MaxCrashes /\ failures' = failures
        \/ failures' = failures + 1 /\ failures < MaxFailures /\ crashes' = crashes
    BY DEF Crash, Fails
  <1>4. /\ crashes' \in 0..MaxCrashes /\ failures' \in 0..MaxFailures /\ Faults' = Faults + 1
    <2>1. crashes' \in 0..MaxCrashes /\ failures' \in 0..MaxFailures
      BY <1>1, <1>3, BoundsAssumption DEF TypeOK
    <2>2. crashes' + failures' = (crashes + failures) + 1
      BY <1>1, <1>3
    <2> QED BY <2>1, <2>2 DEF Faults
  <1>5. /\ wal' \in Seq(Line) /\ Once(wal') /\ dead' \subseteq Line
        /\ \/ Entries(wal') \subseteq Entries(wal)
           \/ Entries(wal') \subseteq Entries(agent[a].kept)
    BY <1>2, LeftKeeps
  <1>6. Becomes(a, Idle) /\ UNCHANGED <<fresh, applied, unanswered, sent, accepted, forgotten>>
    BY <1>2 DEF Stops, server
  <1>7. WInv'
    BY <1>4, <1>5, <1>6, StoppedKeeps
  <1> QED BY <1>2, <1>4, <1>7

LEMMA RaisesKeeps ==
    ASSUME NEW a, Agents = {a}, WInv, ReplayRaises(a)
    PROVE  WInv' /\ Faults' = Faults + 1
  <1>1. /\ a \in Agents /\ TypeOK /\ AgentInv(a) /\ dead \subseteq Line /\ wal \in Seq(Line)
        /\ Faults \in Nat /\ crashes \in Nat /\ failures \in Nat
    BY AgentTypes DEF WInv
  <1>2. /\ failures' = failures + 1 /\ failures < MaxFailures /\ Becomes(a, Idle)
        /\ UNCHANGED <<wal, dead, fresh, crashes, applied, unanswered, sent, accepted, forgotten>>
    BY DEF ReplayRaises, server
  <1>3. /\ crashes' \in 0..MaxCrashes /\ failures' \in 0..MaxFailures /\ Faults' = Faults + 1
    BY <1>1, <1>2, BoundsAssumption DEF TypeOK, Faults
  <1>4. Once(wal)
    BY <1>1 DEF AgentInv, Copies
  <1>5. WInv'
    BY <1>1, <1>2, <1>3, <1>4, StoppedKeeps
  <1> QED BY <1>3, <1>5

LEMMA WInductive ==
    ASSUME NEW a, Agents = {a}, WInv, [Next]_vars
    PROVE  WInv'
  <1>1. ASSUME UNCHANGED vars PROVE WInv'
    BY <1>1 DEF WInv, TypeOK, CutDead, Unmade, SendsBounded, RetriesCapped, DuplicatesExplained,
                AgentInv, Hands, Copies, Covered, Counts, Fair, MayResend, Buried, Faults, vars
  <1>2. ASSUME Next PROVE WInv'
    <2>1. a \in Agents /\ \A b \in Agents : b = a
      OBVIOUS
    <2>2. CASE \E w \in Writes, outcome \in Outcomes : Write(a, w, outcome)
      BY <2>2, WriteKeeps
    <2>3. CASE Replay(a)
      BY <2>3, BeginKeeps, ReplayBuryKeeps, ReplayDropKeeps, RaisesKeeps, ReplayEndsKeeps,
         SendKeeps DEF Replay
    <2>4. CASE AppendEntry(a) \/ RotateRead(a) \/ Bury(a)
      BY <2>4, AppendKeeps, RotateKeeps, BuryKeeps
    <2>5. CASE Truncate(a) \/ Fill(a)
      BY <2>5, TruncateKeeps, FillKeeps
    <2>6. CASE ReplayBuryFails(a) \/ Fails(a) \/ Crash(a)
      BY <2>6, BuryFailsKeeps, StopKeeps
    <2> QED BY <1>2, <2>1, <2>2, <2>3, <2>4, <2>5, <2>6 DEF Next
  <1> QED BY <1>1, <1>2

LEMMA AlwaysWInv ==
    ASSUME NEW a, Agents = {a}
    PROVE  Spec => []WInv
  <1>1. WInv /\ [Next]_vars => WInv'
    BY WInductive
  <1> QED BY <1>1, InitWInv, PTL DEF Spec

\* With one agent a write is sent once by the caller, wal_max_retries times by
\* replay and once more for each death and each failure, and the server executes
\* it twice only because an answer was lost or the log was not written anew
\* (replay).
THEOREM SendsAreBounded ==
    ASSUME NEW a, Agents = {a}
    PROVE  Spec => []SendsBounded
  <1>1. WInv => SendsBounded
    BY DEF WInv
  <1> QED BY <1>1, AlwaysWInv, PTL

-----------------------------------------------------------------------------
(* The log of one agent as a queue.                                         *)

Held(a) == IF agent[a].pc = "fill" THEN Written(agent[a].kept) ELSE {}

LEMMA OnePending ==
    ASSUME NEW a, Agents = {a}
    PROVE  Pending = Written(wal) \cup Held(a) /\ Pending' = Written(wal') \cup Held(a)'
  <1>1. Pending = Written(wal) \cup Held(a)
    BY DEF Pending, Held
  <1>2. Pending' = Written(wal') \cup Held(a)'
    BY DEF Pending, Held, Written
  <1> QED BY <1>1, <1>2

LEMMA BecomesState ==
    ASSUME TypeOK, NEW a \in Agents, NEW s, Becomes(a, s)
    PROVE  agent'[a] = s
  BY DEF TypeOK, Becomes

LEMMA WrittenType ==
    ASSUME NEW s
    PROVE  Written(s) \subseteq Writes
  BY EntryType DEF Written

\* What a write of the log, and a stop, do to an agent: nothing put aside.
LEMMA NothingAside ==
    ASSUME NEW a, Agents = {a}, TypeOK, NEW s, Becomes(a, s), s.pc # "fill"
    PROVE  Held(a)' = {} /\ Pending' = Written(wal')
  <1>1. agent'[a] = s
    BY BecomesState
  <1>2. Held(a)' = {}
    BY <1>1 DEF Held
  <1> QED BY <1>2, OnePending

\* Only Truncate puts lines aside.
LEMMA NoneAside ==
    ASSUME NEW a, Agents = {a}, TypeOK,
           \/ \E w \in Writes, outcome \in Outcomes : Write(a, w, outcome)
           \/ AppendEntry(a) \/ RotateRead(a) \/ Bury(a) \/ Replay(a) \/ ReplayBuryFails(a)
    PROVE  Pending = Written(wal) /\ Pending' = Written(wal')
  <1>1. a \in Agents /\ agent[a] \in Agent
    BY AgentTypes
  <1>2. /\ Idle.pc # "fill" /\ [Idle EXCEPT !.pc = "rotate"].pc # "fill"
        /\ \A w : [Idle EXCEPT !.pc = "append", !.write = w].pc # "fill"
        /\ \A t, k : [Idle EXCEPT !.pc = "bury", !.todo = t, !.kept = k].pc # "fill"
        /\ \A t : [Idle EXCEPT !.pc = "replay", !.todo = t].pc # "fill"
    BY DEF Idle
  <1>3. /\ \A t : [agent[a] EXCEPT !.pc = "truncate", !.todo = t].pc = "truncate"
        /\ [agent[a] EXCEPT !.pc = "truncate"].pc = "truncate"
        /\ \A t : [agent[a] EXCEPT !.todo = t].pc = agent[a].pc
        /\ \A t, k : [agent[a] EXCEPT !.todo = t, !.kept = k].pc = agent[a].pc
    BY <1>1 DEF Agent
  <1>4. agent[a].pc # "fill"
    BY DEF Write, AppendEntry, RotateRead, Bury, Replay, BeginReplay, ReplayBury, ReplayBuryFails,
           ReplayDrop, ReplayRaises, ReplayEnds, ReplaySend, At
  <1>5. Pending = Written(wal)
    BY <1>4, OnePending DEF Held
  <1>6. Pending' = Written(wal')
    <2>1. CASE \E w \in Writes, outcome \in Outcomes : Write(a, w, outcome)
      <3>1. PICK w, outcome : Becomes(a, IF Answered(outcome) THEN Idle
                                         ELSE [Idle EXCEPT !.pc = "append", !.write = w])
        BY <2>1 DEF Write
      <3>2. Becomes(a, Idle) \/ Becomes(a, [Idle EXCEPT !.pc = "append", !.write = w])
        BY <3>1 DEF Answered
      <3> QED BY <1>2, <3>2, NothingAside
    <2>2. CASE AppendEntry(a)
      <3>1. Becomes(a, Idle) \/ Becomes(a, [Idle EXCEPT !.pc = "rotate"])
        BY <2>2 DEF AppendEntry
      <3> QED BY <1>2, <3>1, NothingAside
    <2>3. CASE RotateRead(a)
      <3>1. PICK t, k : \/ Becomes(a, Idle)
                        \/ Becomes(a, [Idle EXCEPT !.pc = "bury", !.todo = t, !.kept = k])
        BY <2>3 DEF RotateRead
      <3>2. PICK s : Becomes(a, s) /\ s.pc # "fill"
        BY <1>2, <3>1
      <3> QED BY <3>2, NothingAside
    <2>4. CASE Bury(a)
      <3>1. Becomes(a, [agent[a] EXCEPT !.pc = "truncate", !.todo = <<>>])
        BY <2>4 DEF Bury
      <3>2. [agent[a] EXCEPT !.pc = "truncate", !.todo = <<>>].pc # "fill"
        BY <1>3
      <3> QED BY <3>1, <3>2, NothingAside
    <2>5. CASE BeginReplay(a)
      <3>1. PICK t : Becomes(a, [Idle EXCEPT !.pc = "replay", !.todo = t])
        BY <2>5 DEF BeginReplay
      <3> QED BY <1>2, <3>1, NothingAside
    <2>6. CASE ReplayBury(a) \/ ReplayBuryFails(a) \/ ReplayDrop(a)
      <3>1. PICK t : Becomes(a, [agent[a] EXCEPT !.todo = t]) /\ agent[a].pc = "replay"
        BY <2>6 DEF ReplayBury, ReplayBuryFails, AfterBury, ReplayDrop, At
      <3>2. [agent[a] EXCEPT !.todo = t].pc # "fill"
        BY <1>3, <3>1
      <3> QED BY <3>1, <3>2, NothingAside
    <2>7. CASE ReplayRaises(a)
      BY <1>2, <2>7, NothingAside DEF ReplayRaises
    <2>8. CASE ReplayEnds(a)
      <3>1. Becomes(a, [agent[a] EXCEPT !.pc = "truncate"])
        BY <2>8 DEF ReplayEnds
      <3>2. [agent[a] EXCEPT !.pc = "truncate"].pc # "fill"
        BY <1>3
      <3> QED BY <3>1, <3>2, NothingAside
    <2>9. CASE \E outcome \in Outcomes : ReplaySend(a, outcome)
      <3>1. PICK outcome, e : Becomes(a, AfterSend(agent[a], e, Answered(outcome)))
        BY <2>9 DEF ReplaySend
      <3>2. PICK t, k : AfterSend(agent[a], e, Answered(outcome))
                          = [agent[a] EXCEPT !.todo = t, !.kept = k]
        BY DEF AfterSend
      <3>3. Becomes(a, [agent[a] EXCEPT !.todo = t, !.kept = k])
        BY <3>1, <3>2
      <3>4. [agent[a] EXCEPT !.todo = t, !.kept = k].pc # "fill"
        BY <1>3, <1>4
      <3> QED BY <3>3, <3>4, NothingAside
    <2> QED BY <2>1, <2>2, <2>3, <2>4, <2>5, <2>6, <2>7, <2>8, <2>9 DEF Replay
  <1> QED BY <1>5, <1>6

QueueVars == <<fresh, Pending, Buried, forgotten, applied, Faults>>

LEMMA WriteQueued ==
    ASSUME NEW a, Agents = {a}, WInv, NEW w \in Writes, NEW outcome \in Outcomes,
           Write(a, w, outcome)
    PROVE  Queue!Make(w) /\ accepted' = accepted
  <1>1. TypeOK /\ UNCHANGED <<wal, dead, Faults, accepted, forgotten>>
    BY DEF WInv, Write, mishaps, Faults
  <1>2. Pending' = Pending
    BY <1>1, NoneAside
  <1>3. Buried' = Buried
    BY <1>1 DEF Buried
  <1>4. /\ w \in fresh /\ fresh' = fresh \ {w}
        /\ applied' = [applied EXCEPT ![w] = @ + 1] \/ applied' = applied
    BY DEF Write, Post
  <1> QED BY <1>1, <1>2, <1>3, <1>4 DEF Queue!Make, Queue!Execute

LEMMA AppendQueued ==
    ASSUME NEW a, Agents = {a}, WInv, AppendEntry(a)
    PROVE  /\ (\E w \in Writes : Queue!Accept(w)) \/ UNCHANGED QueueVars
           /\ ~ (wal # <<>> /\ Last(wal) \in Cut) => Lost' \subseteq Lost
  <1>1. /\ a \in Agents /\ TypeOK /\ AgentInv(a) /\ wal \in Seq(Line)
        /\ UNCHANGED <<dead, fresh, Faults, applied, forgotten>> /\ agent[a].pc = "append"
    BY AgentTypes DEF WInv, AppendEntry, server, mishaps, Faults
  <1>2. PICK w \in Writes : w = agent[a].write /\ w \notin fresh
    BY <1>1 DEF AgentInv, Copies
  <1>3. PICK e \in Entry : e = [write |-> w, retries |-> 0] /\ e.write = w
    <2>1. [write |-> w, retries |-> 0] \in Entry
      BY BoundsAssumption DEF Entry
    <2> QED BY <2>1
  <1>4. wal' = WithLine(wal, e) /\ accepted' = accepted \cup {w}
    BY <1>2, <1>3 DEF AppendEntry
  <1>5. /\ Entries(wal) \subseteq Entries(wal')
        /\ Entries(wal') \subseteq Entries(wal) \cup {e}
        /\ ~ (wal # <<>> /\ Last(wal) \in Cut) => e \in Entries(wal')
    <2>1. e \in Line
      BY DEF Line
    <2> QED BY <1>1, <1>4, <2>1, WithLineKeeps
  <1>6. /\ Written(wal) \subseteq Written(wal')
        /\ Written(wal') \subseteq Written(wal) \cup {w}
        /\ ~ (wal # <<>> /\ Last(wal) \in Cut) => w \in Written(wal')
    BY <1>3, <1>5, WrittenEntries
  <1>7. /\ Pending \subseteq Pending' /\ Pending' \subseteq Pending \cup {w}
        /\ ~ (wal # <<>> /\ Last(wal) \in Cut) => w \in Pending'
    BY <1>1, <1>6, NoneAside
  <1>8. Buried' = Buried
    BY <1>1 DEF Buried
  <1>9. CASE w \in Pending'
    <2>1. Pending' = Pending \cup {w}
      BY <1>7, <1>9
    <2> QED BY <1>1, <1>2, <1>4, <1>8, <1>9, <2>1 DEF Queue!Accept, Lost
  <1>10. CASE w \notin Pending'
    <2>1. Pending' = Pending
      BY <1>7, <1>10
    <2> QED BY <1>1, <1>7, <1>8, <1>10, <2>1 DEF QueueVars
  <1> QED BY <1>9, <1>10

LEMMA QuietQueued ==
    ASSUME NEW a, Agents = {a}, WInv,
           RotateRead(a) \/ BeginReplay(a) \/ ReplayDrop(a) \/ ReplayEnds(a) \/ Fill(a)
    PROVE  UNCHANGED QueueVars /\ accepted' = accepted
  <1>1. /\ a \in Agents /\ TypeOK
        /\ UNCHANGED <<dead, fresh, Faults, applied, accepted, forgotten>>
    BY DEF WInv, RotateRead, BeginReplay, ReplayDrop, ReplayEnds, Fill, server, mishaps, Faults
  <1>2. CASE Fill(a)
    <2>1. wal' = agent[a].kept /\ wal = <<>> /\ agent'[a] = Idle /\ agent[a].pc = "fill"
      BY <1>2, FillKeeps DEF Fill
    <2>2. Held(a) = Written(agent[a].kept) /\ Held(a)' = {} /\ Written(wal) = {}
      BY <2>1, IdleAgent, NoLines DEF Held
    <2>3. Pending' = Pending
      BY <2>1, <2>2, OnePending
    <2> QED BY <1>1, <2>3 DEF QueueVars, Buried
  <1>3. CASE ~ Fill(a)
    <2>1. RotateRead(a) \/ Replay(a)
      BY <1>3 DEF Replay
    <2>2. wal' = wal
      BY <1>3 DEF RotateRead, BeginReplay, ReplayDrop, ReplayEnds
    <2>3. Pending' = Pending
      BY <1>1, <2>1, <2>2, NoneAside
    <2> QED BY <1>1, <2>3 DEF QueueVars, Buried
  <1> QED BY <1>2, <1>3

LEMMA SendQueued ==
    ASSUME NEW a, Agents = {a}, WInv, NEW outcome \in Outcomes, ReplaySend(a, outcome)
    PROVE  /\ (\E w \in Writes : Queue!Deliver(w)) \/ UNCHANGED QueueVars
           /\ accepted' = accepted
  <1>1. /\ a \in Agents /\ TypeOK /\ AgentInv(a)
        /\ UNCHANGED <<wal, dead, fresh, Faults, accepted, forgotten>>
        /\ agent[a].pc = "replay" /\ agent[a].todo # <<>>
    BY DEF WInv, ReplaySend, At, mishaps, Faults
  <1>2. PICK e \in Entry : e = Head(agent[a].todo) /\ Post(e.write, outcome)
    BY DEF ReplaySend, At
  <1>3. PICK w \in Writes : w = e.write /\ w \in Written(wal)
    BY <1>1, <1>2, NextLine, EntryType, WrittenEntries
  <1>4. w \in Pending /\ Pending' = Pending
    BY <1>1, <1>3, NoneAside DEF Replay
  <1>5. Buried' = Buried
    BY <1>1 DEF Buried
  <1>6. applied' = [applied EXCEPT ![w] = @ + 1] \/ applied' = applied
    BY <1>2, <1>3 DEF Post
  <1> QED BY <1>1, <1>4, <1>5, <1>6 DEF Queue!Deliver, Queue!Execute, QueueVars

\* What was executed, buried or forgotten is not lost.
LEMMA NotLost ==
    ASSUME accepted' = accepted, UNCHANGED applied, Pending \subseteq Pending',
           Buried \subseteq Buried'
    PROVE  Lost' \subseteq Lost
  BY DEF Lost

\* Lines that go to the dead file, with what a fault keeps from there.
LEMMA GivenUp ==
    ASSUME UNCHANGED <<fresh, applied, Pending>>,
           Buried \subseteq Buried', Buried' \subseteq Buried \cup Pending,
           forgotten \subseteq forgotten', forgotten' \subseteq forgotten \cup Pending,
           Pending \subseteq Writes,
           Faults' \in {Faults, Faults + 1}, forgotten' # forgotten => Faults' > 0
    PROVE  [Queue!Next]_QueueVars
  <1>1. PICK B \in SUBSET Writes, F \in SUBSET Writes :
           B = Buried' \ Buried /\ F = forgotten' \ forgotten
    OBVIOUS
  <1>2. /\ B \subseteq Pending /\ Buried' = Buried \cup B
        /\ F \subseteq Pending /\ forgotten' = forgotten \cup F
    BY <1>1
  <1>3. CASE B \cup F # {}
    <2>1. Queue!GiveUp(B, F)
      BY <1>1, <1>2, <1>3 DEF Queue!GiveUp
    <2> QED BY <2>1 DEF Queue!Next
  <1>4. CASE B \cup F = {} /\ Faults' = Faults
    BY <1>2, <1>4 DEF QueueVars
  <1>5. CASE B \cup F = {} /\ Faults' = Faults + 1
    <2>1. Queue!Lose({})
      BY <1>2, <1>5 DEF Queue!Lose
    <2> QED BY <2>1 DEF Queue!Next
  <1> QED BY <1>3, <1>4, <1>5

LEMMA ReplayBuryQueued ==
    ASSUME NEW a, Agents = {a}, WInv, ReplayBury(a)
    PROVE  [Queue!Next]_QueueVars /\ Lost' \subseteq Lost
  <1>1. /\ a \in Agents /\ TypeOK /\ AgentInv(a) /\ Faults \in Nat
        /\ UNCHANGED <<wal, fresh, Faults, applied, accepted>>
    BY AgentTypes DEF WInv, ReplayBury, server, mishaps, Faults
  <1>2. PICK e \in Entry :
          /\ agent[a].pc = "replay" /\ agent[a].todo # <<>> /\ e = Head(agent[a].todo)
          /\ Buried \subseteq Buried' /\ Buried' \subseteq Buried \cup {e.write}
          /\ forgotten \subseteq forgotten' /\ forgotten' \subseteq forgotten \cup {e.write}
          /\ forgotten' # forgotten => Faults > 0
    BY ReplayBuried
  <1>3. e.write \in Written(wal)
    BY <1>1, <1>2, NextLine, WrittenEntries
  <1>4. Pending = Written(wal) /\ Pending' = Pending /\ Pending \subseteq Writes
    BY <1>1, NoneAside, WrittenType DEF Replay
  <1>5. [Queue!Next]_QueueVars
    BY <1>1, <1>2, <1>3, <1>4, GivenUp
  <1> QED BY <1>1, <1>2, <1>4, <1>5, NotLost

LEMMA BuryFailsQueued ==
    ASSUME NEW a, Agents = {a}, WInv, ReplayBuryFails(a)
    PROVE  [Queue!Next]_QueueVars /\ Lost' \subseteq Lost
  <1>1. /\ a \in Agents /\ TypeOK /\ AgentInv(a) /\ Faults \in Nat
        /\ UNCHANGED <<wal, fresh, applied, accepted>>
        /\ Buried' = Buried /\ Faults' = Faults + 1
    BY AgentTypes, BuryFailsKeeps DEF WInv, ReplayBuryFails, server
  <1>2. PICK e \in Entry :
          /\ agent[a].pc = "replay" /\ agent[a].todo # <<>> /\ e = Head(agent[a].todo)
          /\ forgotten' = forgotten \cup {e.write}
    BY DEF ReplayBuryFails, At
  <1>3. e.write \in Written(wal)
    BY <1>1, <1>2, NextLine, WrittenEntries
  <1>4. Pending = Written(wal) /\ Pending' = Pending /\ Pending \subseteq Writes
    BY <1>1, NoneAside, WrittenType
  <1>5. [Queue!Next]_QueueVars
    BY <1>1, <1>2, <1>3, <1>4, GivenUp
  <1> QED BY <1>1, <1>4, <1>5, NotLost

LEMMA BuryQueued ==
    ASSUME NEW a, Agents = {a}, WInv, Bury(a)
    PROVE  [Queue!Next]_QueueVars /\ Lost' \subseteq Lost
  <1>1. /\ a \in Agents /\ TypeOK /\ AgentInv(a) /\ agent[a].pc = "bury" /\ Faults \in Nat
        /\ UNCHANGED <<wal, fresh, Faults, applied, accepted>>
    BY AgentTypes DEF WInv, Bury, server, mishaps, Faults
  <1>2. Pending = Written(wal) /\ Pending' = Pending /\ Pending \subseteq Writes
    BY <1>1, NoneAside, WrittenType
  <1>3. Written(agent[a].todo) \subseteq Pending
    BY <1>1, <1>2, WrittenEntries DEF AgentInv, Copies
  <1>4. /\ Buried \subseteq Buried' /\ Buried' \subseteq Buried \cup Pending
        /\ forgotten \subseteq forgotten' /\ forgotten' \subseteq forgotten \cup Pending
        /\ forgotten' # forgotten => Faults > 0
    BY <1>3, BuryKeeps
  <1>5. [Queue!Next]_QueueVars
    BY <1>1, <1>2, <1>4, GivenUp
  <1> QED BY <1>1, <1>2, <1>4, <1>5, NotLost

LEMMA TruncateQueued ==
    ASSUME NEW a, Agents = {a}, WInv, Truncate(a)
    PROVE  /\ (\E S \in SUBSET Writes : Queue!Settle(S)) \/ UNCHANGED QueueVars
           /\ Lost' \subseteq Lost \cup Splits \cup forgotten
  <1>1. /\ a \in Agents /\ TypeOK /\ AgentInv(a) /\ agent[a].pc = "truncate" /\ wal' = <<>>
        /\ UNCHANGED <<dead, fresh, Faults, applied, accepted, forgotten>> /\ agent[a] \in Agent
    BY AgentTypes DEF WInv, Truncate, server, mishaps, Faults
  <1>2. agent'[a].pc = "fill" /\ agent'[a].kept = agent[a].kept
    <2>1. agent'[a] = [agent[a] EXCEPT !.pc = "fill"]
      BY <1>1, BecomesState DEF Truncate
    <2> QED BY <1>1, <2>1 DEF Agent
  <1>3. Held(a) = {} /\ Held(a)' = Written(agent[a].kept) /\ Written(wal') = {}
    BY <1>1, <1>2, NoLines DEF Held, Written
  <1>4. Pending = Written(wal) /\ Pending' = Written(agent[a].kept)
    BY <1>3, OnePending
  <1>5. /\ Pending' \subseteq Pending
        /\ \A w \in Pending \ Pending' : w \in Buried \cup forgotten \cup Splits \/ applied[w] > 0
    BY <1>1, <1>4, NoLines DEF AgentInv, Hands, Copies, Covered
  <1>6. Pending \subseteq Writes
    BY <1>4, WrittenType
  <1>7. Buried' = Buried
    BY <1>1 DEF Buried
  <1>8. Lost' \subseteq Lost \cup Splits \cup forgotten
    <2>1. \A w \in Writes : applied[w] = 0 => ~ applied[w] > 0
      BY <1>1 DEF TypeOK
    <2> QED BY <1>1, <1>5, <1>6, <1>7, <2>1 DEF Lost
  <1>9. CASE Pending' = Pending
    BY <1>1, <1>7, <1>8, <1>9 DEF QueueVars
  <1>10. CASE Pending' # Pending
    <2>1. PICK S \in SUBSET Writes : S = Pending \ Pending'
      BY <1>6
    <2>2. Queue!Settle(S)
      BY <1>1, <1>5, <1>7, <1>10, <2>1 DEF Queue!Settle
    <2> QED BY <1>8, <2>2
  <1> QED BY <1>9, <1>10

\* A stop loses what was put aside, and may leave a part of what was to be buried.
LEMMA StopQueued ==
    ASSUME NEW a, Agents = {a}, WInv, Crash(a) \/ Fails(a)
    PROVE  /\ [Queue!Next]_QueueVars
           /\ agent[a].pc # "fill" => Lost' \subseteq Lost
  <1>1. /\ a \in Agents /\ TypeOK /\ AgentInv(a) /\ Faults \in Nat
        /\ Stops(a) /\ Faults' = Faults + 1
    BY AgentTypes, StopKeeps DEF WInv
  <1>2. Becomes(a, Idle) /\ UNCHANGED <<fresh, applied, accepted, forgotten>>
    BY <1>1 DEF Stops, server
  <1>3. Pending' = Written(wal')
    BY <1>1, <1>2, IdleAgent, NothingAside
  <1>4. CASE agent[a].pc # "fill"
    <2>1. /\ Entries(wal') = Entries(wal) /\ Buried \subseteq Buried'
          /\ Buried' \subseteq Buried \cup Written(wal)
      BY <1>1, <1>4, LeftKeeps
    <2>2. Pending = Written(wal) /\ Pending \subseteq Writes
      BY <1>4, OnePending, WrittenType DEF Held
    <2>3. Pending' = Pending
      BY <1>3, <2>1, <2>2, WrittenEntries
    <2>4. [Queue!Next]_QueueVars
      BY <1>1, <1>2, <2>1, <2>2, <2>3, GivenUp
    <2> QED BY <1>2, <2>1, <2>3, <2>4, NotLost
  <1>5. CASE agent[a].pc = "fill"
    <2>1. Entries(wal') \subseteq Entries(agent[a].kept) /\ Buried' = Buried
      BY <1>1, <1>5, LeftKeeps
    <2>2. wal = <<>>
      BY <1>1, <1>5 DEF AgentInv, Hands
    <2>3. Pending = Written(agent[a].kept) /\ Pending \subseteq Writes
      <3>1. Held(a) = Written(agent[a].kept)
        BY <1>5 DEF Held
      <3>2. Written(wal) = {}
        BY <2>2, NoLines
      <3> QED BY <3>1, <3>2, OnePending, WrittenType
    <2>4. Pending' \subseteq Pending
      BY <1>3, <2>1, <2>3, WrittenEntries
    <2>5. PICK S \in SUBSET Writes : S = Pending \ Pending'
      BY <2>3
    <2>6. Queue!Lose(S)
      BY <1>1, <1>2, <2>1, <2>4, <2>5 DEF Queue!Lose
    <2> QED BY <1>5, <2>6 DEF Queue!Next
  <1> QED BY <1>4, <1>5

LEMMA RaisesQueued ==
    ASSUME NEW a, Agents = {a}, WInv, ReplayRaises(a)
    PROVE  [Queue!Next]_QueueVars /\ Lost' \subseteq Lost
  <1>1. /\ a \in Agents /\ TypeOK /\ Faults \in Nat /\ Faults' = Faults + 1
        /\ UNCHANGED <<wal, dead, fresh, applied, accepted, forgotten>>
    BY AgentTypes, RaisesKeeps DEF WInv, ReplayRaises, server
  <1>2. Pending = Written(wal) /\ Pending' = Pending /\ Pending \subseteq Writes
    BY <1>1, NoneAside, WrittenType DEF Replay
  <1>3. Buried' = Buried
    BY <1>1 DEF Buried
  <1>4. [Queue!Next]_QueueVars
    BY <1>1, <1>2, <1>3, GivenUp
  <1> QED BY <1>1, <1>2, <1>3, <1>4, NotLost

\* Making and delivering a write loses nothing.
LEMMA QueueKeeps ==
    ASSUME TypeOK, accepted' = accepted,
           \/ \E w \in Writes : Queue!Make(w) \/ Queue!Deliver(w)
           \/ UNCHANGED QueueVars
    PROVE  Lost' \subseteq Lost
  <1>1. applied \in [Writes -> Nat] /\ accepted \subseteq Writes
    BY DEF TypeOK
  <1>2. CASE \E w \in Writes : Queue!Make(w) \/ Queue!Deliver(w)
    <2>1. PICK w \in Writes : applied' = applied \/ applied' = [applied EXCEPT ![w] = @ + 1]
      BY <1>2 DEF Queue!Make, Queue!Deliver, Queue!Execute
    <2>2. \A v \in Writes : applied'[v] = 0 => applied[v] = 0
      BY <1>1, <2>1
    <2>3. Pending' = Pending /\ Buried' = Buried
      BY <1>2 DEF Queue!Make, Queue!Deliver
    <2> QED BY <1>1, <2>2, <2>3 DEF Lost
  <1>3. CASE UNCHANGED QueueVars
    BY <1>3 DEF QueueVars, Lost
  <1> QED BY <1>2, <1>3

LEMMA QueueStep ==
    ASSUME NEW a, Agents = {a}, WInv, [Next]_vars
    PROVE  /\ [Queue!Next]_QueueVars
           /\ \/ Lost' \subseteq Lost
              \/ agent[a].pc = "fill" /\ (Crash(a) \/ Fails(a))
              \/ AppendEntry(a) /\ wal # <<>> /\ Last(wal) \in Cut
              \/ Truncate(a) /\ Lost' \subseteq Lost \cup Splits \cup forgotten
  <1>1. TypeOK
    BY DEF WInv
  <1>2. ASSUME UNCHANGED vars PROVE UNCHANGED QueueVars /\ accepted' = accepted
    BY <1>2 DEF vars, QueueVars, Pending, Buried, Faults
  <1>3. CASE \/ \E w \in Writes, outcome \in Outcomes : Write(a, w, outcome)
             \/ \E outcome \in Outcomes : ReplaySend(a, outcome)
             \/ RotateRead(a) \/ BeginReplay(a) \/ ReplayDrop(a) \/ ReplayEnds(a) \/ Fill(a)
             \/ UNCHANGED vars
    <2>1. /\ accepted' = accepted
          /\ \/ \E w \in Writes : Queue!Make(w) \/ Queue!Deliver(w)
             \/ UNCHANGED QueueVars
      <3>1. CASE \E w \in Writes, outcome \in Outcomes : Write(a, w, outcome)
        BY <3>1, WriteQueued
      <3>2. CASE \E outcome \in Outcomes : ReplaySend(a, outcome)
        BY <3>2, SendQueued
      <3>3. CASE RotateRead(a) \/ BeginReplay(a) \/ ReplayDrop(a) \/ ReplayEnds(a) \/ Fill(a)
        BY <3>3, QuietQueued
      <3>4. CASE UNCHANGED vars
        BY <1>2, <3>4
      <3> QED BY <1>3, <3>1, <3>2, <3>3, <3>4
    <2>2. Lost' \subseteq Lost
      BY <1>1, <2>1, QueueKeeps
    <2>3. [Queue!Next]_QueueVars
      BY <2>1 DEF Queue!Next
    <2> QED BY <2>2, <2>3
  <1>4. CASE AppendEntry(a)
    BY <1>4, AppendQueued DEF Queue!Next
  <1>5. CASE ReplayBury(a) \/ ReplayBuryFails(a) \/ ReplayRaises(a) \/ Bury(a)
    BY <1>5, ReplayBuryQueued, BuryFailsQueued, RaisesQueued, BuryQueued
  <1>6. CASE Truncate(a)
    BY <1>6, TruncateQueued DEF Queue!Next
  <1>7. CASE Crash(a) \/ Fails(a)
    BY <1>7, StopQueued
  <1>8. Next => \/ \E w \in Writes, outcome \in Outcomes : Write(a, w, outcome)
                \/ AppendEntry(a) \/ RotateRead(a) \/ Bury(a)
                \/ Replay(a) \/ Truncate(a) \/ Fill(a)
                \/ ReplayBuryFails(a) \/ Fails(a) \/ Crash(a)
    BY DEF Next
  <1> QED BY <1>3, <1>4, <1>5, <1>6, <1>7, <1>8 DEF Replay

\* One agent loses a write that is neither executed nor buried only where it
\* dies or fails between emptying the file and filling it, or appends to a line
\* that such a stop has cut, or, when it empties the file, a write that
\* splitlines has cut or that did not get into the dead file (append, replay,
\* _rotate, _move_to_dead).
THEOREM LossNeedsAFault ==
    ASSUME NEW a, Agents = {a}
    PROVE  Spec => OnlyFaultsDrop
  <1>1. WInv /\ [Next]_vars =>
          [Lost' \subseteq Lost \/ StopsWhileFilling \/ AppendToCutLine
             \/ DropsSplitOrForgotten]_vars
    BY QueueStep DEF StopsWhileFilling, AppendToCutLine, DropsSplitOrForgotten
  <1> QED BY <1>1, AlwaysWInv, PTL DEF Spec, OnlyFaultsDrop

\* With one agent the log is a queue that delivers at least once: a write that
\* was accepted stays in it until the server has executed it, it is given up,
\* in the dead file if no fault keeps it from there, or a fault stops the agent;
\* it drops only what it cannot read again (wal.py).
THEOREM LogIsARetryQueue ==
    ASSUME NEW a, Agents = {a}
    PROVE  Spec => ImplementsQueue
  <1>1. Init => Queue!Init
    BY NoLines DEF Init, Idle, Queue!Init, Pending, Buried, Faults
  <1>2. WInv /\ [Next]_vars => [Queue!Next]_QueueVars
    BY QueueStep
  <1> QED BY <1>1, <1>2, AlwaysWInv, PTL DEF Spec, ImplementsQueue, Queue!Spec, QueueVars

=============================================================================
