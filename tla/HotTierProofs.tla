---------------------------- MODULE HotTierProofs ----------------------------
(***************************************************************************)
(* That memories are in both tiers at once or lost by the named faults     *)
(* only, for any number of threads, texts, rows and faults; and what add   *)
(* and eviction promise where requests follow one another.                 *)
(*                                                                         *)
(* ArchivedAreGone is not inductive: a cold row is made from the hot row   *)
(* that a request holds, so the requests that hold a deleted row must be   *)
(* part of the invariant, and so must be that identifiers are given out in *)
(* order, or a later insert could bring a deleted row back.                *)
(***************************************************************************)
EXTENDS MCHotTier, FiniteSetTheorems, WellFoundedInduction, TLAPS

\* What a request holds at each place in its work.
Holds(st, hots, last, colds) ==
    /\ st.pc \in {"pop", "update", "archive", "again"}
        => st.row \in HotRow /\ st.row.id <= last
    /\ st.pc \in {"archive", "again"} => hots[st.row.id] = None
    /\ st.pc \in {"mark", "promote"} => st.cold \in ColdIds /\ colds[st.cold] # None
    /\ st.pc = "promote" => st.op = "promote"
    /\ st.pc = "mark" /\ st.op = "evict"
        => st.row \in HotRow /\ st.row.id <= last /\ hots[st.row.id] = None
    /\ st.pc \in {"findCold", "findNear", "insert", "promote", "update", "coldInsert"}
        => st.key \in Texts

HoldsNow(st)  == Holds(st, hot, lastHot, cold)
HoldsThen(st) == Holds(st, hot', lastHot', cold')

Typed ==
    /\ hot \in [HotIds -> Texts \cup {None}]
    /\ lastHot \in 0..MaxHot
    /\ cold \in [ColdIds -> ColdRow \cup {None}]
    /\ lastCold \in 0..MaxCold
    /\ request \in [Clients -> Request]

IdsInOrder == \A h \in HotIds : hot[h] # None => h <= lastHot

Archived ==
    \A c \in ColdIds : cold[c] # None /\ cold[c].from # None
        => cold[c].from <= lastHot /\ hot[cold[c].from] = None

Inv == Typed /\ IdsInOrder /\ Archived /\ \A r \in Clients : HoldsNow(request[r])

\* No step takes back an identifier, a deletion or a cold row.
Forward ==
    /\ lastHot <= lastHot'
    /\ \A h \in HotIds : h <= lastHot /\ hot[h] = None => hot'[h] = None
    /\ \A c \in ColdIds : cold[c] # None => cold'[c] # None

LEMMA IdleFits ==
    ASSUME TextAssumption, BoundsAssumption, NoneAssumption
    PROVE  Idle \in Request /\ HoldsNow(Idle)
  BY DEF Idle, Request, Holds, HoldsNow, HoldsThen

\* What remains to be shown of a step of thread r: what it does to the tables,
\* and what it holds afterwards.
LEMMA OneMoves ==
    ASSUME NoneAssumption, BoundsAssumption, Inv, NEW r \in Clients, NEW st, Becomes(r, st),
           Forward, hot' \in [HotIds -> Texts \cup {None}], lastHot' \in 0..MaxHot,
           cold' \in [ColdIds -> ColdRow \cup {None}], lastCold' \in 0..MaxCold,
           st \in Request, HoldsThen(st), IdsInOrder', Archived'
    PROVE  Inv'
<1>1. Typed'
  BY DEF Inv, Typed, Becomes
<1>2. ASSUME NEW q \in Clients PROVE HoldsThen(request'[q])
  <2>1. CASE q = r
    <3>1. request'[q] = st
      BY <2>1 DEF Inv, Typed, Becomes
    <3> QED
      BY <3>1 DEF Holds, HoldsNow, HoldsThen
  <2>2. CASE q # r
    <3>1. request'[q] = request[q] /\ request[q] \in Request /\ HoldsNow(request[q])
      BY <2>2 DEF Inv, Typed, Becomes
    <3>2. lastHot \in Int /\ lastHot' \in Int /\ HotIds \subseteq Int
      BY BoundsAssumption DEF Inv, Typed, HotIds
    <3>3. \A row \in HotRow : row.id \in HotIds
      BY DEF HotRow
    <3>4. ASSUME NEW row \in HotRow, row.id <= lastHot
          PROVE  row.id <= lastHot' /\ (hot[row.id] = None => hot'[row.id] = None)
      <4>1. row.id \in HotIds /\ row.id \in Int
        BY <3>2, <3>3
      <4> QED
        BY <3>2, <3>4, <4>1 DEF Forward
    <3> DEFINE s == request[q]
    <3>5. HoldsNow(s) /\ request'[q] = s
      BY <3>1
    <3> HIDE DEF s
    <3>6. /\ s.pc \in {"pop", "update", "archive", "again"}
                => s.row \in HotRow /\ s.row.id <= lastHot'
          /\ s.pc \in {"archive", "again"} => hot'[s.row.id] = None
          /\ s.pc = "mark" /\ s.op = "evict"
                => s.row \in HotRow /\ s.row.id <= lastHot' /\ hot'[s.row.id] = None
      BY <3>4, <3>5 DEF Holds, HoldsNow, HoldsThen
    <3>7. s.pc \in {"mark", "promote"} => s.cold \in ColdIds /\ cold'[s.cold] # None
      BY <3>5 DEF Holds, HoldsNow, Forward
    <3> QED
      BY <3>5, <3>6, <3>7 DEF Holds, HoldsNow, HoldsThen
  <2> QED
    BY <2>1, <2>2
<1> QED
  BY <1>1, <1>2 DEF Inv, HoldsNow, HoldsThen

\* A step that only reads.
LEMMA OneReads ==
    ASSUME NoneAssumption, BoundsAssumption, Inv, NEW r \in Clients, NEW st, Becomes(r, st),
           hot' = hot, lastHot' = lastHot, cold' = cold, lastCold' = lastCold,
           st \in Request, HoldsNow(st)
    PROVE  Inv'
<1>1. Forward /\ IdsInOrder' /\ Archived' /\ HoldsThen(st)
  BY BoundsAssumption DEF Inv, Typed, Forward, IdsInOrder, Archived, Holds, HoldsNow, HoldsThen
<1> QED
  BY <1>1, OneMoves DEF Inv, Typed

\* A step of nobody's request, as far as the tables go.
LEMMA NothingMoves ==
    ASSUME Inv, UNCHANGED <<hot, lastHot, cold, lastCold, request>>
    PROVE  Inv'
  BY DEF Inv, Typed, IdsInOrder, Archived, HoldsNow, Holds

\* The new row's id is larger than all before it.
LEMMA HotInserted ==
    ASSUME NoneAssumption, BoundsAssumption, Inv, NEW t \in Texts, InsertHot(t), cold' = cold
    PROVE  /\ Forward /\ IdsInOrder' /\ Archived'
           /\ hot' \in [HotIds -> Texts \cup {None}] /\ lastHot' \in 0..MaxHot
  BY DEF Inv, Typed, IdsInOrder, Archived, Forward, InsertHot, HotIds, ColdRow

\* A cold row is made of nothing or of a hot row that is gone.
LEMMA ColdInserted ==
    ASSUME NoneAssumption, BoundsAssumption, Inv, NEW t \in Texts, NEW h \in HotIds \cup {None},
           h # None => h <= lastHot /\ hot[h] = None,
           InsertCold(t, h), hot' = hot, lastHot' = lastHot
    PROVE  /\ Forward /\ IdsInOrder' /\ Archived'
           /\ cold' \in [ColdIds -> ColdRow \cup {None}] /\ lastCold' \in 0..MaxCold
           /\ lastCold + 1 \in ColdIds /\ cold'[lastCold + 1] # None
<1>1. lastCold + 1 \in ColdIds /\ lastCold' \in 0..MaxCold
  BY DEF Inv, Typed, InsertCold, ColdIds
<1> DEFINE row == [text |-> t, status |-> "active", from |-> h]
<1>2. row \in ColdRow /\ row # None /\ row.from = h
  BY DEF ColdRow
<1>3. cold' = [cold EXCEPT ![lastCold + 1] = row]
  BY DEF InsertCold
<1> HIDE DEF row
<1>4. cold' \in [ColdIds -> ColdRow \cup {None}] /\ cold'[lastCold + 1] # None
  BY <1>1, <1>2, <1>3 DEF Inv, Typed
<1>5. Forward
  BY <1>1, <1>2, <1>3, BoundsAssumption DEF Inv, Typed, Forward
<1>6. IdsInOrder'
  BY DEF Inv, IdsInOrder
<1>7. Archived'
  BY <1>1, <1>2, <1>3 DEF Inv, Typed, Archived
<1> QED
  BY <1>1, <1>4, <1>5, <1>6, <1>7

\* A change of status leaves text and origin of every row as they are.
LEMMA StatusChanged ==
    ASSUME NoneAssumption, BoundsAssumption, Inv, NEW c \in ColdIds, cold[c] # None,
           NEW status \in {"active", "dormant"},
           cold' = [cold EXCEPT ![c].status = status],
           hot' = hot, lastHot' = lastHot, lastCold' = lastCold
    PROVE  /\ Forward /\ IdsInOrder' /\ Archived'
           /\ cold' \in [ColdIds -> ColdRow \cup {None}]
<1>1. cold[c] \in ColdRow
  BY DEF Inv, Typed
<1> DEFINE row == [cold[c] EXCEPT !.status = status]
<1>2. row \in ColdRow /\ row.from = cold[c].from /\ row # None
  BY <1>1 DEF ColdRow
<1>3. cold' = [cold EXCEPT ![c] = row]
  BY DEF Inv, Typed
<1> HIDE DEF row
<1>4. cold' \in [ColdIds -> ColdRow \cup {None}]
  BY <1>2, <1>3 DEF Inv, Typed
<1>5. Forward
  BY <1>2, <1>3, BoundsAssumption DEF Inv, Typed, Forward
<1>6. IdsInOrder'
  BY DEF Inv, IdsInOrder
<1>7. Archived'
  BY <1>2, <1>3 DEF Inv, Typed, Archived
<1> QED
  BY <1>4, <1>5, <1>6, <1>7

\* What _pick_best_match picks is a row of the table.
LEMMA BestIsThere ==
    ASSUME NoneAssumption, BoundsAssumption, Inv, NEW s, NEW h \in Best(s)
    PROVE  /\ h \in HotIds /\ h <= lastHot
           /\ [id |-> h, text |-> hot[h]] \in HotRow
<1>1. h \in Rows(hot)
  BY DEF Best
<1> QED
  BY <1>1 DEF Rows, Inv, Typed, IdsInOrder, HotRow

-----------------------------------------------------------------------------
(* One step for each action.                                               *)

LEMMA InitInv ==
    ASSUME TextAssumption, BoundsAssumption, NoneAssumption, Init
    PROVE  Inv
<1>1. Typed
  BY IdleFits DEF Init, Typed, Empty
<1>2. IdsInOrder /\ Archived
  BY DEF Init, IdsInOrder, Archived, Empty
<1> QED
  BY <1>1, <1>2, IdleFits DEF Inv, Init

LEMMA StepInv ==
    ASSUME TextAssumption, BoundsAssumption, NoneAssumption, Inv,
           NEW r \in Clients, Step(r)
    PROVE  Inv'
<1> USE TextAssumption, BoundsAssumption, NoneAssumption
<1> DEFINE s == request[r]
<1>0. /\ s \in Request /\ HoldsNow(s)
      /\ Idle \in Request /\ HoldsNow(Idle)
  BY IdleFits DEF Inv, Typed
<1>1. ASSUME NEW t \in NewTexts, BeginAdd(r, t) PROVE Inv'
  <2> DEFINE n == [Idle EXCEPT !.pc = "findCold", !.key = t]
  <2>1. n \in Request /\ HoldsNow(n)
    <3>1. n \in Request /\ n.pc = "findCold" /\ n.key \in Texts
      BY <1>0 DEF Idle, Request
    <3> HIDE DEF n
    <3> QED
      BY <3>1 DEF Holds, HoldsNow
  <2> QED
    BY <2>1, <1>1, OneReads DEF BeginAdd
<1>2. ASSUME NEW t \in NewTexts, BeginColdAdd(r, t) PROVE Inv'
  <2> DEFINE n == [Idle EXCEPT !.pc = "coldInsert", !.key = t]
  <2>1. n \in Request /\ HoldsNow(n)
    <3>1. n \in Request /\ n.pc = "coldInsert" /\ n.key \in Texts
      BY <1>0 DEF Idle, Request
    <3> HIDE DEF n
    <3> QED
      BY <3>1 DEF Holds, HoldsNow
  <2> QED
    BY <2>1, <1>2, OneReads DEF BeginColdAdd
<1>3. CASE FindCold(r)
  <2> DEFINE n == [s EXCEPT !.pc = "findNear"]
  <2>1. n \in Request /\ HoldsNow(n)
    BY <1>0, <1>3 DEF FindCold, Request, Holds, HoldsNow, HoldsThen
  <2>2. Becomes(r, Idle) \/ Becomes(r, n)
    BY <1>3 DEF FindCold, Becomes
  <2> QED
    BY <2>1, <2>2, <1>0, <1>3, OneReads DEF FindCold
<1>4. CASE FindNear(r)
  <2> DEFINE n == [s EXCEPT !.pc = "insert"]
  <2>1. n \in Request /\ HoldsNow(n)
    BY <1>0, <1>4 DEF FindNear, Request, Holds, HoldsNow, HoldsThen
  <2>2. Becomes(r, Idle) \/ Becomes(r, n)
    BY <1>4 DEF FindNear, Becomes
  <2> QED
    BY <2>1, <2>2, <1>0, <1>4, OneReads DEF FindNear
<1>5. CASE HotAdd(r)
  <2> DEFINE n == [s EXCEPT !.pc = "chars"]
  <2>1. n \in Request /\ HoldsThen(n)
    BY <1>0, <1>5 DEF HotAdd, Request, Holds, HoldsNow, HoldsThen
  <2>2. s.key \in Texts
    BY <1>0, <1>5 DEF HotAdd, Holds, HoldsNow, HoldsThen
  <2> QED
    BY <2>1, <2>2, <1>5, HotInserted, OneMoves DEF HotAdd, Inv, Typed
<1>6. CASE ReadChars(r)
  <2> DEFINE n == [s EXCEPT !.pc = "count"]
  <2>1. n \in Request /\ HoldsNow(n)
    BY <1>0 DEF Request, Holds, HoldsNow, HoldsThen
  <2> QED
    BY <2>1, <1>6, OneReads DEF ReadChars
<1>7. CASE ReadCount(r)
  <2> DEFINE n == [s EXCEPT !.pc = "list", !.op = "evict"]
  <2>0. n \in Request /\ n.pc = "list"
    BY <1>0 DEF Request
  <2>1. n \in Request /\ HoldsNow(n)
    BY <2>0 DEF Holds, HoldsNow
  <2>2. Becomes(r, Idle) \/ Becomes(r, n)
    BY <1>7 DEF ReadCount
  <2> QED
    BY <2>1, <2>2, <1>0, <1>7, OneReads DEF ReadCount
<1>21. CASE ListEntries(r)
  <2> DEFINE n == [s EXCEPT !.pc = "evict"]
  <2>1. n \in Request /\ HoldsNow(n)
    BY <1>0 DEF Request, Holds, HoldsNow, HoldsThen
  <2> QED
    BY <2>1, <1>21, OneReads DEF ListEntries
<1>8. CASE EvictSelect(r)
  <2> DEFINE text == Beginning[evicting[r].entries[Oldest(evicting[r].entries)]]
             take(h) == [s EXCEPT !.pc = AfterSelect, !.row = [id |-> h, text |-> hot[h]]]
  <2>1. ASSUME NEW h \in Best(text) PROVE take(h) \in Request /\ HoldsNow(take(h))
    <3>1. h <= lastHot /\ [id |-> h, text |-> hot[h]] \in HotRow
      BY <2>1, BestIsThere
    <3>2. /\ take(h) \in Request
          /\ take(h).pc = "pop" /\ take(h).row = [id |-> h, text |-> hot[h]]
      BY <1>0, <3>1 DEF Request, AfterSelect
    <3> QED
      BY <3>1, <3>2 DEF Holds, HoldsNow
  <2>2. CASE \E h \in Best(text) : Becomes(r, take(h))
    BY <2>1, <2>2, <1>8, OneReads DEF EvictSelect
  <2>3. CASE UNCHANGED request
    BY <2>3, <1>8, NothingMoves DEF EvictSelect
  <2> QED
    BY <2>2, <2>3, <1>8 DEF EvictSelect
<1>9. CASE EvictEnds(r)
  BY <1>0, <1>9, OneReads DEF EvictEnds
<1>10. CASE EvictAgain(r)
  <2> DEFINE n == [s EXCEPT !.pc = "evict", !.row = None, !.cold = None]
  <2>1. n \in Request /\ HoldsThen(n)
    <3>1. n \in Request /\ n.pc = "evict"
      BY <1>0 DEF Request
    <3> HIDE DEF n
    <3> QED
      BY <3>1 DEF Holds, HoldsThen
  <2>2. /\ s.row.text \in Texts /\ s.row.id \in HotIds
        /\ s.row.id <= lastHot /\ hot[s.row.id] = None
    BY <1>0, <1>10 DEF EvictAgain, Holds, HoldsNow, HoldsThen, HotRow
  <2> QED
    BY <2>1, <2>2, <1>10, ColdInserted, OneMoves DEF EvictAgain, Inv, Typed
<1>11. ASSUME NEW q \in Queries, NEW op \in {"remove", "archive"}, BeginPop(r, op, q) PROVE Inv'
  <2> DEFINE take(h) == [Idle EXCEPT !.pc = AfterSelect, !.op = op,
                                     !.row = [id |-> h, text |-> hot[h]]]
  <2>1. ASSUME NEW h \in Best(q) PROVE take(h) \in Request /\ HoldsNow(take(h))
    BY <1>0, BestIsThere DEF Idle, Request, Holds, HoldsNow, HoldsThen, AfterSelect
  <2> QED
    BY <2>1, <1>11, OneReads DEF BeginPop
<1>12. CASE Pop(r)
  <2> DEFINE n == [s EXCEPT !.pc = "archive"]
  <2>1. s.row \in HotRow /\ s.row.id \in HotIds /\ s.row.id <= lastHot
    BY <1>0, <1>12 DEF Pop, Holds, HoldsNow, HoldsThen, HotRow
  <2>2. hot' = [hot EXCEPT ![s.row.id] = None]
    BY <1>12 DEF Pop
  <2>3. /\ Forward /\ IdsInOrder' /\ Archived' /\ hot'[s.row.id] = None
        /\ hot' \in [HotIds -> Texts \cup {None}]
    BY <2>1, <2>2, <1>12 DEF Pop, Inv, Typed, Forward, IdsInOrder, Archived, HotIds, ColdRow
  <2>4. n \in Request /\ HoldsThen(n)
    BY <1>0, <1>12, <2>1, <2>3 DEF Pop, Request, Holds, HoldsNow, HoldsThen
  <2> QED
    BY <2>3, <2>4, <1>12, OneMoves DEF Pop, AfterPop, Inv, Typed
<1>13. CASE ArchivePopped(r)
  <2> DEFINE n == [s EXCEPT !.pc = "mark", !.cold = lastCold + 1]
  <2>1. /\ s.row \in HotRow /\ s.row.text \in Texts /\ s.row.id \in HotIds
        /\ s.row.id <= lastHot /\ hot[s.row.id] = None
    BY <1>0, <1>13 DEF ArchivePopped, Holds, HoldsNow, HoldsThen, HotRow
  <2>2. /\ Forward /\ IdsInOrder' /\ Archived'
        /\ cold' \in [ColdIds -> ColdRow \cup {None}] /\ lastCold' \in 0..MaxCold
        /\ lastCold + 1 \in ColdIds /\ cold'[lastCold + 1] # None
    BY <2>1, <1>13, ColdInserted DEF ArchivePopped
  <2>3. n \in Request /\ HoldsThen(n)
    BY <1>0, <1>13, <2>1, <2>2 DEF ArchivePopped, Request, Holds, HoldsNow, HoldsThen
  <2>4. Idle \in Request /\ HoldsThen(Idle)
    BY <1>0 DEF Idle, Holds, HoldsNow, HoldsThen
  <2>5. Becomes(r, Idle) \/ Becomes(r, n)
    BY <1>13 DEF ArchivePopped, Becomes
  <2> QED
    BY <2>2, <2>3, <2>4, <2>5, <1>13, OneMoves DEF ArchivePopped, Inv, Typed
<1>14. CASE MarkDormant(r)
  <2> DEFINE n == [s EXCEPT !.pc = "again"]
  <2>1. s.cold \in ColdIds /\ cold[s.cold] # None
    BY <1>0, <1>14 DEF MarkDormant, Holds, HoldsNow, HoldsThen
  <2>2. /\ Forward /\ IdsInOrder' /\ Archived'
        /\ cold' \in [ColdIds -> ColdRow \cup {None}]
    BY <2>1, <1>14, StatusChanged DEF MarkDormant, Hidden
  <2>3. n \in Request /\ (s.op = "evict" => HoldsThen(n))
    BY <1>0, <1>14 DEF MarkDormant, Request, Holds, HoldsNow, HoldsThen
  <2>4. Idle \in Request /\ HoldsThen(Idle)
    BY <1>0 DEF Idle, Holds, HoldsNow, HoldsThen
  <2>5. Becomes(r, Idle) \/ (s.op = "evict" /\ Becomes(r, n))
    BY <1>14 DEF MarkDormant, Becomes
  <2> QED
    BY <2>2, <2>3, <2>4, <2>5, <1>14, OneMoves DEF MarkDormant, Inv, Typed
<1>15. ASSUME NEW c \in ColdIds, BeginPromote(r, c) PROVE Inv'
  <2> DEFINE n == [Idle EXCEPT !.pc = "promote", !.op = "promote",
                               !.key = cold[c].text, !.cold = c]
  <2>1. cold[c] \in ColdRow
    BY <1>15 DEF BeginPromote, Inv, Typed
  <2>2. n \in Request /\ HoldsNow(n)
    BY <1>0, <1>15, <2>1 DEF BeginPromote, Idle, Request, Holds, HoldsNow, HoldsThen, ColdRow
  <2> QED
    BY <2>2, <1>15, OneReads DEF BeginPromote
<1>16. CASE PromoteHot(r)
  <2> DEFINE n == [s EXCEPT !.pc = "mark"]
  <2>1. s.key \in Texts
    BY <1>0, <1>16 DEF PromoteHot, Holds, HoldsNow, HoldsThen
  <2>2. /\ Forward /\ IdsInOrder' /\ Archived'
        /\ hot' \in [HotIds -> Texts \cup {None}] /\ lastHot' \in 0..MaxHot
    BY <2>1, <1>16, HotInserted DEF PromoteHot
  <2>3. n \in Request /\ HoldsThen(n)
    BY <1>0, <1>16, <2>2 DEF PromoteHot, Request, Holds, HoldsNow, HoldsThen, Forward
  <2> QED
    BY <2>2, <2>3, <1>16, OneMoves DEF PromoteHot, Inv, Typed
<1>17. ASSUME NEW q \in Queries, NEW t \in Replacements, BeginReplace(r, q, t) PROVE Inv'
  <2> DEFINE take(h) == [Idle EXCEPT !.pc = "update", !.key = t,
                                     !.row = [id |-> h, text |-> hot[h]]]
  <2>1. ASSUME NEW h \in Best(q) PROVE take(h) \in Request /\ HoldsNow(take(h))
    <3> DEFINE n == take(h)
    <3>1. h <= lastHot /\ [id |-> h, text |-> hot[h]] \in HotRow
      BY <2>1, BestIsThere
    <3>2. /\ n \in Request /\ n.pc = "update" /\ n.key \in Texts
          /\ n.row \in HotRow /\ n.row.id = h
      BY <1>0, <3>1 DEF Idle, Request
    <3>3. HoldsNow(n)
      <4> HIDE DEF n
      <4> QED
        BY <3>1, <3>2 DEF Holds, HoldsNow
    <3> QED
      BY <3>2, <3>3
  <2> QED
    BY <2>1, <1>17, OneReads DEF BeginReplace
<1>18. CASE Replace(r)
  <2>1. s.row.id \in HotIds /\ s.row.id <= lastHot /\ s.key \in Texts
    BY <1>0, <1>18 DEF Replace, Holds, HoldsNow, HoldsThen, HotRow
  <2>2. hot' = IF hot[s.row.id] = None THEN hot ELSE [hot EXCEPT ![s.row.id] = s.key]
    BY <1>18 DEF Replace
  <2>3. /\ Forward /\ IdsInOrder' /\ Archived'
        /\ hot' \in [HotIds -> Texts \cup {None}]
    BY <2>1, <2>2, <1>18 DEF Replace, Inv, Typed, Forward, IdsInOrder, Archived, HotIds, ColdRow
  <2>4. HoldsThen(Idle)
    BY <1>0 DEF Idle, Holds, HoldsNow, HoldsThen
  <2> QED
    BY <2>3, <2>4, <1>0, <1>18, OneMoves DEF Replace, Inv, Typed
<1>19. CASE ColdAdd(r)
  <2>1. s.key \in Texts
    BY <1>0, <1>19 DEF ColdAdd, Holds, HoldsNow, HoldsThen
  <2>2. HoldsThen(Idle)
    BY <1>0 DEF Idle, Holds, HoldsNow, HoldsThen
  <2> QED
    BY <2>1, <2>2, <1>0, <1>19, ColdInserted, OneMoves DEF ColdAdd, Inv, Typed
<1>20. CASE Dies(r)
  BY <1>0, <1>20, OneReads DEF Dies
<1> QED
  BY <1>1, <1>2, <1>3, <1>4, <1>5, <1>6, <1>7, <1>8, <1>9, <1>10, <1>11, <1>12,
     <1>13, <1>14, <1>15, <1>16, <1>17, <1>18, <1>19, <1>20, <1>21 DEF Step

LEMMA RestoreInv ==
    ASSUME BoundsAssumption, NoneAssumption, Inv, NEW c \in ColdIds, RestoreCold(c)
    PROVE  Inv'
<1>1. /\ Forward /\ IdsInOrder' /\ Archived'
      /\ cold' \in [ColdIds -> ColdRow \cup {None}]
  BY StatusChanged DEF RestoreCold
<1>2. Typed'
  BY <1>1 DEF RestoreCold, Inv, Typed
<1>3. ASSUME NEW r \in Clients PROVE HoldsThen(request'[r])
  BY <1>1 DEF RestoreCold, Inv, Holds, HoldsNow, HoldsThen, Forward
<1> QED
  BY <1>1, <1>2, <1>3 DEF Inv, HoldsNow, HoldsThen

LEMMA InvSteps ==
    /\ Init => Inv
    /\ Inv /\ [Next]_vars => Inv'
<1>1. Init => Inv
  BY InitInv, TextAssumption, BoundsAssumption, NoneAssumption
<1>2. ASSUME Inv, [Next]_vars PROVE Inv'
  <2>1. CASE Next
    BY <1>2, <2>1, StepInv, RestoreInv, TextAssumption, BoundsAssumption, NoneAssumption DEF Next
  <2>2. CASE UNCHANGED vars
    BY <1>2, <2>2, NothingMoves DEF vars, HoldsNow, HoldsThen
  <2> QED
    BY <1>2, <2>1, <2>2
<1> QED
  BY <1>1, <1>2

-----------------------------------------------------------------------------
(* Nothing is lost on the way.  Cold rows keep their text and origin        *)
(* because their ids, too, are given out in order.                          *)

ColdInOrder == \A c \in ColdIds : cold[c] # None => c <= lastCold

\* What a step does to cold_memory: nothing, an insert or a change of status.
ColdMoves ==
    \/ UNCHANGED <<cold, lastCold>>
    \/ \E t, h : InsertCold(t, h)
    \/ \E c \in ColdIds, status \in {"active", "dormant"} :
          /\ cold[c] # None /\ lastCold' = lastCold
          /\ cold' = [cold EXCEPT ![c].status = status]

CopiesStay ==
    \A c \in ColdIds : cold[c] # None =>
        cold'[c] # None /\ cold'[c].text = cold[c].text /\ cold'[c].from = cold[c].from

LEMMA ColdKeepsOrder ==
    ASSUME NoneAssumption, BoundsAssumption, Inv, ColdInOrder, ColdMoves
    PROVE  ColdInOrder' /\ CopiesStay
<1>1. /\ cold \in [ColdIds -> ColdRow \cup {None}] /\ lastCold \in Nat
      /\ ColdIds \subseteq Nat /\ None \notin ColdRow
  BY BoundsAssumption, NoneAssumption DEF Inv, Typed, ColdIds
<1>2. CASE UNCHANGED <<cold, lastCold>>
  BY <1>2 DEF ColdInOrder, CopiesStay
<1>3. CASE \E t, h : InsertCold(t, h)
  <2>1. PICK t, h : InsertCold(t, h)
    BY <1>3
  <2> DEFINE row == [text |-> t, status |-> "active", from |-> h]
  <2>2. lastCold' = lastCold + 1 /\ cold' = [cold EXCEPT ![lastCold + 1] = row]
    BY <2>1 DEF InsertCold
  <2> HIDE DEF row
  <2>3. \A c \in ColdIds : c # lastCold + 1 => cold'[c] = cold[c]
    BY <1>1, <2>2
  <2>4. \A c \in ColdIds : cold[c] # None => c # lastCold + 1 /\ c <= lastCold + 1
    BY <1>1 DEF ColdInOrder
  <2>5. ColdInOrder'
    <3> SUFFICES ASSUME NEW c \in ColdIds, cold'[c] # None PROVE c <= lastCold + 1
      BY <2>2 DEF ColdInOrder
    <3>1. CASE c = lastCold + 1
      BY <1>1, <3>1
    <3>2. CASE c # lastCold + 1
      BY <2>3, <2>4, <3>2
    <3> QED
      BY <3>1, <3>2
  <2> QED
    BY <2>3, <2>4, <2>5 DEF CopiesStay
<1>4. CASE \E c \in ColdIds, status \in {"active", "dormant"} :
              /\ cold[c] # None /\ lastCold' = lastCold
              /\ cold' = [cold EXCEPT ![c].status = status]
  <2>1. PICK c \in ColdIds, status \in {"active", "dormant"} :
              /\ cold[c] # None /\ lastCold' = lastCold
              /\ cold' = [cold EXCEPT ![c].status = status]
    BY <1>4
  <2> DEFINE row == [cold[c] EXCEPT !.status = status]
  <2>2. cold[c] \in ColdRow
    BY <1>1, <2>1
  <2>3. row \in ColdRow /\ row.text = cold[c].text /\ row.from = cold[c].from
    BY <2>2 DEF ColdRow
  <2>4. cold' = [cold EXCEPT ![c] = row]
    BY <1>1, <2>1
  <2> HIDE DEF row
  <2>5. cold'[c] = row /\ \A d \in ColdIds : d # c => cold'[d] = cold[d]
    BY <1>1, <2>4
  <2>6. ColdInOrder'
    BY <2>1, <2>5 DEF ColdInOrder
  <2>7. CopiesStay
    BY <1>1, <2>3, <2>5 DEF CopiesStay
  <2> QED
    BY <2>6, <2>7
<1> QED
  BY <1>2, <1>3, <1>4 DEF ColdMoves

LEMMA StepMovesCold ==
    ASSUME Inv, NEW r \in Clients, Step(r)
    PROVE  ColdMoves
<1> USE DEF ColdMoves
<1>0. HoldsNow(request[r])
  BY DEF Inv
<1>1. CASE ArchivePopped(r)
  BY <1>1 DEF ArchivePopped
<1>2. CASE EvictAgain(r)
  BY <1>2 DEF EvictAgain
<1>3. CASE ColdAdd(r)
  BY <1>3 DEF ColdAdd
<1>4. CASE MarkDormant(r)
  <2>1. request[r].cold \in ColdIds /\ cold[request[r].cold] # None
    BY <1>0, <1>4 DEF MarkDormant, Holds, HoldsNow
  <2> QED
    BY <1>4, <2>1 DEF MarkDormant, Hidden
<1>5. CASE UNCHANGED <<cold, lastCold>>
  BY <1>5
<1>6. ASSUME NEW t \in NewTexts, BeginAdd(r, t) \/ BeginColdAdd(r, t) PROVE ColdMoves
  BY <1>5, <1>6 DEF BeginAdd, BeginColdAdd
<1>7. CASE \/ FindCold(r) \/ FindNear(r) \/ HotAdd(r) \/ ReadChars(r)
           \/ ReadCount(r) \/ ListEntries(r) \/ EvictSelect(r) \/ EvictEnds(r)
           \/ Pop(r) \/ PromoteHot(r) \/ Replace(r) \/ Dies(r)
  BY <1>5, <1>7 DEF FindCold, FindNear, HotAdd, ReadChars, ReadCount, ListEntries,
                    EvictSelect, EvictEnds, Pop, PromoteHot, Replace, Dies
<1>8. ASSUME NEW s \in Queries, NEW op \in {"remove", "archive"}, BeginPop(r, op, s)
      PROVE  ColdMoves
  BY <1>5, <1>8 DEF BeginPop
<1>9. ASSUME NEW s \in Queries, NEW t \in Replacements, BeginReplace(r, s, t) PROVE ColdMoves
  BY <1>5, <1>9 DEF BeginReplace
<1>10. ASSUME NEW c \in ColdIds, BeginPromote(r, c) PROVE ColdMoves
  BY <1>5, <1>10 DEF BeginPromote
<1> QED
  BY <1>1, <1>2, <1>3, <1>4, <1>6, <1>7, <1>8, <1>9, <1>10 DEF Step

\* Who carries a popped row is at its insert, and only the insert, a death or
\* the pop itself concerns it.
LEMMA OthersCarryOn ==
    ASSUME Inv, NEW r \in Clients, Step(r), ~Dies(r), ~Pop(r), ~ArchivePopped(r)
    PROVE  /\ popped' = popped
           /\ \/ UNCHANGED request
              \/ request[r].pc # "archive" /\ \E st : Becomes(r, st)
<1> DEFINE Goal == /\ popped' = popped
                   /\ \/ UNCHANGED request
                      \/ request[r].pc # "archive" /\ \E st : Becomes(r, st)
<1>1. ASSUME NEW t \in NewTexts, BeginAdd(r, t) \/ BeginColdAdd(r, t) PROVE Goal
  BY <1>1 DEF BeginAdd, BeginColdAdd
<1>2. CASE FindCold(r) \/ FindNear(r) \/ HotAdd(r) \/ ReadChars(r)
  BY <1>2 DEF FindCold, FindNear, HotAdd, ReadChars
<1>3. CASE ReadCount(r) \/ ListEntries(r)
  BY <1>3 DEF ReadCount, ListEntries
<1>4. CASE EvictSelect(r)
  BY <1>4 DEF EvictSelect
<1>5. CASE EvictEnds(r) \/ EvictAgain(r) \/ MarkDormant(r)
  BY <1>5 DEF EvictEnds, EvictAgain, MarkDormant
<1>6. CASE PromoteHot(r) \/ Replace(r) \/ ColdAdd(r)
  BY <1>6 DEF PromoteHot, Replace, ColdAdd
<1>7. ASSUME NEW s \in Queries, NEW op \in {"remove", "archive"}, BeginPop(r, op, s)
      PROVE  Goal
  BY <1>7 DEF BeginPop
<1>8. ASSUME NEW s \in Queries, NEW t \in Replacements, BeginReplace(r, s, t) PROVE Goal
  BY <1>8 DEF BeginReplace
<1>9. ASSUME NEW c \in ColdIds, BeginPromote(r, c) PROVE Goal
  BY <1>9 DEF BeginPromote
<1> QED
  BY <1>1, <1>2, <1>3, <1>4, <1>5, <1>6, <1>7, <1>8, <1>9 DEF Step

Copied(p)  == \E c \in ColdIds : cold[c] # None /\ cold[c].from = p.id /\ cold[c].text = p.text
Carried(p) == \E r \in Clients : request[r].row = p /\ request[r].pc = "archive"

LEMMA LostIs == Lost = {p \in popped : ~Copied(p) /\ ~Carried(p)}
  BY DEF Lost, Copied, Carried

\* A popped row keeps its copy, and keeps its carrier until there is a copy.
LEMMA StepLosesNothing ==
    ASSUME NoneAssumption, BoundsAssumption, Inv, ColdInOrder,
           NEW r \in Clients, Step(r), ~Dies(r), ~ReplacedBefore(r)
    PROVE  Lost' \subseteq Lost
<1>1. ColdMoves /\ CopiesStay
  BY StepMovesCold, ColdKeepsOrder
<1>2. \A p \in popped : Copied(p) => Copied(p)'
  BY <1>1 DEF Copied, CopiesStay
<1>3. request \in [Clients -> Request] /\ HoldsNow(request[r])
  BY DEF Inv, Typed
<1>4. Lost' = {p \in popped' : ~Copied(p)' /\ ~Carried(p)'}
  BY DEF Lost, Copied, Carried
<1>5. SUFFICES ASSUME NEW p \in popped', ~Copied(p)', ~Carried(p)'
               PROVE  p \in popped /\ ~Carried(p)
  BY <1>2, <1>4, LostIs
<1>6. CASE Pop(r)
  <2>0. PICK row : row = request[r].row
    OBVIOUS
  <2> DEFINE h == row.id
  <2>1. row \in HotRow /\ request[r].pc = "pop"
    BY <1>3, <1>6, <2>0 DEF Pop, Holds, HoldsNow
  <2>2. /\ request' = [request EXCEPT ![r] = [request[r] EXCEPT !.pc = "archive"]]
        /\ popped' = IF hot[h] = None THEN popped ELSE popped \cup {[id |-> h, text |-> hot[h]]}
    BY <1>6, <2>0 DEF Pop, Becomes, AfterPop
  <2>3. request'[r].row = row /\ request'[r].pc = "archive"
    BY <1>3, <2>0, <2>2 DEF Request
  <2>4. Carried(row)'
    BY <2>3 DEF Carried
  <2>5. hot[h] \in {None, row.text}
    BY <1>6, <2>0 DEF ReplacedBefore
  <2>6. row = [id |-> h, text |-> row.text]
    BY <2>1 DEF HotRow
  <2>7. p \in popped
    <3>1. p = row => FALSE
      BY <1>5, <2>4
    <3> QED
      BY <2>2, <2>5, <2>6, <3>1
  <2>8. ASSUME Carried(p) PROVE FALSE
    <3>1. PICK q \in Clients : request[q].row = p /\ request[q].pc = "archive"
      BY <2>8 DEF Carried
    <3>2. q # r
      BY <2>1, <3>1
    <3>3. request'[q] = request[q]
      BY <1>3, <2>2, <3>2
    <3> QED
      BY <1>5, <3>1, <3>3 DEF Carried
  <2> QED
    BY <2>7, <2>8
<1>7. CASE ArchivePopped(r)
  <2>0. PICK row : row = request[r].row
    OBVIOUS
  <2> DEFINE new == [text |-> row.text, status |-> "active", from |-> row.id]
  <2>1. /\ popped' = popped /\ request[r].pc = "archive" /\ \E st : Becomes(r, st)
        /\ lastCold < MaxCold /\ cold' = [cold EXCEPT ![lastCold + 1] = new]
    BY <1>7, <2>0 DEF ArchivePopped, InsertCold
  <2>2. row \in HotRow
    BY <1>3, <2>0, <2>1 DEF Holds, HoldsNow
  <2>3. lastCold + 1 \in ColdIds /\ new \in ColdRow /\ new # None
    BY <2>1, <2>2 DEF Inv, Typed, ColdIds, ColdRow, HotRow
  <2>4. cold'[lastCold + 1] = new
    BY <2>1, <2>3 DEF Inv, Typed
  <2>5. new.from = row.id /\ new.text = row.text
    OBVIOUS
  <2> HIDE DEF new
  <2>6. Copied(row)'
    BY <2>3, <2>4, <2>5 DEF Copied
  <2>7. ASSUME Carried(p) PROVE FALSE
    <3>1. PICK q \in Clients : request[q].row = p /\ request[q].pc = "archive"
      BY <2>7 DEF Carried
    <3>2. q # r
      BY <1>5, <2>0, <2>6, <3>1
    <3>3. request'[q] = request[q]
      BY <1>3, <2>1, <3>2 DEF Becomes
    <3> QED
      BY <1>5, <3>1, <3>3 DEF Carried
  <2> QED
    BY <2>1, <2>7
<1>8. CASE ~Pop(r) /\ ~ArchivePopped(r)
  <2>1. /\ popped' = popped
        /\ \/ UNCHANGED request
           \/ request[r].pc # "archive" /\ \E st : Becomes(r, st)
    BY <1>8, OthersCarryOn
  <2>2. ASSUME Carried(p) PROVE FALSE
    <3>1. PICK q \in Clients : request[q].row = p /\ request[q].pc = "archive"
      BY <2>2 DEF Carried
    <3>2. request'[q] = request[q]
      BY <1>3, <2>1, <3>1 DEF Becomes
    <3> QED
      BY <1>5, <3>1, <3>2 DEF Carried
  <2> QED
    BY <2>1, <2>2
<1> QED
  BY <1>6, <1>7, <1>8

OnlyFaults == Lost' \subseteq Lost \/ \E r \in Clients : Dies(r) \/ ReplacedBefore(r)

\* What leaves the hot tier arrives in the cold one, except that the request
\* that carries it dies or that the row was replaced between the select and the
\* delete (hot_remove, archive and _evict_hot): for any number of threads, texts,
\* rows and faults.
THEOREM OnlyFaultsLoseMemories == Spec => OnlyFaultsLose
<1>1. Init => Inv /\ ColdInOrder
  <2>1. Init => Inv
    BY InitInv, TextAssumption, BoundsAssumption, NoneAssumption
  <2>2. Init => ColdInOrder
    BY DEF Init, ColdInOrder
  <2> QED
    BY <2>1, <2>2
<1>2. Inv /\ ColdInOrder /\ [Next]_vars => (Inv /\ ColdInOrder)'
  <2> SUFFICES ASSUME Inv, ColdInOrder, [Next]_vars PROVE (Inv /\ ColdInOrder)'
    OBVIOUS
  <2>1. ASSUME NEW r \in Clients, Step(r) PROVE (Inv /\ ColdInOrder)'
    BY <2>1, StepInv, StepMovesCold, ColdKeepsOrder, TextAssumption, BoundsAssumption,
       NoneAssumption
  <2>2. ASSUME NEW c \in ColdIds, RestoreCold(c) PROVE (Inv /\ ColdInOrder)'
    <3>1. ColdMoves
      BY <2>2 DEF RestoreCold, ColdMoves
    <3> QED
      BY <2>2, <3>1, RestoreInv, ColdKeepsOrder, BoundsAssumption, NoneAssumption
  <2>3. CASE UNCHANGED vars
    BY <2>3, NothingMoves DEF vars, ColdInOrder
  <2> QED
    BY <2>1, <2>2, <2>3 DEF Next
<1>3. Inv /\ ColdInOrder /\ [Next]_vars => [OnlyFaults]_vars
  <2> SUFFICES ASSUME Inv, ColdInOrder, [Next]_vars PROVE [OnlyFaults]_vars
    OBVIOUS
  <2>1. ASSUME NEW r \in Clients, Step(r) PROVE OnlyFaults
    BY <2>1, StepLosesNothing, BoundsAssumption, NoneAssumption DEF OnlyFaults
  <2>2. ASSUME NEW c \in ColdIds, RestoreCold(c) PROVE OnlyFaults
    <3>1. ColdMoves
      BY <2>2 DEF RestoreCold, ColdMoves
    <3>2. CopiesStay
      BY <3>1, ColdKeepsOrder, BoundsAssumption, NoneAssumption
    <3>3. popped' = popped /\ request' = request
      BY <2>2 DEF RestoreCold
    <3>4. \A p \in popped : (Copied(p) => Copied(p)') /\ (Carried(p) => Carried(p)')
      BY <3>2, <3>3 DEF Copied, CopiesStay, Carried
    <3>5. Lost' = {p \in popped' : ~Copied(p)' /\ ~Carried(p)'}
      BY DEF Lost, Copied, Carried
    <3> QED
      BY <3>3, <3>4, <3>5, LostIs DEF OnlyFaults
  <2> QED
    BY <2>1, <2>2 DEF Next
<1>4. OnlyFaultsLose <=> [][OnlyFaults]_vars
  BY DEF OnlyFaultsLose, OnlyFaults
<1> QED
  BY <1>1, <1>2, <1>3, <1>4, PTL DEF Spec

-----------------------------------------------------------------------------
(* In one tier at a time.  What promote doubles is hidden again by the      *)
(* request that doubled it, if nothing takes that away from it.             *)

Promoted ==
    \A p \in promoted : p \in Promotion /\ p.hot <= lastHot /\ cold[p.cold] # None

Hiding(st, c) == st.op = "promote" /\ st.pc = "mark" /\ st.cold = c

\* Rows that are gone stay gone.
LEMMA HotForward ==
    ASSUME NoneAssumption, BoundsAssumption, Inv, NEW r \in Clients, Step(r)
    PROVE  /\ lastHot <= lastHot'
           /\ \A h \in HotIds : h <= lastHot /\ hot[h] = None => hot'[h] = None
<1> DEFINE Goal == /\ lastHot <= lastHot'
                   /\ \A h \in HotIds : h <= lastHot /\ hot[h] = None => hot'[h] = None
<1> USE BoundsAssumption DEF Inv, Typed
<1>1. CASE UNCHANGED <<hot, lastHot>>
  BY <1>1
<1>2. CASE HotAdd(r) \/ PromoteHot(r)
  BY <1>2 DEF HotAdd, PromoteHot, InsertHot, HotIds
<1>3. CASE Pop(r) \/ Replace(r)
  BY <1>3 DEF Pop, Replace
<1>4. ASSUME NEW t \in NewTexts, BeginAdd(r, t) \/ BeginColdAdd(r, t) PROVE Goal
  BY <1>1, <1>4 DEF BeginAdd, BeginColdAdd
<1>5. CASE FindCold(r) \/ FindNear(r) \/ ReadChars(r) \/ ReadCount(r) \/ ListEntries(r)
           \/ EvictSelect(r) \/ EvictEnds(r) \/ EvictAgain(r)
  BY <1>1, <1>5 DEF FindCold, FindNear, ReadChars, ReadCount, ListEntries, EvictSelect,
                    EvictEnds, EvictAgain
<1>6. CASE ArchivePopped(r) \/ MarkDormant(r) \/ ColdAdd(r) \/ Dies(r)
  BY <1>1, <1>6 DEF ArchivePopped, MarkDormant, ColdAdd, Dies
<1>7. ASSUME NEW s \in Queries, NEW op \in {"remove", "archive"}, BeginPop(r, op, s) PROVE Goal
  BY <1>1, <1>7 DEF BeginPop
<1>8. ASSUME NEW s \in Queries, NEW t \in Replacements, BeginReplace(r, s, t) PROVE Goal
  BY <1>1, <1>8 DEF BeginReplace
<1>9. ASSUME NEW c \in ColdIds, BeginPromote(r, c) PROVE Goal
  BY <1>1, <1>9 DEF BeginPromote
<1> QED
  BY <1>2, <1>3, <1>4, <1>5, <1>6, <1>7, <1>8, <1>9 DEF Step

\* The steps that have nothing to do with a promotion.
LEMMA NoPromotion ==
    ASSUME Inv, NEW r \in Clients, Step(r), ~MarkDormant(r), ~PromoteHot(r)
    PROVE  /\ promoted' = promoted
           /\ UNCHANGED <<cold, lastCold>> \/ \E t, h : InsertCold(t, h)
           /\ UNCHANGED request \/ \E st : Becomes(r, st)
           /\ Dies(r) \/ request[r].pc # "mark"
<1> DEFINE Goal == /\ promoted' = promoted
                   /\ UNCHANGED <<cold, lastCold>> \/ \E t, h : InsertCold(t, h)
                   /\ UNCHANGED request \/ \E st : Becomes(r, st)
                   /\ Dies(r) \/ request[r].pc # "mark"
<1>1. ASSUME NEW t \in NewTexts, BeginAdd(r, t) \/ BeginColdAdd(r, t) PROVE Goal
  BY <1>1 DEF BeginAdd, BeginColdAdd
<1>2. CASE FindCold(r) \/ FindNear(r) \/ HotAdd(r) \/ ReadChars(r)
  BY <1>2 DEF FindCold, FindNear, HotAdd, ReadChars
<1>3. CASE ReadCount(r) \/ ListEntries(r)
  BY <1>3 DEF ReadCount, ListEntries
<1>4. CASE EvictSelect(r)
  BY <1>4 DEF EvictSelect
<1>5. CASE EvictEnds(r) \/ EvictAgain(r)
  BY <1>5 DEF EvictEnds, EvictAgain
<1>6. CASE Replace(r) \/ ColdAdd(r) \/ Pop(r) \/ ArchivePopped(r) \/ Dies(r)
  BY <1>6 DEF Replace, ColdAdd, Pop, ArchivePopped, Dies
<1>7. ASSUME NEW s \in Queries, NEW op \in {"remove", "archive"}, BeginPop(r, op, s) PROVE Goal
  BY <1>7 DEF BeginPop
<1>8. ASSUME NEW s \in Queries, NEW t \in Replacements, BeginReplace(r, s, t) PROVE Goal
  BY <1>8 DEF BeginReplace
<1>9. ASSUME NEW c \in ColdIds, BeginPromote(r, c) PROVE Goal
  BY <1>9 DEF BeginPromote
<1> QED
  BY <1>1, <1>2, <1>3, <1>4, <1>5, <1>6, <1>7, <1>8, <1>9 DEF Step

\* A promotion shows in both tiers when the one that would have hidden it dies.
LEMMA StepDoubles ==
    ASSUME NoneAssumption, BoundsAssumption, Inv, ColdInOrder, Promoted,
           NEW r \in Clients, Step(r)
    PROVE  /\ Promoted'
           /\ \A p \in Doubled' \ Doubled : Dies(r) /\ Hiding(request[r], p.cold)
<1>1. /\ request \in [Clients -> Request] /\ HoldsNow(request[r])
      /\ cold \in [ColdIds -> ColdRow \cup {None}] /\ lastHot \in Nat /\ lastCold \in Nat
      /\ HotIds \subseteq Nat /\ ColdIds \subseteq Nat
  BY BoundsAssumption DEF Inv, Typed, HotIds, ColdIds
<1>2. CopiesStay
  BY StepMovesCold, ColdKeepsOrder
<1>3. /\ lastHot <= lastHot' /\ lastHot' \in Nat
      /\ \A h \in HotIds : h <= lastHot /\ hot[h] = None => hot'[h] = None
  <2>1. Inv'
    BY StepInv, TextAssumption
  <2> QED
    BY <2>1, HotForward, BoundsAssumption DEF Inv, Typed
<1>4. ASSUME NEW p \in promoted
      PROVE  /\ p \in Promotion /\ p.hot <= lastHot' /\ cold'[p.cold] # None
             /\ p.hot \in HotIds /\ p.cold \in ColdIds
             /\ hot'[p.hot] # None => hot[p.hot] # None
  <2>1. p \in Promotion /\ p.hot <= lastHot /\ cold[p.cold] # None
    BY <1>4 DEF Promoted
  <2>2. p.hot \in HotIds /\ p.cold \in ColdIds
    BY <2>1 DEF Promotion
  <2>3. p.hot <= lastHot'
    <3>1. PICK h, m, n \in Nat : h = p.hot /\ m = lastHot /\ n = lastHot'
      BY <1>1, <1>3, <2>2
    <3>2. h <= m /\ m <= n
      BY <1>3, <2>1, <3>1
    <3>3. h <= n
      BY <3>2
    <3> QED
      BY <3>1, <3>3
  <2> QED
    BY <1>2, <1>3, <2>1, <2>2, <2>3 DEF CopiesStay
<1>5. ASSUME NEW p \in Doubled', p \in promoted, cold'[p.cold].status = "active"
                => cold[p.cold].status = "active",
             \A q \in Clients : q # r => request'[q] = request[q],
             ~Hiding(request[r], p.cold)
      PROVE  p \in Doubled
  <2>1. /\ hot'[p.hot] # None /\ cold'[p.cold].status = "active"
        /\ \A q \in Clients : ~Hiding(request'[q], p.cold)
    BY <1>5 DEF Doubled, Hiding
  <2>2. hot[p.hot] # None /\ cold[p.cold].status = "active"
    BY <1>4, <1>5, <2>1
  <2>3. \A q \in Clients : ~Hiding(request[q], p.cold)
    BY <1>5, <2>1
  <2> QED
    BY <1>5, <2>2, <2>3 DEF Doubled, Hiding
<1>6. CASE PromoteHot(r)
  <2> DEFINE c == request[r].cold
             new == [cold |-> c, hot |-> lastHot + 1]
  <2>1. /\ request[r].pc = "promote" /\ request[r].op = "promote"
        /\ c \in ColdIds /\ cold[c] # None
    BY <1>1, <1>6 DEF PromoteHot, Holds, HoldsNow
  <2>2. /\ lastHot < MaxHot /\ lastHot' = lastHot + 1
        /\ promoted' = promoted \cup {new} /\ cold' = cold
        /\ request' = [request EXCEPT ![r] = [request[r] EXCEPT !.pc = "mark"]]
    BY <1>6 DEF PromoteHot, InsertHot, Becomes
  <2>3. new \in Promotion /\ new.hot <= lastHot' /\ cold'[new.cold] # None
    BY <1>1, <2>1, <2>2, BoundsAssumption DEF Promotion, HotIds
  <2>4. Hiding(request'[r], c) /\ ~Hiding(request[r], c)
        /\ \A d : ~Hiding(request[r], d)
    BY <1>1, <2>1, <2>2 DEF Hiding, Request
  <2>5. \A q \in Clients : q # r => request'[q] = request[q]
    BY <1>1, <2>2
  <2>6. ASSUME NEW p \in Doubled' PROVE p \in Doubled
    <3>1. p # new
      BY <2>4 DEF Doubled, Hiding
    <3>2. p \in promoted
      BY <2>2, <3>1 DEF Doubled
    <3> QED
      BY <1>5, <2>2, <2>4, <2>5, <3>2
  <2>7. Promoted'
    BY <1>4, <2>2, <2>3 DEF Promoted
  <2> QED
    BY <2>6, <2>7
<1>7. CASE MarkDormant(r)
  <2> DEFINE c == request[r].cold
  <2>1. request[r].pc = "mark" /\ c \in ColdIds /\ cold[c] # None
    BY <1>1, <1>7 DEF MarkDormant, Holds, HoldsNow
  <2>2. /\ promoted' = promoted /\ cold' = [cold EXCEPT ![c].status = "dormant"]
        /\ \E st : request' = [request EXCEPT ![r] = st]
    BY <1>7 DEF MarkDormant, Becomes, Hidden
  <2>3. cold[c] \in ColdRow
    BY <1>1, <2>1
  <2>4. cold'[c].status = "dormant" /\ \A d \in ColdIds : d # c => cold'[d] = cold[d]
    BY <1>1, <2>1, <2>2, <2>3 DEF ColdRow
  <2>5. \A q \in Clients : q # r => request'[q] = request[q]
    BY <1>1, <2>2
  <2>6. ASSUME NEW p \in Doubled' PROVE p \in Doubled
    <3>1. p \in promoted /\ cold'[p.cold].status = "active"
      BY <2>2 DEF Doubled
    <3>2. p.cold # c /\ p.cold \in ColdIds
      BY <1>4, <2>4, <3>1
    <3>3. ~Hiding(request[r], p.cold)
      BY <3>2 DEF Hiding
    <3> QED
      BY <1>5, <2>4, <2>5, <3>1, <3>2, <3>3
  <2>7. Promoted'
    BY <1>4, <2>2 DEF Promoted
  <2> QED
    BY <2>6, <2>7
<1>8. CASE ~PromoteHot(r) /\ ~MarkDormant(r)
  <2>1. /\ promoted' = promoted
        /\ UNCHANGED <<cold, lastCold>> \/ \E t, h : InsertCold(t, h)
        /\ UNCHANGED request \/ \E st : Becomes(r, st)
        /\ Dies(r) \/ request[r].pc # "mark"
    BY <1>8, NoPromotion
  <2>2. \A q \in Clients : q # r => request'[q] = request[q]
    BY <1>1, <2>1 DEF Becomes
  <2>3. \A d \in ColdIds : cold[d] # None => cold'[d] = cold[d]
    <3>1. \A d \in ColdIds : cold[d] # None => d # lastCold + 1
      BY <1>1 DEF ColdInOrder
    <3> QED
      BY <1>1, <2>1, <3>1 DEF InsertCold
  <2>4. ASSUME NEW p \in Doubled' PROVE p \in Doubled \/ (Dies(r) /\ Hiding(request[r], p.cold))
    <3>1. p \in promoted
      BY <2>1 DEF Doubled
    <3>2. cold'[p.cold] = cold[p.cold]
      BY <1>4, <2>3, <3>1 DEF Promoted
    <3>3. CASE ~Hiding(request[r], p.cold)
      BY <1>5, <2>2, <3>1, <3>2, <3>3
    <3>4. CASE Hiding(request[r], p.cold)
      BY <2>1, <3>4 DEF Hiding
    <3> QED
      BY <3>3, <3>4
  <2>5. Promoted'
    BY <1>4, <2>1 DEF Promoted
  <2> QED
    BY <2>4, <2>5
<1> QED
  BY <1>6, <1>7, <1>8

\* Or when the cold row is restored.
LEMMA RestoreDoubles ==
    ASSUME NoneAssumption, BoundsAssumption, Inv, ColdInOrder, Promoted,
           NEW c \in ColdIds, RestoreCold(c)
    PROVE  ColdInOrder' /\ Promoted' /\ \A p \in Doubled' \ Doubled : p.cold = c
<1>1. ColdMoves
  BY DEF RestoreCold, ColdMoves
<1>2. ColdInOrder' /\ CopiesStay
  BY <1>1, ColdKeepsOrder
<1>3. UNCHANGED <<hot, lastHot, request, promoted>>
  BY DEF RestoreCold
<1>4. Promoted'
  BY <1>2, <1>3 DEF Promoted, Promotion, CopiesStay
<1>5. \A d \in ColdIds : d # c => cold'[d] = cold[d]
  BY DEF RestoreCold, Inv, Typed
<1>6. ASSUME NEW p \in Doubled', p.cold # c PROVE p \in Doubled
  <2>1. p \in promoted /\ p.cold \in ColdIds
    BY <1>3 DEF Doubled, Promoted, Promotion
  <2> QED
    BY <1>3, <1>5, <1>6, <2>1 DEF Doubled
<1> QED
  BY <1>2, <1>4, <1>6

\* A memory that leaves the hot tier is gone from it before it is in the cold
\* one; and one that promote brings back is found in both only after a promote
\* died between its two commits, or the cold row it hid was restored: for any
\* number of threads, texts, rows and faults.
THEOREM OneTierUnlessPromoteDies == Spec => OneTierAtATime
<1> DEFINE I == Inv /\ ColdInOrder /\ Promoted
           Good == /\ ArchivedAreGone'
                   /\ \A p \in Doubled' \ Doubled :
                        \/ \E r \in Clients : /\ Dies(r) /\ request[r].op = "promote"
                                             /\ request[r].cold = p.cold
                        \/ RestoreCold(p.cold)
<1>1. Init => I
  <2>1. Init => ColdInOrder /\ Promoted
    BY DEF Init, ColdInOrder, Promoted
  <2> QED
    BY <2>1, InvSteps
<1>2. ASSUME I, [Next]_vars PROVE I' /\ [Good]_vars
  <2>1. Inv' /\ ArchivedAreGone'
    <3>1. Inv'
      BY <1>2, InvSteps
    <3>2. Inv' => ArchivedAreGone'
      BY DEF Inv, Archived, ArchivedAreGone
    <3> QED
      BY <3>1, <3>2
  <2>2. ASSUME NEW r \in Clients, Step(r) PROVE ColdInOrder' /\ Promoted' /\ Good
    <3>1. ColdInOrder'
      BY <1>2, <2>2, StepMovesCold, ColdKeepsOrder, BoundsAssumption, NoneAssumption
    <3>2. Promoted' /\ \A p \in Doubled' \ Doubled : Dies(r) /\ Hiding(request[r], p.cold)
      BY <1>2, <2>2, StepDoubles, BoundsAssumption, NoneAssumption
    <3> QED
      BY <2>1, <3>1, <3>2 DEF Hiding
  <2>3. ASSUME NEW c \in ColdIds, RestoreCold(c) PROVE ColdInOrder' /\ Promoted' /\ Good
    <3>1. ColdInOrder' /\ Promoted' /\ \A p \in Doubled' \ Doubled : p.cold = c
      BY <1>2, <2>3, RestoreDoubles, BoundsAssumption, NoneAssumption
    <3> QED
      BY <2>1, <2>3, <3>1
  <2>4. CASE UNCHANGED vars
    <3>1. ColdInOrder' /\ Promoted'
      BY <1>2, <2>4 DEF vars, ColdInOrder, Promoted
    <3> QED
      BY <1>2, <2>1, <2>4, <3>1
  <2> QED
    BY <1>2, <2>1, <2>2, <2>3, <2>4 DEF Next
<1>3. OneTierAtATime <=> [][Good]_vars
  BY DEF OneTierAtATime
<1> HIDE DEF I, Good
<1> QED
  BY <1>1, <1>2, <1>3, PTL DEF Spec

-----------------------------------------------------------------------------
(* One client at a time.  MCSpec chooses at the start which clients there   *)
(* are; the others stay idle.                                               *)

OthersIdle == active \subseteq Clients /\ \A q \in Clients \ active : request[q] = Idle

\* What add has found out about its text is still true.
StillNew(st) ==
    /\ st.pc \in {"findCold", "findNear", "insert"} => \A h \in Rows(hot) : ~Equal(hot[h], st.key)
    /\ st.pc \in {"findNear", "insert"} =>
          \A c \in ColdIds : cold[c] # None => ~Equal(cold[c].text, st.key)

AloneInv ==
    /\ Inv /\ OthersIdle
    /\ \A r \in Clients : active = {r} => StillNew(request[r])

LEMMA StepOfOne ==
    ASSUME TextAssumption, BoundsAssumption, NoneAssumption, AloneInv,
           NEW r \in active, Step(r), active' = active
    PROVE  AloneInv'
<1>1. Inv' /\ r \in Clients
  BY StepInv DEF AloneInv, OthersIdle
<1>2. request \in [Clients -> Request]
  BY DEF AloneInv, Inv, Typed
<1>3. UNCHANGED request \/ \E st : Becomes(r, st)
  <2>1. CASE Dies(r) \/ Pop(r) \/ ArchivePopped(r)
    BY <2>1 DEF Dies, Pop, ArchivePopped
  <2>2. CASE ~Dies(r) /\ ~Pop(r) /\ ~ArchivePopped(r)
    BY <1>1, <2>2, OthersCarryOn DEF AloneInv
  <2> QED
    BY <2>1, <2>2
<1>4. \A q \in Clients : q # r => request'[q] = request[q]
  BY <1>2, <1>3 DEF Becomes
<1>5. OthersIdle'
  BY <1>4 DEF AloneInv, OthersIdle
<1>6. ASSUME active = {r} PROVE StillNew(request[r])'
  <2> DEFINE s == request[r]
             Done == request'[r].pc \notin {"findCold", "findNear", "insert"}
  <2>1. StillNew(s) /\ s \in Request
    BY <1>1, <1>2, <1>6 DEF AloneInv
  <2>2. SUFFICES Done \/ (request'[r] = s /\ hot' = hot /\ cold' = cold) \/ StillNew(request[r])'
    BY <2>1 DEF StillNew, Equal, Rows
  <2>3. ASSUME NEW t \in NewTexts, BeginAdd(r, t) PROVE StillNew(request[r])'
    <3>1. request'[r].pc = "findCold" /\ request'[r].key = t
      BY <1>1, <1>2, <2>3 DEF BeginAdd, Becomes, Idle
    <3>2. hot' = hot /\ ~ \E h \in Rows(hot) : Equal(hot[h], t)
      BY <2>3 DEF BeginAdd
    <3> QED
      BY <3>1, <3>2 DEF StillNew, Rows, Equal
  <2>4. CASE FindCold(r)
    <3>1. hot' = hot /\ cold' = cold /\ s.pc = "findCold"
      BY <2>4 DEF FindCold
    <3>2. CASE \E c \in ColdIds : cold[c] # None /\ Equal(cold[c].text, s.key)
      <4>1. request'[r] = Idle
        BY <1>1, <1>2, <2>4, <3>2 DEF FindCold, Becomes
      <4> QED
        BY <4>1 DEF Idle
    <3>3. CASE ~ \E c \in ColdIds : cold[c] # None /\ Equal(cold[c].text, s.key)
      <4>1. request'[r] = [s EXCEPT !.pc = "findNear"]
        BY <1>1, <1>2, <2>4, <3>3 DEF FindCold, Becomes
      <4>2. request'[r].pc = "findNear" /\ request'[r].key = s.key
        BY <2>1, <4>1 DEF Request
      <4>3. \A h \in Rows(hot) : ~Equal(hot[h], s.key)
        BY <2>1, <3>1 DEF StillNew
      <4> QED
        BY <3>1, <3>3, <4>2, <4>3 DEF StillNew, Rows, Equal
    <3> QED
      BY <3>2, <3>3
  <2>5. CASE FindNear(r)
    <3>1. hot' = hot /\ cold' = cold /\ s.pc = "findNear"
      BY <2>5 DEF FindNear
    <3>2. request'[r] = Idle \/ request'[r] = [s EXCEPT !.pc = "insert"]
      BY <1>1, <1>2, <2>5 DEF FindNear, Becomes
    <3>3. CASE request'[r] = Idle
      BY <3>3 DEF Idle
    <3>4. CASE request'[r] = [s EXCEPT !.pc = "insert"]
      <4>1. request'[r].pc = "insert" /\ request'[r].key = s.key
        BY <2>1, <3>4 DEF Request
      <4> QED
        BY <2>1, <3>1, <4>1 DEF StillNew, Rows, Equal
    <3> QED
      BY <3>2, <3>3, <3>4
  <2> USE <1>1, <1>2, <2>1 DEF Becomes
  <2>6. ASSUME NEW t \in NewTexts, BeginColdAdd(r, t) PROVE Done
    BY <2>6 DEF BeginColdAdd, Idle
  <2>7. CASE HotAdd(r) \/ ReadChars(r)
    BY <2>7 DEF HotAdd, ReadChars, Request
  <2>8. CASE ReadCount(r)
    <3>1. CASE request'[r] = Idle
      BY <3>1 DEF Idle
    <3>2. CASE request'[r] = [s EXCEPT !.pc = "list", !.op = "evict"]
      BY <3>2 DEF Request
    <3> QED
      BY <2>8, <3>1, <3>2 DEF ReadCount
  <2>19. CASE ListEntries(r)
    BY <2>19 DEF ListEntries, Request
  <2>9. CASE EvictSelect(r)
    <3>1. CASE UNCHANGED request
      BY <2>9, <3>1 DEF EvictSelect
    <3>2. CASE \E row : request'[r] = [s EXCEPT !.pc = "pop", !.row = row]
      BY <3>2 DEF Request
    <3> QED
      BY <2>9, <3>1, <3>2 DEF EvictSelect, AfterSelect
  <2>10. CASE EvictEnds(r) \/ Replace(r) \/ ColdAdd(r) \/ Dies(r)
    BY <2>10 DEF EvictEnds, Replace, ColdAdd, Dies, Idle
  <2>11. CASE EvictAgain(r)
    BY <2>11 DEF EvictAgain, Request
  <2>18. CASE Pop(r)
    BY <2>18 DEF Pop, AfterPop, Request
  <2>12. ASSUME NEW q \in Queries, NEW op \in {"remove", "archive"}, BeginPop(r, op, q)
         PROVE  Done
    BY <2>12 DEF BeginPop, AfterSelect, Idle
  <2>13. CASE ArchivePopped(r)
    BY <2>13 DEF ArchivePopped, Idle, Request
  <2>14. CASE MarkDormant(r)
    BY <2>14 DEF MarkDormant, Idle, Request
  <2>15. ASSUME NEW c \in ColdIds, BeginPromote(r, c) PROVE Done
    BY <2>15 DEF BeginPromote, Idle
  <2>16. CASE PromoteHot(r)
    BY <2>16 DEF PromoteHot, Request
  <2>17. ASSUME NEW q \in Queries, NEW t \in Replacements, BeginReplace(r, q, t) PROVE Done
    BY <2>17 DEF BeginReplace, Idle
  <2> QED
    BY <2>3, <2>4, <2>5, <2>6, <2>7, <2>8, <2>9, <2>10, <2>11, <2>12, <2>13, <2>14, <2>15,
       <2>16, <2>17, <2>18, <2>19 DEF Step
<1>7. \A q \in Clients : active' = {q} => q = r /\ active = {r}
  OBVIOUS
<1> QED
  BY <1>1, <1>5, <1>6, <1>7 DEF AloneInv

LEMMA RestoreAlone ==
    ASSUME BoundsAssumption, NoneAssumption, AloneInv, NEW c \in ColdIds, RestoreCold(c),
           active' = active
    PROVE  AloneInv'
<1>1. Inv'
  BY RestoreInv DEF AloneInv
<1>2. ColdMoves /\ CopiesStay
  <2>1. cold' = [cold EXCEPT ![c].status = "active"] /\ cold[c] # None
    BY DEF RestoreCold
  <2>2. cold \in [ColdIds -> ColdRow \cup {None}] /\ cold[c] \in ColdRow
    BY <2>1 DEF AloneInv, Inv, Typed
  <2>3. ColdMoves
    BY DEF RestoreCold, ColdMoves
  <2> DEFINE row == [cold[c] EXCEPT !.status = "active"]
  <2>4. row \in ColdRow /\ row.text = cold[c].text /\ row.from = cold[c].from
    BY <2>2 DEF ColdRow
  <2>5. cold' = [cold EXCEPT ![c] = row]
    BY <2>1, <2>2
  <2> HIDE DEF row
  <2>6. cold'[c] = row /\ \A d \in ColdIds : d # c => cold'[d] = cold[d]
    BY <2>2, <2>5
  <2> QED
    BY <2>3, <2>4, <2>6, NoneAssumption DEF CopiesStay
<1>3. \A d \in ColdIds : cold'[d] # None => cold[d] # None /\ cold'[d].text = cold[d].text
  <2>1. \A d \in ColdIds : d # c => cold'[d] = cold[d]
    BY DEF RestoreCold, AloneInv, Inv, Typed
  <2> QED
    BY <1>2, <2>1 DEF RestoreCold, CopiesStay
<1>4. hot' = hot /\ request' = request
  BY DEF RestoreCold
<1>5. \A r \in Clients : StillNew(request[r]) => StillNew(request[r])'
  BY <1>3, <1>4 DEF StillNew, Rows, Equal
<1> QED
  BY <1>1, <1>4, <1>5 DEF AloneInv, OthersIdle

LEMMA AloneSteps ==
    ASSUME TextAssumption, BoundsAssumption, NoneAssumption
    PROVE  /\ MCInit => AloneInv
           /\ AloneInv /\ [MCNext]_<<vars, active>> => AloneInv'
<1>1. MCInit => AloneInv
  <2> SUFFICES ASSUME MCInit PROVE AloneInv
    OBVIOUS
  <2>1. Inv
    BY InitInv DEF MCInit
  <2>2. OthersIdle
    BY DEF MCInit, Init, OthersIdle
  <2>3. \A r \in Clients : StillNew(request[r])
    BY DEF MCInit, Init, Idle, StillNew
  <2> QED
    BY <2>1, <2>2, <2>3 DEF AloneInv
<1>2. AloneInv /\ [MCNext]_<<vars, active>> => AloneInv'
  <2> SUFFICES ASSUME AloneInv, [MCNext]_<<vars, active>> PROVE AloneInv'
    OBVIOUS
  <2>1. ASSUME NEW r \in active, Step(r), active' = active PROVE AloneInv'
    BY <2>1, StepOfOne
  <2>2. ASSUME NEW c \in ColdIds, RestoreCold(c), active' = active PROVE AloneInv'
    BY <2>2, RestoreAlone
  <2>3. CASE UNCHANGED <<vars, active>>
    <3>1. Inv'
      BY <2>3, NothingMoves DEF vars, AloneInv
    <3> QED
      BY <2>3, <3>1 DEF vars, AloneInv, OthersIdle, StillNew, Rows, Equal
  <2> QED
    BY <2>1, <2>2, <2>3 DEF MCNext
<1> QED
  BY <1>1, <1>2

AddsNew == Alone => InsertsNew

\* While requests follow one another, add inserts only what is new: no hot or
\* cold row has the same normalized text, though add looked for one in steps of
\* their own (the "exact match" of its docstring).
THEOREM AddsOnlyTheNew == MCSpec => AddsOnlyNew
<1>1. AloneInv => AddsNew
  <2> SUFFICES ASSUME AloneInv, Alone, NEW r \in Clients, request[r].pc = "insert"
               PROVE  /\ \A h \in Rows(hot) : Normal[hot[h]] # Normal[request[r].key]
                      /\ \A c \in ColdIds : cold[c] # None
                            => Normal[cold[c].text] # Normal[request[r].key]
    BY DEF AddsNew, InsertsNew
  <2>1. r \in active
    BY DEF AloneInv, OthersIdle, Idle
  <2>2. active = {r}
    BY <2>1 DEF Alone
  <2>3. StillNew(request[r])
    BY <2>2 DEF AloneInv
  <2> QED
    BY <2>3 DEF StillNew, Equal
<1>2. AloneInv /\ [MCNext]_<<vars, active>> => [AddsNew]_vars
  BY <1>1
<1>3. AddsOnlyNew <=> [][AddsNew]_vars
  BY DEF AddsOnlyNew, AddsNew
<1>4. /\ MCInit => AloneInv
      /\ AloneInv /\ [MCNext]_<<vars, active>> => AloneInv'
  BY AloneSteps, TextAssumption, BoundsAssumption, NoneAssumption
<1> QED
  BY <1>2, <1>3, <1>4, PTL DEF MCSpec

-----------------------------------------------------------------------------
(* Which row is evicted.  The entries that _evict_hot still has to look at   *)
(* are matched with rows of the table that hold the same texts.              *)

Covers(m, S, e, hots) ==
    /\ m \in [S -> HotIds]
    /\ \A g, h \in S : m[g] = m[h] => g = h
    /\ \A h \in S : hots[m[h]] = e[h]
Covered(S, e, hots) == \E m : Covers(m, S, e, hots)

Evicting(st) ==
    st.pc = "evict" \/ (st.pc \in {"pop", "archive", "mark", "again"} /\ st.op = "evict")

\* The rows of the table hold texts that were listed, and so do the entries
\* that are left.
Known(hots, l) == \A h \in Rows(hots) : \E g \in Rows(l) : l[g] = hots[h]
Left(e, l)     == \A h \in Rows(e) : h \in Rows(l) /\ e[h] = l[h]

InOrder(st, e, hots) ==
    /\ st.pc = "evict" => Covered(Rows(e), e, hots)
    /\ st.pc = "pop" /\ st.op = "evict" =>
          /\ Oldest(e) \in Rows(e) /\ Covered(Rows(e), e, hots)
          /\ st.row.text = e[Oldest(e)] /\ hots[st.row.id] = st.row.text
    /\ st.pc \in {"archive", "mark", "again"} /\ st.op = "evict" =>
          Covered(Rows(e) \ {Oldest(e)}, e, hots)

Orderly(st, l, e, hots) ==
    /\ st.pc = "again" => st.op = "evict"
    /\ Evicting(st) => Known(hots, l) /\ Left(e, l)
    /\ Apart(l) => InOrder(st, e, hots)

LEMMA FewerCovered ==
    ASSUME NEW S, NEW T \in SUBSET S, NEW e, NEW hots, Covered(S, e, hots)
    PROVE  Covered(T, e, hots)
<1>1. PICK m : Covers(m, S, e, hots)
  BY DEF Covered
<1> DEFINE n == [h \in T |-> m[h]]
<1>2. Covers(n, T, e, hots)
  BY <1>1 DEF Covers
<1> QED
  BY <1>2 DEF Covered

LEMMA AllCovered ==
    ASSUME NEW e \in [HotIds -> Texts \cup {None}]
    PROVE  Covered(Rows(e), e, e)
<1> DEFINE m == [h \in Rows(e) |-> h]
<1>1. Covers(m, Rows(e), e, e)
  BY DEF Covers, Rows
<1> QED
  BY <1>1 DEF Covered

\* Of rows with equal texts the table may lose one, the list another.
LEMMA PoppedCovered ==
    ASSUME NEW S \in SUBSET HotIds, NEW e, NEW hots \in [HotIds -> Texts \cup {None}],
           NEW next \in S,
           NEW k \in HotIds, hots[k] = e[next], Covered(S, e, hots)
    PROVE  Covered(S \ {next}, e, [hots EXCEPT ![k] = None])
<1>1. PICK m : Covers(m, S, e, hots)
  BY DEF Covered
<1> DEFINE T == S \ {next}
           n == [h \in T |-> IF m[h] = k THEN m[next] ELSE m[h]]
<1>2. \A h \in T : n[h] \in HotIds /\ n[h] # k /\ hots[n[h]] = e[h]
  <2> TAKE h \in T
  <2>1. h \in S /\ h # next /\ m[h] # m[next] /\ m[h] \in HotIds /\ m[next] \in HotIds
    BY <1>1 DEF Covers
  <2>2. hots[m[h]] = e[h] /\ hots[m[next]] = e[next]
    BY <1>1, <2>1 DEF Covers
  <2>3. CASE m[h] = k
    <3>1. n[h] = m[next]
      BY <2>3
    <3> QED
      BY <2>1, <2>2, <2>3, <3>1
  <2>4. CASE m[h] # k
    <3>1. n[h] = m[h]
      BY <2>4
    <3> QED
      BY <2>1, <2>2, <2>4, <3>1
  <2> QED
    BY <2>3, <2>4
<1>3. \A g, h \in T : n[g] = n[h] => g = h
  BY <1>1 DEF Covers
<1>4. n \in [T -> HotIds]
  <2>1. \A h \in T : (IF m[h] = k THEN m[next] ELSE m[h]) \in HotIds
    BY <1>2
  <2> QED
    BY <2>1
<1> HIDE DEF n, T
<1>5. Covers(n, T, e, [hots EXCEPT ![k] = None])
  BY <1>2, <1>3, <1>4 DEF Covers
<1> QED
  BY <1>5 DEF Covered, T

LEMMA OldestIsThere ==
    ASSUME BoundsAssumption, NEW e, Rows(e) # {}
    PROVE  Oldest(e) \in Rows(e)
<1>1. Rows(e) \subseteq Nat
  BY BoundsAssumption DEF Rows, HotIds
<1>2. PICK x \in Rows(e) : \A y \in Rows(e) : ~(<<y, x>> \in OpToRel(<, Nat))
  BY <1>1, NatLessThanWellFounded, WFMin
<1>3. \A y \in Rows(e) : ~(y < x)
  BY <1>1, <1>2 DEF OpToRel
<1>4. \A y \in Rows(e) : x <= y
  BY <1>1, <1>3
<1> QED
  BY <1>4 DEF Oldest, Min

\* What the beginning of an entry finds is a row with the entry's text, when
\* there is one and the entries are told apart by their beginnings.
LEMMA BestIsEqual ==
    ASSUME TextAssumption, NoneAssumption, hot \in [HotIds -> Texts \cup {None}],
           NEW l, Apart(l), Known(hot, l), NEW g \in Rows(l), NEW x \in Texts, l[g] = x,
           NEW k \in Rows(hot), hot[k] = x, NEW h \in Best(Beginning[x])
    PROVE  hot[h] = x
<1>1. h \in Rows(hot) /\ <<Beginning[x], hot[h]>> \in Occurs
  BY DEF Best
<1>2. hot[h] \in Texts /\ Beginning[x] \in Texts
  BY <1>1, TextAssumption DEF Rows
<1>3. Length[hot[h]] <= Length[x]
  <2>1. CASE hot[h] = Beginning[x]
    BY <2>1, TextAssumption
  <2>2. CASE hot[h] # Beginning[x]
    <3> DEFINE matches == {f \in Rows(hot) : <<Beginning[x], hot[f]>> \in Occurs}
               equal   == {f \in matches : hot[f] = Beginning[x]}
    <3>1. k \in matches
      BY TextAssumption
    <3>2. h \in (IF equal # {} THEN equal
                 ELSE {f \in matches : \A d \in matches : Length[hot[f]] <= Length[hot[d]]})
      BY DEF Best
    <3>3. h \notin equal
      BY <2>2
    <3>4. \A d \in matches : Length[hot[h]] <= Length[hot[d]]
      BY <3>2, <3>3
    <3> HIDE DEF matches
    <3> QED
      BY <3>1, <3>4
  <2> QED
    BY <2>1, <2>2
<1>4. PICK f \in Rows(l) : l[f] = hot[h]
  BY <1>1 DEF Known
<1>5. hot[h] # x => Length[x] < Length[hot[h]]
  BY <1>1, <1>4 DEF Apart
<1>6. Length[x] \in Nat /\ Length[hot[h]] \in Nat
  BY <1>2, TextAssumption
<1> QED
  BY <1>3, <1>5, <1>6

-----------------------------------------------------------------------------
(* The steps of _evict_hot when no other request comes between them.        *)

Whole(rec) ==
    rec = [listed |-> rec.listed, entries |-> rec.entries, chars |-> rec.chars, count |-> rec.count]

EvictTyped ==
    /\ evicting = [q \in Clients |-> evicting[q]]
    /\ \A q \in Clients :
          /\ Whole(evicting[q])
          /\ evicting[q].entries \in [HotIds -> Texts \cup {None}]

OrderInv ==
    /\ AloneInv /\ EvictTyped
    /\ \A r \in Clients : active = {r} =>
          Orderly(request[r], evicting[r].listed, evicting[r].entries, hot)

\* One thread changes its own variables and keeps them of their kind.
LEMMA OneEvicts ==
    ASSUME EvictTyped, NEW r \in Clients,
           NEW l, NEW e \in [HotIds -> Texts \cup {None}], NEW x, NEW n,
           evicting' = [evicting EXCEPT ![r] =
                           [listed |-> l, entries |-> e, chars |-> x, count |-> n]]
    PROVE  EvictTyped' /\ evicting'[r].listed = l /\ evicting'[r].entries = e
<1> DEFINE rec == [listed |-> l, entries |-> e, chars |-> x, count |-> n]
<1>1. evicting'[r] = rec /\ \A q \in Clients : q # r => evicting'[q] = evicting[q]
  BY DEF EvictTyped
<1>2. evicting' = [q \in Clients |-> evicting'[q]]
  BY DEF EvictTyped
<1>3. \A q \in Clients :
          /\ Whole(evicting'[q])
          /\ evicting'[q].entries \in [HotIds -> Texts \cup {None}]
  <2> TAKE q \in Clients
  <2>1. CASE q = r
    BY <1>1, <2>1 DEF Whole
  <2>2. CASE q # r
    BY <1>1, <2>2 DEF EvictTyped
  <2> QED
    BY <2>1, <2>2
<1> QED
  BY <1>1, <1>2, <1>3 DEF EvictTyped

Changes(rec) ==
    \A f, y :
        /\ [rec EXCEPT !.chars = y]
             = [listed |-> rec.listed, entries |-> rec.entries, chars |-> y, count |-> rec.count]
        /\ [rec EXCEPT !.entries = f]
             = [listed |-> rec.listed, entries |-> f, chars |-> rec.chars, count |-> rec.count]

LEMMA RecordChanges ==
    ASSUME NEW rec, Whole(rec)
    PROVE  Changes(rec)
<1> SUFFICES ASSUME NEW f, NEW y
    PROVE  /\ [rec EXCEPT !.chars = y]
                = [listed |-> rec.listed, entries |-> rec.entries, chars |-> y, count |-> rec.count]
           /\ [rec EXCEPT !.entries = f]
                = [listed |-> rec.listed, entries |-> f, chars |-> rec.chars, count |-> rec.count]
  BY Zenon DEF Changes
<1>1. PICK l, e, x, n : l = rec.listed /\ e = rec.entries /\ x = rec.chars /\ n = rec.count
  OBVIOUS
<1>2. rec = [listed |-> l, entries |-> e, chars |-> x, count |-> n]
  BY <1>1 DEF Whole
<1>3. [rec EXCEPT !.entries = f] = [listed |-> l, entries |-> f, chars |-> x, count |-> n]
  BY <1>2
<1>4. [rec EXCEPT !.chars = y] = [listed |-> l, entries |-> e, chars |-> y, count |-> n]
  BY <1>2
<1> QED
  BY <1>1, <1>3, <1>4, Zenon

\* The entry that has been dealt with is off the list.
LEMMA Dropped ==
    ASSUME NEW e \in [HotIds -> Texts \cup {None}], NEW n \in Rows(e), NEW hots,
           Covered(Rows(e) \ {n}, e, hots)
    PROVE  Covered(Rows([e EXCEPT ![n] = None]), [e EXCEPT ![n] = None], hots)
<1> DEFINE f == [e EXCEPT ![n] = None]
<1>1. n \in HotIds
  BY DEF Rows
<1>2. Rows(f) = Rows(e) \ {n} /\ \A h \in Rows(f) : f[h] = e[h]
  BY <1>1 DEF Rows
<1>3. PICK m : Covers(m, Rows(e) \ {n}, e, hots)
  BY DEF Covered
<1> HIDE DEF f
<1>4. Covers(m, Rows(f), f, hots)
  BY <1>2, <1>3 DEF Covers
<1> QED
  BY <1>4 DEF Covered, f

LEMMA Elsewhere ==
    ASSUME NEW st, st.pc \notin {"evict", "again"},
           st.pc \in {"pop", "archive", "mark"} => st.op # "evict"
    PROVE  \A l, e, hots : Orderly(st, l, e, hots)
  BY DEF Orderly, InOrder, Evicting

\* Whatever is no step of _evict_hot leaves the thread outside of it.
Outside(st) ==
    /\ st.pc \notin {"count", "list", "evict", "again"}
    /\ st.pc \in {"pop", "archive", "mark"} => st.op # "evict"

LEMMA OtherBusiness ==
    ASSUME TextAssumption, BoundsAssumption, NoneAssumption, Inv, NEW r \in Clients, Step(r)
    PROVE  \/ ReadChars(r) \/ ReadCount(r) \/ ListEntries(r) \/ EvictSelect(r) \/ EvictAgain(r)
           \/ Pop(r) \/ ArchivePopped(r) \/ MarkDormant(r)
           \/ /\ UNCHANGED evicting \/ evicting' = [evicting EXCEPT ![r] = NoEviction]
              /\ Outside(request'[r])
<1> DEFINE s == request[r]
           Goal == /\ UNCHANGED evicting \/ evicting' = [evicting EXCEPT ![r] = NoEviction]
                   /\ Outside(request'[r])
<1>1. request \in [Clients -> Request] /\ s \in Request /\ HoldsNow(s)
  BY DEF Inv, Typed
<1>2. \A st : Becomes(r, st) => request'[r] = st
  BY <1>1 DEF Becomes
<1>3. ASSUME NEW t \in NewTexts, BeginAdd(r, t) PROVE Goal
  <2>1. [Idle EXCEPT !.pc = "findCold", !.key = t].pc = "findCold"
    BY DEF Idle
  <2> QED
    BY <1>2, <1>3, <2>1 DEF BeginAdd, Outside
<1>4. ASSUME NEW t \in NewTexts, BeginColdAdd(r, t) PROVE Goal
  <2>1. [Idle EXCEPT !.pc = "coldInsert", !.key = t].pc = "coldInsert"
    BY DEF Idle
  <2> QED
    BY <1>2, <1>4, <2>1 DEF BeginColdAdd, Outside
<1>5. CASE FindCold(r) \/ FindNear(r) \/ HotAdd(r)
  <2>1. \E st : /\ Becomes(r, st) /\ st.pc \in {"idle", "findNear", "insert", "chars"}
                /\ UNCHANGED evicting
    <3>1. /\ Idle.pc = "idle" /\ [s EXCEPT !.pc = "findNear"].pc = "findNear"
          /\ [s EXCEPT !.pc = "insert"].pc = "insert" /\ [s EXCEPT !.pc = "chars"].pc = "chars"
      BY <1>1 DEF Idle, Request
    <3>2. CASE FindCold(r)
      BY <3>1, <3>2 DEF FindCold
    <3>3. CASE FindNear(r)
      BY <3>1, <3>3 DEF FindNear
    <3>4. CASE HotAdd(r)
      BY <3>1, <3>4 DEF HotAdd
    <3> QED
      BY <1>5, <3>2, <3>3, <3>4
  <2> QED
    BY <1>2, <2>1 DEF Outside
<1>6. ASSUME NEW q \in Queries, NEW op \in {"remove", "archive"}, BeginPop(r, op, q) PROVE Goal
  <2>1. PICK h \in Best(q) :
          Becomes(r, [Idle EXCEPT !.pc = "pop", !.op = op, !.row = [id |-> h, text |-> hot[h]]])
    BY <1>6 DEF BeginPop, AfterSelect
  <2> DEFINE st == [Idle EXCEPT !.pc = "pop", !.op = op, !.row = [id |-> h, text |-> hot[h]]]
  <2>2. st.pc = "pop" /\ st.op = op
    BY DEF Idle
  <2> HIDE DEF st
  <2>3. Becomes(r, st) /\ UNCHANGED evicting
    BY <1>6, <2>1 DEF st, BeginPop
  <2> QED
    BY <1>2, <2>2, <2>3 DEF Outside
<1>7. ASSUME NEW c \in ColdIds, BeginPromote(r, c) PROVE Goal
  <2>1. [Idle EXCEPT !.pc = "promote", !.op = "promote", !.key = cold[c].text, !.cold = c].pc
            = "promote"
    BY DEF Idle
  <2> QED
    BY <1>2, <1>7, <2>1 DEF BeginPromote, Outside
<1>8. CASE PromoteHot(r)
  <2>1. s.op = "promote"
    BY <1>1, <1>8 DEF PromoteHot, Holds, HoldsNow
  <2>2. [s EXCEPT !.pc = "mark"].pc = "mark" /\ [s EXCEPT !.pc = "mark"].op = "promote"
    BY <1>1, <2>1 DEF Request
  <2> QED
    BY <1>2, <1>8, <2>2 DEF PromoteHot, Outside
<1>9. ASSUME NEW q \in Queries, NEW t \in Replacements, BeginReplace(r, q, t) PROVE Goal
  <2>1. \A row : [Idle EXCEPT !.pc = "update", !.key = t, !.row = row].pc = "update"
    BY DEF Idle
  <2> QED
    BY <1>2, <1>9, <2>1 DEF BeginReplace, Outside
<1>10. CASE Replace(r) \/ ColdAdd(r) \/ Dies(r) \/ EvictEnds(r)
  <2>1. /\ Becomes(r, Idle) /\ Idle.pc = "idle"
        /\ UNCHANGED evicting \/ evicting' = [evicting EXCEPT ![r] = NoEviction]
    BY <1>10 DEF Replace, ColdAdd, Dies, EvictEnds, Idle
  <2> QED
    BY <1>2, <2>1 DEF Outside
<1> QED
  BY <1>3, <1>4, <1>5, <1>6, <1>7, <1>8, <1>9, <1>10 DEF Step

LEMMA EvictStep ==
    ASSUME TextAssumption, BoundsAssumption, NoneAssumption,
           OrderInv, NEW r \in active, Step(r), active' = active
    PROVE  OrderInv'
<1> USE TextAssumption, BoundsAssumption, NoneAssumption
<1> DEFINE s == request[r]
           l == evicting[r].listed
           e == evicting[r].entries
           Goal == /\ EvictTyped'
                   /\ active = {r} =>
                        Orderly(request'[r], evicting'[r].listed, evicting'[r].entries, hot')
<1>1. AloneInv' /\ Inv /\ r \in Clients /\ EvictTyped
  BY StepOfOne DEF OrderInv, AloneInv, OthersIdle
<1>2. /\ request \in [Clients -> Request] /\ s \in Request /\ HoldsNow(s)
      /\ hot \in [HotIds -> Texts \cup {None}] /\ e \in [HotIds -> Texts \cup {None}]
      /\ active = {r} => Orderly(s, l, e, hot)
  BY <1>1 DEF OrderInv, Inv, Typed, EvictTyped
<1>24. PICK rec : rec = evicting[r] /\ Whole(rec)
  BY <1>1 DEF EvictTyped
<1>25. Changes(rec)
  BY <1>24, RecordChanges
<1>3. SUFFICES Goal
  <2>1. \A q \in Clients : active' = {q} => q = r /\ active = {r}
    OBVIOUS
  <2> QED
    BY <1>1, <2>1 DEF OrderInv
<1>4. UNCHANGED evicting => EvictTyped'
  BY <1>1 DEF EvictTyped
<1>9. CASE ReadChars(r)
  <2>1. evicting' = [evicting EXCEPT ![r] = [evicting[r] EXCEPT !.chars = TotalChars(hot)]]
    BY <1>9 DEF ReadChars
  <2>2. [evicting[r] EXCEPT !.chars = TotalChars(hot)]
            = [listed |-> l, entries |-> e, chars |-> TotalChars(hot), count |-> evicting[r].count]
    BY <1>24, <1>25 DEF Changes
  <2>3. EvictTyped'
    <3>1. evicting' = [evicting EXCEPT ![r] =
                          [listed |-> l, entries |-> e, chars |-> TotalChars(hot),
                           count |-> evicting[r].count]]
      BY <2>1, <2>2
    <3> QED
      BY <1>1, <1>2, <3>1, OneEvicts
  <2>4. request'[r].pc = "count"
    BY <1>1, <1>2, <1>9 DEF ReadChars, Becomes, Request
  <2> QED
    BY <2>3, <2>4, Elsewhere
<1>10. evicting' = [evicting EXCEPT ![r] = NoEviction] => EvictTyped'
  <2> HAVE evicting' = [evicting EXCEPT ![r] = NoEviction]
  <2>1. Whole(NoEviction) /\ NoEviction.entries \in [HotIds -> Texts \cup {None}]
    <3>1. /\ NoEviction.listed = Empty /\ NoEviction.entries = Empty
          /\ NoEviction.chars = 0 /\ NoEviction.count = 0
      BY DEF NoEviction
    <3> QED
      BY <3>1 DEF NoEviction, Whole, Empty
  <2>2. /\ evicting'[r] = NoEviction /\ \A q \in Clients : q # r => evicting'[q] = evicting[q]
        /\ evicting' = [q \in Clients |-> evicting'[q]]
    BY <1>1 DEF EvictTyped
  <2>3. \A q \in Clients : /\ Whole(evicting'[q])
                           /\ evicting'[q].entries \in [HotIds -> Texts \cup {None}]
    BY <1>1, <2>1, <2>2 DEF EvictTyped
  <2> QED
    BY <2>2, <2>3 DEF EvictTyped
<1>11. CASE ReadCount(r)
  <2>1. \/ request'[r] = [s EXCEPT !.pc = "list", !.op = "evict"] /\ UNCHANGED evicting
        \/ request'[r] = Idle /\ evicting' = [evicting EXCEPT ![r] = NoEviction]
    BY <1>1, <1>2, <1>11 DEF ReadCount, Becomes
  <2>2. request'[r].pc \in {"list", "idle"}
    <3>1. Idle.pc = "idle" /\ [s EXCEPT !.pc = "list", !.op = "evict"].pc = "list"
      BY <1>2 DEF Request, Idle
    <3> QED
      BY <2>1, <3>1
  <2>3. EvictTyped'
    BY <1>4, <1>10, <2>1
  <2> QED
    BY <2>2, <2>3, Elsewhere
<1>13. CASE ListEntries(r)
  <2> DEFINE n == Cardinality(Rows(hot))
  <2>1. /\ request'[r] = [s EXCEPT !.pc = "evict"] /\ hot' = hot
        /\ evicting' = [evicting EXCEPT ![r] =
                           [listed |-> hot, entries |-> hot,
                             chars |-> evicting[r].chars, count |-> n]]
    BY <1>1, <1>2, <1>13 DEF ListEntries, Becomes, EvictTyped
  <2> HIDE DEF n
  <2>6. PICK k, f : k = hot /\ f = hot
    OBVIOUS
  <2>7. evicting' = [evicting EXCEPT ![r] =
                       [listed |-> k, entries |-> f, chars |-> evicting[r].chars, count |-> n]]
    BY <2>1, <2>6
  <2>2. EvictTyped' /\ evicting'[r].listed = hot /\ evicting'[r].entries = hot
    BY <1>1, <1>2, <2>6, <2>7, OneEvicts
  <2>3. request'[r].pc = "evict"
    BY <1>2, <2>1 DEF Request
  <2>4. Covered(Rows(hot), hot, hot)
    BY <1>2, AllCovered
  <2>5. Known(hot, hot) /\ Left(hot, hot)
    BY DEF Known, Left
  <2> QED
    BY <2>1, <2>2, <2>3, <2>4, <2>5 DEF Orderly, InOrder
<1>12. CASE EvictSelect(r)
  <2> DEFINE next == Oldest(e)
             found == Best(Beginning[e[next]])
  <2>1. s.pc = "evict" /\ hot' = hot /\ next \in Rows(e)
    BY <1>12, OldestIsThere DEF EvictSelect, More
  <2>2. CASE evicting' = [evicting EXCEPT ![r].entries[next] = None] /\ UNCHANGED request
    <3>1. evicting' =
             [evicting EXCEPT ![r] = [evicting[r] EXCEPT !.entries = [e EXCEPT ![next] = None]]]
      BY <1>1, <2>2 DEF EvictTyped
    <3> DEFINE f == [e EXCEPT ![next] = None]
    <3>2. f \in [HotIds -> Texts \cup {None}]
      BY <1>2
    <3>3. [evicting[r] EXCEPT !.entries = f]
              = [listed |-> l, entries |-> f, chars |-> evicting[r].chars,
                 count |-> evicting[r].count]
      BY <1>24, <1>25 DEF Changes
    <3>4. active = {r} /\ Apart(l) => Covered(Rows(f), f, hot)
      <4> HAVE active = {r} /\ Apart(l)
      <4>1. Covered(Rows(e) \ {next}, e, hot)
        BY <1>2, <2>1, FewerCovered DEF Orderly, InOrder
      <4> QED
        BY <1>2, <2>1, <4>1, Dropped
    <3>8. active = {r} => Known(hot, l) /\ Left(f, l)
      BY <1>2, <2>1 DEF Orderly, Evicting, Left, Rows
    <3> HIDE DEF f
    <3>5. evicting' = [evicting EXCEPT ![r] =
                          [listed |-> l, entries |-> f, chars |-> evicting[r].chars,
                           count |-> evicting[r].count]]
      BY <3>1, <3>3 DEF f
    <3>6. EvictTyped' /\ evicting'[r].listed = l /\ evicting'[r].entries = f
      BY <1>1, <3>2, <3>5, OneEvicts
    <3>7. request'[r].pc = "evict"
      BY <2>1, <2>2
    <3> QED
      BY <2>1, <3>4, <3>6, <3>7, <3>8 DEF Orderly, InOrder
  <2>3. ASSUME NEW h \in found, UNCHANGED evicting,
               Becomes(r, [s EXCEPT !.pc = "pop", !.row = [id |-> h, text |-> hot[h]]])
        PROVE  Goal
    <3> DEFINE st == [s EXCEPT !.pc = "pop", !.row = [id |-> h, text |-> hot[h]]]
    <3>1. st.pc = "pop" /\ st.op = s.op /\ st.row.id = h /\ st.row.text = hot[h]
      BY <1>2 DEF Request
    <3>2. request'[r] = st
      BY <1>1, <1>2, <2>3 DEF Becomes
    <3>3. active = {r} /\ Apart(l) => /\ Covered(Rows(e), e, hot) /\ hot[h] = e[next]
      <4> HAVE active = {r} /\ Apart(l)
      <4>1. Covered(Rows(e), e, hot) /\ Known(hot, l) /\ Left(e, l)
        BY <1>2, <2>1 DEF Orderly, InOrder, Evicting
      <4>2. PICK m : Covers(m, Rows(e), e, hot)
        BY <4>1 DEF Covered
      <4>3. m[next] \in HotIds /\ hot[m[next]] = e[next] /\ e[next] \in Texts
        BY <1>2, <2>1, <4>2 DEF Covers, Rows
      <4>4. m[next] \in Rows(hot)
        BY <4>3 DEF Rows
      <4>5. next \in Rows(l) /\ l[next] = e[next]
        BY <2>1, <4>1 DEF Left
      <4>6. hot[h] = e[next]
        BY <1>2, <4>1, <4>3, <4>4, <4>5, BestIsEqual
      <4> QED
        BY <4>1, <4>6
    <3>4. active = {r} => Known(hot, l) /\ Left(e, l)
      BY <1>2, <2>1 DEF Orderly, Evicting
    <3> HIDE DEF st
    <3> QED
      BY <1>4, <2>1, <2>3, <3>1, <3>2, <3>3, <3>4 DEF Orderly, InOrder
  <2> QED
    BY <1>12, <2>2, <2>3 DEF EvictSelect, AfterSelect
<1>14. CASE EvictAgain(r)
  <2> DEFINE next == Oldest(e)
             f == [e EXCEPT ![next] = None]
             n == evicting[r].count - 1
             x == evicting[r].chars - Length[e[next]]
  <2>1. /\ s.pc = "again" /\ hot' = hot
        /\ evicting' = [evicting EXCEPT ![r] =
                           [listed |-> l, entries |-> f, chars |-> x, count |-> n]]
    BY <1>1, <1>14 DEF EvictAgain, EvictTyped
  <2>3. f \in [HotIds -> Texts \cup {None}]
    BY <1>2
  <2>4. active = {r} /\ Apart(l) => Covered(Rows(f), f, hot)
    <3> HAVE active = {r} /\ Apart(l)
    <3>1. Covered(Rows(e) \ {next}, e, hot)
      BY <1>1, <1>2, <2>1 DEF Orderly, InOrder
    <3>2. CASE Rows(e) = {}
      <4>1. f = e
        BY <1>2, <3>2 DEF Rows
      <4> QED
        BY <3>1, <3>2, <4>1
    <3>3. CASE Rows(e) # {}
      BY <1>2, <3>1, <3>3, OldestIsThere, Dropped
    <3> QED
      BY <3>2, <3>3
  <2>5. active = {r} => Known(hot, l) /\ Left(f, l)
    <3> HAVE active = {r}
    <3>1. Known(hot, l) /\ Left(e, l)
      BY <1>2, <2>1 DEF Orderly, Evicting
    <3> QED
      BY <1>2, <3>1 DEF Left, Rows
  <2> HIDE DEF f, n, x
  <2>6. EvictTyped' /\ evicting'[r].listed = l /\ evicting'[r].entries = f
    BY <1>1, <2>1, <2>3, OneEvicts
  <2>7. request'[r].pc = "evict"
    BY <1>1, <1>2, <1>14 DEF EvictAgain, Becomes, Request
  <2> QED
    BY <2>1, <2>4, <2>5, <2>6, <2>7 DEF Orderly, InOrder
<1>16. CASE Pop(r)
  <2> DEFINE k == s.row.id
  <2>1. /\ s.pc = "pop" /\ UNCHANGED evicting /\ hot' = [hot EXCEPT ![k] = None]
        /\ request'[r] = [s EXCEPT !.pc = "archive"]
    BY <1>1, <1>2, <1>16 DEF Pop, AfterPop, Becomes
  <2>2. request'[r].pc = "archive" /\ request'[r].op = s.op
    BY <1>2, <2>1 DEF Request
  <2>3. k \in HotIds
    BY <1>2, <2>1 DEF Holds, HoldsNow, HotRow
  <2>4. active = {r} /\ s.op = "evict" /\ Apart(l) => Covered(Rows(e) \ {Oldest(e)}, e, hot')
    <3> HAVE active = {r} /\ s.op = "evict" /\ Apart(l)
    <3>1. Oldest(e) \in Rows(e) /\ Covered(Rows(e), e, hot) /\ hot[k] = e[Oldest(e)]
      BY <1>2, <2>1 DEF Orderly, InOrder
    <3>2. Rows(e) \in SUBSET HotIds
      BY DEF Rows
    <3> QED
      BY <1>2, <2>1, <2>3, <3>1, <3>2, PoppedCovered
  <2>5. active = {r} /\ s.op = "evict" => Known(hot', l) /\ Left(e, l)
    <3> HAVE active = {r} /\ s.op = "evict"
    <3>1. Known(hot, l) /\ Left(e, l)
      BY <1>2, <2>1 DEF Orderly, Evicting
    <3>2. \A h \in Rows(hot') : h \in Rows(hot) /\ hot'[h] = hot[h]
      BY <1>2, <2>1, <2>3 DEF Rows
    <3> QED
      BY <3>1, <3>2 DEF Known
  <2> QED
    BY <1>4, <2>1, <2>2, <2>4, <2>5 DEF Orderly, InOrder, Evicting
<1>17. CASE ArchivePopped(r)
  <2>1. s.pc = "archive" /\ hot' = hot /\ UNCHANGED evicting
    BY <1>17 DEF ArchivePopped
  <2>2. \/ request'[r] = Idle
        \/ request'[r] = [s EXCEPT !.pc = "mark", !.cold = lastCold + 1]
    BY <1>1, <1>2, <1>17 DEF ArchivePopped, Becomes
  <2>3. CASE request'[r] = Idle
    BY <1>4, <2>1, <2>3, Elsewhere DEF Idle
  <2>4. CASE request'[r] = [s EXCEPT !.pc = "mark", !.cold = lastCold + 1]
    <3>1. request'[r].pc = "mark" /\ request'[r].op = s.op
      BY <1>2, <2>4 DEF Request
    <3> QED
      BY <1>2, <1>4, <2>1, <3>1 DEF Orderly, InOrder, Evicting
  <2> QED
    BY <2>2, <2>3, <2>4
<1>18. CASE MarkDormant(r)
  <2>1. s.pc = "mark" /\ hot' = hot /\ UNCHANGED evicting
    BY <1>18 DEF MarkDormant
  <2>2. \/ request'[r] = Idle
        \/ s.op = "evict" /\ request'[r] = [s EXCEPT !.pc = "again"]
    BY <1>1, <1>2, <1>18 DEF MarkDormant, Becomes
  <2>3. CASE request'[r] = Idle
    BY <1>4, <2>1, <2>3, Elsewhere DEF Idle
  <2>4. CASE s.op = "evict" /\ request'[r] = [s EXCEPT !.pc = "again"]
    <3>1. request'[r].pc = "again" /\ request'[r].op = "evict"
      BY <1>2, <2>4 DEF Request
    <3> QED
      BY <1>2, <1>4, <2>1, <2>4, <3>1 DEF Orderly, InOrder, Evicting
  <2> QED
    BY <2>2, <2>3, <2>4
<1>19. ASSUME UNCHANGED evicting \/ evicting' = [evicting EXCEPT ![r] = NoEviction],
              Outside(request'[r])
       PROVE  Goal
  <2>1. EvictTyped'
    BY <1>4, <1>10, <1>19
  <2> QED
    BY <1>19, <2>1, Elsewhere DEF Outside
<1> QED
  BY <1>1, <1>9, <1>11, <1>12, <1>13, <1>14, <1>16, <1>17, <1>18, <1>19, OtherBusiness

LEMMA OrderSteps ==
    ASSUME TextAssumption, BoundsAssumption, NoneAssumption
    PROVE  /\ MCInit => OrderInv
           /\ OrderInv /\ [MCNext]_<<vars, active>> => OrderInv'
<1>1. MCInit => OrderInv
  <2> SUFFICES ASSUME MCInit PROVE OrderInv
    OBVIOUS
  <2>1. AloneInv
    BY AloneSteps
  <2>2. EvictTyped
    <3>1. evicting = [q \in Clients |-> NoEviction]
      BY DEF MCInit, Init
    <3>2. \A q \in Clients : evicting[q] = NoEviction
      BY <3>1
    <3>3. evicting = [q \in Clients |-> evicting[q]]
      BY <3>1
    <3>4. /\ NoEviction.entries = Empty /\ NoEviction.listed = Empty
          /\ NoEviction.chars = 0 /\ NoEviction.count = 0
          /\ Empty \in [HotIds -> Texts \cup {None}]
      BY DEF NoEviction, Empty
    <3>5. Whole(NoEviction)
      BY <3>4 DEF NoEviction, Whole
    <3> QED
      BY <3>2, <3>3, <3>4, <3>5 DEF EvictTyped
  <2>3. \A r \in Clients : request[r].pc = "idle"
    BY DEF MCInit, Init, Idle
  <2> QED
    BY <2>1, <2>2, <2>3, Elsewhere DEF OrderInv
<1>2. OrderInv /\ [MCNext]_<<vars, active>> => OrderInv'
  <2> SUFFICES ASSUME OrderInv, [MCNext]_<<vars, active>> PROVE OrderInv'
    OBVIOUS
  <2>1. AloneInv'
    BY AloneSteps DEF OrderInv
  <2>2. CASE UNCHANGED <<hot, request, evicting, active>>
    BY <2>1, <2>2 DEF OrderInv, EvictTyped
  <2>3. ASSUME NEW r \in active, Step(r), active' = active PROVE OrderInv'
    BY <2>3, EvictStep
  <2>4. ASSUME NEW c \in ColdIds, RestoreCold(c), active' = active PROVE OrderInv'
    BY <2>2, <2>4 DEF RestoreCold
  <2> QED
    BY <2>2, <2>3, <2>4 DEF MCNext, vars
<1> QED
  BY <1>1, <1>2

\* While requests follow one another, _evict_hot deletes rows with the very
\* texts of the entries on its list, oldest first, provided that the entries it
\* listed can be told apart by their first 60 characters: each turn searches
\* for the row anew, by those characters only, and equal texts may stand in for
\* one another.  (The model's run shows that a list with a long text and a
\* shorter one in which its beginning occurs loses them out of turn.)
THEOREM OldestAlwaysFirst == MCSpec => []OldestGoFirst
<1>1. /\ MCInit => OrderInv
      /\ OrderInv /\ [MCNext]_<<vars, active>> => OrderInv'
  BY OrderSteps, TextAssumption, BoundsAssumption, NoneAssumption
<1>2. OrderInv => OldestGoFirst
  <2> SUFFICES ASSUME OrderInv, NEW r \in Clients, Alone, Apart(evicting[r].listed),
                      request[r].pc = "pop", request[r].op = "evict"
               PROVE  request[r].row.text = evicting[r].entries[Oldest(evicting[r].entries)]
    BY DEF OldestGoFirst, EvictsOldest, Oldest
  <2>1. r \in active
    BY DEF OrderInv, AloneInv, OthersIdle, Idle
  <2>2. active = {r}
    BY <2>1 DEF Alone
  <2> QED
    BY <2>2 DEF OrderInv, Orderly, InOrder
<1> QED
  BY <1>1, <1>2, PTL DEF MCSpec

-----------------------------------------------------------------------------
(* TotalChars adds up a set in an order of its own.  Facts about such a sum  *)
(* are shown by taking the smallest number, or a smallest set, of which they *)
(* fail: that needs no induction over an operator.                           *)

\* What the sum of a set of rows is computed from.
Adds(g, f, S) ==
    g = [s \in SUBSET S |-> IF s = {} THEN 0
            ELSE Length[f[CHOOSE x \in s : TRUE]] + g[s \ {CHOOSE x \in s : TRUE}]]

\* A set of numbers that holds 0 and with each number the next is all of them.
LEMMA OneByOne ==
    ASSUME NEW T, 0 \in T, \A n \in Nat : n \in T => n + 1 \in T
    PROVE  \A n \in Nat : n \in T
<1> DEFINE U == {n \in Nat : n \notin T}
<1> SUFFICES ASSUME U # {} PROVE FALSE
  OBVIOUS
<1>1. U \subseteq Nat
  OBVIOUS
<1>2. PICK x \in U : \A y \in U : ~(<<y, x>> \in OpToRel(<, Nat))
  BY <1>1, NatLessThanWellFounded, WFMin
<1>3. \A y \in U : ~(y < x)
  BY <1>1, <1>2 DEF OpToRel
<1>4. x \in Nat /\ x \notin T /\ x # 0
  BY <1>2, Zenon
<1>5. x - 1 \in Nat /\ x - 1 < x /\ x = (x - 1) + 1
  BY <1>4
<1>6. x - 1 \in T
  BY <1>3, <1>5
<1> QED
  BY <1>4, <1>5, <1>6

\* A family of subsets of a finite set that holds every subset all of whose
\* proper parts (one element less) it holds, holds them all.
LEMMA PartByPart ==
    ASSUME NEW S, IsFiniteSet(S), NEW F,
           \A s \in SUBSET S : (\A x \in s : s \ {x} \in F) => s \in F
    PROVE  \A s \in SUBSET S : s \in F
<1> DEFINE T == {n \in Nat : \A s \in SUBSET S : Cardinality(s) <= n => s \in F}
<1>1. \A s \in SUBSET S : IsFiniteSet(s) /\ Cardinality(s) \in Nat
  BY FS_Subset, FS_CardinalityType
<1>2. 0 \in T
  BY <1>1, FS_EmptySet
<1>3. \A n \in Nat : n \in T => n + 1 \in T
  <2> SUFFICES ASSUME NEW n \in Nat, n \in T, NEW s \in SUBSET S, Cardinality(s) <= n + 1
               PROVE  s \in F
    OBVIOUS
  <2>1. \A x \in s : Cardinality(s \ {x}) <= n
    BY <1>1, FS_RemoveElement
  <2>2. \A x \in s : s \ {x} \in F
    BY <2>1
  <2> QED
    BY <2>2
<1> HIDE DEF T
<1>4. \A n \in Nat : n \in T
  BY <1>2, <1>3, OneByOne
<1> QED
  BY <1>1, <1>4 DEF T

\* The equation that defines the sum has a solution.
LEMMA SumExists ==
    ASSUME NEW S, IsFiniteSet(S), NEW f
    PROVE  \E g : Adds(g, f, S)
<1> DEFINE Body(g, s) == IF s = {} THEN 0
              ELSE Length[f[CHOOSE x \in s : TRUE]] + g[s \ {CHOOSE x \in s : TRUE}]
           T == {n \in Nat : \E g : \A s \in SUBSET S : Cardinality(s) <= n => g[s] = Body(g, s)}
<1>1. \A s \in SUBSET S : IsFiniteSet(s) /\ Cardinality(s) \in Nat
  BY FS_Subset, FS_CardinalityType
<1>2. 0 \in T
  <2> DEFINE g == [s \in SUBSET S |-> 0]
  <2>1. \A s \in SUBSET S : Cardinality(s) <= 0 => g[s] = Body(g, s)
    BY <1>1, FS_EmptySet
  <2> QED
    BY <2>1
<1>3. \A n \in Nat : n \in T => n + 1 \in T
  <2> SUFFICES ASSUME NEW n \in Nat, n \in T PROVE n + 1 \in T
    OBVIOUS
  <2>1. PICK g : \A s \in SUBSET S : Cardinality(s) <= n => g[s] = Body(g, s)
    OBVIOUS
  <2> DEFINE h == [s \in SUBSET S |-> IF Cardinality(s) <= n THEN g[s] ELSE Body(g, s)]
  <2>2. \A s \in SUBSET S : Cardinality(s) <= n + 1 => h[s] = Body(h, s)
    <3> TAKE s \in SUBSET S
    <3> HAVE Cardinality(s) <= n + 1
    <3>1. CASE s = {}
      BY <2>1, <3>1
    <3>2. CASE s # {}
      <4> DEFINE t == s \ {CHOOSE x \in s : TRUE}
      <4>1. t \in SUBSET S /\ Cardinality(t) <= n
        <5>1. PICK x \in s : x = CHOOSE y \in s : TRUE
          BY <3>2
        <5>2. Cardinality(s \ {x}) = Cardinality(s) - 1
          BY <1>1, <5>1, FS_RemoveElement
        <5> QED
          BY <1>1, <5>1, <5>2
      <4>2. h[t] = g[t]
        BY <4>1
      <4>3. h[s] = Body(g, s)
        BY <2>1
      <4> QED
        BY <3>2, <4>2, <4>3
    <3> QED
      BY <3>1, <3>2
  <2> HIDE DEF h
  <2>3. \E k : \A s \in SUBSET S : Cardinality(s) <= n + 1 => k[s] = Body(k, s)
    BY <2>2
  <2> HIDE DEF Body
  <2> QED
    BY <2>3
<1> HIDE DEF T
<1>4. Cardinality(S) \in T
  BY <1>1, <1>2, <1>3, OneByOne
<1>5. PICK g : \A s \in SUBSET S : Cardinality(s) <= Cardinality(S) => g[s] = Body(g, s)
  BY <1>4 DEF T
<1> DEFINE h == [s \in SUBSET S |-> Body(g, s)]
<1>6. \A s \in SUBSET S : h[s] = g[s]
  BY <1>5, FS_Subset
<1>7. \A s \in SUBSET S : Body(h, s) = Body(g, s)
  BY <1>6
<1>8. h = [s \in SUBSET S |-> Body(h, s)]
  BY <1>7
<1> QED
  BY <1>8 DEF Adds

\* The order in which rows are added up makes no difference.
LEMMA AnyFirst ==
    ASSUME NEW S, IsFiniteSet(S), NEW f, \A x \in S : Length[f[x]] \in Nat, NEW g, Adds(g, f, S)
    PROVE  /\ g[{}] = 0
           /\ \A s \in SUBSET S : g[s] \in Nat /\ \A x \in s : g[s] = Length[f[x]] + g[s \ {x}]
<1> DEFINE F == {s \in SUBSET S : g[s] \in Nat /\ \A x \in s : /\ g[s \ {x}] \in Nat
                                                            /\ g[s] = Length[f[x]] + g[s \ {x}]}
<1>0. g[{}] = 0
  BY DEF Adds
<1>1. \A s \in SUBSET S : (\A x \in s : s \ {x} \in F) => s \in F
  <2> SUFFICES ASSUME NEW s \in SUBSET S, \A x \in s : s \ {x} \in F PROVE s \in F
    OBVIOUS
  <2>1. CASE s = {}
    BY <1>0, <2>1
  <2>2. CASE s # {}
    <3>0. g[s] = IF s = {} THEN 0
              ELSE Length[f[CHOOSE x \in s : TRUE]] + g[s \ {CHOOSE x \in s : TRUE}]
      BY DEF Adds
    <3>1. PICK y \in s : g[s] = Length[f[y]] + g[s \ {y}]
      BY <2>2, <3>0
    <3>4. \A u : u \in F => g[u] \in Nat /\ \A z \in u : /\ g[u \ {z}] \in Nat
                                                         /\ g[u] = Length[f[z]] + g[u \ {z}]
      OBVIOUS
    <3>5. \A x \in s : s \ {x} \in F /\ Length[f[x]] \in Nat
      OBVIOUS
    <3> HIDE DEF F
    <3>2. g[s] \in Nat
      <4>1. g[s \ {y}] \in Nat
        BY <3>4, <3>5
      <4> QED
        BY <3>1, <3>5, <4>1
    <3>3. ASSUME NEW x \in s, x # y PROVE g[s] = Length[f[x]] + g[s \ {x}]
      <4>1. g[s \ {y}] \in Nat /\ g[s \ {x}] \in Nat
        BY <3>4, <3>5
      <4>2. g[s \ {y}] = Length[f[x]] + g[(s \ {y}) \ {x}]
        BY <3>3, <3>4, <3>5
      <4>3. g[s \ {x}] = Length[f[y]] + g[(s \ {x}) \ {y}]
        BY <3>3, <3>4, <3>5
      <4>4. (s \ {y}) \ {x} = (s \ {x}) \ {y} /\ (s \ {y}) \ {x} \in SUBSET S
        OBVIOUS
      <4>5. s \ {y} \in SUBSET S /\ x \in s \ {y}
        BY <3>3
      <4>6. \E k : k = g[(s \ {y}) \ {x}] /\ g[(s \ {x}) \ {y}] = k
        BY <4>4
      <4>7. PICK k : k = g[(s \ {y}) \ {x}] /\ g[(s \ {x}) \ {y}] = k
        BY <4>6
      <4>8. PICK m \in Nat, n \in Nat : m = Length[f[x]] /\ n = Length[f[y]]
        BY <3>5
      <4>9. g[s] = n + g[s \ {y}] /\ g[s \ {y}] = m + k /\ g[s \ {x}] = n + k
        BY <3>1, <4>2, <4>3, <4>7, <4>8
      <4>10. k \in Nat
        <5>1. s \ {y} \in F
          BY <3>5
        <5>2. g[(s \ {y}) \ {x}] \in Nat
          BY <3>4, <4>5, <5>1, Zenon
        <5> QED
          BY <4>7, <5>2
      <4> QED
        BY <4>8, <4>9, <4>10
    <3> QED
      BY <3>1, <3>2, <3>3, <3>4, <3>5 DEF F
  <2> QED
    BY <2>1, <2>2
<1> HIDE DEF F
<1>2. \A s \in SUBSET S : s \in F
  BY <1>1, PartByPart
<1> QED
  BY <1>0, <1>2 DEF F
\* The sum of a set depends on the rows of that set alone.
LEMMA SameRows ==
    ASSUME NEW S, IsFiniteSet(S), NEW T \in SUBSET S, NEW f, NEW e, \A x \in T : e[x] = f[x],
           NEW g, Adds(g, f, S), NEW h, Adds(h, e, T)
    PROVE  \A s \in SUBSET T : h[s] = g[s]
<1> DEFINE F == {s \in SUBSET T : h[s] = g[s]}
<1>1. ASSUME NEW s \in SUBSET T, \A x \in s : s \ {x} \in F
      PROVE  s \in F
  <2>1. g[s] = IF s = {} THEN 0
              ELSE Length[f[CHOOSE x \in s : TRUE]] + g[s \ {CHOOSE x \in s : TRUE}]
    BY DEF Adds
  <2>2. h[s] = IF s = {} THEN 0
              ELSE Length[e[CHOOSE x \in s : TRUE]] + h[s \ {CHOOSE x \in s : TRUE}]
    BY DEF Adds
  <2>3. CASE s = {}
    BY <2>1, <2>2, <2>3
  <2>4. CASE s # {}
    <3>1. PICK x \in s : x = CHOOSE y \in s : TRUE
      BY <2>4
    <3>2. e[x] = f[x] /\ h[s \ {x}] = g[s \ {x}]
      BY <1>1
    <3> QED
      BY <2>1, <2>2, <2>4, <3>1, <3>2
  <2> QED
    BY <2>3, <2>4
<1> HIDE DEF F
<1>2. IsFiniteSet(T)
  BY FS_Subset
<1>3. \A s \in SUBSET T : s \in F
  BY <1>1, <1>2, PartByPart
<1> QED
  BY <1>3 DEF F

\* TotalChars is such a sum.
LEMMA TotalIsSum ==
    ASSUME NEW f, IsFiniteSet(Rows(f))
    PROVE  \E g : Adds(g, f, Rows(f)) /\ TotalChars(f) = g[Rows(f)]
<1> DEFINE G == CHOOSE g : g = [s \in SUBSET Rows(f) |-> IF s = {} THEN 0
                  ELSE Length[f[CHOOSE x \in s : TRUE]] + g[s \ {CHOOSE x \in s : TRUE}]]
<1>1. TotalChars(f) = G[Rows(f)]
  BY DEF TotalChars, MapThenSumSet, MapThenFoldSet
<1>3. \E g : Adds(g, f, Rows(f))
  BY SumExists
<1>2. Adds(G, f, Rows(f))
  BY <1>3 DEF Adds
<1> QED
  BY <1>1, <1>2

\* What current_chars says of a table without rows, and of one that loses a row.
LEMMA TotalOfNone ==
    ASSUME NEW f, Rows(f) = {}
    PROVE  TotalChars(f) = 0
<1>1. IsFiniteSet(Rows(f))
  BY FS_EmptySet
<1>2. PICK g : Adds(g, f, Rows(f)) /\ TotalChars(f) = g[Rows(f)]
  BY <1>1, TotalIsSum
<1> QED
  BY <1>2 DEF Adds

LEMMA TotalOfRest ==
    ASSUME NEW f \in [HotIds -> Texts \cup {None}], Length \in [Texts -> Nat],
           IsFiniteSet(HotIds), NEW k \in Rows(f)
    PROVE  /\ TotalChars([f EXCEPT ![k] = None]) \in Nat
           /\ TotalChars(f) = Length[f[k]] + TotalChars([f EXCEPT ![k] = None])
<1> DEFINE e == [f EXCEPT ![k] = None]
<1>1. Rows(e) = Rows(f) \ {k} /\ \A x \in Rows(e) : e[x] = f[x]
  BY DEF Rows
<1> HIDE DEF e
<1>2. IsFiniteSet(Rows(f)) /\ IsFiniteSet(Rows(e))
  BY <1>1, FS_Subset DEF Rows
<1>3. \A x \in Rows(f) : Length[f[x]] \in Nat
  BY DEF Rows
<1>4. PICK g : Adds(g, f, Rows(f)) /\ TotalChars(f) = g[Rows(f)]
  BY <1>2, TotalIsSum
<1>5. PICK h : Adds(h, e, Rows(e)) /\ TotalChars(e) = h[Rows(e)]
  BY <1>2, TotalIsSum
<1>6. h[Rows(e)] = g[Rows(f) \ {k}]
  BY <1>1, <1>2, <1>4, <1>5, SameRows
<1>7. g[Rows(f)] = Length[f[k]] + g[Rows(f) \ {k}] /\ g[Rows(f) \ {k}] \in Nat
  BY <1>2, <1>3, <1>4, AnyFirst
<1> QED
  BY <1>4, <1>5, <1>6, <1>7 DEF e
LEMMA TotalIsNat ==
    ASSUME NEW f \in [HotIds -> Texts \cup {None}], Length \in [Texts -> Nat],
           IsFiniteSet(HotIds)
    PROVE  TotalChars(f) \in Nat
<1>1. CASE Rows(f) = {}
  BY <1>1, TotalOfNone
<1>2. CASE Rows(f) # {}
  <2>1. PICK k \in Rows(f) : TRUE
    BY <1>2
  <2>2. f[k] \in Texts
    BY DEF Rows
  <2>3. /\ TotalChars([f EXCEPT ![k] = None]) \in Nat
        /\ TotalChars(f) = Length[f[k]] + TotalChars([f EXCEPT ![k] = None])
    BY <2>1, TotalOfRest
  <2> QED
    BY <2>2, <2>3
<1> QED
  BY <1>1, <1>2

\* The number of rows when one goes.
LEMMA OneRowLess ==
    ASSUME NEW f \in [HotIds -> Texts \cup {None}], IsFiniteSet(HotIds), NEW k \in Rows(f)
    PROVE  /\ Cardinality(Rows(f)) \in Nat
           /\ Cardinality(Rows([f EXCEPT ![k] = None])) = Cardinality(Rows(f)) - 1
<1>1. Rows([f EXCEPT ![k] = None]) = Rows(f) \ {k}
  BY DEF Rows
<1>2. IsFiniteSet(Rows(f))
  BY FS_Subset DEF Rows
<1> QED
  BY <1>1, <1>2, FS_RemoveElement, FS_CardinalityType

-----------------------------------------------------------------------------
(* What _evict_hot counts.  It reads the table once and subtracts from then  *)
(* on what it has deleted; between a delete and the subtraction its counters *)
(* are ahead of the table by the row on its way.                             *)

CountsRows(st, ev, hots) ==
    /\ st.pc = "evict" => ev.count = Cardinality(Rows(hots))
    /\ st.pc = "pop" /\ st.op = "evict" =>
          st.row.id \in Rows(hots) /\ ev.count = Cardinality(Rows(hots))
    /\ st.pc \in {"archive", "mark", "again"} /\ st.op = "evict" =>
          ev.count = Cardinality(Rows(hots)) + 1

CountsChars(st, ev, hots) ==
    /\ st.pc = "evict" \/ (st.pc = "pop" /\ st.op = "evict") => ev.chars = TotalChars(hots)
    /\ st.pc \in {"archive", "mark", "again"} /\ st.op = "evict" =>
          ev.chars = TotalChars(hots) + Length[ev.entries[Oldest(ev.entries)]]
    /\ Evicting(st) => ev.count = Cardinality(Rows(ev.entries))

\* The rows are counted right in any case, the characters only while the
\* entries are told apart.
Counts(st, ev, hots) ==
    /\ st.pc \in {"count", "list"} => ev.chars = TotalChars(hots)
    /\ CountsRows(st, ev, hots)
    /\ Apart(ev.listed) => CountsChars(st, ev, hots)

CountInv ==
    /\ OrderInv
    /\ \A r \in Clients : active = {r} => Counts(request[r], evicting[r], hot)

\* A text that is there is found by its beginning: it or a shorter one.
LEMMA BestIsFound ==
    ASSUME TextAssumption, NoneAssumption, hot \in [HotIds -> Texts \cup {None}],
           NEW x \in Texts, NEW k \in Rows(hot), hot[k] = x
    PROVE  Best(Beginning[x]) # {}
<1> DEFINE matches == {h \in Rows(hot) : <<Beginning[x], hot[h]>> \in Occurs}
           lengths == {Length[hot[h]] : h \in matches}
<1>1. k \in matches
  BY TextAssumption
<1>2. \A h \in matches : Length[hot[h]] \in Nat
  BY TextAssumption DEF Rows
<1> HIDE DEF matches
<1>3. lengths \subseteq Nat /\ lengths # {}
  BY <1>1, <1>2
<1>4. PICK n \in lengths : \A y \in lengths : ~(<<y, n>> \in OpToRel(<, Nat))
  BY <1>3, NatLessThanWellFounded, WFMin
<1>5. \A y \in lengths : n <= y
  <2> SUFFICES ASSUME NEW y \in lengths PROVE n <= y
    OBVIOUS
  <2>1. n \in Nat /\ y \in Nat
    BY <1>3
  <2>2. ~(y < n)
    BY <1>4, <2>1 DEF OpToRel
  <2> QED
    BY <2>1, <2>2
<1>6. PICK h \in matches : n = Length[hot[h]]
  BY <1>4
<1>7. \A g \in matches : Length[hot[h]] <= Length[hot[g]]
  BY <1>5, <1>6
<1>8. h \in {f \in matches : \A g \in matches : Length[hot[f]] <= Length[hot[g]]}
  BY <1>7
<1> QED
  BY <1>8 DEF Best, matches

LEMMA HotIdsFinite ==
    ASSUME MaxHot \in Nat
    PROVE  IsFiniteSet(HotIds)
<1>1. 1 \in Int /\ MaxHot \in Int
  OBVIOUS
<1>2. IsFiniteSet(1..MaxHot)
  BY <1>1, FS_Interval, Zenon
<1> QED
  BY <1>2, Zenon DEF HotIds

LEMMA CountStep ==
    ASSUME TextAssumption, BoundsAssumption, NoneAssumption,
           CountInv, NEW r \in active, active = {r}, Step(r)
    PROVE  Counts(request'[r], evicting'[r], hot')
<1> USE TextAssumption, BoundsAssumption, NoneAssumption
<1> DEFINE s  == request[r]
           ev == evicting[r]
           l  == evicting[r].listed
           e  == evicting[r].entries
           Goal == Counts(request'[r], evicting'[r], hot')
<1>1. Inv /\ r \in Clients /\ EvictTyped /\ Orderly(s, l, e, hot) /\ Counts(s, ev, hot)
  BY DEF CountInv, OrderInv, AloneInv, OthersIdle
<1>2. /\ request \in [Clients -> Request] /\ s \in Request /\ HoldsNow(s)
      /\ hot \in [HotIds -> Texts \cup {None}] /\ e \in [HotIds -> Texts \cup {None}]
  BY <1>1 DEF Inv, Typed, EvictTyped
<1>3. IsFiniteSet(HotIds) /\ Length \in [Texts -> Nat]
  BY HotIdsFinite
<1>4. PICK rec : rec = ev /\ Whole(rec)
  BY <1>1 DEF EvictTyped
<1>5. Changes(rec)
  BY <1>4, RecordChanges
<1>6. \A st : Becomes(r, st) => request'[r] = st
  BY <1>1, <1>2 DEF Becomes
<1>7. \A x : evicting' = [evicting EXCEPT ![r] = x] => evicting'[r] = x
  BY <1>1 DEF EvictTyped
<1>8. Outside(request'[r]) => Goal
  BY DEF Outside, Counts, CountsRows, CountsChars, Evicting
<1>9. CASE ReadChars(r)
  <2>1. evicting'[r] = [ev EXCEPT !.chars = TotalChars(hot)] /\ hot' = hot
    BY <1>1, <1>9 DEF ReadChars, EvictTyped
  <2>2. [ev EXCEPT !.chars = TotalChars(hot)]
            = [listed |-> l, entries |-> e, chars |-> TotalChars(hot), count |-> ev.count]
    BY <1>4, <1>5 DEF Changes
  <2>3. request'[r].pc = "count"
    BY <1>2, <1>6, <1>9 DEF ReadChars, Request
  <2>4. evicting'[r].chars = TotalChars(hot')
    BY <2>1, <2>2
  <2> QED
    BY <2>3, <2>4 DEF Counts, CountsRows, CountsChars, Evicting
<1>10. CASE ReadCount(r)
  <2>1. \/ request'[r] = [s EXCEPT !.pc = "list", !.op = "evict"] /\ UNCHANGED evicting
        \/ request'[r] = Idle
    BY <1>6, <1>10 DEF ReadCount
  <2>2. hot' = hot /\ ev.chars = TotalChars(hot)
    BY <1>1, <1>10 DEF ReadCount, Counts
  <2>3. CASE request'[r] = Idle
    BY <1>8, <2>3 DEF Idle, Outside
  <2>4. CASE request'[r] = [s EXCEPT !.pc = "list", !.op = "evict"] /\ UNCHANGED evicting
    <3>1. request'[r].pc = "list"
      BY <1>2, <2>4 DEF Request
    <3> QED
      BY <2>2, <2>4, <3>1 DEF Counts, CountsRows, CountsChars, Evicting
  <2> QED
    BY <2>1, <2>3, <2>4
<1>16. CASE ListEntries(r)
  <2> DEFINE n == Cardinality(Rows(hot))
  <2>1. /\ request'[r] = [s EXCEPT !.pc = "evict"] /\ hot' = hot
        /\ evicting'[r] = [listed |-> hot, entries |-> hot, chars |-> ev.chars, count |-> n]
    BY <1>1, <1>6, <1>7, <1>16 DEF ListEntries
  <2>2. ev.chars = TotalChars(hot)
    BY <1>1, <1>16 DEF ListEntries, Counts
  <2>3. request'[r].pc = "evict"
    BY <1>2, <2>1 DEF Request
  <2> HIDE DEF n
  <2>4. evicting'[r].entries = hot /\ evicting'[r].chars = ev.chars /\ evicting'[r].count = n
    BY <2>1
  <2> QED
    BY <2>1, <2>2, <2>3, <2>4 DEF Counts, CountsRows, CountsChars, Evicting, n
<1>11. CASE EvictSelect(r)
  <2> DEFINE next  == Oldest(e)
             found == Best(Beginning[e[next]])
  <2>1. s.pc = "evict" /\ hot' = hot /\ next \in Rows(e)
    BY <1>11, OldestIsThere DEF EvictSelect, More
  <2>2. CASE /\ found = {}
             /\ evicting' = [evicting EXCEPT ![r].entries[next] = None]
             /\ UNCHANGED request
    <3> DEFINE f == [e EXCEPT ![next] = None]
    <3>1. evicting'[r] = [ev EXCEPT !.entries = f]
      BY <1>1, <2>2 DEF EvictTyped
    <3>2. evicting'[r] = [listed |-> l, entries |-> f, chars |-> ev.chars, count |-> ev.count]
      BY <1>4, <1>5, <3>1 DEF Changes
    <3>3. ~Apart(l)
      <4> SUFFICES ASSUME Apart(l) PROVE FALSE
        OBVIOUS
      <4>1. PICK m : Covers(m, Rows(e), e, hot)
        BY <1>1, <2>1 DEF Orderly, InOrder, Covered
      <4>2. m[next] \in HotIds /\ hot[m[next]] = e[next] /\ e[next] \in Texts
        BY <1>2, <2>1, <4>1 DEF Covers, Rows
      <4>3. m[next] \in Rows(hot)
        BY <4>2 DEF Rows
      <4> QED
        BY <1>2, <2>2, <4>2, <4>3, BestIsFound
    <3> HIDE DEF f
    <3>4. evicting'[r].listed = l /\ evicting'[r].count = ev.count /\ request'[r] = s
      BY <2>2, <3>2
    <3> QED
      BY <1>1, <2>1, <3>3, <3>4 DEF Counts, CountsRows
  <2>3. ASSUME NEW h \in found, UNCHANGED evicting,
               request'[r] = [s EXCEPT !.pc = "pop", !.row = [id |-> h, text |-> hot[h]]]
        PROVE  Goal
    <3>1. request'[r].pc = "pop" /\ request'[r].row.id = h
      BY <1>2, <2>3 DEF Request
    <3>2. h \in Rows(hot)
      BY DEF Best
    <3> QED
      BY <1>1, <2>1, <2>3, <3>1, <3>2 DEF Counts, CountsRows, CountsChars, Evicting
  <2> QED
    BY <1>6, <1>11, <2>2, <2>3 DEF EvictSelect, AfterSelect
<1>12. CASE EvictAgain(r)
  <2> DEFINE next == Oldest(e)
             f == [e EXCEPT ![next] = None]
             x == ev.chars - Length[e[next]]
             n == ev.count - 1
  <2>1. s.pc = "again" /\ s.op = "evict" /\ hot' = hot
    BY <1>1, <1>12 DEF EvictAgain, Orderly
  <2>2. ev.count = Cardinality(Rows(hot)) + 1
    BY <1>1, <2>1 DEF Counts, CountsRows
  <2>3. IsFiniteSet(Rows(hot)) /\ IsFiniteSet(Rows(e))
    BY <1>3, FS_Subset DEF Rows
  <2>4. Cardinality(Rows(hot)) \in Nat
    BY <2>3, FS_CardinalityType
  <2>5. n = Cardinality(Rows(hot))
    BY <2>2, <2>4
  <2>6. Apart(l) => x = TotalChars(hot) /\ n = Cardinality(Rows(f))
    <3> HAVE Apart(l)
    <3>1. /\ ev.chars = TotalChars(hot) + Length[e[next]]
          /\ ev.count = Cardinality(Rows(e))
      BY <1>1, <2>1 DEF Counts, CountsChars, Evicting
    <3>2. Rows(e) # {}
      <4>1. Cardinality(Rows(e)) # 0
        BY <2>2, <2>4, <3>1
      <4> QED
        BY <2>3, <4>1, FS_EmptySet
    <3>3. next \in Rows(e)
      BY <3>2, OldestIsThere
    <3>4. Cardinality(Rows(f)) = Cardinality(Rows(e)) - 1
      BY <1>2, <1>3, <3>3, OneRowLess
    <3>5. e[next] \in Texts
      BY <1>2, <3>3 DEF Rows
    <3>6. TotalChars(hot) \in Nat /\ Length[e[next]] \in Nat
      BY <1>2, <1>3, <3>5, TotalIsNat
    <3> QED
      BY <3>1, <3>4, <3>6
  <2>8. evicting'[r] = [listed |-> l, entries |-> f, chars |-> x, count |-> n]
    BY <1>7, <1>12 DEF EvictAgain
  <2>9. request'[r].pc = "evict"
    BY <1>1, <1>2, <1>12 DEF EvictAgain, Becomes, Request
  <2> HIDE DEF f, x, n
  <2>10. /\ evicting'[r].listed = l /\ evicting'[r].entries = f
         /\ evicting'[r].chars = x /\ evicting'[r].count = n
    BY <2>8
  <2> QED
    BY <2>1, <2>5, <2>6, <2>9, <2>10 DEF Counts, CountsRows, CountsChars, Evicting
<1>13. CASE Pop(r)
  <2> DEFINE k == s.row.id
  <2>1. /\ s.pc = "pop" /\ UNCHANGED evicting /\ hot' = [hot EXCEPT ![k] = None]
        /\ request'[r] = [s EXCEPT !.pc = "archive"]
    BY <1>6, <1>13 DEF Pop, AfterPop
  <2>2. request'[r].pc = "archive" /\ request'[r].op = s.op
    BY <1>2, <2>1 DEF Request
  <2>3. CASE s.op # "evict"
    BY <1>8, <2>2, <2>3 DEF Outside
  <2>4. CASE s.op = "evict"
    <3>1. k \in Rows(hot) /\ ev.count = Cardinality(Rows(hot))
      BY <1>1, <2>1, <2>4 DEF Counts, CountsRows
    <3>2. TotalChars(hot') \in Nat /\ TotalChars(hot) = Length[hot[k]] + TotalChars(hot')
      BY <1>2, <1>3, <2>1, <3>1, TotalOfRest
    <3>3. /\ Cardinality(Rows(hot)) \in Nat
          /\ Cardinality(Rows(hot')) = Cardinality(Rows(hot)) - 1
      BY <1>2, <1>3, <2>1, <3>1, OneRowLess
    <3>4. ev.count = Cardinality(Rows(hot')) + 1
      BY <3>1, <3>3
    <3>5. Apart(l) => /\ ev.chars = TotalChars(hot') + Length[e[Oldest(e)]]
                      /\ ev.count = Cardinality(Rows(e))
      <4> HAVE Apart(l)
      <4>1. hot[k] = e[Oldest(e)]
        BY <1>1, <2>1, <2>4 DEF Orderly, InOrder
      <4>2. ev.chars = TotalChars(hot) /\ ev.count = Cardinality(Rows(e))
        BY <1>1, <2>1, <2>4 DEF Counts, CountsChars, Evicting
      <4>3. Length[hot[k]] \in Nat
        BY <1>2, <1>3, <3>1 DEF Rows
      <4> QED
        BY <3>2, <4>1, <4>2, <4>3
    <3> QED
      BY <2>1, <2>2, <3>4, <3>5 DEF Counts, CountsRows, CountsChars, Evicting
  <2> QED
    BY <2>3, <2>4
<1>14. CASE ArchivePopped(r)
  <2>1. s.pc = "archive" /\ hot' = hot /\ UNCHANGED evicting
    BY <1>14 DEF ArchivePopped
  <2>2. \/ request'[r] = Idle
        \/ request'[r] = [s EXCEPT !.pc = "mark", !.cold = lastCold + 1]
    BY <1>6, <1>14 DEF ArchivePopped
  <2>3. CASE request'[r] = Idle
    BY <1>8, <2>3 DEF Idle, Outside
  <2>4. CASE request'[r] = [s EXCEPT !.pc = "mark", !.cold = lastCold + 1]
    <3>1. request'[r].pc = "mark" /\ request'[r].op = s.op
      BY <1>2, <2>4 DEF Request
    <3> QED
      BY <1>1, <2>1, <3>1 DEF Counts, CountsRows, CountsChars, Evicting
  <2> QED
    BY <2>2, <2>3, <2>4
<1>15. CASE MarkDormant(r)
  <2>1. s.pc = "mark" /\ hot' = hot /\ UNCHANGED evicting
    BY <1>15 DEF MarkDormant
  <2>2. \/ request'[r] = Idle
        \/ s.op = "evict" /\ request'[r] = [s EXCEPT !.pc = "again"]
    BY <1>6, <1>15 DEF MarkDormant
  <2>3. CASE request'[r] = Idle
    BY <1>8, <2>3 DEF Idle, Outside
  <2>4. CASE s.op = "evict" /\ request'[r] = [s EXCEPT !.pc = "again"]
    <3>1. request'[r].pc = "again" /\ request'[r].op = "evict"
      BY <1>2, <2>4 DEF Request
    <3> QED
      BY <1>1, <2>1, <2>4, <3>1 DEF Counts, CountsRows, CountsChars, Evicting
  <2> QED
    BY <2>2, <2>3, <2>4
<1> QED
  BY <1>1, <1>8, <1>9, <1>10, <1>11, <1>12, <1>13, <1>14, <1>15, <1>16,
     OtherBusiness

\* While requests follow one another, _evict_hot ends with a current_count that
\* is the number of entries there are, and has brought the tier within 90% of
\* both limits provided that the entries it listed can be told apart by their
\* first 60 characters: then current_chars too agrees with the table whenever
\* it decides, and it neither finds nothing to delete nor runs out of entries
\* before.  (Without that proviso the docstring's "until under capacity" fails:
\* current_chars drops by the length of an entry that was not the one deleted.)
THEOREM EvictionIsEnough == MCSpec => []EvictionSuffices
<1> USE TextAssumption, BoundsAssumption, NoneAssumption
<1>1. MCInit => CountInv
  <2>1. MCInit => OrderInv
    BY OrderSteps
  <2>2. MCInit => \A r \in Clients : request[r].pc = "idle"
    BY DEF MCInit, Init, Idle
  <2> QED
    BY <2>1, <2>2 DEF CountInv, Counts, CountsRows, CountsChars, Evicting
<1>2. CountInv /\ [MCNext]_<<vars, active>> => CountInv'
  <2> SUFFICES ASSUME CountInv, [MCNext]_<<vars, active>> PROVE CountInv'
    OBVIOUS
  <2>1. OrderInv'
    BY OrderSteps DEF CountInv
  <2>2. CASE UNCHANGED <<hot, request, evicting, active>>
    BY <2>1, <2>2 DEF CountInv
  <2>3. ASSUME NEW r \in active, Step(r), active' = active PROVE CountInv'
    <3> SUFFICES ASSUME NEW q \in Clients, active' = {q} PROVE Counts(request[q], evicting[q], hot)'
      BY <2>1 DEF CountInv
    <3>1. q = r /\ active = {r}
      BY <2>3
    <3>2. Counts(request'[r], evicting'[r], hot')
      BY <2>3, <3>1, CountStep
    <3> QED
      BY <3>1, <3>2
  <2>4. ASSUME NEW c \in ColdIds, RestoreCold(c), active' = active PROVE CountInv'
    BY <2>2, <2>4 DEF RestoreCold
  <2> QED
    BY <2>2, <2>3, <2>4 DEF MCNext, vars
<1>3. CountInv => EvictionSuffices
  <2> SUFFICES ASSUME CountInv, NEW r \in Clients, Alone, request[r].pc = "evict", ~More(r)
               PROVE  /\ evicting[r].count = Cardinality(Rows(hot))
                      /\ Apart(evicting[r].listed) => /\ TotalChars(hot) <= TargetChars
                                                      /\ Cardinality(Rows(hot)) <= TargetEntries
    BY DEF EvictionSuffices, WithinLimits
  <2> DEFINE ev == evicting[r]
  <2>1. OrderInv /\ AloneInv
    BY DEF CountInv, OrderInv
  <2>2. r \in active
    BY <2>1 DEF AloneInv, OthersIdle, Idle
  <2>3. active = {r}
    BY <2>2 DEF Alone
  <2>10. ev.count = Cardinality(Rows(hot))
    BY <2>3 DEF CountInv, Counts, CountsRows
  <2>11. SUFFICES ASSUME Apart(ev.listed)
                  PROVE  TotalChars(hot) <= TargetChars /\ Cardinality(Rows(hot)) <= TargetEntries
    BY <2>10
  <2>4. /\ ev.chars = TotalChars(hot) /\ ev.count = Cardinality(Rows(hot))
        /\ ev.count = Cardinality(Rows(ev.entries))
    BY <2>3, <2>10, <2>11 DEF CountInv, Counts, CountsChars, Evicting
  <2>5. IsFiniteSet(Rows(hot)) /\ IsFiniteSet(HotIds)
    <3>1. IsFiniteSet(HotIds)
      BY HotIdsFinite
    <3> QED
      BY <3>1, FS_Subset DEF Rows
  <2>6. TotalChars(hot) \in Nat /\ Cardinality(Rows(hot)) \in Nat
    BY <2>1, <2>5, TotalIsNat, FS_CardinalityType DEF AloneInv, Inv, Typed
  <2>7. TargetChars \in Nat /\ TargetEntries \in Nat
    BY DEF TargetChars, TargetEntries
  <2>8. CASE Rows(ev.entries) = {}
    <3>1. Cardinality(Rows(hot)) = 0
      BY <2>4, <2>8, FS_EmptySet
    <3>2. TotalChars(hot) = 0
      BY <2>5, <3>1, FS_EmptySet, TotalOfNone
    <3> QED
      BY <2>7, <3>1, <3>2
  <2>9. CASE Rows(ev.entries) # {}
    <3>1. ~(ev.chars > TargetChars) /\ ~(ev.count > TargetEntries)
      BY <2>9 DEF More
    <3> QED
      BY <2>4, <2>6, <2>7, <3>1
  <2> QED
    BY <2>8, <2>9
<1> QED
  BY <1>1, <1>2, <1>3, PTL DEF MCSpec

=============================================================================
