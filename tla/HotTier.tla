------------------------------ MODULE HotTier ------------------------------
(***************************************************************************)
(* The hot tier of OpenHippo and the way from it to the cold one and back: *)
(* hot_* and cold_add, archive and promote of core/storage.py, add and     *)
(* _evict_hot of core/engine.py.                                           *)
(*                                                                         *)
(* Each of these is several statements and several commits on the thread's *)
(* own connection.  An action is one read or one commit, so that requests  *)
(* of other threads, or the end of the process, may come in between.       *)
(*                                                                         *)
(* One target ("memory" or "user") is modelled: no statement touches two.  *)
(* A hot row's id is its place in the order of hot_list (sort_order grows  *)
(* with each insert).  Texts are atoms without white space around them;    *)
(* what the code finds out about them (length, occurrence, normal form,    *)
(* first 60 characters, similarity) are constants.                         *)
(***************************************************************************)
EXTENDS Integers, FiniteSetsExt

CONSTANTS
    Texts,         \* strings that are stored or searched for
    NewTexts,      \* those that requests add
    Queries,       \* those that requests give as old_text
    Replacements,  \* those that requests give as new_content
    Length,        \* len(content)
    Normal,        \* _normalize_content: the text without known prefixes
    Beginning,     \* content[:60]
    Occurs,        \* <<s, t>>: t LIKE %s%
    Near,          \* <<t, u>>: vectors closer than 0.4
    Clients,       \* threads that serve requests
    Limit,         \* HOT_MEMORY_LIMIT or HOT_USER_LIMIT
    MaxEntries,    \* HOT_MAX_ENTRIES
    MaxHot,        \* bound: hot rows ever
    MaxCold,       \* bound: cold rows ever
    MaxFaults,     \* bound: requests that die half way
    None

HotIds  == 1..MaxHot
ColdIds == 1..MaxCold
HotRow  == [id : HotIds, text : Texts]
\* from is archived_from; a consolidated row is hidden like a dormant one.
ColdRow == [text : Texts, status : {"active", "dormant"},
            from : HotIds \cup {None}]

ASSUME TextAssumption ==
    /\ NewTexts \subseteq Texts /\ Queries \subseteq Texts
    /\ Replacements \subseteq Texts
    /\ Length \in [Texts -> Nat] /\ Normal \in [Texts -> Texts]
    /\ Beginning \in [Texts -> Texts]
    /\ Occurs \subseteq Texts \X Texts /\ Near \subseteq Texts \X Texts
    /\ \A t \in Texts : /\ <<t, t>> \in Occurs /\ <<Beginning[t], t>> \in Occurs
                        /\ Length[Beginning[t]] <= Length[t]
ASSUME BoundsAssumption ==
    /\ Limit \in Nat /\ MaxEntries \in Nat
    /\ MaxHot \in Nat /\ MaxCold \in Nat /\ MaxFaults \in Nat
ASSUME NoneAssumption ==
    None \notin Texts /\ None \notin HotRow /\ None \notin ColdRow
        /\ None \notin Int

VARIABLES
    hot,       \* hot_memory: id -> text, None for no row
    lastHot,   \* the last id given to a hot row
    cold,      \* cold_memory
    lastCold,  \* the last id given to a cold row
    request,   \* what each thread is doing
    evicting,  \* the local variables of its _evict_hot
    popped,    \* history: the hot rows deleted by _hot_pop, as they were
    promoted,  \* history: the hot rows promote made, and of which cold rows
    faults     \* requests that died half way

vars == <<hot, lastHot, cold, lastCold, request, evicting, popped, promoted, faults>>

Request ==
    [pc : {"idle", "findCold", "findNear", "insert", "chars", "count", "list",
           "evict", "pop", "archive", "mark", "again", "promote", "update",
           "coldInsert"},
     op : {"none", "remove", "archive", "evict", "promote"},
     key : Texts \cup {None},             \* the text given
     row : HotRow \cup {None},            \* the hot row it found
     cold : ColdIds \cup {None}]          \* the cold row it made or promotes

\* the entries, those of them not yet looked at, current_chars, current_count
Eviction ==
    [listed : [HotIds -> Texts \cup {None}],
     entries : [HotIds -> Texts \cup {None}], chars : Int, count : Int]

Promotion == [cold : ColdIds, hot : HotIds]

TypeOK ==
    /\ hot \in [HotIds -> Texts \cup {None}]
    /\ lastHot \in 0..MaxHot
    /\ cold \in [ColdIds -> ColdRow \cup {None}]
    /\ lastCold \in 0..MaxCold
    /\ request \in [Clients -> Request]
    /\ evicting \in [Clients -> Eviction]
    /\ popped \subseteq HotRow
    /\ promoted \subseteq Promotion
    /\ faults \in 0..MaxFaults

Empty == [h \in HotIds |-> None]
Idle  == [pc |-> "idle", op |-> "none", key |-> None, row |-> None,
          cold |-> None]
NoEviction == [listed |-> Empty, entries |-> Empty, chars |-> 0, count |-> 0]

-----------------------------------------------------------------------------
(* What the code reads from the tables.                                    *)

Rows(f)       == {h \in HotIds : f[h] # None}
TotalChars(f) == MapThenSumSet(LAMBDA h : Length[f[h]], Rows(f))
TargetChars   == (Limit * 9) \div 10
TargetEntries == (MaxEntries * 9) \div 10

(* Mistakes this code could plausibly have made.                            *)

\* Hashes of the texts as they are given, prefixes and all.
Equal_Literal(t, u) == t = u

\* The longest match in place of the shortest, equality not preferred.
Best_Longest(s) ==
    {h \in Rows(hot) : /\ <<s, hot[h]>> \in Occurs
                       /\ \A g \in Rows(hot) : <<s, hot[g]>> \in Occurs
                            => Length[hot[g]] <= Length[hot[h]]}

\* _mark_dormant that writes its audit row and not the status.
Hidden_Forgotten == "active"

\* The loop stops as soon as one of its two aims is reached.
More_Either(r) ==
    /\ Rows(evicting[r].entries) # {}
    /\ evicting[r].chars > TargetChars /\ evicting[r].count > TargetEntries

\* hot_remove without the copy in cold_memory.
AfterPop_Dropped(r) == Idle

-----------------------------------------------------------------------------
(* The decisions as the code takes them.                                   *)

\* Same content_hash.
Equal(t, u) == Normal[t] = Normal[u]

\* The oldest of the entries listed.
Oldest(entries) == Min(Rows(entries))

\* LIKE matches, of which _pick_best_match takes an equal text or a shortest.
Best(s) ==
    LET matches == {h \in Rows(hot) : <<s, hot[h]>> \in Occurs}
        equal   == {h \in matches : hot[h] = s}
    IN  IF equal # {} THEN equal
        ELSE {h \in matches : \A g \in matches : Length[hot[h]] <= Length[hot[g]]}

OverLimit(r) ==
    evicting[r].chars > Limit \/ Cardinality(Rows(hot)) > MaxEntries

More(r) ==
    /\ Rows(evicting[r].entries) # {}
    /\ evicting[r].chars > TargetChars \/ evicting[r].count > TargetEntries

\* What _mark_dormant writes.
Hidden == "dormant"

\* _hot_pop deletes what it selected, and its caller copies it to cold.
AfterSelect == "pop"
AfterPop(r) == [request[r] EXCEPT !.pc = "archive"]

Init ==
    /\ hot = Empty /\ lastHot = 0
    /\ cold = [c \in ColdIds |-> None] /\ lastCold = 0
    /\ request = [r \in Clients |-> Idle]
    /\ evicting = [r \in Clients |-> NoEviction]
    /\ popped = {} /\ promoted = {} /\ faults = 0

Becomes(r, state) == request' = [request EXCEPT ![r] = state]

InsertHot(t) ==
    /\ lastHot < MaxHot
    /\ lastHot' = lastHot + 1
    /\ hot' = [hot EXCEPT ![lastHot + 1] = t]

InsertCold(t, from) ==
    /\ lastCold < MaxCold
    /\ lastCold' = lastCold + 1
    /\ cold' = [cold EXCEPT ![lastCold + 1] =
                    [text |-> t, status |-> "active", from |-> from]]

-----------------------------------------------------------------------------
(* add.  A request answered with "duplicate" or "similar" is over.          *)

BeginAdd(r, t) ==
    /\ request[r].pc = "idle"
    /\ ~ \E h \in Rows(hot) : Equal(hot[h], t)
    /\ Becomes(r, [Idle EXCEPT !.pc = "findCold", !.key = t])
    /\ UNCHANGED <<hot, lastHot, cold, lastCold, evicting, popped, promoted, faults>>

\* cold_find_by_hash: a row in any state, hidden ones too.
FindCold(r) ==
    /\ request[r].pc = "findCold"
    /\ Becomes(r, IF \E c \in ColdIds : cold[c] # None /\ Equal(cold[c].text, request[r].key)
                  THEN Idle ELSE [request[r] EXCEPT !.pc = "findNear"])
    /\ UNCHANGED <<hot, lastHot, cold, lastCold, evicting, popped, promoted, faults>>

\* The vector search sees visible rows that have a vector yet, and there may
\* be no vector of the query either.
FindNear(r) ==
    /\ request[r].pc = "findNear"
    /\ \/ /\ \E c \in ColdIds : /\ cold[c] # None /\ cold[c].status = "active"
                                /\ <<request[r].key, cold[c].text>> \in Near
          /\ Becomes(r, Idle)
       \/ Becomes(r, [request[r] EXCEPT !.pc = "insert"])
    /\ UNCHANGED <<hot, lastHot, cold, lastCold, evicting, popped, promoted, faults>>

HotAdd(r) ==
    /\ request[r].pc = "insert"
    /\ InsertHot(request[r].key)
    /\ Becomes(r, [request[r] EXCEPT !.pc = "chars"])
    /\ UNCHANGED <<cold, lastCold, evicting, popped, promoted, faults>>

ReadChars(r) ==
    /\ request[r].pc = "chars"
    /\ Becomes(r, [request[r] EXCEPT !.pc = "count"])
    /\ evicting' = [evicting EXCEPT ![r].chars = TotalChars(hot)]
    /\ UNCHANGED <<hot, lastHot, cold, lastCold, popped, promoted, faults>>

\* add lists the entries once only to count them.
ReadCount(r) ==
    /\ request[r].pc = "count"
    /\ \/ /\ OverLimit(r)
          /\ Becomes(r, [request[r] EXCEPT !.pc = "list", !.op = "evict"])
          /\ UNCHANGED evicting
       \/ /\ ~OverLimit(r)
          /\ Becomes(r, Idle) /\ evicting' = [evicting EXCEPT ![r] = NoEviction]
    /\ UNCHANGED <<hot, lastHot, cold, lastCold, popped, promoted, faults>>

\* _evict_hot lists them again, and keeps current_chars as it was read.
ListEntries(r) ==
    /\ request[r].pc = "list"
    /\ Becomes(r, [request[r] EXCEPT !.pc = "evict"])
    /\ evicting' = [evicting EXCEPT ![r] =
                       [listed |-> hot, entries |-> hot, chars |-> @.chars,
                        count |-> Cardinality(Rows(hot))]]
    /\ UNCHANGED <<hot, lastHot, cold, lastCold, popped, promoted, faults>>

-----------------------------------------------------------------------------
(* _evict_hot: hot_remove by the beginning of each entry, then cold_add.    *)

EvictSelect(r) ==
    LET next  == Oldest(evicting[r].entries)
        found == Best(Beginning[evicting[r].entries[next]])
    IN  /\ request[r].pc = "evict" /\ More(r)
        /\ \/ /\ found = {}
              /\ evicting' = [evicting EXCEPT ![r].entries[next] = None]
              /\ UNCHANGED request
           \/ /\ \E h \in found :
                    Becomes(r, [request[r] EXCEPT !.pc = AfterSelect,
                                    !.row = [id |-> h, text |-> hot[h]]])
              /\ UNCHANGED evicting
        /\ UNCHANGED <<hot, lastHot, cold, lastCold, popped, promoted, faults>>

EvictEnds(r) ==
    /\ request[r].pc = "evict" /\ ~More(r)
    /\ Becomes(r, Idle) /\ evicting' = [evicting EXCEPT ![r] = NoEviction]
    /\ UNCHANGED <<hot, lastHot, cold, lastCold, popped, promoted, faults>>

\* The second copy; the counters drop by the entry that was to go.
EvictAgain(r) ==
    LET next == Oldest(evicting[r].entries) IN
    /\ request[r].pc = "again"
    /\ InsertCold(request[r].row.text, request[r].row.id)
    /\ Becomes(r, [request[r] EXCEPT !.pc = "evict", !.row = None, !.cold = None])
    /\ evicting' = [evicting EXCEPT ![r] =
                        [listed  |-> @.listed,
                         entries |-> [@.entries EXCEPT ![next] = None],
                         chars   |-> @.chars - Length[@.entries[next]],
                         count   |-> @.count - 1]]
    /\ UNCHANGED <<hot, lastHot, popped, promoted, faults>>

-----------------------------------------------------------------------------
(* remove, archive, promote, replace and cold_add.                          *)

BeginPop(r, op, s) ==
    /\ request[r].pc = "idle"
    /\ \E h \in Best(s) :
        Becomes(r, [Idle EXCEPT !.pc = AfterSelect, !.op = op,
                        !.row = [id |-> h, text |-> hot[h]]])
    /\ UNCHANGED <<hot, lastHot, cold, lastCold, evicting, popped, promoted, faults>>

\* DELETE by id: of no effect when another request has deleted the row.
Pop(r) ==
    LET h == request[r].row.id IN
    /\ request[r].pc = "pop"
    /\ hot' = [hot EXCEPT ![h] = None]
    /\ popped' = IF hot[h] = None THEN popped
                 ELSE popped \cup {[id |-> h, text |-> hot[h]]}
    /\ Becomes(r, AfterPop(r))
    /\ UNCHANGED <<lastHot, cold, lastCold, evicting, promoted, faults>>

ArchivePopped(r) ==
    /\ request[r].pc = "archive"
    /\ InsertCold(request[r].row.text, request[r].row.id)
    /\ Becomes(r, IF request[r].op = "archive" THEN Idle
                  ELSE [request[r] EXCEPT !.pc = "mark", !.cold = lastCold + 1])
    /\ UNCHANGED <<hot, lastHot, evicting, popped, promoted, faults>>

MarkDormant(r) ==
    /\ request[r].pc = "mark"
    /\ cold' = [cold EXCEPT ![request[r].cold].status = Hidden]
    /\ Becomes(r, IF request[r].op = "evict"
                  THEN [request[r] EXCEPT !.pc = "again"] ELSE Idle)
    /\ UNCHANGED <<hot, lastHot, lastCold, evicting, popped, promoted, faults>>

BeginPromote(r, c) ==
    /\ request[r].pc = "idle" /\ cold[c] # None
    /\ Becomes(r, [Idle EXCEPT !.pc = "promote", !.op = "promote",
                        !.key = cold[c].text, !.cold = c])
    /\ UNCHANGED <<hot, lastHot, cold, lastCold, evicting, popped, promoted, faults>>

PromoteHot(r) ==
    /\ request[r].pc = "promote"
    /\ InsertHot(request[r].key)
    /\ Becomes(r, [request[r] EXCEPT !.pc = "mark"])
    /\ promoted' = promoted \cup {[cold |-> request[r].cold, hot |-> lastHot + 1]}
    /\ UNCHANGED <<cold, lastCold, evicting, popped, faults>>

BeginReplace(r, s, t) ==
    /\ request[r].pc = "idle"
    /\ \E h \in Best(s) :
        Becomes(r, [Idle EXCEPT !.pc = "update", !.key = t,
                        !.row = [id |-> h, text |-> hot[h]]])
    /\ UNCHANGED <<hot, lastHot, cold, lastCold, evicting, popped, promoted, faults>>

\* UPDATE by id: answered "replaced" also when the row is gone.
Replace(r) ==
    LET h == request[r].row.id IN
    /\ request[r].pc = "update"
    /\ hot' = IF hot[h] = None THEN hot ELSE [hot EXCEPT ![h] = request[r].key]
    /\ Becomes(r, Idle)
    /\ UNCHANGED <<lastHot, cold, lastCold, evicting, popped, promoted, faults>>

BeginColdAdd(r, t) ==
    /\ request[r].pc = "idle"
    /\ ~ \E c \in ColdIds : cold[c] # None /\ Equal(cold[c].text, t)
    /\ Becomes(r, [Idle EXCEPT !.pc = "coldInsert", !.key = t])
    /\ UNCHANGED <<hot, lastHot, cold, lastCold, evicting, popped, promoted, faults>>

ColdAdd(r) ==
    /\ request[r].pc = "coldInsert"
    /\ InsertCold(request[r].key, None)
    /\ Becomes(r, Idle)
    /\ UNCHANGED <<hot, lastHot, evicting, popped, promoted, faults>>

\* restore of core/dream.py, in one step (DreamLifecycle has the details).
RestoreCold(c) ==
    /\ cold[c] # None /\ cold[c].status = "dormant"
    /\ cold' = [cold EXCEPT ![c].status = "active"]
    /\ UNCHANGED <<hot, lastHot, lastCold, request, evicting, popped, promoted, faults>>

\* The process ends, or a statement raises (the database is busy): what is
\* committed stays, and nobody takes the request up again.
Dies(r) ==
    /\ request[r].pc # "idle" /\ faults < MaxFaults
    /\ faults' = faults + 1
    /\ Becomes(r, Idle) /\ evicting' = [evicting EXCEPT ![r] = NoEviction]
    /\ UNCHANGED <<hot, lastHot, cold, lastCold, popped, promoted>>

Step(r) ==
    \/ \E t \in NewTexts : BeginAdd(r, t) \/ BeginColdAdd(r, t)
    \/ FindCold(r) \/ FindNear(r) \/ HotAdd(r) \/ ReadChars(r)
    \/ ReadCount(r) \/ ListEntries(r)
    \/ EvictSelect(r) \/ EvictEnds(r) \/ EvictAgain(r)
    \/ \E s \in Queries, op \in {"remove", "archive"} : BeginPop(r, op, s)
    \/ Pop(r) \/ ArchivePopped(r) \/ MarkDormant(r)
    \/ \E c \in ColdIds : BeginPromote(r, c)
    \/ PromoteHot(r)
    \/ \E s \in Queries, t \in Replacements : BeginReplace(r, s, t)
    \/ Replace(r) \/ ColdAdd(r) \/ Dies(r)

Next ==
    \/ \E r \in Clients : Step(r)
    \/ \E c \in ColdIds : RestoreCold(c)

Spec == Init /\ [][Next]_vars

-----------------------------------------------------------------------------
(* Properties.                                                             *)

\* A cold row is made of a hot row only once that row is deleted.
ArchivedAreGone ==
    \A c \in ColdIds : cold[c] # None /\ cold[c].from # None
        => hot[cold[c].from] = None

\* A promoted cold row that search still finds beside the hot row made of it,
\* and that no promote is about to hide.
Doubled ==
    {p \in promoted :
        /\ hot[p.hot] # None /\ cold[p.cold].status = "active"
        /\ \A r \in Clients : ~ (/\ request[r].op = "promote" /\ request[r].pc = "mark"
                                 /\ request[r].cold = p.cold)}

\* No memory is left in both tiers by a request that dies, or meets another,
\* on its way out of the hot tier (_hot_pop commits before cold_add does); on
\* the way into it, by nothing but a promote that dies between hot_add and
\* _mark_dormant, or a later restore of the cold row that it hid.
OneTierAtATime ==
    [][/\ ArchivedAreGone'
       /\ \A p \in Doubled' \ Doubled :
            \/ \E r \in Clients : /\ Dies(r) /\ request[r].op = "promote"
                                 /\ request[r].cold = p.cold
            \/ RestoreCold(p.cold)]_vars

\* A popped row that neither has a cold copy of its last text nor is on its
\* way there.
Lost ==
    {p \in popped :
        /\ ~ \E c \in ColdIds : cold[c] # None /\ cold[c].from = p.id
                                    /\ cold[c].text = p.text
        /\ ~ \E r \in Clients : request[r].row = p /\ request[r].pc = "archive"}

\* What leaves the hot tier arrives in the cold one (hot_remove, archive and
\* _evict_hot: pop, then cold_add) except in two cases: the request that
\* carries it dies, or it was replaced between the select and the delete.
ReplacedBefore(r) == Pop(r) /\ hot[request[r].row.id] \notin {None, request[r].row.text}
OnlyFaultsLose ==
    [][Lost' \subseteq Lost \/ \E r \in Clients : Dies(r) \/ ReplacedBefore(r)]_vars

(* What single requests do, true while they follow one another.             *)

\* add inserts a text that no hot or cold row has yet.
InsertsNew ==
    \A r \in Clients : request[r].pc = "insert" /\ lastHot' # lastHot =>
        /\ \A h \in Rows(hot) : Normal[hot[h]] # Normal[request[r].key]
        /\ \A c \in ColdIds : cold[c] # None
                => Normal[cold[c].text] # Normal[request[r].key]

\* No listed entry is another text, no longer than a listed one, in which the
\* first 60 characters of that one occur: then content[:60] names each entry.
Apart(listed) ==
    \A g, h \in Rows(listed) :
        listed[h] # listed[g] /\ <<Beginning[listed[g]], listed[h]>> \in Occurs
            => Length[listed[g]] < Length[listed[h]]

\* The row about to be evicted holds the text whose turn it is.
EvictsOldest ==
    \A r \in Clients :
        request[r].pc = "pop" /\ request[r].op = "evict" /\ Apart(evicting[r].listed)
          => request[r].row.text = evicting[r].entries[Min(Rows(evicting[r].entries))]

\* After an eviction current_count is the number of entries there are, and the
\* tier is within 90% of both limits.
WithinLimits ==
    \A r \in Clients : request[r].pc = "evict" /\ ~More(r) =>
        /\ evicting[r].count = Cardinality(Rows(hot))
        /\ Apart(evicting[r].listed) => /\ TotalChars(hot) <= TargetChars
                                        /\ Cardinality(Rows(hot)) <= TargetEntries

=============================================================================
