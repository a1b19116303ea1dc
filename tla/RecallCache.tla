----------------------------- MODULE RecallCache -----------------------------
(***************************************************************************)
(* HippoClient.recall with its cache (client.py, cache.py of the SDK).     *)
(*                                                                         *)
(* The threads of one agent ask for the memories that answer a query.  An  *)
(* answer is kept for TTL; neither the agent's own writes nor those of     *)
(* others clear it.  The cache is locked in get and set, not in between,   *)
(* so answers may come back in another order than they were asked for.     *)
(* An answer is modelled by what was asked and the time the server looked. *)
(***************************************************************************)
EXTENDS Integers, FiniteSets, SequencesExt

CONSTANTS
    Threads,
    Queries,
    Options,     \* source, mode, limit and target
    Cut256, Cut500,  \* what is left of each query
    Capacity,    \* cache_capacity, at least 1
    TTL,         \* cache_ttl_sec
    Delay,       \* longest time from the server's search to its answer
    MaxTime,     \* bound: the clock
    None

ASSUME BoundsAssumption ==
    Capacity \in Nat \ {0} /\ TTL \in Nat /\ Delay \in Nat /\ MaxTime \in Nat
\* The cuts keep the beginning: what is left of 500 characters after 256 is
\* what is left of all of them.
ASSUME CutAssumption ==
    /\ {Cut256, Cut500} \subseteq [Queries -> Queries]
    /\ \A q \in Queries : Cut256[Cut500[q]] = Cut256[q]
ASSUME NoneAssumption == None \notin Queries

VARIABLES
    now,
    store,   \* _store: entries, least recently used first
    call,    \* what each thread's recall is doing
    recent,  \* history: keys in the order of their last use
    hit      \* history: the last answer taken from the cache

vars == <<now, store, call, recent, hit>>

Time == 0..MaxTime
Answer == [query : Queries, options : Options, read : Time]
Key   == Queries \X Options
Entry == [key : Key, ts : Time, value : Answer]
Call  == [pc : {"idle", "asked", "searched"}, query : Queries \cup {None},
          options : Options \cup {None}, read : Time]
Idle  == [pc |-> "idle", query |-> None, options |-> None, read |-> 0]

Keys == {e.key : e \in ToSet(store)}

TypeOK ==
    /\ now \in Time
    /\ store \in Seq(Entry) /\ Len(store) = Cardinality(Keys)
    /\ call \in [Threads -> Call]
    /\ recent \in Seq(Key)
    /\ hit = None \/ hit \in [query : Queries, options : Options, value : Answer, at : Time]

Init ==
    /\ now = 0 /\ store = <<>> /\ recent = <<>> /\ hit = None
    /\ call = [t \in Threads |-> Idle]

-----------------------------------------------------------------------------
(* Mistakes this code could plausibly have made.                            *)

\* The options are left out of the key.
MakeKey_QueryOnly(q, o) == <<Cut256[q], CHOOSE x \in Options : TRUE>>

\* A hit starts the time of the entry anew.
Touched_Renewed(e) == [e EXCEPT !.ts = now]

\* A new answer leaves the entry where the old one was.
Stored_InPlace(e) ==
    IF e.key \in Keys THEN [i \in DOMAIN store |-> IF store[i].key = e.key THEN e ELSE store[i]]
    ELSE Append(store, e)

-----------------------------------------------------------------------------
(* cache.py                                                                 *)

MakeKey(q, o) == <<Cut256[q], o>>

Place(k)   == CHOOSE i \in DOMAIN store : store[i].key = k
EntryOf(k) == store[Place(k)]
Expired(e) == now - e.ts > TTL
Without(k) == IF k \in Keys THEN RemoveAt(store, Place(k)) ELSE store

Touched(e) == e
Stored(e) == Append(Without(e.key), e)
Trimmed(s) == IF Len(s) > Capacity THEN Tail(s) ELSE s

Rank(k) == CHOOSE i \in DOMAIN recent : recent[i] = k
Used(k) ==
    recent' = Append(IF k \in ToSet(recent) THEN RemoveAt(recent, Rank(k)) ELSE recent, k)

-----------------------------------------------------------------------------
(* recall: the cache is looked up, then the server is asked.                *)

Hit(t, q, o) ==
    LET k == MakeKey(q, o) IN
    /\ call[t].pc = "idle" /\ k \in Keys /\ ~Expired(EntryOf(k))
    /\ store' = Append(Without(k), Touched(EntryOf(k)))
    /\ hit' = [query |-> q, options |-> o, value |-> EntryOf(k).value, at |-> now]
    /\ Used(k)
    /\ UNCHANGED <<now, call>>

Miss(t, q, o) ==
    LET k == MakeKey(q, o) IN
    /\ call[t].pc = "idle"
    /\ k \in Keys => Expired(EntryOf(k))
    /\ store' = Without(k)
    /\ call' = [call EXCEPT ![t] = [Idle EXCEPT !.pc = "asked", !.query = q, !.options = o]]
    /\ UNCHANGED <<now, recent, hit>>

\* The server's search, with the first 500 characters of the query.
Search(t) ==
    /\ call[t].pc = "asked"
    /\ call' = [call EXCEPT ![t].pc = "searched", ![t].read = now]
    /\ UNCHANGED <<now, store, recent, hit>>

Receive(t) ==
    LET c == call[t]
        k == MakeKey(c.query, c.options)
        v == [query |-> Cut500[c.query], options |-> c.options, read |-> c.read]
    IN
    /\ c.pc = "searched"
    /\ store' = Trimmed(Stored([key |-> k, ts |-> now, value |-> v]))
    /\ call' = [call EXCEPT ![t] = Idle]
    /\ Used(k)
    /\ UNCHANGED <<now, hit>>

\* No answer in time: the result is empty and not kept.
Fail(t) ==
    /\ call[t].pc # "idle"
    /\ call' = [call EXCEPT ![t] = Idle]
    /\ UNCHANGED <<now, store, recent, hit>>

Tick ==
    /\ now < MaxTime /\ now' = now + 1
    /\ \A t \in Threads : call[t].pc = "searched" => now - call[t].read < Delay
    /\ UNCHANGED <<store, call, recent, hit>>

Next ==
    \/ Tick
    \/ \E t \in Threads :
          \/ \E q \in Queries, o \in Options : Hit(t, q, o) \/ Miss(t, q, o)
          \/ Search(t) \/ Receive(t) \/ Fail(t)

Spec == Init /\ [][Next]_vars

-----------------------------------------------------------------------------
(* Properties.                                                             *)

\* A hit is what the server would have said at most TTL and one request ago,
\* however the answers of several threads overtook each other (get, set).
HitIsRecent == hit # None => hit.at - hit.value.read <= TTL + Delay

\* A hit answers a request with the caller's options and with a query that
\* begins with the same 256 characters, of which the server was sent 500: two
\* longer queries may share an answer, nothing else may (make_key, recall).
HitAnswersQuery ==
    hit # None => /\ Cut256[hit.value.query] = Cut256[hit.query]
                  /\ hit.value.options = hit.options

\* Only an entry that has expired or is the least recently used of a full
\* cache leaves it (get, set).
EvictsLeastRecent ==
    [][\A k \in Keys \ Keys' :
          \/ Expired(EntryOf(k))
          \/ Len(store) = Capacity /\ \A other \in Keys : Rank(k) <= Rank(other)]_vars

=============================================================================
