--------------------------- MODULE DreamLifecycle ---------------------------
(***************************************************************************)
(* The life of cold rows under core/dream.py: consolidation, forgetting,   *)
(* restore and purge, with the soft delete of core/storage.py.             *)
(*                                                                         *)
(* Nothing keeps two dreams apart (the timer and POST /v1/dream/run), nor  *)
(* a dream from the requests of users.  Each of them reads rows in one     *)
(* statement and writes them in a later transaction whose UPDATEs name a   *)
(* row by its id only; here the read and the write are two actions.        *)
(*                                                                         *)
(* What is similar to what, and what has decayed, are data: a recall may   *)
(* return any clustering of its candidates and a forget any of its rows.   *)
(* So a row inserted later is a row that nobody has touched yet.           *)
(***************************************************************************)
EXTENDS Naturals, FiniteSets

CONSTANTS
    Memories,   \* rows, numbered from the oldest (created_at, then id)
    Unreadable, \* rows whose imported importance is not a number
    Dreamers,   \* threads that run consolidate()
    Clients,    \* request threads that delete, promote or restore
    Purgers,    \* processes that run purge_overdue_dormant()
    None        \* SQL NULL

ASSUME MemoriesAssumption == Memories \subseteq Nat /\ IsFiniteSet(Memories)
ASSUME UnreadableAssumption == Unreadable \subseteq Memories
ASSUME NoneAssumption == None \notin Memories

Statuses == {"active", "consolidated", "dormant", "gone"}
Actions  == {"none", "consolidate_member", "mark_dormant", "restore",
             "purge_dormant"}

VARIABLES
    status,  \* cold_memory.dream_status, "gone" when the row was purged
    into,    \* cold_memory.consolidated_into
    merged,  \* cold_memory.merged_from
    overdue, \* has the retention since last_dream_at elapsed?
    audit,   \* the last status change of each row in dream_actions
    dreamer, \* what each dream is doing
    client,  \* what each request is doing
    purger   \* the rows each purge still has to delete

rows == <<status, into, merged, overdue, audit>>
vars == <<status, into, merged, overdue, audit, dreamer, client, purger>>

DreamerState ==
    [pc : {"idle", "clusters", "apply", "forget"},
     clusters : SUBSET SUBSET Memories,
     live : SUBSET Memories, merged : SUBSET Memories,
     forget : SUBSET Memories]
ClientState == [pc : {"idle", "mark", "restore"}, mem : Memories \cup {None}]

TypeOK ==
    /\ status  \in [Memories -> Statuses]
    /\ into    \in [Memories -> Memories \cup {None}]
    /\ merged  \in [Memories -> SUBSET Memories]
    /\ overdue \in [Memories -> BOOLEAN]
    /\ audit   \in [Memories -> [action : Actions, seed : Memories \cup {None}]]
    /\ dreamer \in [Dreamers -> DreamerState]
    /\ client  \in [Clients -> ClientState]
    /\ purger  \in [Purgers -> SUBSET Memories]

Asleep  == [pc |-> "idle", clusters |-> {}, live |-> {}, merged |-> {},
            forget |-> {}]
Waiting == [pc |-> "idle", mem |-> None]

Exists(m) == status[m] # "gone"

-----------------------------------------------------------------------------
(* Mistakes this code could plausibly have made, one operator each; none is *)
(* part of the specification, they show what the properties would notice.  *)

\* The newest row of a cluster elected.
Seed_Newest(live) == CHOOSE s \in live : \A m \in live : m <= s

-----------------------------------------------------------------------------
(* What dream.py decides from the rows.                                    *)

\* Only rows that are active and merged into none take part in a dream.
IsLive(m) == status[m] = "active" /\ into[m] = None

\* The oldest of a cluster stands for it.
Seed(live) == CHOOSE s \in live : \A m \in live : s <= m

Members(live) == live \ {Seed(live)}

\* One clustering of the rows that were recalled: disjoint groups of at
\* least two (min_cluster_size).
Clusterings(rs) ==
    {cs \in SUBSET {c \in SUBSET rs : Cardinality(c) >= 2} :
        \A c, e \in cs : c = e \/ c \cap e = {}}

(* More such mistakes, in what is written to the rows.                     *)

\* merged_from set to the new members instead of appended to.
MergedFrom_Replaced(d) == Members(dreamer[d].live)

\* A restore that leaves consolidated_into behind.
Unmerged_Kept(m) == into

\* A soft delete that does not write dream_actions.
MarkAudited_Silent(m) == audit

-----------------------------------------------------------------------------
Init ==
    /\ status  = [m \in Memories |-> "active"]
    /\ into    = [m \in Memories |-> None]
    /\ merged  = [m \in Memories |-> {}]
    /\ overdue = [m \in Memories |-> FALSE]
    /\ audit   = [m \in Memories |-> [action |-> "none", seed |-> None]]
    /\ dreamer = [d \in Dreamers |-> Asleep]
    /\ client  = [c \in Clients |-> Waiting]
    /\ purger  = [p \in Purgers |-> {}]

-----------------------------------------------------------------------------
(* consolidate().                                                          *)

\* _recall_candidates and _cluster: all clusters are found before any is
\* merged.
Recall(d) ==
    /\ dreamer[d].pc = "idle"
    /\ \E cs \in Clusterings({m \in Memories : IsLive(m)}) :
         dreamer' = [dreamer EXCEPT ![d] =
                       [Asleep EXCEPT !.pc = "clusters", !.clusters = cs]]
    /\ UNCHANGED <<rows, client, purger>>

\* _apply_consolidation reads the cluster once more, leaves out who is no
\* longer live and elects the seed among the others.
ReadCluster(d) ==
    \E c \in dreamer[d].clusters :
        LET live == {m \in c : IsLive(m)}
            left == dreamer[d].clusters \ {c}
        IN  /\ dreamer[d].pc = "clusters"
            /\ dreamer' = [dreamer EXCEPT ![d] =
                 IF Cardinality(live) < 2
                 THEN [Asleep EXCEPT !.pc = "clusters", !.clusters = left]
                 ELSE [Asleep EXCEPT !.pc = "apply", !.clusters = left,
                                     !.live = live,
                                     !.merged = merged[Seed(live)]]]
            /\ UNCHANGED <<rows, client, purger>>

NextCluster(d) ==
    dreamer' = [dreamer EXCEPT ![d] =
                  [Asleep EXCEPT !.pc = "clusters",
                                 !.clusters = dreamer[d].clusters]]

\* The members of a cluster are marked and audited, by id, whatever they
\* are by now; an id that is gone changes no row but is audited too.
MarkMembers(live) ==
    LET seed == Seed(live)
        ms   == Members(live)
        here == {m \in ms : Exists(m)}
    IN  /\ status' = [m \in Memories |-> IF m \in here THEN "consolidated" ELSE status[m]]
        /\ into' = [m \in Memories |-> IF m \in here THEN seed ELSE into[m]]
        /\ audit' = [m \in Memories |->
                       IF m \in ms
                       THEN [action |-> "consolidate_member", seed |-> seed]
                       ELSE audit[m]]

\* merged_from as read, with the new members appended.
MergedFrom(d) == dreamer[d].merged \cup Members(dreamer[d].live)

\* The seed gets merged_from as it was read plus the new members, and both
\* are one commit.
MergeCluster(d) ==
    LET live == dreamer[d].live
    IN  /\ dreamer[d].pc = "apply" /\ live \cap Unreadable = {}
        /\ MarkMembers(live)
        /\ merged' = [m \in Memories |->
                        IF m = Seed(live) /\ Exists(m) THEN MergedFrom(d) ELSE merged[m]]
        /\ overdue' = [m \in Memories |-> m \notin live /\ overdue[m]]
        /\ NextCluster(d)
        /\ UNCHANGED <<client, purger>>

\* float(importance) raises after the members were marked.  The exception is
\* logged and the next commit of the same connection, at the latest that of
\* dream_runs, commits what was written; nobody else can write before it.
MergeHalf(d) ==
    LET live == dreamer[d].live
    IN  /\ dreamer[d].pc = "apply" /\ live \cap Unreadable # {}
        /\ MarkMembers(live)
        /\ overdue' = [m \in Memories |-> m \notin Members(live) /\ overdue[m]]
        /\ NextCluster(d)
        /\ UNCHANGED <<merged, client, purger>>

\* The database is busy: the cluster is logged and skipped.
MergeFails(d) ==
    /\ dreamer[d].pc = "apply"
    /\ NextCluster(d)
    /\ UNCHANGED <<rows, client, purger>>

\* The run ends here unless forgetting is enabled.
Finish(d) ==
    /\ dreamer[d].pc = "clusters" /\ dreamer[d].clusters = {}
    /\ dreamer' = [dreamer EXCEPT ![d] = Asleep]
    /\ UNCHANGED <<rows, client, purger>>

\* _apply_forget picks rows that are live, old and decayed.  An unreadable
\* row among them raises before it is marked (DreamStops).
ForgetSelect(d) ==
    /\ dreamer[d].pc = "clusters" /\ dreamer[d].clusters = {}
    /\ \E f \in SUBSET {m \in Memories \ Unreadable : IsLive(m)} :
         /\ f # {}
         /\ dreamer' = [dreamer EXCEPT ![d] =
                          [Asleep EXCEPT !.pc = "forget", !.forget = f]]
    /\ UNCHANGED <<rows, client, purger>>

\* The audit entry of a soft delete, written though the row may be gone.
MarkAudited(m) ==
    [audit EXCEPT ![m] = [action |-> "mark_dormant", seed |-> None]]

\* _mark_dormant: by id, whatever the row is by now; one commit per row.
MarkDormant(m) ==
    /\ status' = IF Exists(m) THEN [status EXCEPT ![m] = "dormant"] ELSE status
    /\ overdue' = [overdue EXCEPT ![m] = FALSE]
    /\ audit' = MarkAudited(m)
    /\ UNCHANGED <<into, merged>>

ForgetOne(d, m) ==
    LET left == dreamer[d].forget \ {m}
    IN  /\ dreamer[d].pc = "forget" /\ m \in dreamer[d].forget
        /\ MarkDormant(m)
        /\ dreamer' = [dreamer EXCEPT ![d] =
                         IF left = {} THEN Asleep
                         ELSE [Asleep EXCEPT !.pc = "forget", !.forget = left]]
        /\ UNCHANGED <<client, purger>>

\* The process dies, or clustering raises (a closed vector space) and the
\* run is marked failed, or the forget stage raises and is only logged.
DreamStops(d) ==
    /\ dreamer[d].pc # "idle"
    /\ dreamer' = [dreamer EXCEPT ![d] = Asleep]
    /\ UNCHANGED <<rows, client, purger>>

-----------------------------------------------------------------------------
(* Requests.                                                               *)

\* cold_delete and promote look whether there is such a row.
BeginDelete(c, m) ==
    /\ client[c].pc = "idle" /\ Exists(m)
    /\ client' = [client EXCEPT ![c] = [pc |-> "mark", mem |-> m]]
    /\ UNCHANGED <<rows, dreamer, purger>>

Delete(c) ==
    /\ client[c].pc = "mark"
    /\ MarkDormant(client[c].mem)
    /\ client' = [client EXCEPT ![c] = Waiting]
    /\ UNCHANGED <<dreamer, purger>>

\* restore() looks whether there is anything to restore.
BeginRestore(c, m) ==
    /\ client[c].pc = "idle" /\ Exists(m) /\ ~IsLive(m)
    /\ client' = [client EXCEPT ![c] = [pc |-> "restore", mem |-> m]]
    /\ UNCHANGED <<rows, dreamer, purger>>

\* consolidated_into goes with the status; merged_from of the seed stays.
Unmerged(m) == [into EXCEPT ![m] = None]

Restore(c) ==
    LET m == client[c].mem
    IN  /\ client[c].pc = "restore"
        /\ IF Exists(m)
           THEN status' = [status EXCEPT ![m] = "active"] /\ into' = Unmerged(m)
           ELSE UNCHANGED <<status, into>>
        /\ overdue' = [overdue EXCEPT ![m] = FALSE]
        /\ audit' = [audit EXCEPT ![m] = [action |-> "restore", seed |-> None]]
        /\ client' = [client EXCEPT ![c] = Waiting]
        /\ UNCHANGED <<merged, dreamer, purger>>

-----------------------------------------------------------------------------
(* purge_overdue_dormant(), and time.                                      *)

\* The retention of a row that lies dormant runs out.
RetentionElapses(m) ==
    /\ status[m] = "dormant" /\ ~overdue[m]
    /\ overdue' = [overdue EXCEPT ![m] = TRUE]
    /\ UNCHANGED <<status, into, merged, audit, dreamer, client, purger>>

\* All eligible rows are picked first.
PurgeSelect(p) ==
    /\ purger[p] = {}
    /\ purger' = [purger EXCEPT ![p] =
                    {m \in Memories : status[m] = "dormant" /\ overdue[m]}]
    /\ UNCHANGED <<rows, dreamer, client>>

\* Then each is deleted by its id, in a transaction of its own.
PurgeOne(p, m) ==
    /\ m \in purger[p]
    /\ status' = [status EXCEPT ![m] = "gone"]
    /\ into' = [into EXCEPT ![m] = None]
    /\ merged' = [merged EXCEPT ![m] = {}]
    /\ overdue' = [overdue EXCEPT ![m] = FALSE]
    /\ audit' = [audit EXCEPT ![m] = [action |-> "purge_dormant", seed |-> None]]
    /\ purger' = [purger EXCEPT ![p] = @ \ {m}]
    /\ UNCHANGED <<dreamer, client>>

\* A row that cannot be deleted is rolled back, logged and skipped.
PurgeFails(p, m) ==
    /\ m \in purger[p]
    /\ purger' = [purger EXCEPT ![p] = @ \ {m}]
    /\ UNCHANGED <<rows, dreamer, client>>

-----------------------------------------------------------------------------
DreamNext(d) ==
    \/ Recall(d) \/ ReadCluster(d)
    \/ MergeCluster(d) \/ MergeHalf(d) \/ MergeFails(d)
    \/ Finish(d) \/ ForgetSelect(d) \/ DreamStops(d)
    \/ \E m \in Memories : ForgetOne(d, m)

ClientNext(c) ==
    \/ \E m \in Memories : BeginDelete(c, m)
    \/ \E m \in Memories : BeginRestore(c, m)
    \/ Delete(c) \/ Restore(c)

PurgeNext(p) ==
    \/ PurgeSelect(p)
    \/ \E m \in Memories : PurgeOne(p, m)
    \/ \E m \in Memories : PurgeFails(p, m)

Next ==
    \/ \E d \in Dreamers : DreamNext(d)
    \/ \E c \in Clients : ClientNext(c)
    \/ \E p \in Purgers : PurgeNext(p)
    \/ \E m \in Memories : RetentionElapses(m)

Spec == Init /\ [][Next]_vars

-----------------------------------------------------------------------------
(* Safety.                                                                 *)

\* However dreams, deletes and restores interleave, a row is only ever
\* merged into an older one, so no two rows can end up standing for each
\* other (the seed elected by created_at in _apply_consolidation).
OldestFirst == \A m \in Memories : into[m] # None => into[m] < m

\* Status and consolidated_into agree: a row that is searched again is free
\* of its seed, so that the next recall sees it, and a row hidden as merged
\* names one (_apply_consolidation, restore, _mark_dormant).
StatusMatchesSeed ==
    \A m \in Memories :
        /\ status[m] = "active" => into[m] = None
        /\ status[m] = "consolidated" => into[m] # None

\* No group of hidden rows is merged among itself only: following seeds from
\* a row hidden by a dream one always leaves the hidden rows, so that
\* consolidation alone makes no topic disappear (_apply_consolidation).
Anchored ==
    \A hidden \in SUBSET {m \in Memories : status[m] = "consolidated"} :
        hidden # {} => \E m \in hidden : into[m] \notin hidden

\* The last entry of dream_actions about a row tells the status it has, and
\* its seed, whoever raced with whom ("every state change is written to
\* dream_actions", F5_DREAM.md).
Told(a) == CASE a = "consolidate_member" -> "consolidated"
             [] a = "mark_dormant"       -> "dormant"
             [] OTHER                    -> "active"
AuditExplains ==
    \A m \in Memories :
        Exists(m) => /\ status[m] = Told(audit[m].action)
                     /\ status[m] = "consolidated" => audit[m].seed = into[m]

\* A row merged into a seed that still exists is in its merged_from.
SeedKnowsMembers ==
    \A m \in Memories :
        status[m] = "consolidated" /\ Exists(into[m]) => m \in merged[into[m]]

(* What a step may never do.                                               *)

\* A seed loses sight of its members in two ways only: a merge that stops
\* half way, or one that writes back a merged_from another dream has changed
\* since it was read; no delete, restore, purge or other merge does it ("merge
\* one cluster atomically", "appended if exists", _apply_consolidation).
Outdated(d) == dreamer[d].merged # merged[Seed(dreamer[d].live)]
MembersStayKnown ==
    [][SeedKnowsMembers => \/ SeedKnowsMembers'
                           \/ \E d \in Dreamers : MergeHalf(d) \/ (MergeCluster(d) /\ Outdated(d))]_vars

\* A row that was deleted is not taken back by a dream: it is restored by
\* somebody or purged ("physical deletion happens later", cold_delete).
DeletionsStick ==
    [][\A m \in Memories :
          status[m] = "dormant" => status'[m] # "consolidated"]_vars

=============================================================================
