------------------------ MODULE DreamLifecycleProofs ------------------------
(* What DreamLifecycle guarantees for any number of rows, dreams, users and *)
(* purges at once.                                                          *)
EXTENDS DreamLifecycle, FiniteSetTheorems, WellFoundedInduction, TLAPS

(* A dream about to merge holds a group of rows, so that it has a seed.    *)
HoldsGroup == \A d \in Dreamers : dreamer[d].pc = "apply" => dreamer[d].live # {}

(* A request between its read and its write names a row.                   *)
NamesRow == \A c \in Clients : client[c].pc # "idle" => client[c].mem # None

(* What the rows say of themselves.                                        *)
RowsTyped ==
    /\ status  \in [Memories -> Statuses]
    /\ into    \in [Memories -> Memories \cup {None}]
    /\ merged  \in [Memories -> SUBSET Memories]
    /\ overdue \in [Memories -> BOOLEAN]
    /\ audit   \in [Memories -> [action : Actions, seed : Memories \cup {None}]]

ActorsTyped ==
    /\ dreamer \in [Dreamers -> DreamerState]
    /\ client  \in [Clients -> ClientState]
    /\ purger  \in [Purgers -> SUBSET Memories]

RowsSound == OldestFirst /\ StatusMatchesSeed /\ AuditExplains

ActorsHold == HoldsGroup /\ NamesRow

Inv == RowsTyped /\ ActorsTyped /\ ActorsHold /\ RowsSound

-----------------------------------------------------------------------------
(* Any group of rows has an oldest one.                                    *)
LEMMA OldestExists ==
    ASSUME NEW live \in SUBSET Memories, live # {}
    PROVE  \E s \in live : \A m \in live : s <= m
  <1>1. live \subseteq Nat
    BY MemoriesAssumption
  <1>2. PICK s \in live : \A m \in live : ~ (<<m, s>> \in OpToRel(<, Nat))
    BY <1>1, NatLessThanWellFounded, WFMin
  <1>3. \A m \in live : ~ (m < s)
    BY <1>1, <1>2 DEF OpToRel
  <1> QED BY <1>1, <1>3

LEMMA SeedIsOldest ==
    ASSUME NEW live \in SUBSET Memories, live # {}
    PROVE  Seed(live) \in live /\ \A m \in live : Seed(live) <= m
  BY OldestExists DEF Seed

-----------------------------------------------------------------------------
(* The five ways in which a step may change rows.                          *)

Marking ==
    \E live \in SUBSET Memories :
        /\ live # {}
        /\ MarkMembers(live)
        /\ merged' \in [Memories -> SUBSET Memories]
        /\ overdue' \in [Memories -> BOOLEAN]
Deleting == \E m \in Memories : MarkDormant(m)
Restoring ==
    \E m \in Memories :
        /\ IF Exists(m)
           THEN status' = [status EXCEPT ![m] = "active"] /\ into' = Unmerged(m)
           ELSE UNCHANGED <<status, into>>
        /\ overdue' = [overdue EXCEPT ![m] = FALSE]
        /\ audit' = [audit EXCEPT ![m] = [action |-> "restore", seed |-> None]]
        /\ UNCHANGED merged
Purging ==
    \E m \in Memories :
        /\ status' = [status EXCEPT ![m] = "gone"]
        /\ into' = [into EXCEPT ![m] = None]
        /\ merged' = [merged EXCEPT ![m] = {}]
        /\ overdue' = [overdue EXCEPT ![m] = FALSE]
        /\ audit' = [audit EXCEPT ![m] = [action |-> "purge_dormant", seed |-> None]]
Ripening ==
    \E m \in Memories :
        /\ overdue' = [overdue EXCEPT ![m] = TRUE]
        /\ UNCHANGED <<status, into, merged, audit>>

RowStep == \/ Marking \/ Deleting \/ Restoring \/ Purging \/ Ripening
           \/ UNCHANGED rows

LEMMA RowStepKeepsType ==
    ASSUME RowsTyped, RowStep
    PROVE  RowsTyped'
  <1> USE DEF RowsTyped, Statuses, Actions
  <1>1. ASSUME Marking PROVE RowsTyped'
    <2>1. PICK live \in SUBSET Memories :
            /\ live # {}
            /\ MarkMembers(live)
            /\ merged' \in [Memories -> SUBSET Memories]
            /\ overdue' \in [Memories -> BOOLEAN]
      BY <1>1 DEF Marking
    <2>2. Seed(live) \in Memories
      BY <2>1, SeedIsOldest
    <2> QED BY <2>1, <2>2 DEF MarkMembers
  <1>2. ASSUME Deleting PROVE RowsTyped'
    BY <1>2 DEF Deleting, MarkDormant, MarkAudited
  <1>3. ASSUME Restoring PROVE RowsTyped'
    BY <1>3 DEF Restoring, Unmerged
  <1>4. ASSUME Purging PROVE RowsTyped'
    BY <1>4 DEF Purging
  <1>5. ASSUME Ripening PROVE RowsTyped'
    BY <1>5 DEF Ripening
  <1>6. ASSUME UNCHANGED rows PROVE RowsTyped'
    BY <1>6 DEF rows
  <1> QED BY <1>1, <1>2, <1>3, <1>4, <1>5, <1>6 DEF RowStep

LEMMA RowStepKeepsSound ==
    ASSUME RowsTyped, RowsSound, RowStep
    PROVE  RowsSound'
  <1> USE NoneAssumption
  <1> USE DEF RowsTyped, RowsSound, OldestFirst, StatusMatchesSeed,
              AuditExplains, Told, Exists
  <1>1. ASSUME Marking PROVE RowsSound'
    <2>1. PICK live \in SUBSET Memories : live # {} /\ MarkMembers(live)
      BY <1>1 DEF Marking
    <2>2. /\ Seed(live) \in live
          /\ \A m \in Members(live) : m \in Memories /\ Seed(live) < m
      <3>1. Seed(live) \in live /\ \A m \in live : Seed(live) <= m
        BY <2>1, SeedIsOldest
      <3>2. \A m \in live : m \in Memories /\ m \in Nat
        BY MemoriesAssumption
      <3>3. \A m \in Members(live) : m \in live /\ m # Seed(live)
        BY DEF Members
      <3>4. ASSUME NEW m \in Members(live) PROVE m \in Memories /\ Seed(live) < m
        <4> DEFINE s == Seed(live)
        <4>1. s \in Nat /\ m \in Nat /\ m \in Memories /\ s <= m /\ m # s
          BY <3>1, <3>2, <3>3
        <4> HIDE DEF s
        <4>2. s < m
          BY <4>1
        <4> QED BY <4>1, <4>2 DEF s
      <3> QED BY <3>1, <3>4
    <2>3. ASSUME NEW m \in Memories, m \in Members(live), Exists(m)
          PROVE  /\ status'[m] = "consolidated" /\ into'[m] = Seed(live)
                 /\ audit'[m] = [action |-> "consolidate_member", seed |-> Seed(live)]
      BY <2>1, <2>3 DEF MarkMembers
    <2>4. ASSUME NEW m \in Memories, m \notin Members(live)
          PROVE  status'[m] = status[m] /\ into'[m] = into[m] /\ audit'[m] = audit[m]
      BY <2>1, <2>4 DEF MarkMembers
    <2>5. ASSUME NEW m \in Memories, ~ Exists(m)
          PROVE  status'[m] = status[m] /\ into'[m] = into[m]
      BY <2>1, <2>5 DEF MarkMembers
    <2>6. OldestFirst'
      BY <2>2, <2>3, <2>4, <2>5
    <2>7. StatusMatchesSeed'
      BY <2>2, <2>3, <2>4, <2>5
    <2>8. AuditExplains'
      BY <2>2, <2>3, <2>4, <2>5
    <2> QED BY <2>6, <2>7, <2>8
  <1>2. ASSUME Deleting PROVE RowsSound'
    BY <1>2 DEF Deleting, MarkDormant, MarkAudited
  <1>3. ASSUME Restoring PROVE RowsSound'
    BY <1>3 DEF Restoring, Unmerged
  <1>4. ASSUME Purging PROVE RowsSound'
    BY <1>4 DEF Purging
  <1>5. ASSUME Ripening PROVE RowsSound'
    BY <1>5 DEF Ripening
  <1>6. ASSUME UNCHANGED rows PROVE RowsSound'
    BY <1>6 DEF rows
  <1> QED BY <1>1, <1>2, <1>3, <1>4, <1>5, <1>6 DEF RowStep

-----------------------------------------------------------------------------
(* Every step of every actor is one of these, and leaves the actors typed. *)

LEMMA AsleepType == Asleep \in DreamerState /\ Waiting \in ClientState
  BY DEF Asleep, DreamerState, Waiting, ClientState

LEMMA DreamSteps ==
    ASSUME Inv, NEW d \in Dreamers, DreamNext(d)
    PROVE  RowStep /\ ActorsTyped' /\ ActorsHold'
  <1> DEFINE D == dreamer[d]
  <1>. /\ D \in DreamerState
       /\ D.clusters \in SUBSET SUBSET Memories /\ D.live \in SUBSET Memories
       /\ D.merged \in SUBSET Memories /\ D.forget \in SUBSET Memories
       /\ D.pc = "apply" => D.live # {}
    BY DEF Inv, ActorsTyped, ActorsHold, HoldsGroup, DreamerState
  <1>. UNCHANGED <<client, purger>>
    BY DEF DreamNext, Recall, ReadCluster, MergeCluster, MergeHalf, MergeFails,
           Finish, ForgetSelect, DreamStops, ForgetOne
  <1> DEFINE Sleeps(s) ==
        /\ dreamer' = [dreamer EXCEPT ![d] = s]
        /\ s \in DreamerState
        /\ s.pc = "apply" => s.live # {}
  <1>0. ASSUME NEW s, Sleeps(s) PROVE ActorsTyped' /\ HoldsGroup'
    <2>1. dreamer'[d] = s /\ \A e \in Dreamers : e # d => dreamer'[e] = dreamer[e]
      BY <1>0 DEF Inv, ActorsTyped
    <2>2. ActorsTyped'
      BY <1>0 DEF Inv, ActorsTyped
    <2> QED BY <1>0, <2>1, <2>2 DEF Inv, ActorsHold, HoldsGroup
  <1> DEFINE Go(cs) == [Asleep EXCEPT !.pc = "clusters", !.clusters = cs]
  <1>a. ASSUME NEW cs \in SUBSET SUBSET Memories
        PROVE  Go(cs) \in DreamerState /\ Go(cs).pc # "apply"
    BY DEF Asleep, DreamerState
  <1>b. ASSUME NEW f \in SUBSET Memories
        PROVE  /\ [Asleep EXCEPT !.pc = "forget", !.forget = f] \in DreamerState
               /\ [Asleep EXCEPT !.pc = "forget", !.forget = f].pc # "apply"
    BY DEF Asleep, DreamerState
  <1>c. ASSUME NextCluster(d) PROVE ActorsTyped' /\ HoldsGroup'
    <2>1. Sleeps(Go(D.clusters))
      BY <1>c, <1>a DEF NextCluster
    <2> QED BY <2>1, <1>0
  <1>1. ASSUME Recall(d) PROVE RowStep /\ ActorsTyped' /\ HoldsGroup'
    <2>1. PICK cs \in Clusterings({m \in Memories : IsLive(m)}) :
            dreamer' = [dreamer EXCEPT ![d] = Go(cs)]
      BY <1>1 DEF Recall
    <2>2. cs \in SUBSET SUBSET Memories
      BY <2>1 DEF Clusterings
    <2>3. Sleeps(Go(cs))
      BY <2>1, <2>2, <1>a
    <2>4. UNCHANGED rows
      BY <1>1 DEF Recall
    <2> QED BY <2>3, <2>4, <1>0 DEF RowStep
  <1>2. ASSUME ReadCluster(d) PROVE RowStep /\ ActorsTyped' /\ HoldsGroup'
    <2>1. PICK c \in D.clusters :
            LET live == {m \in c : IsLive(m)}
                left == D.clusters \ {c}
            IN  dreamer' = [dreamer EXCEPT ![d] =
                 IF Cardinality(live) < 2
                 THEN [Asleep EXCEPT !.pc = "clusters", !.clusters = left]
                 ELSE [Asleep EXCEPT !.pc = "apply", !.clusters = left,
                                     !.live = live,
                                     !.merged = merged[Seed(live)]]]
      BY <1>2 DEF ReadCluster
    <2> DEFINE live == {m \in c : IsLive(m)}
               left == D.clusters \ {c}
               held == [Asleep EXCEPT !.pc = "apply", !.clusters = left,
                                      !.live = live, !.merged = merged[Seed(live)]]
    <2>2. live \in SUBSET Memories /\ left \in SUBSET SUBSET Memories
      OBVIOUS
    <2>3. CASE Cardinality(live) < 2
      <3>1. Sleeps(Go(left))
        BY <2>1, <2>2, <2>3, <1>a
      <3>2. UNCHANGED rows
        BY <1>2 DEF ReadCluster
      <3> QED BY <3>1, <3>2, <1>0 DEF RowStep
    <2>4. CASE ~ (Cardinality(live) < 2)
      <3>1. live # {}
        <4>1. SUFFICES ASSUME live = {} PROVE FALSE
          OBVIOUS
        <4>2. Cardinality(live) = 0
          BY <4>1, FS_EmptySet
        <4> QED BY <2>4, <4>2
      <3>2. merged[Seed(live)] \in SUBSET Memories
        BY <2>2, <3>1, SeedIsOldest DEF Inv, RowsTyped
      <3>3. held \in DreamerState /\ held.live = live
        BY <2>2, <3>2 DEF Asleep, DreamerState
      <3>4. dreamer' = [dreamer EXCEPT ![d] = held]
        BY <2>1, <2>4
      <3>5. UNCHANGED rows
        BY <1>2 DEF ReadCluster
      <3> HIDE DEF held
      <3> QED BY <3>1, <3>3, <3>4, <3>5, <1>0 DEF RowStep
    <2> QED BY <2>3, <2>4
  <1>3. ASSUME MergeCluster(d) PROVE RowStep /\ ActorsTyped' /\ HoldsGroup'
    <2>1. MarkMembers(D.live) /\ D.live # {}
      BY <1>3 DEF MergeCluster
    <2>2. MergedFrom(d) \in SUBSET Memories
      BY DEF MergedFrom, Members
    <2>3. merged' \in [Memories -> SUBSET Memories]
      BY <1>3, <2>2 DEF MergeCluster, Inv, RowsTyped
    <2>4. overdue' \in [Memories -> BOOLEAN]
      BY <1>3, Zenon DEF MergeCluster, Inv, RowsTyped
    <2>5. Marking
      BY <2>1, <2>3, <2>4 DEF Marking
    <2> QED BY <1>3, <1>c, <2>5 DEF MergeCluster, RowStep
  <1>4. ASSUME MergeHalf(d) PROVE RowStep /\ ActorsTyped' /\ HoldsGroup'
    <2>1. MarkMembers(D.live) /\ D.live # {}
      BY <1>4 DEF MergeHalf
    <2>2. merged' \in [Memories -> SUBSET Memories]
      BY <1>4 DEF MergeHalf, Inv, RowsTyped
    <2>3. overdue' \in [Memories -> BOOLEAN]
      BY <1>4, Zenon DEF MergeHalf, Inv, RowsTyped
    <2>4. Marking
      BY <2>1, <2>2, <2>3 DEF Marking
    <2> QED BY <1>4, <1>c, <2>4 DEF MergeHalf, RowStep
  <1>5. ASSUME MergeFails(d) PROVE RowStep /\ ActorsTyped' /\ HoldsGroup'
    BY <1>5, <1>c DEF MergeFails, RowStep
  <1>6. ASSUME Finish(d) \/ DreamStops(d) PROVE RowStep /\ ActorsTyped' /\ HoldsGroup'
    <2>1. Sleeps(Asleep)
      BY <1>6, AsleepType DEF Finish, DreamStops, Asleep
    <2> QED BY <1>6, <2>1, <1>0 DEF Finish, DreamStops, RowStep
  <1>7. ASSUME ForgetSelect(d) PROVE RowStep /\ ActorsTyped' /\ HoldsGroup'
    <2>1. PICK f \in SUBSET {m \in Memories \ Unreadable : IsLive(m)} :
            dreamer' = [dreamer EXCEPT ![d] =
                          [Asleep EXCEPT !.pc = "forget", !.forget = f]]
      BY <1>7 DEF ForgetSelect
    <2>2. Sleeps([Asleep EXCEPT !.pc = "forget", !.forget = f])
      BY <2>1, <1>b
    <2>3. UNCHANGED rows
      BY <1>7 DEF ForgetSelect
    <2> QED BY <2>2, <2>3, <1>0 DEF RowStep
  <1>8. ASSUME NEW m \in Memories, ForgetOne(d, m)
        PROVE  RowStep /\ ActorsTyped' /\ HoldsGroup'
    <2> DEFINE left == D.forget \ {m}
               s == IF left = {} THEN Asleep
                    ELSE [Asleep EXCEPT !.pc = "forget", !.forget = left]
    <2>1. s \in DreamerState /\ s.pc # "apply"
      BY <1>b, AsleepType DEF Asleep
    <2>2. dreamer' = [dreamer EXCEPT ![d] = s] /\ Deleting
      BY <1>8 DEF ForgetOne, Deleting
    <2> HIDE DEF s
    <2> QED BY <2>1, <2>2, <1>0 DEF RowStep
  <1>9. NamesRow'
    BY DEF Inv, ActorsHold, NamesRow
  <1>10. HoldsGroup' => ActorsHold'
    BY <1>9 DEF ActorsHold
  <1> QED BY <1>1, <1>2, <1>3, <1>4, <1>5, <1>6, <1>7, <1>8, <1>10 DEF DreamNext

LEMMA OtherSteps ==
    ASSUME Inv,
           \/ \E c \in Clients : ClientNext(c)
           \/ \E p \in Purgers : PurgeNext(p)
           \/ \E m \in Memories : RetentionElapses(m)
    PROVE  RowStep /\ ActorsTyped' /\ ActorsHold'
  <1> USE NoneAssumption DEF Inv, ActorsTyped, ActorsHold, NamesRow, ClientState, Waiting
  <1>0. UNCHANGED dreamer
    BY DEF ClientNext, BeginDelete, Delete, BeginRestore, Restore, PurgeNext,
           PurgeSelect, PurgeOne, PurgeFails, RetentionElapses
  <1>1. HoldsGroup' /\ (dreamer \in [Dreamers -> DreamerState])'
    BY <1>0 DEF HoldsGroup, ActorsHold
  <1>2. ASSUME NEW c \in Clients, ClientNext(c)
        PROVE  RowStep /\ ActorsTyped' /\ NamesRow'
    <2>1. ASSUME NEW m \in Memories, BeginDelete(c, m) \/ BeginRestore(c, m)
          PROVE  RowStep /\ ActorsTyped' /\ NamesRow'
      BY <1>1, <2>1 DEF BeginDelete, BeginRestore, RowStep
    <2>2. ASSUME Delete(c), client[c].mem \in Memories
          PROVE  RowStep /\ ActorsTyped' /\ NamesRow'
      BY <1>1, <2>2 DEF Delete, Deleting, RowStep
    <2>3. ASSUME Restore(c), client[c].mem \in Memories
          PROVE  RowStep /\ ActorsTyped' /\ NamesRow'
      <3>1. Restoring
        BY <2>3 DEF Restore, Restoring
      <3> QED BY <1>1, <2>3, <3>1 DEF Restore, RowStep
    <2>4. Delete(c) \/ Restore(c) => client[c].mem \in Memories
      BY DEF Delete, Restore
    <2> QED BY <1>2, <2>1, <2>2, <2>3, <2>4 DEF ClientNext
  <1>3. ASSUME NEW p \in Purgers, PurgeNext(p)
        PROVE  RowStep /\ ActorsTyped' /\ NamesRow'
    <2>1. ASSUME NEW m \in Memories, PurgeOne(p, m)
          PROVE  RowStep /\ ActorsTyped' /\ NamesRow'
      BY <1>1, <2>1 DEF PurgeOne, Purging, RowStep
    <2>2. ASSUME PurgeSelect(p) \/ \E m \in Memories : PurgeFails(p, m)
          PROVE  RowStep /\ ActorsTyped' /\ NamesRow'
      BY <1>1, <2>2 DEF PurgeSelect, PurgeFails, RowStep
    <2> QED BY <1>3, <2>1, <2>2 DEF PurgeNext
  <1>4. ASSUME NEW m \in Memories, RetentionElapses(m)
        PROVE  RowStep /\ ActorsTyped' /\ NamesRow'
    BY <1>1, <1>4 DEF RetentionElapses, Ripening, RowStep
  <1> QED BY <1>1, <1>2, <1>3, <1>4

-----------------------------------------------------------------------------
LEMMA InitInv == Init => Inv
  <1> SUFFICES ASSUME Init PROVE Inv
    OBVIOUS
  <1>1. RowsTyped
    BY DEF Init, RowsTyped, Statuses, Actions
  <1>2. ActorsTyped /\ ActorsHold
    BY AsleepType DEF Init, ActorsTyped, ActorsHold, HoldsGroup, NamesRow, Asleep, Waiting
  <1>3. RowsSound
    BY DEF Init, RowsSound, OldestFirst, StatusMatchesSeed, AuditExplains, Told
  <1> QED BY <1>1, <1>2, <1>3 DEF Inv

LEMMA Inductive == Inv /\ [Next]_vars => Inv'
  <1> SUFFICES ASSUME Inv, [Next]_vars PROVE Inv'
    OBVIOUS
  <1>1. RowStep /\ ActorsTyped' /\ ActorsHold'
    <2>1. CASE UNCHANGED vars
      BY <2>1 DEF vars, RowStep, rows, Inv, ActorsTyped, ActorsHold, HoldsGroup, NamesRow
    <2>2. CASE Next
      BY <2>2, DreamSteps, OtherSteps DEF Next
    <2> QED BY <2>1, <2>2
  <1>2. RowsTyped' /\ RowsSound'
    BY <1>1, RowStepKeepsType, RowStepKeepsSound DEF Inv
  <1> QED BY <1>1, <1>2 DEF Inv

LEMMA InvHolds == Spec => []Inv
  BY InitInv, Inductive, PTL DEF Spec

(* Every variable stays in its type.                                       *)
THEOREM TypeCorrect == Spec => []TypeOK
  <1>1. Inv => TypeOK
    BY DEF Inv, RowsTyped, ActorsTyped, TypeOK
  <1> QED BY <1>1, InvHolds, PTL

(* Rows are only ever merged into older ones, for any number of dreams at  *)
(* once (_apply_consolidation).                                            *)
THEOREM MergesIntoOlder == Spec => []OldestFirst
  <1>1. Inv => OldestFirst
    BY DEF Inv, RowsSound
  <1> QED BY <1>1, InvHolds, PTL

(* Status and consolidated_into agree whoever raced with whom.             *)
THEOREM StatusAgrees == Spec => []StatusMatchesSeed
  <1>1. Inv => StatusMatchesSeed
    BY DEF Inv, RowsSound
  <1> QED BY <1>1, InvHolds, PTL

(* dream_actions always tells the present status of a row.                 *)
THEOREM AuditComplete == Spec => []AuditExplains
  <1>1. Inv => AuditExplains
    BY DEF Inv, RowsSound
  <1> QED BY <1>1, InvHolds, PTL

(* No group of hidden rows is merged among itself only: its oldest row is  *)
(* merged into an older one, which is not in the group.                    *)
THEOREM AlwaysAnchored == Spec => []Anchored
  <1>1. Inv => Anchored
    <2> SUFFICES ASSUME Inv,
                        NEW hidden \in SUBSET {m \in Memories : status[m] = "consolidated"},
                        hidden # {}
                 PROVE  \E m \in hidden : into[m] \notin hidden
      BY DEF Anchored
    <2>1. PICK s \in hidden : \A m \in hidden : s <= m
      BY OldestExists
    <2>2. into[s] # None /\ into[s] \in Memories /\ into[s] < s
      BY <2>1 DEF Inv, RowsTyped, RowsSound, StatusMatchesSeed, OldestFirst
    <2>3. s \in Nat /\ into[s] \in Nat
      BY <2>2, MemoriesAssumption
    <2>4. into[s] \in hidden => s <= into[s]
      BY <2>1
    <2> QED BY <2>1, <2>2, <2>3, <2>4
  <1> QED BY <1>1, InvHolds, PTL

-----------------------------------------------------------------------------
Quiet == Deleting \/ Restoring \/ Purging \/ Ripening \/ UNCHANGED rows

(* A step that merges nothing only ever shows, hides or deletes rows.       *)
LEMMA QuietSteps ==
    ASSUME Inv, [Next]_vars,
           ~ \E d \in Dreamers : MergeCluster(d) \/ MergeHalf(d)
    PROVE  Quiet
  <1> USE DEF Quiet
  <1>1. ASSUME NEW d \in Dreamers, DreamNext(d) PROVE Quiet
    <2>1. ASSUME NEW m \in Memories, ForgetOne(d, m) PROVE Quiet
      BY <2>1 DEF ForgetOne, Deleting
    <2>2. ASSUME \/ Recall(d) \/ ReadCluster(d) \/ MergeFails(d)
                 \/ Finish(d) \/ ForgetSelect(d) \/ DreamStops(d)
          PROVE  UNCHANGED rows
      BY <2>2 DEF Recall, ReadCluster, MergeFails, Finish, ForgetSelect, DreamStops
    <2> QED BY <1>1, <2>1, <2>2 DEF DreamNext
  <1>2. ASSUME NEW c \in Clients, ClientNext(c) PROVE Quiet
    <2>1. client[c].pc # "idle" => client[c].mem \in Memories
      BY DEF Inv, ActorsTyped, ActorsHold, NamesRow, ClientState
    <2>2. CASE Delete(c)
      BY <2>1, <2>2 DEF Delete, Deleting
    <2>3. CASE Restore(c)
      BY <2>1, <2>3 DEF Restore, Restoring
    <2>4. ASSUME NEW m \in Memories, BeginDelete(c, m) \/ BeginRestore(c, m)
          PROVE  UNCHANGED rows
      BY <2>4 DEF BeginDelete, BeginRestore
    <2> QED BY <1>2, <2>2, <2>3, <2>4 DEF ClientNext
  <1>3. ASSUME NEW p \in Purgers, PurgeNext(p) PROVE Quiet
    <2>1. purger[p] \subseteq Memories
      BY DEF Inv, ActorsTyped
    <2>2. ASSUME NEW m \in Memories, PurgeOne(p, m) PROVE Quiet
      BY <2>2 DEF PurgeOne, Purging
    <2>3. ASSUME PurgeSelect(p) \/ \E m \in Memories : PurgeFails(p, m)
          PROVE  UNCHANGED rows
      BY <2>3 DEF PurgeSelect, PurgeFails
    <2> QED BY <1>3, <2>2, <2>3 DEF PurgeNext
  <1>4. ASSUME NEW m \in Memories, RetentionElapses(m) PROVE Quiet
    BY <1>4 DEF RetentionElapses, Ripening
  <1>5. CASE UNCHANGED vars
    BY <1>5 DEF vars, rows
  <1> QED BY <1>1, <1>2, <1>3, <1>4, <1>5 DEF Next

LEMMA QuietKeepsMembers ==
    ASSUME RowsTyped, StatusMatchesSeed, SeedKnowsMembers, Quiet
    PROVE  SeedKnowsMembers'
  <1> USE NoneAssumption DEF RowsTyped, StatusMatchesSeed, SeedKnowsMembers, Exists
  <1>1. CASE Deleting
    BY <1>1 DEF Deleting, MarkDormant
  <1>2. CASE Restoring
    BY <1>2 DEF Restoring, Unmerged
  <1>3. CASE Purging
    BY <1>3 DEF Purging
  <1>4. CASE Ripening
    BY <1>4 DEF Ripening
  <1>5. CASE UNCHANGED rows
    BY <1>5 DEF rows
  <1> QED BY <1>1, <1>2, <1>3, <1>4, <1>5 DEF Quiet

(* A merge that writes back what its seed still has adds all its members.  *)
LEMMA MergeKeepsMembers ==
    ASSUME Inv, SeedKnowsMembers, NEW d \in Dreamers, MergeCluster(d), ~ Outdated(d)
    PROVE  SeedKnowsMembers'
  <1> DEFINE live == dreamer[d].live
             seed == Seed(live)
  <1>1. live \in SUBSET Memories /\ live # {}
    BY DEF MergeCluster, Inv, ActorsTyped, DreamerState, ActorsHold, HoldsGroup
  <1>2. seed \in live /\ seed \in Memories /\ seed \notin Members(live) /\ Members(live) \subseteq live
    BY <1>1, SeedIsOldest DEF Members
  <1>3. /\ status' = [m \in Memories |-> IF m \in Members(live) /\ Exists(m)
                                        THEN "consolidated" ELSE status[m]]
        /\ into' = [m \in Memories |-> IF m \in Members(live) /\ Exists(m)
                                      THEN seed ELSE into[m]]
        /\ merged' = [m \in Memories |-> IF m = seed /\ Exists(m)
                                        THEN merged[seed] \cup Members(live) ELSE merged[m]]
    BY <1>1, <1>2 DEF MergeCluster, MarkMembers, MergedFrom, Outdated
  <1> HIDE DEF live, seed
  <1>4. SUFFICES ASSUME NEW m \in Memories, status'[m] = "consolidated", Exists(into[m])'
                 PROVE  m \in merged'[into'[m]]
    BY DEF SeedKnowsMembers
  <1>5. CASE m \in Members(live) /\ Exists(m)
    <2>1. into'[m] = seed /\ status'[seed] # "gone"
      BY <1>2, <1>3, <1>4, <1>5 DEF Exists
    <2>2. Exists(seed)
      BY <1>2, <1>3, <2>1 DEF Exists
    <2> QED BY <1>2, <1>3, <1>5, <2>1, <2>2
  <1>6. CASE ~ (m \in Members(live) /\ Exists(m))
    <2>1. status[m] = "consolidated" /\ into'[m] = into[m]
      BY <1>3, <1>4, <1>6
    <2>2. into[m] \in Memories
      BY <2>1 DEF Inv, RowsTyped, RowsSound, StatusMatchesSeed
    <2>3. Exists(into[m])
      BY <1>3, <1>4, <2>1, <2>2 DEF Exists
    <2> QED BY <1>3, <2>1, <2>2, <2>3 DEF SeedKnowsMembers
  <1> QED BY <1>5, <1>6

(* Members are lost from merged_from by a half merge or an outdated one    *)
(* only, for any number of dreams, users and purges (_apply_consolidation).*)
THEOREM MembersLostByOverlapOnly == Spec => MembersStayKnown
  <1> DEFINE Lossy == \E d \in Dreamers : MergeHalf(d) \/ (MergeCluster(d) /\ Outdated(d))
  <1>1. ASSUME Inv, [Next]_vars PROVE [SeedKnowsMembers => SeedKnowsMembers' \/ Lossy]_vars
    <2>1. SUFFICES ASSUME SeedKnowsMembers, ~ Lossy PROVE SeedKnowsMembers'
      OBVIOUS
    <2>2. CASE \E d \in Dreamers : MergeCluster(d)
      BY <1>1, <2>1, <2>2, MergeKeepsMembers
    <2>3. CASE ~ \E d \in Dreamers : MergeCluster(d)
      <3>1. Quiet
        BY <1>1, <2>1, <2>3, QuietSteps
      <3> QED BY <1>1, <2>1, <3>1, QuietKeepsMembers DEF Inv, RowsSound
    <2> QED BY <2>2, <2>3
  <1> QED BY <1>1, InvHolds, PTL DEF Spec, MembersStayKnown

=============================================================================
