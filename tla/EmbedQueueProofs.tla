-------------------------- MODULE EmbedQueueProofs --------------------------
(* What EmbedQueue guarantees for any number of rows, jobs and processes,   *)
(* and what the audits of Reconcile are worth beside it.                    *)
EXTENDS Reconcile, SequenceTheorems, WellFoundedInduction, TLAPS

(* A job that runs has an attempt left: fetch_one_pending checked it.      *)
AttemptLeft ==
    \A j \in JobIds :
        jobs[j] # None /\ jobs[j].status = "running" => jobs[j].attempts < MaxAttempts

(* What a drainer holds between its transactions.                          *)
DrainerHolds ==
    \A d \in Drainers :
        /\ drainer[d].pc \in {"embed", "complete", "fail"} => drainer[d].claim # None
        /\ drainer[d].pc = "complete" =>
            /\ drainer[d].vec # None
            /\ drainer[d].vec.text = drainer[d].claim.content
            /\ drainer[d].vec.space \in Spaces

(* What a request thread holds between its transactions.                   *)
WellHeld(w) ==
    /\ w.pc # "idle" => w.mem # None
    /\ w.pc \in {"embed", "store", "embedNew", "update"} => w.entry # None
    /\ w.pc \in {"enqueue", "embedNew", "update"} => w.text # None
    /\ w.pc = "store" =>
         w.vec # None /\ w.vec.text = w.entry.content /\ w.vec.space \in Spaces
    /\ w.pc = "update" =>
         w.vec # None /\ w.vec.text = w.text /\ w.vec.space \in Spaces

ThreadHolds == \A t \in Threads : WellHeld(thread[t])

Inv == TypeOK /\ AttemptLeft /\ DrainerHolds /\ ThreadHolds

LEMMA InitInv == Init => Inv
  <1> SUFFICES ASSUME Init PROVE Inv
    OBVIOUS
  <1> USE BoundsAssumption, LegacyAssumption, NoneAssumption
  <1>1. TypeOK
    BY DEF Init, TypeOK, Row, Vector, Down, Waiting, DrainerState, ThreadState
  <1>2. AttemptLeft
    BY DEF Init, AttemptLeft
  <1>3. DrainerHolds /\ ThreadHolds
    BY DEF Init, DrainerHolds, ThreadHolds, WellHeld, Down, Waiting
  <1> QED BY <1>1, <1>2, <1>3 DEF Inv

(* The provider's answer for a text is a vector of a known space.          *)
LEMMA EmbeddingType ==
    ASSUME TypeOK, NEW c \in Contents
    PROVE  /\ Embedding(c) \in Vector /\ Embedding(c) # None
           /\ Embedding(c).text = c /\ Embedding(c).space \in Spaces
  <1>1. provider \in Spaces
    BY DEF TypeOK
  <1>2. Embedding(c) \in Vector
    BY <1>1 DEF Embedding, Vector
  <1> QED BY <1>1, <1>2, NoneAssumption DEF Embedding

(* A thread that has its vector goes on to write it.                       *)
LEMMA ThreadTakesVector ==
    ASSUME NEW s \in ThreadState, NEW v \in Vector
    PROVE  /\ [s EXCEPT !.pc = "store", !.vec = v] \in ThreadState
           /\ [s EXCEPT !.pc = "update", !.vec = v] \in ThreadState
  BY DEF ThreadState

LEMMA ThreadKeepsType ==
    ASSUME Inv, NEW t \in Threads, ThreadNext(t)
    PROVE  TypeOK'
  <1> USE BoundsAssumption, LegacyAssumption, NoneAssumption
  <1> USE DEF Inv, TypeOK, ThreadState, Waiting, rest, db
  <1>1. ASSUME NEW m \in Memories, NEW c \in Contents, ColdAdd(t, m, c) PROVE TypeOK'
    <2>1. PICK next \in {"enqueue", "reread"} :
            thread' = [thread EXCEPT ![t] =
                         [Waiting EXCEPT !.pc = next, !.mem = m, !.text = c]]
      BY <1>1 DEF ColdAdd
    <2>2. [Waiting EXCEPT !.pc = next, !.mem = m, !.text = c] \in ThreadState
      OBVIOUS
    <2>3. thread' \in [Threads -> ThreadState]
      <3> HIDE DEF ThreadState, Waiting
      <3> QED BY <2>1, <2>2
    <2>4. memory' \in [Memories -> Row \cup {None, Purged}]
      BY <1>1 DEF ColdAdd, Row
    <2> HIDE DEF ThreadState, Waiting
    <2> QED BY <1>1, <2>3, <2>4 DEF ColdAdd
  <1>2. ASSUME NEW m \in Memories, NEW c \in Contents, BeginUpdate(t, m, c) PROVE TypeOK'
    BY <1>2 DEF BeginUpdate, Exists
  <1>3. ASSUME NEW m \in Memories, Backfill(t, m) PROVE TypeOK'
    BY <1>3 DEF Backfill
  <1>4. CASE Enqueue(t)
    BY <1>4 DEF Enqueue, Exists, ThreadHolds, WellHeld, Job, Row, Statuses, JobIds
  <1>5. CASE EnqueueRefused(t)
    BY <1>5 DEF EnqueueRefused, ThreadHolds, WellHeld
  <1>6. CASE ReadEntry(t)
    BY <1>6 DEF ReadEntry, Exists, ThreadHolds, WellHeld
  <1>7. CASE EmbedEntry(t)
    <2>1. Embedding(thread[t].entry.content) \in Vector
      <3>1. thread[t].entry \in Row
        BY <1>7 DEF EmbedEntry, ThreadHolds, WellHeld
      <3> QED BY <3>1, EmbeddingType DEF Row
    <2>2. [thread[t] EXCEPT !.pc = "store", !.vec = Embedding(thread[t].entry.content)]
            \in ThreadState
      <3>1. thread[t] \in ThreadState
        OBVIOUS
      <3> HIDE DEF ThreadState, Inv, TypeOK
      <3> QED BY <2>1, <3>1, ThreadTakesVector
    <2> HIDE DEF ThreadState
    <2> QED BY <1>7, <2>2 DEF EmbedEntry
  <1>8. CASE StoreEntry(t)
    BY <1>8 DEF StoreEntry, ThreadHolds, WellHeld
  <1>9. CASE EmbedNew(t)
    <2>1. Embedding(thread[t].text) \in Vector
      <3>1. thread[t].text \in Contents
        BY <1>9 DEF EmbedNew, ThreadHolds, WellHeld
      <3> QED BY <3>1, EmbeddingType
    <2>2. [thread[t] EXCEPT !.pc = "update", !.vec = Embedding(thread[t].text)]
            \in ThreadState
      <3>1. thread[t] \in ThreadState
        OBVIOUS
      <3> HIDE DEF ThreadState, Inv, TypeOK
      <3> QED BY <2>1, <3>1, ThreadTakesVector
    <2> HIDE DEF ThreadState
    <2> QED BY <1>9, <2>2 DEF EmbedNew
  <1>10. CASE CommitUpdate(t)
    <2>1. CASE UNCHANGED <<memory, vectors, jobs>>
      BY <1>10, <2>1 DEF CommitUpdate
    <2>2. CASE EntryMatches(thread[t].mem, thread[t].entry) /\ SpaceOpen(thread[t].vec.space)
      <3> DEFINE m == thread[t].mem
      <3>1. m \in Memories /\ thread[t].entry \in Row /\ thread[t].text \in Contents
            /\ thread[t].vec \in Vector
        BY <1>10 DEF CommitUpdate, ThreadHolds, WellHeld
      <3>2. [content |-> thread[t].text, rev |-> NextRev(thread[t].entry)] \in Row
        BY <3>1 DEF Row, NextRev
      <3>3. \A j \in JobIds : Superseded(j, m) => [jobs[j] EXCEPT !.status = "done"] \in Job
        BY DEF Superseded, Job, Statuses
      <3>4. memory' \in [Memories -> Row \cup {None, Purged}]
            /\ vectors' \in [Memories -> Vector \cup {None}]
        <4>1. memory' = [memory EXCEPT ![m] =
                           [content |-> thread[t].text, rev |-> NextRev(thread[t].entry)]]
              /\ vectors' = [vectors EXCEPT ![m] = thread[t].vec]
          BY <1>10, <2>2 DEF CommitUpdate
        <4> HIDE DEF ThreadState, Waiting
        <4> QED BY <3>1, <3>2, <4>1
      <3>5. jobs' \in [JobIds -> Job \cup {None}]
        BY <1>10, <2>2, <3>3 DEF CommitUpdate
      <3> QED BY <1>10, <3>4, <3>5 DEF CommitUpdate
    <2> QED BY <1>10, <2>1, <2>2 DEF CommitUpdate
  <1>11. CASE Abandon(t)
    BY <1>11 DEF Abandon
  <1>12. CASE RereadText(t)
    BY <1>12 DEF RereadText, Exists, ThreadHolds, WellHeld, Row
  <1> QED
    BY <1>1, <1>2, <1>3, <1>4, <1>5, <1>6, <1>7, <1>8, <1>9, <1>10, <1>11, <1>12
       DEF ThreadNext

LEMMA DrainerKeepsType ==
    ASSUME Inv, NEW d \in Drainers, DrainerNext(d) \/ FaultNext(d)
    PROVE  TypeOK'
  <1> USE BoundsAssumption, NoneAssumption
  <1> USE DEF Inv, TypeOK, rest, db
  <1>1. Idle \in DrainerState /\ Down \in DrainerState
    BY DEF Idle, Down, DrainerState
  <1>2. drainer[d] \in DrainerState
    OBVIOUS
  <1>3. \A j \in JobIds, st \in Statuses :
          jobs[j] # None => [jobs[j] EXCEPT !.status = st] \in Job
    BY DEF Job
  <1>4. ASSUME drainer[d].pc \in {"embed", "complete", "fail"}
        PROVE  drainer[d].claim \in Claim
    BY <1>2, <1>4 DEF DrainerHolds, DrainerState
  <1>5. CASE Startup(d)
    <2>1. jobs' \in [JobIds -> Job \cup {None}]
      BY <1>3, <1>5 DEF Startup, ResetRunning, Statuses
    <2> QED BY <1>1, <1>5, <2>1 DEF Startup
  <1>6. CASE Fetch(d)
    <2>1. PICK j \in JobIds :
            /\ Retryable(j)
            /\ jobs' = [jobs EXCEPT ![j].status = "running"]
            /\ drainer' = [drainer EXCEPT ![d] =
                 [pc |-> "embed", vec |-> None,
                  claim |-> [id |-> j, target |-> jobs[j].target,
                             content |-> jobs[j].content,
                             attempts |-> jobs[j].attempts]]]
      BY <1>6 DEF Fetch
    <2>2. jobs[j] \in Job /\ jobs[j] # None
      BY <2>1 DEF Retryable
    <2>3. [pc |-> "embed", vec |-> None,
           claim |-> [id |-> j, target |-> jobs[j].target,
                      content |-> jobs[j].content,
                      attempts |-> jobs[j].attempts]] \in DrainerState
      BY <2>2 DEF DrainerState, Claim, Job
    <2>4. [jobs[j] EXCEPT !.status = "running"] \in Job
      BY <1>3, <2>2 DEF Statuses
    <2> QED BY <1>6, <2>1, <2>3, <2>4 DEF Fetch
  <1>7. CASE EmbedJob(d)
    <2>1. Embedding(drainer[d].claim.content) \in Vector
      BY <1>4, <1>7, EmbeddingType DEF EmbedJob, Claim
    <2>2. [drainer[d] EXCEPT !.pc = "complete",
                             !.vec = Embedding(drainer[d].claim.content)]
            \in DrainerState
      BY <1>2, <2>1 DEF DrainerState
    <2> QED BY <1>7, <2>2 DEF EmbedJob
  <1>8. [drainer[d] EXCEPT !.pc = "fail"] \in DrainerState
    BY <1>2 DEF DrainerState
  <1>9. CASE EmbedJobFails(d) \/ CompleteRaises(d)
    BY <1>8, <1>9 DEF EmbedJobFails, CompleteRaises
  <1>10. CASE CompleteFresh(d)
    <2> DEFINE claim == drainer[d].claim
               job   == jobs[claim.id]
    <2>1. claim \in Claim /\ claim.id \in JobIds
      BY <1>4, <1>10 DEF CompleteFresh, Claim
    <2>2. job \in Job /\ job # None
      BY <1>10, <2>1 DEF CompleteFresh, StillRunning
    <2>3. drainer[d].vec \in Vector
      BY <1>2, <1>10 DEF CompleteFresh, DrainerHolds, DrainerState
    <2>4. [target |-> job.target, content |-> job.content,
           rev |-> job.version, vector |-> drainer[d].vec] \in Receipt
      BY <1>10, <2>2, <2>3 DEF CompleteFresh, Valid, Job, Receipt
    <2>5. [job EXCEPT !.status = "done"] \in Job
      BY <1>3, <2>1, <2>2 DEF Statuses
    <2>6. job.target \in Memories
      BY <2>2 DEF Job
    <2> QED BY <1>1, <1>10, <2>1, <2>3, <2>4, <2>5, <2>6 DEF CompleteFresh
  <1>11. CASE CompleteStale(d)
    <2>1. drainer[d].claim.id \in JobIds
      BY <1>4, <1>11 DEF CompleteStale, Claim
    <2>2. [jobs[drainer[d].claim.id] EXCEPT !.status = "done"] \in Job
      BY <1>3, <1>11, <2>1 DEF CompleteStale, StillRunning, Statuses
    <2> QED BY <1>1, <1>11, <2>1, <2>2 DEF CompleteStale
  <1>12. CASE CompleteGone(d)
    BY <1>1, <1>12 DEF CompleteGone
  <1>13. CASE MarkFailed(d)
    <2> DEFINE claim == drainer[d].claim
               job   == jobs[claim.id]
    <2>1. claim.id \in JobIds
      BY <1>4, <1>13 DEF MarkFailed, Claim
    <2>2. CASE StillRunning(claim)
      <3>1. job \in Job /\ job.attempts < MaxAttempts
        BY <2>1, <2>2 DEF StillRunning, AttemptLeft
      <3>2. job.attempts \in 0..MaxAttempts
        BY <3>1 DEF Job
      <3>3. job.attempts + 1 \in 0..MaxAttempts
        BY <3>1, <3>2
      <3>4. [job EXCEPT !.status = "failed", !.attempts = job.attempts + 1] \in Job
        BY <3>1, <3>3 DEF Job, Statuses
      <3>5. jobs' = [jobs EXCEPT ![claim.id] =
                      [job EXCEPT !.status = "failed", !.attempts = job.attempts + 1]]
        BY <1>13, <2>1, <2>2, <3>1 DEF MarkFailed
      <3>6. jobs' \in [JobIds -> Job \cup {None}]
        BY <2>1, <3>4, <3>5
      <3> QED BY <1>1, <1>13, <3>6 DEF MarkFailed
    <2>3. CASE ~StillRunning(claim)
      BY <1>1, <1>13, <2>3 DEF MarkFailed
    <2> QED BY <2>2, <2>3
  <1>14. CASE FaultNext(d)
    BY <1>1, <1>14 DEF FaultNext, Crash, StartupResetFails, MarkFailedFails
  <1> QED
    BY <1>5, <1>6, <1>7, <1>9, <1>10, <1>11, <1>12, <1>13, <1>14 DEF DrainerNext

LEMMA OperatorKeepsType ==
    ASSUME Inv, OperatorNext
    PROVE  TypeOK'
  <1> USE DEF Inv, TypeOK, rest, db
  <1>1. ASSUME NEW j \in JobIds, CleanupDone(j) PROVE TypeOK'
    BY <1>1 DEF CleanupDone
  <1>2. ASSUME NEW m \in Memories, PurgeRow(m) PROVE TypeOK'
    BY <1>2 DEF PurgeRow
  <1>5. ASSUME NEW m \in Memories, NEW c \in Contents, InsertUnqueued(m, c) PROVE TypeOK'
    BY <1>5 DEF InsertUnqueued, Row
  <1>3. ASSUME NEW s \in Spaces, AdoptLegacySpace(s) PROVE TypeOK'
    <2>1. \A m \in Memories : vectors[m] # None =>
            [vectors[m] EXCEPT !.space = s] \in Vector
      <3> SUFFICES ASSUME NEW m \in Memories, vectors[m] # None
                   PROVE  [vectors[m] EXCEPT !.space = s] \in Vector
        OBVIOUS
      <3>1. vectors[m] \in Vector
        OBVIOUS
      <3> QED BY <3>1 DEF Vector
    <2>2. vectors' \in [Memories -> Vector \cup {None}]
      BY <1>3, <2>1 DEF AdoptLegacySpace
    <2> QED BY <1>3, <2>2 DEF AdoptLegacySpace
  <1>4. ASSUME NEW s \in Spaces, SwitchProvider(s) PROVE TypeOK'
    BY <1>4 DEF SwitchProvider
  <1> QED BY <1>1, <1>2, <1>3, <1>4, <1>5 DEF OperatorNext

(* Who changes what.                                                       *)
LEMMA ThreadLeavesDrainers ==
    ASSUME NEW t \in Threads, ThreadNext(t)
    PROVE  UNCHANGED drainer
  BY DEF ThreadNext, ColdAdd, BeginUpdate, Backfill, Enqueue, EnqueueRefused,
         RereadText, ReadEntry, EmbedEntry, StoreEntry, EmbedNew, CommitUpdate, Abandon

LEMMA DrainerLeavesThreads ==
    ASSUME NEW d \in Drainers, DrainerNext(d) \/ FaultNext(d)
    PROVE  UNCHANGED <<thread, memory>>
  BY DEF DrainerNext, FaultNext, Startup, Fetch, EmbedJob, EmbedJobFails,
         CompleteFresh, CompleteStale, CompleteGone, CompleteRaises, MarkFailed,
         Crash, StartupResetFails, MarkFailedFails, db

LEMMA OperatorLeavesProcesses ==
    ASSUME OperatorNext
    PROVE  UNCHANGED <<thread, drainer>>
  BY DEF OperatorNext, CleanupDone, InsertUnqueued, PurgeRow, AdoptLegacySpace, SwitchProvider

LEMMA AttemptLeftStep ==
    ASSUME Inv, Next
    PROVE  AttemptLeft'
  <1> USE BoundsAssumption, NoneAssumption
  <1> USE DEF Inv, TypeOK, AttemptLeft, rest, db
  <1>1. ASSUME UNCHANGED jobs PROVE AttemptLeft'
    BY <1>1
  <1>2. ASSUME NEW t \in Threads, Enqueue(t) PROVE AttemptLeft'
    BY <1>2 DEF Enqueue, JobIds
  <1>3. ASSUME NEW t \in Threads, CommitUpdate(t) PROVE AttemptLeft'
    <2>1. \A j \in JobIds : jobs'[j] # None /\ jobs'[j].status = "running" => jobs'[j] = jobs[j]
      BY <1>3 DEF CommitUpdate, Superseded, Job
    <2> QED BY <2>1
  <1>4. ASSUME NEW t \in Threads, ThreadNext(t) PROVE AttemptLeft'
    BY <1>1, <1>2, <1>3, <1>4
       DEF ThreadNext, ColdAdd, BeginUpdate, Backfill, EnqueueRefused,
           RereadText, ReadEntry, EmbedEntry, StoreEntry, EmbedNew, Abandon
  <1>5. ASSUME NEW d \in Drainers, Startup(d) PROVE AttemptLeft'
    <2>1. \A j \in JobIds : jobs'[j] # None => jobs'[j].status # "running"
      BY <1>5 DEF Startup, ResetRunning, Job
    <2> QED BY <2>1
  <1>6. ASSUME NEW d \in Drainers, Fetch(d) PROVE AttemptLeft'
    <2>1. PICK j \in JobIds : Retryable(j) /\ jobs' = [jobs EXCEPT ![j].status = "running"]
      BY <1>6 DEF Fetch
    <2>2. jobs[j] \in Job /\ jobs[j].attempts < MaxAttempts
      BY <2>1 DEF Retryable
    <2>3. jobs'[j].attempts = jobs[j].attempts
      BY <2>1, <2>2 DEF Job
    <2>4. \A k \in JobIds : k # j => jobs'[k] = jobs[k]
      BY <2>1
    <2> QED BY <2>2, <2>3, <2>4
  <1>7. ASSUME NEW d \in Drainers, NEW st \in {"done", "failed"}, NEW j \in JobIds,
               \A k \in JobIds : k # j => jobs'[k] = jobs[k],
               jobs'[j] # None => jobs'[j].status # "running"
        PROVE  AttemptLeft'
    BY <1>7
  <1>8. ASSUME NEW d \in Drainers, drainer[d].pc \in {"complete", "fail"},
               StillRunning(drainer[d].claim)
        PROVE  /\ drainer[d].claim.id \in JobIds
               /\ jobs[drainer[d].claim.id] \in Job
    BY <1>8 DEF DrainerHolds, DrainerState, Claim, StillRunning
  <1>9. ASSUME NEW d \in Drainers, CompleteFresh(d) \/ CompleteStale(d) PROVE AttemptLeft'
    <2> DEFINE j == drainer[d].claim.id
    <2>1. j \in JobIds /\ jobs[j] \in Job /\ jobs' = [jobs EXCEPT ![j].status = "done"]
      BY <1>8, <1>9 DEF CompleteFresh, CompleteStale
    <2> HIDE DEF j
    <2>2. jobs'[j].status = "done"
      BY <2>1 DEF Job
    <2> QED BY <2>1, <2>2
  <1>10. ASSUME NEW d \in Drainers, MarkFailed(d) PROVE AttemptLeft'
    <2>1. CASE ~StillRunning(drainer[d].claim)
      BY <1>10, <2>1 DEF MarkFailed
    <2>2. CASE StillRunning(drainer[d].claim)
      <3> DEFINE j == drainer[d].claim.id
      <3>1. /\ j \in JobIds /\ jobs[j] \in Job
            /\ jobs' = [jobs EXCEPT ![j] = [jobs[j] EXCEPT !.status = "failed",
                                             !.attempts = jobs[j].attempts + 1]]
        BY <1>8, <1>10, <2>2 DEF MarkFailed
      <3> HIDE DEF j
      <3>2. jobs'[j].status = "failed"
        BY <3>1 DEF Job
      <3> QED BY <3>1, <3>2
    <2> QED BY <2>1, <2>2
  <1>11. ASSUME NEW d \in Drainers, DrainerNext(d) \/ FaultNext(d) PROVE AttemptLeft'
    BY <1>1, <1>5, <1>6, <1>9, <1>10, <1>11
       DEF DrainerNext, FaultNext, EmbedJob, EmbedJobFails, CompleteGone,
           CompleteRaises, Crash, StartupResetFails, MarkFailedFails
  <1>12. ASSUME OperatorNext PROVE AttemptLeft'
    <2>1. ASSUME NEW j \in JobIds, CleanupDone(j) PROVE AttemptLeft'
      BY <2>1 DEF CleanupDone
    <2> QED BY <1>1, <1>12, <2>1
            DEF OperatorNext, InsertUnqueued, PurgeRow, AdoptLegacySpace, SwitchProvider
  <1> QED BY <1>4, <1>11, <1>12 DEF Next

LEMMA DrainerHoldsStep ==
    ASSUME Inv, Next
    PROVE  DrainerHolds'
  <1> USE NoneAssumption
  <1> USE DEF Inv, TypeOK, DrainerHolds
  <1>1. ASSUME UNCHANGED drainer PROVE DrainerHolds'
    BY <1>1
  <1>2. ASSUME NEW d \in Drainers, DrainerNext(d) \/ FaultNext(d) PROVE DrainerHolds'
    <2>1. CASE drainer' = [drainer EXCEPT ![d] = Idle] \/ drainer' = [drainer EXCEPT ![d] = Down]
      BY <2>1 DEF Idle, Down
    <2>2. CASE Fetch(d)
      <3>1. PICK j \in JobIds :
              drainer' = [drainer EXCEPT ![d] =
                 [pc |-> "embed", vec |-> None,
                  claim |-> [id |-> j, target |-> jobs[j].target,
                             content |-> jobs[j].content,
                             attempts |-> jobs[j].attempts]]]
              /\ jobs[j] \in Job
        BY <2>2 DEF Fetch, Retryable
      <3>2. [id |-> j, target |-> jobs[j].target, content |-> jobs[j].content,
             attempts |-> jobs[j].attempts] \in Claim
        BY <3>1 DEF Job, Claim
      <3> QED BY <3>1, <3>2
    <2>3. CASE EmbedJob(d)
      <3>1. drainer[d].claim \in Claim
        BY <2>3 DEF EmbedJob, DrainerState
      <3>2. /\ Embedding(drainer[d].claim.content) # None
            /\ Embedding(drainer[d].claim.content).text = drainer[d].claim.content
            /\ Embedding(drainer[d].claim.content).space \in Spaces
        BY <3>1, EmbeddingType DEF Claim
      <3>3. drainer[d] \in DrainerState
        OBVIOUS
      <3>4. /\ drainer'[d].pc = "complete" /\ drainer'[d].claim = drainer[d].claim
            /\ drainer'[d].vec = Embedding(drainer[d].claim.content)
            /\ \A e \in Drainers : e # d => drainer'[e] = drainer[e]
        BY <2>3, <3>3 DEF EmbedJob, DrainerState
      <3> QED BY <3>1, <3>2, <3>4
    <2>4. CASE EmbedJobFails(d) \/ CompleteRaises(d)
      <3>1. /\ drainer'[d].pc = "fail" /\ drainer'[d].claim = drainer[d].claim
            /\ drainer[d].claim # None
            /\ \A e \in Drainers : e # d => drainer'[e] = drainer[e]
        BY <2>4 DEF EmbedJobFails, CompleteRaises, DrainerState
      <3> QED BY <3>1
    <2> QED
      BY <1>2, <2>1, <2>2, <2>3, <2>4
         DEF DrainerNext, FaultNext, Startup, CompleteFresh, CompleteStale,
             CompleteGone, MarkFailed, Crash, StartupResetFails, MarkFailedFails
  <1> QED
    BY <1>1, <1>2, ThreadLeavesDrainers, OperatorLeavesProcesses DEF Next

LEMMA ThreadHoldsStep ==
    ASSUME Inv, Next
    PROVE  ThreadHolds'
  <1> USE NoneAssumption
  <1> USE DEF Inv, TypeOK, ThreadHolds
  <1>1. ASSUME UNCHANGED thread PROVE ThreadHolds'
    BY <1>1
  <1>2. ASSUME NEW t \in Threads, NEW w, WellHeld(w), thread' = [thread EXCEPT ![t] = w]
        PROVE  ThreadHolds'
    BY <1>2
  <1>3. WellHeld(Waiting)
    BY DEF WellHeld, Waiting
  <1>4. ASSUME NEW t \in Threads, ThreadNext(t) PROVE ThreadHolds'
    <2>1. ASSUME NEW m \in Memories, NEW c \in Contents, ColdAdd(t, m, c)
          PROVE  ThreadHolds'
      <3>1. /\ WellHeld([Waiting EXCEPT !.pc = "enqueue", !.mem = m, !.text = c])
            /\ WellHeld([Waiting EXCEPT !.pc = "reread", !.mem = m, !.text = c])
        BY DEF WellHeld, Waiting
      <3> QED BY <1>2, <2>1, <3>1 DEF ColdAdd
    <2>2. ASSUME NEW m \in Memories, NEW c \in Contents, BeginUpdate(t, m, c)
          PROVE  ThreadHolds'
      <3>1. WellHeld([Waiting EXCEPT !.pc = "embedNew", !.mem = m,
                                     !.entry = memory[m], !.text = c])
        BY <2>2 DEF BeginUpdate, Exists, WellHeld, Waiting
      <3> QED BY <1>2, <2>2, <3>1 DEF BeginUpdate
    <2>3. ASSUME NEW m \in Memories, Backfill(t, m) \/ (EnqueueRefused(t) /\ m = thread[t].mem)
          PROVE  ThreadHolds'
      <3>1. WellHeld([Waiting EXCEPT !.pc = "read", !.mem = m])
        BY DEF WellHeld, Waiting
      <3> QED BY <1>2, <2>3, <3>1 DEF Backfill, EnqueueRefused
    <2>4. CASE EnqueueRefused(t)
      <3>1. thread[t].mem \in Memories
        BY <2>4 DEF EnqueueRefused, WellHeld, ThreadState
      <3> QED BY <2>3, <2>4, <3>1
    <2>5. CASE ReadEntry(t)
      <3> DEFINE m == thread[t].mem
      <3>1. m \in Memories
        BY <2>5 DEF ReadEntry, WellHeld, ThreadState
      <3>2. ASSUME Exists(m)
            PROVE  WellHeld([Waiting EXCEPT !.pc = "embed", !.mem = m, !.entry = memory[m]])
        BY <3>1, <3>2 DEF Exists, WellHeld, Waiting
      <3> QED BY <1>2, <1>3, <2>5, <3>2 DEF ReadEntry
    <2>6. CASE EmbedEntry(t)
      <3> DEFINE c == thread[t].entry.content
      <3>1. thread[t] \in ThreadState /\ thread[t].entry \in Row /\ c \in Contents
        BY <2>6 DEF EmbedEntry, WellHeld, ThreadState, Row
      <3>2. /\ Embedding(c) # None /\ Embedding(c).text = c
            /\ Embedding(c).space \in Spaces
        BY <3>1, EmbeddingType
      <3>3. WellHeld([thread[t] EXCEPT !.pc = "store", !.vec = Embedding(c)])
        BY <2>6, <3>1, <3>2 DEF EmbedEntry, WellHeld, ThreadState
      <3> QED BY <1>2, <2>6, <3>3 DEF EmbedEntry
    <2>7. CASE EmbedNew(t)
      <3> DEFINE c == thread[t].text
      <3>1. thread[t] \in ThreadState /\ c \in Contents
        BY <2>7 DEF EmbedNew, WellHeld, ThreadState
      <3>2. /\ Embedding(c) # None /\ Embedding(c).text = c
            /\ Embedding(c).space \in Spaces
        BY <3>1, EmbeddingType
      <3>3. WellHeld([thread[t] EXCEPT !.pc = "update", !.vec = Embedding(c)])
        BY <2>7, <3>1, <3>2 DEF EmbedNew, WellHeld, ThreadState
      <3> QED BY <1>2, <2>7, <3>3 DEF EmbedNew
    <2>8. CASE Enqueue(t) \/ StoreEntry(t) \/ CommitUpdate(t) \/ Abandon(t)
      BY <1>2, <1>3, <2>8 DEF Enqueue, StoreEntry, CommitUpdate, Abandon
    <2>9. CASE RereadText(t)
      <3> DEFINE m == thread[t].mem
      <3>1. m \in Memories
        BY <2>9 DEF RereadText, WellHeld, ThreadState
      <3>2. ASSUME Exists(m)
            PROVE  WellHeld([Waiting EXCEPT !.pc = "enqueue", !.mem = m,
                                            !.text = memory[m].content])
        <4>1. memory[m] \in Row
          BY <3>1, <3>2 DEF Exists
        <4> QED BY <3>1, <4>1 DEF WellHeld, Waiting, Row
      <3> QED BY <1>2, <1>3, <2>9, <3>2 DEF RereadText
    <2> QED
      BY <1>4, <2>1, <2>2, <2>3, <2>4, <2>5, <2>6, <2>7, <2>8, <2>9 DEF ThreadNext
  <1> QED
    BY <1>1, <1>4, DrainerLeavesThreads, OperatorLeavesProcesses DEF Next

(* The invariant is inductive.                                             *)
LEMMA Inductive == Inv /\ [Next]_vars => Inv'
  <1>1. ASSUME Inv, Next PROVE Inv'
    BY <1>1, ThreadKeepsType, DrainerKeepsType, OperatorKeepsType,
       AttemptLeftStep, DrainerHoldsStep, ThreadHoldsStep DEF Next, Inv
  <1>2. ASSUME Inv, UNCHANGED vars PROVE Inv'
    BY <1>2 DEF Inv, TypeOK, AttemptLeft, DrainerHolds, ThreadHolds, vars
  <1> QED BY <1>1, <1>2

(* Every variable stays in its type; in particular no job is ever tried    *)
(* more than MAX_ATTEMPTS times by its count (fetch_one_pending and        *)
(* mark_failed), whatever crashes and however many drainers there are.     *)
THEOREM TypeCorrect == Spec => []TypeOK
  <1>1. Spec => []Inv
    BY InitInv, Inductive, PTL DEF Spec
  <1>2. Inv => TypeOK
    BY DEF Inv
  <1> QED BY <1>1, <1>2, PTL

-----------------------------------------------------------------------------
(* The three transactions that write a vector, and what they write.        *)

LEMMA StoreWrites ==
    ASSUME Inv, NEW t \in Threads, StoreEntry(t)
    PROVE  \/ UNCHANGED <<memory, vectors>>
           \/ \E m \in Memories, v \in Vector :
                /\ Exists(m) /\ v.text = memory[m].content /\ v.space \in Spaces
                /\ SpaceOpen(v.space)
                /\ vectors' = [vectors EXCEPT ![m] = v]
                /\ UNCHANGED memory
  <1> USE NoneAssumption DEF Inv, TypeOK, ThreadHolds, WellHeld
  <1> DEFINE w == thread[t]
  <1>1. /\ w.mem \in Memories /\ w.entry \in Row /\ w.vec \in Vector
        /\ w.vec.text = w.entry.content /\ w.vec.space \in Spaces
    BY DEF StoreEntry, ThreadState
  <1>2. CASE EntryMatches(w.mem, w.entry) /\ SpaceOpen(w.vec.space)
    <2>1. Exists(w.mem) /\ w.vec.text = memory[w.mem].content
      BY <1>1, <1>2 DEF EntryMatches
    <2>2. vectors' = [vectors EXCEPT ![w.mem] = w.vec] /\ UNCHANGED memory
      BY <1>2 DEF StoreEntry
    <2> QED BY <1>1, <1>2, <2>1, <2>2
  <1>3. CASE ~(EntryMatches(w.mem, w.entry) /\ SpaceOpen(w.vec.space))
    BY <1>3 DEF StoreEntry
  <1> QED BY <1>2, <1>3

LEMMA UpdateWrites ==
    ASSUME Inv, NEW t \in Threads, CommitUpdate(t)
    PROVE  \/ UNCHANGED <<memory, vectors>>
           \/ \E m \in Memories, v \in Vector, r \in Row :
                /\ Exists(m) /\ memory[m] \in Row /\ r.rev > memory[m].rev
                /\ v.text = r.content /\ v.space \in Spaces /\ SpaceOpen(v.space)
                /\ vectors' = [vectors EXCEPT ![m] = v]
                /\ memory' = [memory EXCEPT ![m] = r]
  <1> USE NoneAssumption DEF Inv, TypeOK, ThreadHolds, WellHeld
  <1> DEFINE w == thread[t]
             r == [content |-> w.text, rev |-> NextRev(w.entry)]
  <1>1. /\ w.mem \in Memories /\ w.entry \in Row /\ w.text \in Contents /\ w.vec \in Vector
        /\ w.vec.text = w.text /\ w.vec.space \in Spaces
    BY DEF CommitUpdate, ThreadState
  <1>2. CASE EntryMatches(w.mem, w.entry) /\ SpaceOpen(w.vec.space)
    <2>1. /\ vectors' = [vectors EXCEPT ![w.mem] = w.vec]
          /\ memory' = [memory EXCEPT ![w.mem] = r]
      BY <1>2 DEF CommitUpdate
    <2>2. Exists(w.mem) /\ memory[w.mem] = w.entry
      BY <1>2 DEF EntryMatches
    <2>3. r \in Row /\ r.content = w.text /\ r.rev > w.entry.rev
      BY <1>1 DEF Row, NextRev
    <2> HIDE DEF w, r
    <2> QED BY <1>1, <1>2, <2>1, <2>2, <2>3
  <1>3. CASE ~(EntryMatches(w.mem, w.entry) /\ SpaceOpen(w.vec.space))
    BY <1>3 DEF CommitUpdate
  <1> QED BY <1>2, <1>3

LEMMA CompletionWrites ==
    ASSUME Inv, NEW d \in Drainers, CompleteFresh(d)
    PROVE  \E m \in Memories, v \in Vector, j \in JobIds :
                /\ Exists(m) /\ v.text = memory[m].content /\ v.space \in Spaces
                /\ SpaceOpen(v.space)
                /\ vectors' = [vectors EXCEPT ![m] = v]
                /\ receipts' = [receipts EXCEPT ![j] =
                     [target |-> m, content |-> memory[m].content,
                      rev |-> memory[m].rev, vector |-> v]]
                /\ UNCHANGED memory
  <1> USE NoneAssumption DEF Inv, TypeOK, DrainerHolds
  <1> DEFINE claim == drainer[d].claim
             job   == jobs[claim.id]
             v     == drainer[d].vec
  <1>1. /\ claim \in Claim /\ v \in Vector /\ v.text = claim.content /\ v.space \in Spaces
    BY DEF CompleteFresh, DrainerState
  <1>2. claim.id \in JobIds
    BY <1>1 DEF Claim
  <1>3. job \in Job
    BY <1>2 DEF CompleteFresh, StillRunning
  <1>4. /\ Exists(job.target) /\ job.content = claim.content
        /\ memory[job.target] = [content |-> job.content, rev |-> job.version]
    BY DEF CompleteFresh, Valid, EntryMatches
  <1>5. /\ job.target \in Memories
        /\ v.text = memory[job.target].content
        /\ job.content = memory[job.target].content
        /\ job.version = memory[job.target].rev
    BY <1>1, <1>3, <1>4 DEF Job
  <1>6. /\ SpaceOpen(v.space) /\ UNCHANGED memory
        /\ vectors' = [vectors EXCEPT ![job.target] = v]
        /\ receipts' = [receipts EXCEPT ![claim.id] =
                          [target |-> job.target, content |-> job.content,
                           rev |-> job.version, vector |-> v]]
    BY DEF CompleteFresh
  <1> HIDE DEF claim, job, v
  <1> QED BY <1>1, <1>2, <1>4, <1>5, <1>6

(* What a step can do to rows and vectors, and nothing else.               *)
Insertion ==
    \E m \in Memories, c \in Contents :
        /\ memory[m] = None
        /\ memory' = [memory EXCEPT ![m] = [content |-> c, rev |-> 1]]
        /\ UNCHANGED vectors
Writing ==
    \E m \in Memories, v \in Vector :
        /\ Exists(m) /\ v.text = memory[m].content /\ v.space \in Spaces
        /\ SpaceOpen(v.space)
        /\ vectors' = [vectors EXCEPT ![m] = v]
        /\ UNCHANGED memory
Rewriting ==
    \E m \in Memories, v \in Vector, r \in Row :
        /\ Exists(m) /\ memory[m] \in Row /\ r.rev > memory[m].rev
        /\ v.text = r.content /\ v.space \in Spaces /\ SpaceOpen(v.space)
        /\ vectors' = [vectors EXCEPT ![m] = v]
        /\ memory' = [memory EXCEPT ![m] = r]
Purging ==
    \E m \in Memories :
        /\ Exists(m)
        /\ memory' = [memory EXCEPT ![m] = Purged]
        /\ vectors' = [vectors EXCEPT ![m] = None]
Adopting ==
    \E s \in Spaces :
        /\ \A m \in Memories : vectors[m] # None => vectors[m].space \in {None, s}
        /\ vectors' = [m \in Memories |->
                         IF vectors[m] # None THEN [vectors[m] EXCEPT !.space = s]
                                              ELSE None]
        /\ UNCHANGED memory
DataStep ==
    \/ UNCHANGED <<memory, vectors>>
    \/ Insertion \/ Writing \/ Rewriting \/ Purging \/ Adopting

LEMMA StepsOnData == Inv /\ [Next]_vars => DataStep
  <1> USE DEF rest, db
  <1>1. ASSUME Inv, NEW t \in Threads, ThreadNext(t) PROVE DataStep
    <2>1. ASSUME NEW m \in Memories, NEW c \in Contents, ColdAdd(t, m, c) PROVE DataStep
      BY <2>1 DEF ColdAdd, DataStep, Insertion
    <2>2. CASE StoreEntry(t)
      BY <1>1, <2>2, StoreWrites DEF DataStep, Writing
    <2>3. CASE CommitUpdate(t)
      BY <1>1, <2>3, UpdateWrites DEF DataStep, Rewriting
    <2> QED
      BY <1>1, <2>1, <2>2, <2>3
         DEF ThreadNext, BeginUpdate, Backfill, Enqueue, EnqueueRefused,
             RereadText, ReadEntry, EmbedEntry, EmbedNew, Abandon, DataStep
  <1>2. ASSUME Inv, NEW d \in Drainers, DrainerNext(d) \/ FaultNext(d) PROVE DataStep
    <2>1. CASE CompleteFresh(d)
      <3>1. Writing
        BY <1>2, <2>1, CompletionWrites DEF Writing
      <3> QED BY <3>1 DEF DataStep
    <2> QED
      BY <1>2, <2>1
         DEF DrainerNext, FaultNext, Startup, Fetch, EmbedJob, EmbedJobFails,
             CompleteStale, CompleteGone, CompleteRaises, MarkFailed, Crash,
             StartupResetFails, MarkFailedFails, DataStep
  <1>3. ASSUME Inv, OperatorNext PROVE DataStep
    <2>1. ASSUME NEW m \in Memories, NEW c \in Contents, InsertUnqueued(m, c) PROVE Insertion
      BY <2>1 DEF InsertUnqueued, Insertion
    <2> QED BY <1>3, <2>1 DEF OperatorNext, CleanupDone, PurgeRow, AdoptLegacySpace,
                              SwitchProvider, DataStep, Purging, Adopting
  <1>4. ASSUME UNCHANGED vars PROVE DataStep
    BY <1>4 DEF vars, DataStep
  <1> QED BY <1>1, <1>2, <1>3, <1>4 DEF Next

LEMMA FreshStep ==
    ASSUME Inv, VectorFresh, DataStep
    PROVE  VectorFresh'
  <1> USE NoneAssumption DEF Inv, TypeOK, VectorFresh, Exists
  <1>1. CASE UNCHANGED <<memory, vectors>>
    BY <1>1
  <1>2. CASE Insertion
    BY <1>2 DEF Insertion
  <1>3. CASE Writing
    BY <1>3 DEF Writing
  <1>4. CASE Rewriting
    BY <1>4 DEF Rewriting
  <1>5. CASE Purging
    BY <1>5 DEF Purging
  <1>6. CASE Adopting
    <2>1. \A m \in Memories : vectors'[m] # None =>
            vectors[m] # None /\ vectors'[m].text = vectors[m].text
      BY <1>6 DEF Adopting, Vector
    <2> QED BY <1>6, <2>1 DEF Adopting
  <1> QED BY <1>1, <1>2, <1>3, <1>4, <1>5, <1>6 DEF DataStep

LEMMA SingleSpaceStep ==
    ASSUME Inv, SingleSpace, DataStep
    PROVE  SingleSpace'
  <1> USE NoneAssumption DEF Inv, TypeOK, SingleSpace
  <1>1. CASE UNCHANGED <<memory, vectors>> \/ Insertion
    BY <1>1 DEF Insertion
  <1>2. CASE Writing \/ Rewriting
    <2>1. PICK m \in Memories, v \in Vector :
            SpaceOpen(v.space) /\ vectors' = [vectors EXCEPT ![m] = v]
      BY <1>2 DEF Writing, Rewriting
    <2>2. \A n \in Memories : vectors'[n] # None => vectors'[n].space = v.space
      BY <2>1 DEF SpaceOpen
    <2> QED BY <2>2
  <1>3. CASE Purging
    BY <1>3 DEF Purging
  <1>4. CASE Adopting
    <2>1. PICK s \in Spaces :
            vectors' = [m \in Memories |->
                          IF vectors[m] # None THEN [vectors[m] EXCEPT !.space = s]
                                               ELSE None]
      BY <1>4 DEF Adopting
    <2>2. \A n \in Memories : vectors'[n] # None => vectors'[n].space = s
      BY <2>1 DEF Vector
    <2> QED BY <2>2
  <1> QED BY <1>1, <1>2, <1>3, <1>4 DEF DataStep

(* No row is ever searchable under a text it does not have, for any number *)
(* of rows, threads, drainers, jobs and crashes.                           *)
THEOREM Freshness == Spec => []VectorFresh
  <1>1. Init => VectorFresh
    BY NoneAssumption, LegacyAssumption DEF Init, VectorFresh, Exists, Row
  <1>2. Inv /\ VectorFresh /\ [Next]_vars => VectorFresh'
    BY StepsOnData, FreshStep
  <1> QED BY <1>1, <1>2, InitInv, Inductive, PTL DEF Spec

(* The index never holds vectors of two spaces, whenever the provider      *)
(* changes and whatever was computed before it did.                        *)
THEOREM OneSpace == Spec => []SingleSpace
  <1>1. Init => SingleSpace
    BY NoneAssumption, LegacyAssumption DEF Init, SingleSpace
  <1>2. Inv /\ SingleSpace /\ [Next]_vars => SingleSpace'
    BY StepsOnData, SingleSpaceStep
  <1> QED BY <1>1, <1>2, InitInv, Inductive, PTL DEF Spec

(* The text the abstract index sees in a row.                              *)
Text == [m \in Memories |-> IF Exists(m) THEN memory[m].content ELSE None]

LEMMA TextOfRow ==
    ASSUME TypeOK, NEW m \in Memories
    PROVE  /\ Exists(m) => memory[m] \in Row /\ Text[m] = memory[m].content
                            /\ Text[m] # None
           /\ ~Exists(m) => Text[m] = None
  BY NoneAssumption DEF TypeOK, Text, Exists, Row

LEMMA StepImplements ==
    ASSUME Inv, Inv', VectorFresh, DataStep
    PROVE  [VI!Next]_<<Text, vectors>>
  <1> USE NoneAssumption DEF Inv
  <1>1. CASE UNCHANGED <<memory, vectors>>
    BY <1>1 DEF Text, Exists
  <1>2. CASE Insertion
    <2>1. PICK m \in Memories, c \in Contents :
            /\ memory[m] = None
            /\ memory' = [memory EXCEPT ![m] = [content |-> c, rev |-> 1]]
            /\ UNCHANGED vectors
      BY <1>2 DEF Insertion
    <2>2. Text[m] = None
      BY <2>1, TextOfRow DEF Exists
    <2>3. [content |-> c, rev |-> 1] \in Row
      BY DEF Row
    <2>4. Text' = [Text EXCEPT ![m] = c]
      BY <2>1, <2>3 DEF Text, Exists, TypeOK
    <2>5. VI!Insert(m, c)
      BY <2>1, <2>2, <2>4 DEF VI!Insert, Text
    <2> QED BY <2>5 DEF VI!Next
  <1>3. CASE Writing
    <2>1. PICK m \in Memories, v \in Vector :
            /\ Exists(m) /\ v.text = memory[m].content /\ v.space \in Spaces
            /\ SpaceOpen(v.space)
            /\ vectors' = [vectors EXCEPT ![m] = v]
            /\ UNCHANGED memory
      BY <1>3 DEF Writing
    <2>2. Text' = Text
      BY <2>1 DEF Text, Exists
    <2>3. v = [text |-> Text[m], space |-> v.space]
      BY <2>1, TextOfRow DEF Vector
    <2>4. VI!OpenTo(v.space)
      BY <2>1 DEF SpaceOpen, VI!OpenTo
    <2>5. VI!Embed(m, v.space)
      BY <2>1, <2>2, <2>3, <2>4, TextOfRow DEF VI!Embed, Text
    <2> QED BY <2>1, <2>5 DEF VI!Next
  <1>4. CASE Rewriting
    <2>1. PICK m \in Memories, v \in Vector, r \in Row :
            /\ Exists(m) /\ v.text = r.content /\ v.space \in Spaces
            /\ SpaceOpen(v.space)
            /\ vectors' = [vectors EXCEPT ![m] = v]
            /\ memory' = [memory EXCEPT ![m] = r]
      BY <1>4 DEF Rewriting
    <2>2. Text' = [Text EXCEPT ![m] = r.content]
      BY <2>1 DEF Text, Exists, TypeOK
    <2>3. v = [text |-> r.content, space |-> v.space] /\ r.content \in Contents
      BY <2>1 DEF Vector, Row
    <2>4. VI!OpenTo(v.space)
      BY <2>1 DEF SpaceOpen, VI!OpenTo
    <2>5. VI!Rewrite(m, r.content, v.space)
      BY <2>1, <2>2, <2>3, <2>4, TextOfRow DEF VI!Rewrite, Text
    <2> QED BY <2>1, <2>3, <2>5 DEF VI!Next
  <1>5. CASE Purging
    <2>1. PICK m \in Memories :
            /\ Exists(m)
            /\ memory' = [memory EXCEPT ![m] = Purged]
            /\ vectors' = [vectors EXCEPT ![m] = None]
      BY <1>5 DEF Purging
    <2>2. Text' = [Text EXCEPT ![m] = None]
      BY <2>1 DEF Text, Exists, TypeOK
    <2>3. VI!Forget(m)
      BY <2>1, <2>2, TextOfRow DEF VI!Forget, Text
    <2> QED BY <2>3 DEF VI!Next
  <1>6. CASE Adopting
    <2>1. PICK s \in Spaces :
            /\ \A m \in Memories : vectors[m] # None => vectors[m].space \in {None, s}
            /\ vectors' = [m \in Memories |->
                             IF vectors[m] # None THEN [vectors[m] EXCEPT !.space = s]
                                                  ELSE None]
            /\ UNCHANGED memory
      BY <1>6 DEF Adopting
    <2>2. Text' = Text
      BY <2>1 DEF Text, Exists
    <2>3. VI!Adopt(s)
      BY <2>1, <2>2 DEF VI!Adopt, Text
    <2> QED BY <2>3 DEF VI!Next
  <1> QED BY <1>1, <1>2, <1>3, <1>4, <1>5, <1>6 DEF DataStep

LEMMA InitImplements == Init => VI!Init
  <1> SUFFICES ASSUME Init PROVE VI!Init
    OBVIOUS
  <1>1. PICK text \in [Legacy -> Contents] :
          /\ memory = [m \in Memories |->
                      IF m \in Legacy THEN [content |-> text[m], rev |-> 1]
                                      ELSE None]
          /\ vectors = [m \in Memories |->
                      IF m \in Legacy THEN [text |-> text[m], space |-> None]
                                      ELSE None]
    BY DEF Init
  <1>2. \A m \in Legacy : [content |-> text[m], rev |-> 1] \in Row
    BY DEF Row
  <1>3. \A m \in Memories : Exists(m) <=> m \in Legacy
    BY <1>1, <1>2, NoneAssumption DEF Exists
  <1>4. Text = [m \in Memories |-> IF m \in Legacy THEN text[m] ELSE None]
    BY <1>1, <1>3 DEF Text
  <1>5. /\ Text \in [Memories -> Contents \cup {None}]
        /\ \A m \in Memories : Text[m] # None <=> m \in Legacy
        /\ vectors = [m \in Memories |->
              IF m \in Legacy THEN [text |-> Text[m], space |-> None] ELSE None]
    BY <1>1, <1>4, LegacyAssumption, NoneAssumption
  <1> QED BY <1>5 DEF VI!Init, Text

(* The queue implements the index that searches rely on: seen through      *)
(* texts and vectors alone, every behaviour of threads, drainers,          *)
(* operators and crashes is a behaviour of VectorIndex.                    *)
THEOREM Refinement == Spec => ImplementsIndex
  <1>1. Init => VI!Init
    BY InitImplements
  <1>2. Inv /\ VectorFresh /\ Inv' /\ [Next]_vars => [VI!Next]_(VI!vars)
    BY StepsOnData, StepImplements DEF VI!vars, Text
  <1>3. Spec => []VectorFresh
    BY Freshness
  <1>4. Spec => []Inv
    BY InitInv, Inductive, PTL DEF Spec
  <1> QED BY <1>1, <1>2, <1>3, <1>4, PTL DEF Spec, ImplementsIndex, VI!Spec

-----------------------------------------------------------------------------
(* Receipts are only ever about a revision the row has or had, and vouch   *)
(* for the vector while the row still has it.                              *)
Sound(r) ==
    /\ memory[r.target] # None
    /\ Exists(r.target) => r.rev <= memory[r.target].rev
    /\ r.vector.space \in Spaces
    /\ Exists(r.target) /\ memory[r.target].rev = r.rev
         => memory[r.target].content = r.content /\ vectors[r.target] = r.vector

RInv == \A j \in JobIds : receipts[j] # None => Sound(receipts[j])

Completing ==
    \E m \in Memories, v \in Vector, j \in JobIds :
        /\ Exists(m) /\ v.text = memory[m].content /\ v.space \in Spaces
        /\ SpaceOpen(v.space)
        /\ vectors' = [vectors EXCEPT ![m] = v]
        /\ receipts' = [receipts EXCEPT ![j] =
             [target |-> m, content |-> memory[m].content,
              rev |-> memory[m].rev, vector |-> v]]
        /\ UNCHANGED memory

LEMMA StepsOnReceipts == Inv /\ [Next]_vars => UNCHANGED receipts \/ Completing
  <1>1. ASSUME NEW t \in Threads, ThreadNext(t) PROVE UNCHANGED receipts
    BY <1>1 DEF ThreadNext, ColdAdd, BeginUpdate, Backfill, Enqueue,
                EnqueueRefused, RereadText, ReadEntry, EmbedEntry, StoreEntry, EmbedNew,
                CommitUpdate, Abandon, db
  <1>2. ASSUME Inv, NEW d \in Drainers, DrainerNext(d) \/ FaultNext(d)
        PROVE  UNCHANGED receipts \/ Completing
    <2>1. CASE CompleteFresh(d)
      <3>1. Completing
        BY <1>2, <2>1, CompletionWrites DEF Completing
      <3> QED BY <3>1
    <2> QED
      BY <1>2, <2>1
         DEF DrainerNext, FaultNext, Startup, Fetch, EmbedJob, EmbedJobFails,
             CompleteStale, CompleteGone, CompleteRaises, MarkFailed, Crash,
             StartupResetFails, MarkFailedFails, db
  <1>3. ASSUME OperatorNext PROVE UNCHANGED receipts
    BY <1>3 DEF OperatorNext, CleanupDone, InsertUnqueued, PurgeRow, AdoptLegacySpace,
                SwitchProvider, db
  <1>4. ASSUME UNCHANGED vars PROVE UNCHANGED receipts
    BY <1>4 DEF vars
  <1> QED BY <1>1, <1>2, <1>3, <1>4 DEF Next

(* Whatever happens to its row, a sound receipt stays sound.               *)
LEMMA StaysSound ==
    ASSUME Inv, VectorFresh, DataStep, NEW r \in Receipt, Sound(r)
    PROVE  Sound(r)'
  <1> USE NoneAssumption
  <1> DEFINE n == r.target
  <1>1. /\ n \in Memories /\ r.rev \in Nat /\ r.vector \in Vector
        /\ r.vector # None
    BY DEF Receipt
  <1>2. /\ memory[n] # None
        /\ Exists(n) => memory[n] \in Row /\ r.rev <= memory[n].rev
        /\ r.vector.space \in Spaces
        /\ Exists(n) /\ memory[n].rev = r.rev
             => memory[n].content = r.content /\ vectors[n] = r.vector
    BY <1>1 DEF Inv, TypeOK, Sound, Exists
  <1>. /\ memory \in [Memories -> Row \cup {None, Purged}]
       /\ vectors \in [Memories -> Vector \cup {None}]
    BY DEF Inv, TypeOK
  <1> USE DEF Sound
  <1>3. ASSUME UNCHANGED <<memory, vectors>> PROVE Sound(r)'
    BY <1>1, <1>2, <1>3 DEF Exists
  <1>4. ASSUME Insertion PROVE Sound(r)'
    BY <1>1, <1>2, <1>4 DEF Insertion, Exists
  <1>5. ASSUME Writing PROVE Sound(r)'
    <2>1. PICK m \in Memories, v \in Vector :
            /\ Exists(m) /\ v.text = memory[m].content /\ v.space \in Spaces
            /\ SpaceOpen(v.space)
            /\ vectors' = [vectors EXCEPT ![m] = v]
            /\ UNCHANGED memory
      BY <1>5 DEF Writing
    <2>2. ASSUME m = n, memory[n].rev = r.rev PROVE v = r.vector
      <3>1. vectors[n] = r.vector /\ Exists(n) /\ memory[n].content = r.content
        BY <1>2, <2>1, <2>2
      <3>2. v.space = r.vector.space
        BY <1>1, <2>1, <2>2, <3>1 DEF SpaceOpen
      <3>3. v.text = r.vector.text
        BY <1>1, <2>1, <2>2, <3>1 DEF VectorFresh
      <3> QED BY <1>1, <3>2, <3>3 DEF Vector
    <2> QED BY <1>1, <1>2, <2>1, <2>2 DEF Exists
  <1>6. ASSUME Rewriting PROVE Sound(r)'
    <2>1. PICK m \in Memories, v \in Vector, q \in Row :
            /\ Exists(m) /\ memory[m] \in Row /\ q.rev > memory[m].rev
            /\ v.text = q.content /\ v.space \in Spaces /\ SpaceOpen(v.space)
            /\ vectors' = [vectors EXCEPT ![m] = v]
            /\ memory' = [memory EXCEPT ![m] = q]
      BY <1>6, Zenon DEF Rewriting
    <2>2. q.rev \in Nat /\ memory[m].rev \in Nat
      BY <2>1 DEF Row
    <2>3. ASSUME m # n PROVE Sound(r)'
      BY <1>1, <1>2, <2>1, <2>3 DEF Exists
    <2>4. ASSUME m = n PROVE Sound(r)'
      <3>1. memory'[n] = q /\ r.rev < q.rev /\ q # None
        BY <1>1, <1>2, <2>1, <2>2, <2>4
      <3> QED BY <1>1, <1>2, <2>2, <3>1 DEF Exists
    <2> QED BY <2>3, <2>4
  <1>7. ASSUME Purging PROVE Sound(r)'
    BY <1>1, <1>2, <1>7 DEF Purging, Exists
  <1>8. ASSUME Adopting PROVE Sound(r)'
    <2>1. PICK s \in Spaces :
            /\ \A m \in Memories : vectors[m] # None => vectors[m].space \in {None, s}
            /\ vectors' = [m \in Memories |->
                             IF vectors[m] # None THEN [vectors[m] EXCEPT !.space = s]
                                                  ELSE None]
            /\ UNCHANGED memory
      BY <1>8 DEF Adopting
    <2>2. ASSUME vectors[n] = r.vector PROVE vectors'[n] = r.vector
      <3>1. r.vector.space = s
        BY <1>1, <1>2, <2>1, <2>2
      <3>2. vectors'[n] = [r.vector EXCEPT !.space = s]
        BY <1>1, <2>1, <2>2
      <3> QED BY <1>1, <3>1, <3>2 DEF Vector
    <2> QED BY <1>1, <1>2, <2>1, <2>2 DEF Exists
  <1> QED BY <1>3, <1>4, <1>5, <1>6, <1>7, <1>8 DEF DataStep

LEMMA ReceiptStep ==
    ASSUME Inv, Inv', VectorFresh, RInv, DataStep, UNCHANGED receipts \/ Completing
    PROVE  RInv'
  <1> SUFFICES ASSUME NEW j \in JobIds, receipts'[j] # None
               PROVE  Sound(receipts[j])'
    BY DEF RInv
  <1>1. PICK r \in Receipt : r = receipts'[j]
    BY DEF Inv, TypeOK
  <1>2. ASSUME receipts[j] = r PROVE Sound(r)'
    BY <1>1, <1>2, StaysSound DEF RInv
  <1>3. ASSUME Completing, receipts[j] # r PROVE Sound(r)'
    <2>1. PICK m \in Memories, v \in Vector, k \in JobIds :
            /\ Exists(m) /\ v.space \in Spaces
            /\ vectors' = [vectors EXCEPT ![m] = v]
            /\ receipts' = [receipts EXCEPT ![k] =
                 [target |-> m, content |-> memory[m].content,
                  rev |-> memory[m].rev, vector |-> v]]
            /\ UNCHANGED memory
      BY <1>3 DEF Completing
    <2>2. memory[m] \in Row /\ memory[m].rev \in Nat /\ memory[m] # None
      BY <2>1, NoneAssumption DEF Inv, TypeOK, Exists, Row
    <2>3. r = [target |-> m, content |-> memory[m].content,
               rev |-> memory[m].rev, vector |-> v]
      BY <1>1, <1>3, <2>1 DEF Inv, TypeOK
    <2>4. vectors'[m] = v
      BY <2>1 DEF Inv, TypeOK
    <2> QED BY <2>1, <2>2, <2>3, <2>4 DEF Sound, Exists
  <1>4. Sound(r)'
    BY <1>1, <1>2, <1>3
  <1> QED BY <1>1, <1>4 DEF Sound, Exists

(* A receipt for the revision a row still has always vouches for the       *)
(* vector the index holds, so what reconcile.py concludes from it is true. *)
THEOREM ReceiptsTruthful == Spec => []ReceiptVouches
  <1>1. Init => RInv
    BY DEF Init, RInv
  <1>2. Inv /\ VectorFresh /\ RInv /\ Inv' /\ [Next]_vars => RInv'
    BY StepsOnData, StepsOnReceipts, ReceiptStep
  <1>3. RInv => ReceiptVouches
    BY DEF RInv, Sound, ReceiptVouches
  <1>4. Spec => []Inv
    BY InitInv, Inductive, PTL DEF Spec
  <1> QED BY <1>1, <1>2, <1>3, <1>4, Freshness, PTL DEF Spec

-----------------------------------------------------------------------------
(* A job that is done stays done.  The one step that could give a closed job *)
(* a new life is the insert of another under its number, so that numbers are *)
(* given out in order belongs to the invariant.                             *)

JobsInOrder == \A j \in JobIds : jobs[j] # None => j <= lastJob

DoneKept ==
    \A j \in JobIds :
        jobs[j] # None /\ jobs[j].status = "done"
            => jobs'[j] = None \/ jobs'[j].status = "done"

\* What every step but Enqueue does: it makes no job and opens no closed one.
OnlyOpenChange ==
    /\ lastJob' = lastJob
    /\ \A j \in JobIds : jobs[j] = None => jobs'[j] = None
    /\ DoneKept

LEMMA EnqueueKeepsDone ==
    ASSUME Inv, JobsInOrder, NEW t \in Threads, Enqueue(t)
    PROVE  DoneKept /\ JobsInOrder'
  <1> USE BoundsAssumption DEF Inv, TypeOK
  <1>1. lastJob + 1 \in JobIds /\ lastJob' = lastJob + 1
    BY DEF Enqueue, JobIds
  <1>2. \A j \in JobIds : j # lastJob + 1 => jobs'[j] = jobs[j]
    BY DEF Enqueue
  <1>3. jobs[lastJob + 1] = None
    BY <1>1 DEF JobsInOrder
  <1>4. DoneKept
    BY <1>2, <1>3 DEF DoneKept
  <1>5. JobsInOrder'
    BY <1>1, <1>2 DEF JobsInOrder, JobIds
  <1> QED BY <1>4, <1>5

LEMMA ThreadKeepsDone ==
    ASSUME Inv, NEW t \in Threads, ThreadNext(t), ~ Enqueue(t)
    PROVE  OnlyOpenChange
  <1>1. ASSUME CommitUpdate(t) PROVE OnlyOpenChange
    BY <1>1 DEF CommitUpdate, Superseded, OnlyOpenChange, DoneKept, Inv, TypeOK, Job
  <1>2. ASSUME ~ CommitUpdate(t) PROVE UNCHANGED <<jobs, lastJob>>
    BY <1>2 DEF ThreadNext, ColdAdd, BeginUpdate, Backfill, EnqueueRefused, RereadText,
                ReadEntry, EmbedEntry, StoreEntry, EmbedNew, Abandon, db
  <1> QED BY <1>1, <1>2 DEF OnlyOpenChange, DoneKept

\* A drainer writes to one job, which is running or, when it takes it, may be
\* tried, or it resets those that run.
LEMMA DrainerKeepsDone ==
    ASSUME Inv, NEW d \in Drainers, DrainerNext(d) \/ FaultNext(d)
    PROVE  OnlyOpenChange
  <1> USE NoneAssumption DEF Inv, TypeOK
  <1>1. lastJob' = lastJob
    BY DEF DrainerNext, FaultNext, Startup, Fetch, EmbedJob, EmbedJobFails, CompleteFresh,
           CompleteStale, CompleteGone, CompleteRaises, MarkFailed, Crash,
           StartupResetFails, MarkFailedFails, db
  <1>2. CASE Startup(d)
    BY <1>1, <1>2 DEF Startup, ResetRunning, OnlyOpenChange, DoneKept
  <1>3. CASE Fetch(d)
    <2>1. PICK j \in JobIds : Retryable(j) /\ jobs' = [jobs EXCEPT ![j].status = "running"]
      BY <1>3 DEF Fetch
    <2>2. jobs[j] # None /\ jobs[j].status # "done"
      BY <2>1 DEF Retryable
    <2>3. \A k \in JobIds : k # j => jobs'[k] = jobs[k]
      BY <2>1
    <2> QED BY <1>1, <2>2, <2>3 DEF OnlyOpenChange, DoneKept
  <1>4. ASSUME NEW j \in JobIds, jobs[j] # None, jobs[j].status = "running",
               \A k \in JobIds : k # j => jobs'[k] = jobs[k]
        PROVE  OnlyOpenChange
    BY <1>1, <1>4 DEF OnlyOpenChange, DoneKept
  <1>5. ASSUME drainer[d].pc \in {"complete", "fail"}
        PROVE  drainer[d].claim.id \in JobIds
    BY <1>5 DEF DrainerHolds, DrainerState, Claim
  <1>6. CASE CompleteFresh(d) \/ CompleteStale(d)
    <2> DEFINE j == drainer[d].claim.id
    <2>1. j \in JobIds /\ jobs[j] # None /\ jobs[j].status = "running"
      BY <1>5, <1>6 DEF CompleteFresh, CompleteStale, StillRunning
    <2>2. jobs' = [jobs EXCEPT ![j].status = "done"]
      BY <1>6 DEF CompleteFresh, CompleteStale
    <2>3. \A k \in JobIds : k # j => jobs'[k] = jobs[k]
      BY <2>1, <2>2
    <2> QED BY <1>4, <2>1, <2>3
  <1>7. CASE MarkFailed(d)
    <2> DEFINE j == drainer[d].claim.id
    <2>1. j \in JobIds
      BY <1>5, <1>7 DEF MarkFailed
    <2>2. CASE StillRunning(drainer[d].claim)
      <3>1. jobs[j] # None /\ jobs[j].status = "running"
        BY <2>2 DEF StillRunning
      <3>2. \A k \in JobIds : k # j => jobs'[k] = jobs[k]
        BY <1>7, <2>1, <2>2 DEF MarkFailed
      <3> QED BY <1>4, <2>1, <3>1, <3>2
    <2>3. CASE ~ StillRunning(drainer[d].claim)
      BY <1>1, <1>7, <2>3 DEF MarkFailed, OnlyOpenChange, DoneKept
    <2> QED BY <2>2, <2>3
  <1>8. CASE UNCHANGED jobs
    BY <1>1, <1>8 DEF OnlyOpenChange, DoneKept
  <1>9. CASE FaultNext(d) \/ EmbedJob(d) \/ EmbedJobFails(d) \/ CompleteGone(d)
             \/ CompleteRaises(d)
    <2>1. UNCHANGED jobs
      BY <1>9 DEF FaultNext, EmbedJob, EmbedJobFails, CompleteGone, CompleteRaises, Crash,
                  StartupResetFails, MarkFailedFails, db
    <2> QED BY <1>8, <2>1
  <1> QED BY <1>2, <1>3, <1>6, <1>7, <1>9 DEF DrainerNext

LEMMA OperatorKeepsDone ==
    ASSUME Inv, OperatorNext
    PROVE  OnlyOpenChange
  BY
     DEF Inv, TypeOK, OperatorNext, CleanupDone, InsertUnqueued, PurgeRow, AdoptLegacySpace, SwitchProvider,
         OnlyOpenChange, DoneKept, db

LEMMA DoneStep ==
    ASSUME Inv, JobsInOrder, [Next]_vars
    PROVE  DoneKept /\ JobsInOrder'
  <1>1. ASSUME OnlyOpenChange PROVE DoneKept /\ JobsInOrder'
    BY <1>1 DEF OnlyOpenChange, JobsInOrder
  <1>2. CASE UNCHANGED vars
    BY <1>1, <1>2 DEF vars, OnlyOpenChange, DoneKept
  <1>3. ASSUME NEW t \in Threads, ThreadNext(t) PROVE DoneKept /\ JobsInOrder'
    BY <1>1, <1>3, EnqueueKeepsDone, ThreadKeepsDone
  <1>4. ASSUME NEW d \in Drainers, DrainerNext(d) \/ FaultNext(d)
        PROVE  DoneKept /\ JobsInOrder'
    BY <1>1, <1>4, DrainerKeepsDone
  <1>5. CASE OperatorNext
    BY <1>1, <1>5, OperatorKeepsDone
  <1> QED BY <1>2, <1>3, <1>4, <1>5 DEF Next

\* A job that was closed is never opened again, whatever drainers that still
\* hold it, restarts and rewrites do afterwards, for any number of them.
THEOREM DoneStaysDone == Spec => DoneIsFinal
  <1>1. Init => JobsInOrder
    BY DEF Init, JobsInOrder
  <1>2. Inv /\ JobsInOrder /\ [Next]_vars => JobsInOrder'
    BY DoneStep
  <1>3. ASSUME Inv, JobsInOrder, [Next]_vars
        PROVE  [\A j \in JobIds :
                  jobs[j] # None /\ jobs[j].status = "done"
                    => jobs'[j] = None \/ jobs'[j].status = "done"]_vars
    BY <1>3, DoneStep DEF DoneKept
  <1> QED BY <1>1, <1>2, <1>3, InitInv, Inductive, PTL DEF Spec, DoneIsFinal

-----------------------------------------------------------------------------
(* No job is closed over a row it leaves invisible.  Why the two ways to    *)
(* close a job without storing its vector do no harm: a rewrite stores one  *)
(* itself, and a stale job is stale because the row has been rewritten or   *)
(* has a newer job, not because the claim is an old one of the same job.    *)

\* A row that was ever rewritten has a vector.
Versioned ==
    \A m \in Memories : Exists(m) =>
        /\ memory[m].rev >= 1
        /\ memory[m].rev > 1 => vectors[m] # None

\* A thread enqueues rows that were inserted.
RowsHeld ==
    \A t \in Threads :
        thread[t].pc \in {"reread", "enqueue"} => memory[thread[t].mem] # None

\* A job was enqueued for a revision its row has or had, with its content.
FitsRow(job) ==
    /\ memory[job.target] # None
    /\ Exists(job.target) =>
         /\ job.version # None
         /\ job.version >= 1 /\ job.version <= memory[job.target].rev
         /\ job.version = memory[job.target].rev => job.content = memory[job.target].content

JobsFit == \A j \in JobIds : jobs[j] # None => FitsRow(jobs[j])

Agrees(job, claim) ==
    job.target = claim.target /\ job.content = claim.content /\ job.attempts = claim.attempts

\* A claim whose job still runs is a claim of this run of it.
ClaimsHeld ==
    \A d \in Drainers :
        drainer[d].pc \in {"embed", "complete", "fail"} /\ StillRunning(drainer[d].claim)
            => Agrees(jobs[drainer[d].claim.id], drainer[d].claim)

IndexInv ==
    JobsInOrder /\ Versioned /\ RowsHeld /\ JobsFit /\ ClaimsHeld /\ DoneMeansIndexed

LEMMA RowsMove ==
    ASSUME Inv, Inv', DataStep, NEW m \in Memories, memory[m] # None
    PROVE  /\ memory'[m] # None
           /\ Exists(m)' =>
                /\ Exists(m)
                /\ memory[m] \in Row /\ memory'[m] \in Row
                /\ memory'[m].rev >= memory[m].rev
                /\ memory'[m].rev = memory[m].rev => memory'[m] = memory[m]
                /\ vectors[m] # None => vectors'[m] # None
  <1> USE NoneAssumption
  <1>1. /\ memory \in [Memories -> Row \cup {None, Purged}]
        /\ memory' \in [Memories -> Row \cup {None, Purged}]
        /\ vectors \in [Memories -> Vector \cup {None}]
        /\ \A r \in Row : r.rev \in Nat
    BY DEF Inv, TypeOK, Row
  <1>2. CASE UNCHANGED <<memory, vectors>>
    BY <1>1, <1>2 DEF Exists
  <1>3. CASE Insertion
    BY <1>1, <1>3 DEF Insertion, Exists
  <1>4. CASE Writing
    BY <1>1, <1>4 DEF Writing, Exists
  <1>5. CASE Rewriting
    BY <1>1, <1>5 DEF Rewriting, Exists
  <1>6. CASE Purging
    BY <1>1, <1>6 DEF Purging, Exists
  <1>7. CASE Adopting
    <2>1. vectors[m] # None => vectors'[m] # None
      <3>1. PICK s \in Spaces : vectors' = [n \in Memories |->
               IF vectors[n] # None THEN [vectors[n] EXCEPT !.space = s] ELSE None]
        BY <1>7 DEF Adopting
      <3>2. vectors[m] # None => [vectors[m] EXCEPT !.space = s] \in Vector
        BY <1>1 DEF Vector
      <3> QED BY <3>1, <3>2
    <2> QED BY <1>1, <1>7, <2>1 DEF Adopting, Exists
  <1> QED BY <1>2, <1>3, <1>4, <1>5, <1>6, <1>7 DEF DataStep

LEMMA VersionedStep ==
    ASSUME Inv, Inv', Versioned, DataStep
    PROVE  Versioned'
  <1> SUFFICES ASSUME NEW m \in Memories, Exists(m)'
               PROVE  memory'[m].rev >= 1 /\ (memory'[m].rev > 1 => vectors'[m] # None)
    BY DEF Versioned
  <1>1. CASE memory[m] # None
    <2>1. /\ Exists(m) /\ memory[m] \in Row /\ memory'[m] \in Row
          /\ memory'[m].rev >= memory[m].rev
          /\ vectors[m] # None => vectors'[m] # None
      BY <1>1, RowsMove
    <2>2. CASE memory'[m] = memory[m]
      BY <2>1, <2>2 DEF Versioned
    <2>3. CASE memory'[m] # memory[m]
      <3>1. CASE Rewriting
        <4>1. PICK n \in Memories, v \in Vector, r \in Row :
                /\ vectors' = [vectors EXCEPT ![n] = v]
                /\ memory' = [memory EXCEPT ![n] = r]
          BY <3>1 DEF Rewriting
        <4>2. n = m /\ vectors'[m] = v
          BY <2>3, <4>1 DEF Inv, TypeOK
        <4> QED BY <2>1, <4>2, NoneAssumption DEF Versioned, Row
      <3> QED
        BY <2>1, <2>3, <3>1, <1>1, NoneAssumption
           DEF DataStep, Insertion, Writing, Purging, Adopting, Exists, Inv, TypeOK
    <2> QED BY <2>2, <2>3
  <1>2. CASE memory[m] = None
    <2>1. Insertion
      BY <1>2, NoneAssumption
         DEF DataStep, Insertion, Writing, Rewriting, Purging, Adopting, Exists, Inv, TypeOK
    <2>2. memory'[m].rev = 1
      BY <1>2, <2>1 DEF Insertion, Exists, Inv, TypeOK
    <2> QED BY <2>2
  <1> QED BY <1>1, <1>2

LEMMA RowsHeldStep ==
    ASSUME Inv, Inv', RowsHeld, DataStep, Next
    PROVE  RowsHeld'
  <1> SUFFICES ASSUME NEW t \in Threads, thread'[t].pc \in {"reread", "enqueue"}
               PROVE  memory'[thread'[t].mem] # None
    BY DEF RowsHeld
  <1>1. CASE thread'[t] = thread[t]
    <2>1. thread[t].mem \in Memories /\ memory[thread[t].mem] # None
      BY <1>1, NoneAssumption DEF RowsHeld, Inv, TypeOK, ThreadState, ThreadHolds, WellHeld
    <2> QED BY <1>1, <2>1, RowsMove
  <1>2. CASE ThreadNext(t)
    <2>1. ASSUME NEW m \in Memories, NEW c \in Contents, ColdAdd(t, m, c)
          PROVE  memory'[thread'[t].mem] # None
      <3>1. thread'[t].mem = m
        BY <2>1 DEF ColdAdd, Inv, TypeOK, Waiting
      <3>2. memory'[m] = [content |-> c, rev |-> 1] /\ [content |-> c, rev |-> 1] \in Row
        BY <2>1 DEF ColdAdd, Inv, TypeOK, Row
      <3> QED BY <3>1, <3>2, NoneAssumption
    <2>2. CASE RereadText(t)
      <3>1. Exists(thread[t].mem) /\ thread'[t].mem = thread[t].mem
        BY <1>2, <2>2 DEF RereadText, Inv, TypeOK, Waiting
      <3> QED BY <2>2, <3>1 DEF RereadText, Exists, db
    <2>3. thread \in [Threads -> ThreadState]
      BY DEF Inv, TypeOK
    <2>4. CASE EmbedEntry(t) \/ EmbedNew(t)
      <3>1. thread'[t].pc \in {"store", "update"}
        BY <2>3, <2>4 DEF EmbedEntry, EmbedNew, ThreadState
      <3> QED BY <3>1
    <2>5. ASSUME thread' = [thread EXCEPT ![t] = Waiting] PROVE thread'[t].pc = "idle"
      BY <2>3, <2>5 DEF Waiting
    <2>6. CASE Enqueue(t) \/ StoreEntry(t) \/ CommitUpdate(t) \/ Abandon(t)
      BY <2>5, <2>6 DEF Enqueue, StoreEntry, CommitUpdate, Abandon
    <2>7. CASE EnqueueRefused(t) \/ ReadEntry(t)
      <3>1. CASE ReadEntry(t) /\ Exists(thread[t].mem)
        BY <2>3, <3>1 DEF ReadEntry, Waiting
      <3>2. CASE ReadEntry(t) /\ ~ Exists(thread[t].mem)
        BY <2>5, <3>2 DEF ReadEntry
      <3>3. CASE EnqueueRefused(t)
        BY <2>3, <3>3 DEF EnqueueRefused, Waiting
      <3> QED BY <2>7, <3>1, <3>2, <3>3
    <2>8. ASSUME NEW m \in Memories, NEW c \in Contents, BeginUpdate(t, m, c)
          PROVE  memory'[thread'[t].mem] # None
      <3>1. thread'[t].pc = "embedNew"
        BY <2>3, <2>8 DEF BeginUpdate, Waiting
      <3> QED BY <3>1
    <2>9. ASSUME NEW m \in Memories, Backfill(t, m) PROVE memory'[thread'[t].mem] # None
      <3>1. thread'[t].pc = "read"
        BY <2>3, <2>9 DEF Backfill, Waiting
      <3> QED BY <3>1
    <2> QED BY <1>2, <2>1, <2>2, <2>4, <2>6, <2>7, <2>8, <2>9 DEF ThreadNext
  <1>3. ASSUME NEW u \in Threads, u # t, ThreadNext(u)
        PROVE  thread'[t] = thread[t]
    BY <1>3 DEF ThreadNext, ColdAdd, BeginUpdate, Backfill, Enqueue, EnqueueRefused,
                RereadText, ReadEntry, EmbedEntry, StoreEntry, EmbedNew, CommitUpdate,
                Abandon, Inv, TypeOK
  <1> QED
    BY <1>1, <1>2, <1>3, DrainerLeavesThreads, OperatorLeavesProcesses DEF Next

\* What a step other than Enqueue may do to job j.
Continues(j) ==
    jobs'[j] # None =>
        /\ jobs[j] # None /\ jobs'[j].target = jobs[j].target
        /\ jobs'[j].content = jobs[j].content /\ jobs'[j].version = jobs[j].version

\* And what a thread or an operator may do to a job that a drainer holds.
Untouched(j) ==
    jobs'[j] # None =>
        /\ jobs'[j].attempts = jobs[j].attempts
        /\ jobs'[j].status = "running" => jobs[j].status = "running"

\* The job is closed by the step, with a good reason.
ClosedIndexed(j) ==
    jobs'[j] # None /\ jobs'[j].status = "done" /\ jobs[j].status # "done"
            /\ Exists(jobs[j].target)'
        => \/ vectors'[jobs[j].target] # None
           \/ \E k \in JobIds : /\ k > j /\ jobs[k] # None
                                  /\ jobs[k].target = jobs[j].target

LEMMA ThreadOnJobs ==
    ASSUME Inv, NEW t \in Threads, ThreadNext(t), ~ Enqueue(t), NEW j \in JobIds
    PROVE  /\ Continues(j) /\ Untouched(j) /\ ClosedIndexed(j)
           /\ jobs[j] # None => jobs'[j] # None
  <1> USE NoneAssumption DEF Continues, Untouched, ClosedIndexed
  <1>1. CASE UNCHANGED jobs
    BY <1>1
  <1>2. CASE CommitUpdate(t) /\ ~ UNCHANGED jobs
    <2>1. /\ jobs' = [k \in JobIds |->
                IF Superseded(k, thread[t].mem) THEN [jobs[k] EXCEPT !.status = "done"]
                                                ELSE jobs[k]]
          /\ vectors' = [vectors EXCEPT ![thread[t].mem] = thread[t].vec]
      BY <1>2 DEF CommitUpdate
    <2>2. CASE ~ Superseded(j, thread[t].mem)
      BY <2>1, <2>2
    <2>3. CASE Superseded(j, thread[t].mem)
      <3>1. jobs[j] \in Job /\ jobs[j] # None /\ jobs[j].target = thread[t].mem
        BY <2>3 DEF Superseded, Inv, TypeOK
      <3>2. jobs'[j] = [jobs[j] EXCEPT !.status = "done"] /\ jobs'[j] \in Job
        BY <2>1, <2>3, <3>1 DEF Job, Statuses
      <3>3. vectors'[jobs[j].target] # None
        BY <1>2, <2>1, <3>1 DEF Inv, TypeOK, ThreadHolds, WellHeld, CommitUpdate, Job
      <3>4. /\ jobs'[j].target = jobs[j].target /\ jobs'[j].content = jobs[j].content
            /\ jobs'[j].version = jobs[j].version /\ jobs'[j].attempts = jobs[j].attempts
            /\ jobs'[j].status = "done"
        BY <3>1, <3>2 DEF Job
      <3> QED BY <3>1, <3>2, <3>3, <3>4
    <2> QED BY <2>2, <2>3
  <1> QED
    BY <1>1, <1>2
       DEF ThreadNext, ColdAdd, BeginUpdate, Backfill, EnqueueRefused, RereadText,
           ReadEntry, EmbedEntry, StoreEntry, EmbedNew, Abandon, db

\* A claim that still runs is stale only when its row changed or has a newer job.
LEMMA StaleForAReason ==
    ASSUME Inv, JobsFit, Versioned, ClaimsHeld, NEW d \in Drainers, CompleteStale(d)
    PROVE  LET j == drainer[d].claim.id
           IN  /\ j \in JobIds /\ jobs[j] \in Job /\ jobs[j] # None
               /\ Exists(jobs[j].target) =>
                    \/ vectors[jobs[j].target] # None
                    \/ HasNewerJob(j)
  <1> DEFINE claim == drainer[d].claim
             j == claim.id
             job == jobs[j]
  <1>1. j \in JobIds /\ job # None /\ job \in Job
    BY DEF CompleteStale, Inv, DrainerHolds, TypeOK, DrainerState, Claim, StillRunning
  <1>2. Agrees(job, claim)
    BY DEF CompleteStale, ClaimsHeld
  <1>3. ASSUME Exists(job.target), ~ HasNewerJob(j)
        PROVE  vectors[job.target] # None
    <2>1. /\ job.target \in Memories /\ memory[job.target] \in Row
      BY <1>1, <1>3 DEF Job, Inv, TypeOK, Exists
    <2>2. FitsRow(job)
      BY <1>1 DEF JobsFit
    <2>3. memory[job.target] # [content |-> job.content, rev |-> job.version]
      BY <1>2, <1>3, <2>2 DEF CompleteStale, Valid, Agrees, EntryMatches, FitsRow
    <2>4. memory[job.target] =
            [content |-> memory[job.target].content, rev |-> memory[job.target].rev]
      BY <2>1 DEF Row
    <2>5. job.version # memory[job.target].rev
      BY <1>3, <2>2, <2>3, <2>4 DEF FitsRow
    <2>6. memory[job.target].rev \in Nat /\ job.version \in Nat
      BY <1>1, <1>3, <2>1, <2>2 DEF Row, Job, FitsRow
    <2>7. memory[job.target].rev > 1
      <3>1. 1 <= job.version /\ job.version <= memory[job.target].rev
        BY <1>3, <2>2 DEF FitsRow
      <3> QED BY <2>5, <2>6, <3>1
    <2> QED BY <1>3, <2>1, <2>7 DEF Versioned
  <1> QED BY <1>1, <1>3

LEMMA DrainerOnJobs ==
    ASSUME Inv, JobsFit, Versioned, ClaimsHeld,
           NEW d \in Drainers, DrainerNext(d) \/ FaultNext(d), NEW j \in JobIds
    PROVE  /\ Continues(j) /\ ClosedIndexed(j)
           /\ jobs[j] # None => jobs'[j] # None
  <1> USE NoneAssumption
  <1>. jobs \in [JobIds -> Job \cup {None}]
    BY DEF Inv, TypeOK
  <1>1. CASE UNCHANGED jobs
    BY <1>1 DEF Continues, ClosedIndexed
  <1>2. ASSUME NEW i \in JobIds, jobs[i] \in Job, NEW st \in Statuses \ {"done"},
               NEW n \in 0..MaxAttempts, jobs[i] # None,
               jobs' = [jobs EXCEPT ![i] = [jobs[i] EXCEPT !.status = st, !.attempts = n]]
        PROVE  /\ Continues(j) /\ ClosedIndexed(j)
               /\ jobs[j] # None => jobs'[j] # None
    <2>1. CASE j # i
      BY <1>2, <2>1 DEF Continues, ClosedIndexed
    <2>2. CASE j = i
      <3>1. jobs'[i] = [jobs[i] EXCEPT !.status = st, !.attempts = n] /\ jobs'[i] \in Job
        BY <1>2 DEF Job
      <3> QED BY <1>2, <2>2, <3>1 DEF Continues, ClosedIndexed, Job
    <2> QED BY <2>1, <2>2
  <1>3. CASE Startup(d)
    <2>1. jobs' = ResetRunning
      BY <1>3 DEF Startup
    <2>2. CASE jobs[j] # None /\ jobs[j].status = "running"
      <3>1. jobs[j] \in Job /\ jobs'[j] = [jobs[j] EXCEPT !.status = "pending"]
        BY <2>1, <2>2 DEF ResetRunning
      <3>2. jobs'[j] \in Job
        BY <3>1 DEF Job, Statuses
      <3> QED BY <2>2, <3>1, <3>2 DEF Continues, ClosedIndexed, Job
    <2>3. CASE ~(jobs[j] # None /\ jobs[j].status = "running")
      BY <2>1, <2>3 DEF ResetRunning, Continues, ClosedIndexed
    <2> QED BY <2>2, <2>3
  <1>4. CASE Fetch(d)
    <2>1. PICK i \in JobIds : Retryable(i) /\ jobs' = [jobs EXCEPT ![i].status = "running"]
      BY <1>4 DEF Fetch
    <2>2. jobs[i] \in Job /\ jobs[i] # None
      BY <2>1 DEF Retryable
    <2>3. /\ [jobs[i] EXCEPT !.status = "running"]
                = [jobs[i] EXCEPT !.status = "running", !.attempts = jobs[i].attempts]
          /\ jobs[i].attempts \in 0..MaxAttempts
      BY <2>2 DEF Job
    <2> QED BY <1>2, <2>1, <2>2, <2>3 DEF Statuses
  <1>5. CASE CompleteFresh(d) \/ CompleteStale(d)
    <2>1. PICK i \in JobIds :
            /\ i = drainer[d].claim.id /\ jobs[i] \in Job /\ jobs[i] # None
      BY <1>5 DEF CompleteFresh, CompleteStale, Inv, TypeOK, DrainerHolds, DrainerState,
                  Claim, StillRunning
    <2>2. jobs' = [jobs EXCEPT ![i].status = "done"]
      BY <1>5, <2>1 DEF CompleteFresh, CompleteStale
    <2>3. Exists(jobs[i].target)' =>
            \/ vectors'[jobs[i].target] # None
            \/ \E k \in JobIds : /\ k > i /\ jobs[k] # None
                                   /\ jobs[k].target = jobs[i].target
      <3>1. CASE CompleteFresh(d)
        <4>1. /\ vectors' = [vectors EXCEPT ![jobs[i].target] = drainer[d].vec]
              /\ drainer[d].vec # None
          BY <2>1, <3>1 DEF CompleteFresh, Inv, DrainerHolds
        <4> QED BY <2>1, <4>1 DEF Inv, TypeOK, Job
      <3>2. CASE CompleteStale(d)
        <4>1. UNCHANGED <<memory, vectors>>
          BY <3>2 DEF CompleteStale
        <4>2. Exists(jobs[i].target) => vectors[jobs[i].target] # None \/ HasNewerJob(i)
          BY <2>1, <3>2, StaleForAReason
        <4>3. Exists(jobs[i].target)' => Exists(jobs[i].target)
          BY <2>1, <2>2, <4>1 DEF Exists, Job
        <4> QED BY <4>1, <4>2, <4>3 DEF HasNewerJob
      <3> QED BY <1>5, <3>1, <3>2
    <2>4. CASE j # i
      BY <2>1, <2>2, <2>4 DEF Continues, ClosedIndexed
    <2>5. CASE j = i
      <3>1. jobs'[i] = [jobs[i] EXCEPT !.status = "done"] /\ jobs'[i] \in Job
        BY <2>1, <2>2 DEF Job, Statuses
      <3>2. /\ jobs'[i] # None /\ jobs'[i].target = jobs[i].target
            /\ jobs'[i].content = jobs[i].content /\ jobs'[i].version = jobs[i].version
        BY <2>1, <3>1 DEF Job
      <3> QED BY <2>1, <2>3, <2>5, <3>2 DEF Continues, ClosedIndexed
    <2> QED BY <2>4, <2>5
  <1>6. CASE MarkFailed(d)
    <2> DEFINE i == drainer[d].claim.id
    <2>1. CASE ~ StillRunning(drainer[d].claim)
      BY <1>1, <1>6, <2>1 DEF MarkFailed
    <2>2. CASE StillRunning(drainer[d].claim)
      <3>1. i \in JobIds /\ jobs[i] \in Job /\ jobs[i] # None
        BY <1>6, <2>2 DEF MarkFailed, Inv, TypeOK, DrainerHolds, DrainerState, Claim,
                          StillRunning
      <3>2. jobs' = [jobs EXCEPT ![i] =
              [jobs[i] EXCEPT !.status = "failed", !.attempts = jobs[i].attempts + 1]]
        BY <1>6, <2>2 DEF MarkFailed
      <3>3. jobs[i].attempts + 1 \in 0..MaxAttempts
        BY <2>2, <3>1, BoundsAssumption DEF Inv, AttemptLeft, StillRunning, Job
      <3> HIDE DEF i
      <3> QED BY <1>2, <3>1, <3>2, <3>3 DEF Statuses
    <2> QED BY <2>1, <2>2
  <1>7. CASE FaultNext(d) \/ EmbedJob(d) \/ EmbedJobFails(d) \/ CompleteGone(d)
             \/ CompleteRaises(d)
    <2>1. UNCHANGED jobs
      BY <1>7 DEF FaultNext, EmbedJob, EmbedJobFails, CompleteGone, CompleteRaises, Crash,
                  StartupResetFails, MarkFailedFails, db
    <2> QED BY <1>1, <2>1
  <1> QED BY <1>3, <1>4, <1>5, <1>6, <1>7 DEF DrainerNext

LEMMA OperatorOnJobs ==
    ASSUME Inv, OperatorNext, NEW j \in JobIds
    PROVE  /\ Continues(j) /\ Untouched(j)
           /\ jobs'[j] # None => jobs'[j] = jobs[j]
  BY
     DEF Inv, TypeOK, OperatorNext, CleanupDone, InsertUnqueued, PurgeRow, AdoptLegacySpace, SwitchProvider,
         Continues, Untouched, db

\* A new job is for the row as it is, and none of those that were there.
LEMMA EnqueueOnJobs ==
    ASSUME Inv, JobsInOrder, RowsHeld, Versioned, NEW t \in Threads, Enqueue(t)
    PROVE  \E n \in JobIds :
             /\ jobs[n] = None /\ jobs'[n] # None /\ jobs'[n].status = "pending"
             /\ FitsRow(jobs[n])'
             /\ \A j \in JobIds : j # n => jobs'[j] = jobs[j]
  <1> USE NoneAssumption
  <1> DEFINE job == [status |-> "pending", attempts |-> 0, target |-> thread[t].mem,
                     content |-> thread[t].text,
                     version |-> IF Exists(thread[t].mem) THEN memory[thread[t].mem].rev
                                                          ELSE None]
  <1>1. PICK n \in JobIds : n = lastJob + 1 /\ jobs[n] = None
    BY BoundsAssumption DEF Enqueue, JobIds, JobsInOrder, Inv, TypeOK
  <1>2. PICK m \in Memories : m = thread[t].mem /\ memory[m] # None
    BY DEF Enqueue, RowsHeld, Inv, TypeOK, ThreadHolds, WellHeld, ThreadState
  <1>3. Exists(m) => memory[m] \in Row /\ memory[m].rev \in Nat /\ memory[m].rev >= 1
                       /\ memory[m].content = thread[t].text
    BY <1>2 DEF Enqueue, Versioned, Inv, TypeOK, Exists, Row
  <1>4. jobs'[n] = job /\ UNCHANGED memory
    BY <1>1 DEF Enqueue, Inv, TypeOK
  <1>5. job \in Job
    BY <1>2, <1>3, BoundsAssumption
       DEF Job, Statuses, Enqueue, Inv, TypeOK, ThreadHolds, WellHeld, ThreadState
  <1>6. FitsRow(jobs[n])'
    <2>1. jobs'[n].target = m /\ jobs'[n].content = thread[t].text
          /\ jobs'[n].version = IF Exists(m) THEN memory[m].rev ELSE None
      BY <1>2, <1>4
    <2> HIDE DEF job
    <2> QED BY <1>2, <1>3, <1>4, <2>1 DEF FitsRow, Exists
  <1>7. \A j \in JobIds : j # n => jobs'[j] = jobs[j]
    BY <1>1 DEF Enqueue
  <1>8. jobs'[n].status = "pending" /\ jobs'[n] # None
    BY <1>4, <1>5
  <1> QED BY <1>1, <1>6, <1>7, <1>8

LEMMA FitKept ==
    ASSUME Inv, Inv', DataStep, NEW j \in JobIds, jobs[j] # None, FitsRow(jobs[j]),
           Continues(j), jobs'[j] # None
    PROVE  FitsRow(jobs[j])'
  <1>1. /\ jobs[j] \in Job /\ jobs[j].target \in Memories
        /\ memory[jobs[j].target] # None
        /\ jobs'[j].target = jobs[j].target /\ jobs'[j].content = jobs[j].content
        /\ jobs'[j].version = jobs[j].version
    BY DEF Inv, TypeOK, Job, FitsRow, Continues
  <1>2. \A r \in Row : r.rev \in Nat
    BY DEF Row
  <1>3. CASE Exists(jobs[j].target)'
    <2>1. /\ Exists(jobs[j].target)
          /\ jobs[j].version # None /\ jobs[j].version \in Nat
          /\ jobs[j].version >= 1 /\ jobs[j].version <= memory[jobs[j].target].rev
          /\ jobs[j].version = memory[jobs[j].target].rev
               => jobs[j].content = memory[jobs[j].target].content
      BY <1>1, <1>3, RowsMove DEF FitsRow, Job
    <2> QED BY <1>1, <1>2, <1>3, <2>1, RowsMove DEF FitsRow
  <1>4. CASE ~ Exists(jobs[j].target)'
    BY <1>1, <1>4, RowsMove DEF FitsRow, Exists
  <1> QED BY <1>3, <1>4

LEMMA JobsFitStep ==
    ASSUME Inv, Inv', IndexInv, DataStep, [Next]_vars
    PROVE  JobsFit'
  <1> SUFFICES ASSUME NEW j \in JobIds, jobs'[j] # None
               PROVE  FitsRow(jobs[j])'
    BY DEF JobsFit
  <1> USE DEF IndexInv
  <1>1. CASE Continues(j)
    BY <1>1, FitKept DEF JobsFit, Continues
  <1>2. ASSUME NEW t \in Threads, Enqueue(t) PROVE FitsRow(jobs[j])'
    <2>1. CASE jobs'[j] = jobs[j]
      BY <1>1, <2>1 DEF Continues
    <2> QED BY <1>2, <2>1, EnqueueOnJobs
  <1>3. CASE UNCHANGED vars
    BY <1>1, <1>3 DEF vars, Continues
  <1> QED BY <1>1, <1>2, <1>3, ThreadOnJobs, DrainerOnJobs, OperatorOnJobs DEF Next

\* With one drainer nobody else takes the job that it holds: a second one
\* would reset it at its start and try it again.
LEMMA ClaimsHeldStep ==
    ASSUME Inv, Inv', IndexInv, [Next]_vars, NEW d, Drainers = {d}
    PROVE  ClaimsHeld'
  <1> USE NoneAssumption
  <1> SUFFICES ASSUME drainer'[d].pc \in {"embed", "complete", "fail"},
                      StillRunning(drainer[d].claim)'
               PROVE  Agrees(jobs[drainer[d].claim.id], drainer[d].claim)'
    BY DEF ClaimsHeld
  <1>. drainer \in [Drainers -> DrainerState] /\ d \in Drainers
    BY DEF Inv, TypeOK
  <1>1. drainer'[d].claim \in Claim /\ drainer'[d].claim.id \in JobIds
    BY DEF Inv, TypeOK, DrainerHolds, DrainerState, Claim
  <1>2. ASSUME drainer'[d].claim = drainer[d].claim,
               drainer[d].pc \in {"embed", "complete", "fail"},
               Continues(drainer[d].claim.id), Untouched(drainer[d].claim.id)
        PROVE  Agrees(jobs[drainer[d].claim.id], drainer[d].claim)'
    <2> DEFINE j == drainer[d].claim.id
    <2>1. /\ jobs'[j] # None /\ jobs'[j].status = "running"
          /\ jobs[j] # None /\ jobs[j].status = "running"
          /\ jobs'[j].target = jobs[j].target /\ jobs'[j].content = jobs[j].content
          /\ jobs'[j].attempts = jobs[j].attempts
      BY <1>2 DEF StillRunning, Continues, Untouched
    <2>2. Agrees(jobs[j], drainer[d].claim)
      BY <1>2, <2>1 DEF IndexInv, ClaimsHeld, StillRunning
    <2> QED BY <1>2, <2>1, <2>2 DEF Agrees
  <1>3. ASSUME UNCHANGED <<drainer, jobs>>
        PROVE  Agrees(jobs[drainer[d].claim.id], drainer[d].claim)'
    BY <1>2, <1>3 DEF Continues, Untouched
  <1>4. ASSUME NEW t \in Threads, ThreadNext(t)
        PROVE  Agrees(jobs[drainer[d].claim.id], drainer[d].claim)'
    <2>1. UNCHANGED drainer
      BY <1>4, ThreadLeavesDrainers
    <2>2. CASE Enqueue(t)
      <3>1. PICK n \in JobIds : /\ jobs'[n].status = "pending"
                                /\ \A j \in JobIds : j # n => jobs'[j] = jobs[j]
        BY <2>2, EnqueueOnJobs DEF IndexInv
      <3>2. drainer[d].claim.id # n
        BY <2>1, <3>1 DEF StillRunning
      <3>3. jobs'[drainer[d].claim.id] = jobs[drainer[d].claim.id]
        BY <1>1, <2>1, <3>1, <3>2
      <3> QED BY <1>2, <2>1, <3>3 DEF Continues, Untouched, StillRunning
    <2>3. CASE ~ Enqueue(t)
      BY <1>1, <1>2, <1>4, <2>1, <2>3, ThreadOnJobs
    <2> QED BY <2>2, <2>3
  <1>5. CASE OperatorNext
    BY <1>1, <1>2, <1>5, OperatorOnJobs, OperatorLeavesProcesses
  <1>6. CASE Fetch(d)
    <2>1. PICK j \in JobIds :
            /\ Retryable(j)
            /\ jobs' = [jobs EXCEPT ![j].status = "running"]
            /\ drainer' = [drainer EXCEPT ![d] =
                 [pc |-> "embed", vec |-> None,
                  claim |-> [id |-> j, target |-> jobs[j].target,
                             content |-> jobs[j].content,
                             attempts |-> jobs[j].attempts]]]
      BY <1>6 DEF Fetch
    <2>2. jobs[j] \in Job /\ jobs'[j] = [jobs[j] EXCEPT !.status = "running"]
      BY <2>1 DEF Retryable, Inv, TypeOK
    <2>3. drainer'[d].claim = [id |-> j, target |-> jobs[j].target,
                               content |-> jobs[j].content, attempts |-> jobs[j].attempts]
      BY <2>1
    <2> QED BY <2>2, <2>3 DEF Agrees, Job
  <1>7. CASE EmbedJob(d) \/ EmbedJobFails(d) \/ CompleteRaises(d)
    <2>1. /\ UNCHANGED jobs /\ drainer'[d].claim = drainer[d].claim
          /\ drainer[d].pc \in {"embed", "complete"}
      <3>1. CASE EmbedJob(d)
        BY <3>1 DEF EmbedJob, db, DrainerState
      <3>2. CASE EmbedJobFails(d)
        BY <3>2 DEF EmbedJobFails, db, DrainerState
      <3>3. CASE CompleteRaises(d)
        BY <3>3 DEF CompleteRaises, db, DrainerState
      <3> QED BY <1>7, <3>1, <3>2, <3>3
    <2> QED BY <1>2, <2>1 DEF Continues, Untouched
  <1>8. CASE FaultNext(d) \/ Startup(d) \/ CompleteFresh(d) \/ CompleteStale(d)
              \/ CompleteGone(d) \/ MarkFailed(d)
    <2>1. drainer'[d].pc \in {"down", "idle"}
      <3>1. CASE FaultNext(d)
        BY <3>1 DEF FaultNext, Crash, StartupResetFails, MarkFailedFails, Idle, Down
      <3>2. CASE Startup(d)
        BY <3>2 DEF Startup, Idle
      <3>3. CASE CompleteFresh(d) \/ CompleteStale(d)
        BY <3>3 DEF CompleteFresh, CompleteStale, Idle
      <3>4. CASE CompleteGone(d) \/ MarkFailed(d)
        BY <3>4 DEF CompleteGone, MarkFailed, Idle
      <3> QED BY <1>8, <3>1, <3>2, <3>3, <3>4
    <2> QED BY <2>1
  <1>9. CASE UNCHANGED vars
    BY <1>3, <1>9 DEF vars
  <1> QED BY <1>4, <1>5, <1>6, <1>7, <1>8, <1>9 DEF Next, DrainerNext

Indexed(j) ==
    jobs[j] # None /\ jobs[j].status = "done" /\ Exists(jobs[j].target)
        => vectors[jobs[j].target] # None \/ HasNewerJob(j)

LEMMA IndexedKept ==
    ASSUME Inv, Inv', JobsFit, DataStep, NEW j \in JobIds, Indexed(j),
           Continues(j), ClosedIndexed(j),
           \A k \in JobIds : jobs[k] # None =>
               jobs'[k] # None /\ jobs'[k].target = jobs[k].target
    PROVE  Indexed(j)'
  <1> SUFFICES ASSUME jobs'[j] # None, jobs'[j].status = "done", Exists(jobs[j].target)'
               PROVE  vectors'[jobs'[j].target] # None \/ HasNewerJob(j)'
    BY DEF Indexed
  <1>1. /\ jobs[j] # None /\ jobs[j].target \in Memories
        /\ jobs'[j].target = jobs[j].target
        /\ memory[jobs[j].target] # None
    BY DEF Continues, JobsFit, FitsRow, Inv, TypeOK, Job
  <1>2. HasNewerJob(j) => HasNewerJob(j)'
    BY <1>1 DEF HasNewerJob
  <1>3. /\ Exists(jobs[j].target)
        /\ vectors[jobs[j].target] # None => vectors'[jobs[j].target] # None
    BY <1>1, RowsMove DEF Exists
  <1>4. CASE jobs[j].status = "done"
    BY <1>1, <1>2, <1>3, <1>4 DEF Indexed
  <1>5. CASE jobs[j].status # "done"
    <2>1. vectors'[jobs[j].target] # None \/ HasNewerJob(j)
      BY <1>1, <1>5 DEF ClosedIndexed, HasNewerJob, Exists
    <2> QED BY <1>1, <1>2, <2>1
  <1> QED BY <1>4, <1>5

LEMMA DoneIndexedStep ==
    ASSUME Inv, Inv', IndexInv, DataStep, [Next]_vars
    PROVE  DoneMeansIndexed'
  <1> USE DEF IndexInv
  <1>1. \A j \in JobIds : Indexed(j)
    BY DEF DoneMeansIndexed, Indexed, HasNewerJob
  <1>2. SUFFICES ASSUME NEW j \in JobIds PROVE Indexed(j)'
    BY DEF DoneMeansIndexed, Indexed, HasNewerJob
  <1>3. ASSUME \A k \in JobIds : Continues(k) /\ (jobs[k] # None => jobs'[k] # None),
               ClosedIndexed(j)
        PROVE  Indexed(j)'
    BY <1>1, <1>3, IndexedKept DEF Continues
  <1>4. ASSUME NEW t \in Threads, ThreadNext(t) PROVE Indexed(j)'
    <2>1. CASE ~ Enqueue(t)
      BY <1>3, <1>4, <2>1, ThreadOnJobs
    <2>2. CASE Enqueue(t)
      <3>1. PICK n \in JobIds :
              /\ jobs[n] = None /\ jobs'[n] # None /\ jobs'[n].status = "pending"
              /\ \A k \in JobIds : k # n => jobs'[k] = jobs[k]
        BY <2>2, EnqueueOnJobs
      <3>2. CASE j = n
        BY <3>1, <3>2 DEF Indexed
      <3>3. CASE j # n
        <4>1. jobs'[j] = jobs[j] /\ \A k \in JobIds : jobs[k] # None => jobs'[k] = jobs[k]
          BY <3>1, <3>3
        <4>2. Continues(j) /\ ClosedIndexed(j)
          BY <4>1 DEF Continues, ClosedIndexed
        <4> QED BY <1>1, <4>1, <4>2, IndexedKept
      <3> QED BY <3>2, <3>3
    <2> QED BY <2>1, <2>2
  <1>5. ASSUME NEW d \in Drainers, DrainerNext(d) \/ FaultNext(d) PROVE Indexed(j)'
    BY <1>3, <1>5, DrainerOnJobs
  <1>6. CASE UNCHANGED vars
    BY <1>3, <1>6 DEF vars, Continues, ClosedIndexed
  <1>7. ASSUME OperatorNext, ~ \E k \in JobIds : CleanupDone(k) PROVE Indexed(j)'
    <2>1. UNCHANGED jobs
      BY <1>7 DEF OperatorNext, InsertUnqueued, PurgeRow, AdoptLegacySpace, SwitchProvider, db
    <2> QED BY <1>3, <2>1 DEF Continues, ClosedIndexed
  <1>8. ASSUME NEW i \in JobIds, CleanupDone(i) PROVE Indexed(j)'
    <2>1. /\ jobs[i] # None /\ jobs[i].status = "done"
          /\ \A k \in JobIds : k # i => jobs'[k] = jobs[k]
          /\ jobs'[i] = None /\ UNCHANGED <<memory, vectors>>
      BY <1>8 DEF CleanupDone, Inv, TypeOK
    <2>2. ASSUME j # i, i > j, jobs[j] # None, jobs[i].target = jobs[j].target,
                 HasNewerJob(i)
          PROVE  HasNewerJob(j)'
      <3>1. PICK k \in JobIds : k > i /\ jobs[k] # None /\ jobs[k].target = jobs[i].target
        BY <2>2 DEF HasNewerJob
      <3>2. k \in Nat /\ i \in Nat /\ j \in Nat
        BY DEF JobIds
      <3>3. k > j /\ k # i
        BY <2>2, <3>1, <3>2
      <3> QED BY <2>1, <2>2, <3>1, <3>3 DEF HasNewerJob
    <2>3. ASSUME j # i, HasNewerJob(j), jobs[j] # None, Exists(jobs[j].target),
                 vectors[jobs[j].target] = None
          PROVE  HasNewerJob(j)'
      <3>1. PICK k \in JobIds : k > j /\ jobs[k] # None /\ jobs[k].target = jobs[j].target
        BY <2>3 DEF HasNewerJob
      <3>2. CASE k = i
        BY <1>1, <2>1, <2>2, <2>3, <3>1, <3>2 DEF Indexed
      <3>3. CASE k # i
        BY <2>1, <2>3, <3>1, <3>3 DEF HasNewerJob
      <3> QED BY <3>2, <3>3
    <2> QED BY <1>1, <2>1, <2>3 DEF Indexed, Exists
  <1> QED BY <1>4, <1>5, <1>6, <1>7, <1>8 DEF Next

LEMMA InitIndex == Init => IndexInv
  <1> SUFFICES ASSUME Init PROVE IndexInv
    OBVIOUS
  <1> USE NoneAssumption, LegacyAssumption
  <1>1. JobsInOrder /\ JobsFit /\ DoneMeansIndexed
    BY DEF Init, JobsInOrder, JobsFit, DoneMeansIndexed
  <1>2. RowsHeld /\ ClaimsHeld
    BY DEF Init, RowsHeld, ClaimsHeld, Waiting, Down
  <1>3. Versioned
    BY DEF Init, Versioned, Exists
  <1> QED BY <1>1, <1>2, <1>3 DEF IndexInv

LEMMA IndexStep ==
    ASSUME Inv, Inv', IndexInv, [Next]_vars, NEW d, Drainers = {d}
    PROVE  IndexInv'
  <1>1. DataStep
    BY StepsOnData
  <1>2. JobsInOrder'
    BY DoneStep DEF IndexInv
  <1>3. RowsHeld'
    <2>1. CASE UNCHANGED vars
      BY <2>1 DEF vars, RowsHeld, IndexInv
    <2> QED BY <1>1, <2>1, RowsHeldStep DEF IndexInv
  <1>4. Versioned'
    BY <1>1, VersionedStep DEF IndexInv
  <1> QED
    BY <1>1, <1>2, <1>3, <1>4, JobsFitStep, ClaimsHeldStep, DoneIndexedStep DEF IndexInv

\* With the one worker that a server runs, no job is ever closed over a row
\* that is left without a vector and without a newer job, whatever rewrites,
\* purges, crashes, lost bookkeeping and clean-ups happen around it.  Two
\* drainers could break it: the second one's start takes the first one's job.
THEOREM ClosedJobsIndexed ==
    ASSUME NEW d, Drainers = {d}
    PROVE  Spec => []DoneMeansIndexed
  <1>1. Init => Inv /\ IndexInv
    BY InitInv, InitIndex
  <1>2. Inv /\ IndexInv /\ [Next]_vars => (Inv /\ IndexInv)'
    BY Inductive, IndexStep
  <1>3. IndexInv => DoneMeansIndexed
    BY DEF IndexInv
  <1> QED BY <1>1, <1>2, <1>3, PTL DEF Spec

-----------------------------------------------------------------------------
(* A job that runs is held by a drainer, or a server will reset it.         *)

HeldBy(d, j) ==
    drainer[d].pc \in {"embed", "complete", "fail"} /\ drainer[d].claim.id = j

Attended(j) == \E d \in Drainers : drainer[d].pc = "down" \/ HeldBy(d, j)

Running(j) == jobs[j] # None /\ jobs[j].status = "running"

\* No job runs on without anyone at it: while a job is running, some drainer
\* holds it, or a server is down that resets it when it starts, unless the
\* reset or the record of a failure was lost; for nothing else ever looks at
\* a running job again (fetch_one_pending, reset_running_on_startup).
RunningIsHeld == \A j \in JobIds : Running(j) /\ lost = 0 => Attended(j)

\* Threads and operators start no job.
LEMMA OthersStartNone ==
    ASSUME Inv, JobsInOrder, NEW j \in JobIds, Running(j)',
           OperatorNext \/ \E t \in Threads : ThreadNext(t)
    PROVE  Running(j) /\ UNCHANGED <<drainer, lost>>
  <1> USE NoneAssumption DEF Running
  <1>1. ASSUME NEW t \in Threads, Enqueue(t) PROVE Running(j)
    <2>1. jobs' = [jobs EXCEPT ![lastJob + 1] =
                     [status |-> "pending", attempts |-> 0, target |-> thread[t].mem,
                      content |-> thread[t].text,
                      version |-> IF Exists(thread[t].mem) THEN memory[thread[t].mem].rev
                                                           ELSE None]]
      BY <1>1 DEF Enqueue
    <2> QED BY <2>1 DEF Inv, TypeOK
  <1>2. ASSUME NEW t \in Threads, ThreadNext(t), ~ Enqueue(t) PROVE Running(j)
    BY <1>2, ThreadOnJobs DEF Continues, Untouched
  <1>3. ASSUME OperatorNext PROVE Running(j)
    BY <1>3, OperatorOnJobs
  <1>4. ASSUME NEW t \in Threads, ThreadNext(t) PROVE UNCHANGED lost
    BY <1>4 DEF ThreadNext, ColdAdd, BeginUpdate, Backfill, Enqueue, EnqueueRefused,
                RereadText, ReadEntry, EmbedEntry, StoreEntry, EmbedNew, CommitUpdate,
                Abandon, rest
  <1>5. ASSUME OperatorNext PROVE UNCHANGED lost
    BY <1>5
       DEF OperatorNext, CleanupDone, InsertUnqueued, PurgeRow, AdoptLegacySpace, SwitchProvider, rest
  <1> QED
    BY <1>1, <1>2, <1>3, <1>4, <1>5, ThreadLeavesDrainers, OperatorLeavesProcesses

\* A drainer lets go of no job that goes on running.
LEMMA DrainerAttends ==
    ASSUME Inv, NEW d \in Drainers, DrainerNext(d) \/ FaultNext(d), NEW j \in JobIds,
           Running(j)', lost' = 0, Running(j) => Attended(j)
    PROVE  Attended(j)'
  <1> USE NoneAssumption DEF Running
  <1>1. /\ drainer \in [Drainers -> DrainerState]
        /\ jobs \in [JobIds -> Job \cup {None}]
        /\ lost \in Nat
    BY BoundsAssumption DEF Inv, TypeOK
  <1>2. \A e \in Drainers : e # d => drainer'[e] = drainer[e]
    BY <1>1 DEF DrainerNext, FaultNext, Startup, Fetch, EmbedJob, EmbedJobFails,
                CompleteFresh, CompleteStale, CompleteGone, CompleteRaises, MarkFailed, Crash,
                StartupResetFails, MarkFailedFails
  <1>3. ASSUME Running(j), drainer[d].pc # "down", HeldBy(d, j) => HeldBy(d, j)'
        PROVE  Attended(j)'
    BY <1>2, <1>3 DEF Attended, HeldBy
  <1>4. ~ Startup(d)
    <2> SUFFICES ASSUME Startup(d) PROVE FALSE
      OBVIOUS
    <2>1. jobs'[j] = IF jobs[j] # None /\ jobs[j].status = "running"
                     THEN [jobs[j] EXCEPT !.status = "pending"] ELSE jobs[j]
      BY DEF Startup, ResetRunning
    <2> QED BY <1>1, <2>1 DEF Job
  <1>5. CASE Fetch(d)
    <2>1. PICK i \in JobIds :
            /\ drainer[d].pc = "idle" /\ jobs' = [jobs EXCEPT ![i].status = "running"]
            /\ drainer' = [drainer EXCEPT ![d] =
                             [pc |-> "embed", vec |-> None,
                              claim |-> [id |-> i, target |-> jobs[i].target,
                                         content |-> jobs[i].content,
                                         attempts |-> jobs[i].attempts]]]
      BY <1>5 DEF Fetch
    <2>2. CASE i = j
      BY <1>1, <2>1, <2>2 DEF Attended, HeldBy
    <2>3. CASE i # j
      BY <1>1, <1>3, <2>1, <2>3 DEF HeldBy
    <2> QED BY <2>2, <2>3
  <1>6. CASE EmbedJob(d) \/ EmbedJobFails(d) \/ CompleteRaises(d)
    <2>1. UNCHANGED jobs /\ drainer[d].pc \in {"embed", "complete"}
      BY <1>6 DEF EmbedJob, EmbedJobFails, CompleteRaises, db
    <2>2. /\ drainer'[d].pc \in {"complete", "fail"}
          /\ drainer'[d].claim = drainer[d].claim
      <3>1. CASE EmbedJob(d)
        BY <1>1, <3>1 DEF EmbedJob, DrainerState
      <3>2. CASE EmbedJobFails(d)
        BY <1>1, <3>2 DEF EmbedJobFails, DrainerState
      <3>3. CASE CompleteRaises(d)
        BY <1>1, <3>3 DEF CompleteRaises, DrainerState
      <3> QED BY <1>6, <3>1, <3>2, <3>3
    <2> QED BY <1>3, <2>1, <2>2 DEF HeldBy
  <1>7. CASE CompleteFresh(d) \/ CompleteStale(d) \/ MarkFailed(d) \/ CompleteGone(d)
    <2> DEFINE i == drainer[d].claim.id
    <2>1. i \in JobIds /\ drainer[d].pc \in {"complete", "fail"}
      BY <1>7 DEF CompleteFresh, CompleteStale, MarkFailed, CompleteGone, Inv, DrainerHolds,
                  TypeOK, DrainerState, Claim
    <2>2. i = j => ~ Running(j)'
      <3>1. CASE CompleteFresh(d) \/ CompleteStale(d)
        <4>1. jobs' = [jobs EXCEPT ![i].status = "done"] /\ jobs[i] \in Job
          BY <1>1, <2>1, <3>1 DEF CompleteFresh, CompleteStale, StillRunning
        <4> QED BY <1>1, <2>1, <4>1 DEF Job
      <3>2. CASE MarkFailed(d) /\ StillRunning(drainer[d].claim)
        <4>1. /\ jobs' = [jobs EXCEPT ![i] = [jobs[i] EXCEPT !.status = "failed",
                                                     !.attempts = jobs[i].attempts + 1]]
              /\ jobs[i] \in Job
          BY <1>1, <2>1, <3>2 DEF MarkFailed, StillRunning
        <4> QED BY <1>1, <2>1, <4>1 DEF Job
      <3>3. CASE CompleteGone(d) \/ (MarkFailed(d) /\ ~ StillRunning(drainer[d].claim))
        BY <3>3 DEF CompleteGone, MarkFailed, StillRunning, db
      <3> QED BY <1>7, <3>1, <3>2, <3>3
    <2>3. i # j => Running(j)
      BY <1>1, <1>7, <2>1 DEF CompleteFresh, CompleteStale, MarkFailed, CompleteGone, db
    <2> QED BY <1>3, <2>1, <2>2, <2>3 DEF HeldBy
  <1>8. CASE Crash(d)
    BY <1>1, <1>8 DEF Crash, Attended, Down
  <1>9. ~ StartupResetFails(d) /\ ~ MarkFailedFails(d)
    BY <1>1 DEF StartupResetFails, MarkFailedFails
  <1> QED
    BY <1>4, <1>5, <1>6, <1>7, <1>8, <1>9 DEF DrainerNext, FaultNext

LEMMA LostGrows == Inv /\ [Next]_vars => (lost' = 0 => lost = 0)
  <1> SUFFICES ASSUME Inv, [Next]_vars, lost # 0 PROVE lost' # 0
    OBVIOUS
  <1>1. lost \in Nat
    BY BoundsAssumption DEF Inv, TypeOK
  <1>2. ASSUME NEW t \in Threads, ThreadNext(t) PROVE lost' = lost
    BY <1>2 DEF ThreadNext, ColdAdd, BeginUpdate, Backfill, Enqueue, EnqueueRefused,
                RereadText, ReadEntry, EmbedEntry, StoreEntry, EmbedNew, CommitUpdate,
                Abandon, rest
  <1>3. ASSUME NEW d \in Drainers, DrainerNext(d) \/ FaultNext(d)
        PROVE  lost' = lost \/ lost' = lost + 1
    BY <1>3 DEF DrainerNext, FaultNext, Startup, Fetch, EmbedJob, EmbedJobFails,
                CompleteFresh, CompleteStale, CompleteGone, CompleteRaises, MarkFailed, Crash,
                StartupResetFails, MarkFailedFails, rest
  <1>4. OperatorNext => lost' = lost
    BY
       DEF OperatorNext, CleanupDone, InsertUnqueued, PurgeRow, AdoptLegacySpace, SwitchProvider, rest
  <1>5. UNCHANGED vars => lost' = lost
    BY DEF vars
  <1> QED BY <1>1, <1>2, <1>3, <1>4, <1>5 DEF Next

LEMMA RunningHeldStep ==
    ASSUME Inv, JobsInOrder, RunningIsHeld, [Next]_vars
    PROVE  RunningIsHeld'
  <1> SUFFICES ASSUME NEW j \in JobIds, Running(j)', lost' = 0 PROVE Attended(j)'
    BY DEF RunningIsHeld
  <1>1. Running(j) => Attended(j)
    BY LostGrows DEF RunningIsHeld
  <1>2. ASSUME OperatorNext \/ \E t \in Threads : ThreadNext(t) PROVE Attended(j)'
    BY <1>1, <1>2, OthersStartNone DEF Attended, HeldBy
  <1>3. ASSUME NEW d \in Drainers, DrainerNext(d) \/ FaultNext(d) PROVE Attended(j)'
    BY <1>1, <1>3, DrainerAttends
  <1>4. CASE UNCHANGED vars
    BY <1>1, <1>4 DEF vars, Running, Attended, HeldBy
  <1> QED BY <1>2, <1>3, <1>4 DEF Next

(* However many drainers there are, a job that is running is in the hands   *)
(* of one of them, or of a server that resets it when it comes up, unless   *)
(* bookkeeping was lost: no rewrite, late answer or restart orphans it.     *)
THEOREM RunningJobsAttended == Spec => []RunningIsHeld
  <1>1. Init => JobsInOrder /\ RunningIsHeld
    BY DEF Init, JobsInOrder, RunningIsHeld, Running
  <1>2. Inv /\ JobsInOrder /\ RunningIsHeld /\ [Next]_vars => (JobsInOrder /\ RunningIsHeld)'
    BY DoneStep, RunningHeldStep
  <1> QED BY <1>1, <1>2, InitInv, Inductive, PTL DEF Spec

-----------------------------------------------------------------------------
(* The queue strands no row.  A row without a vector has a job that is not  *)
(* closed, if it has jobs at all: the last of them would have left it a     *)
(* vector.  And what a thread has read of it is what it still holds, for a  *)
(* rewrite would have left it a vector, too.                                *)

Carrying == {"reread", "enqueue", "read", "embed", "store"}

EntryHeld ==
    \A t \in Threads :
        LET m == thread[t].mem
        IN  thread[t].pc \in {"embed", "store"} =>
              /\ memory[m] # None
              /\ Exists(m) /\ vectors[m] = None => memory[m] = thread[t].entry

HasJob(m) == \E j \in JobIds : jobs[j] # None /\ jobs[j].target = m

LastOpen == \A m \in Memories : Exists(m) /\ vectors[m] = None /\ HasJob(m) => Queued(m)

LEMMA LastJobOpen == DoneMeansIndexed => LastOpen
  <1> SUFFICES ASSUME DoneMeansIndexed, NEW m \in Memories,
                      Exists(m), vectors[m] = None, HasJob(m)
               PROVE  Queued(m)
    BY DEF LastOpen
  <1> DEFINE U == {n \in Nat : \E j \in JobIds : n = MaxJobs - j /\ jobs[j] # None
                                                  /\ jobs[j].target = m}
  <1>1. MaxJobs \in Nat /\ \A j \in JobIds : j \in Nat /\ MaxJobs - j \in Nat
    BY BoundsAssumption DEF JobIds
  <1>2. U \subseteq Nat /\ U # {}
    BY <1>1 DEF HasJob
  <1>3. PICK x \in U : \A y \in U : ~(<<y, x>> \in OpToRel(<, Nat))
    BY <1>2, NatLessThanWellFounded, WFMin
  <1>4. \A y \in U : ~(y < x)
    BY <1>2, <1>3 DEF OpToRel
  <1>5. PICK j \in JobIds : x = MaxJobs - j /\ jobs[j] # None /\ jobs[j].target = m
    BY <1>3
  <1>6. ~ \E k \in JobIds : k > j /\ jobs[k] # None /\ jobs[k].target = jobs[j].target
    <2> SUFFICES ASSUME NEW k \in JobIds, k > j, jobs[k] # None, jobs[k].target = m
                 PROVE  FALSE
      BY <1>5
    <2>1. MaxJobs - k \in U
      BY <1>1
    <2>2. MaxJobs - k < MaxJobs - j
      BY <1>1
    <2> QED BY <1>4, <1>5, <2>1, <2>2
  <1>7. jobs[j].status # "done"
    BY <1>5, <1>6 DEF DoneMeansIndexed
  <1> QED BY <1>5, <1>7 DEF Queued

\* What a thread that carries a row may do.
LEMMA ThreadCarries ==
    ASSUME Inv, NEW t \in Threads, ThreadNext(t), thread[t].pc \in Carrying,
           Exists(thread[t].mem), ~ Abandon(t)
    PROVE  \/ thread'[t].mem = thread[t].mem /\ thread'[t].pc \in Carrying
           \/ Enqueue(t) \/ StoreEntry(t)
  <1> USE DEF Carrying
  <1>1. thread \in [Threads -> ThreadState]
    BY DEF Inv, TypeOK
  <1>2. CASE RereadText(t)
    BY <1>1, <1>2 DEF RereadText, Waiting
  <1>3. CASE EnqueueRefused(t)
    BY <1>1, <1>3 DEF EnqueueRefused, Waiting
  <1>4. CASE ReadEntry(t)
    BY <1>1, <1>4 DEF ReadEntry, Waiting
  <1>5. CASE EmbedEntry(t)
    BY <1>1, <1>5 DEF EmbedEntry, ThreadState
  <1> QED
    BY <1>2, <1>3, <1>4, <1>5
       DEF ThreadNext, ColdAdd, BeginUpdate, Backfill, EmbedNew, CommitUpdate

LEMMA OthersCarryOn ==
    ASSUME Inv, [Next]_vars, NEW t \in Threads, ~ ThreadNext(t)
    PROVE  thread'[t] = thread[t]
  <1>1. ASSUME NEW u \in Threads, u # t, ThreadNext(u)
        PROVE  thread'[t] = thread[t]
    BY <1>1 DEF ThreadNext, ColdAdd, BeginUpdate, Backfill, Enqueue, EnqueueRefused,
                RereadText, ReadEntry, EmbedEntry, StoreEntry, EmbedNew, CommitUpdate,
                Abandon, Inv, TypeOK
  <1>2. CASE UNCHANGED vars
    BY <1>2 DEF vars
  <1> QED BY <1>1, <1>2, DrainerLeavesThreads, OperatorLeavesProcesses DEF Next

\* A thread that holds an entry has just read it or held it before.
LEMMA EntryOrigin ==
    ASSUME Inv, [Next]_vars, NEW t \in Threads, thread'[t].pc \in {"embed", "store"}
    PROVE  \/ /\ thread[t].pc \in {"embed", "store"} /\ thread'[t].mem = thread[t].mem
              /\ thread'[t].entry = thread[t].entry
           \/ /\ Exists(thread'[t].mem) /\ thread'[t].entry = memory[thread'[t].mem]
              /\ UNCHANGED <<memory, vectors>>
  <1>1. thread \in [Threads -> ThreadState]
    BY DEF Inv, TypeOK
  <1>2. CASE ~ ThreadNext(t)
    BY <1>2, OthersCarryOn
  <1>3. CASE ReadEntry(t)
    <2>1. CASE Exists(thread[t].mem)
      BY <1>1, <1>3, <2>1 DEF ReadEntry, Waiting, db
    <2>2. CASE ~ Exists(thread[t].mem)
      BY <1>1, <1>3, <2>2 DEF ReadEntry, Waiting
    <2> QED BY <2>1, <2>2
  <1>4. CASE EmbedEntry(t)
    BY <1>1, <1>4 DEF EmbedEntry, ThreadState
  <1>5. ASSUME NEW w, w.pc \notin {"embed", "store"}, thread' = [thread EXCEPT ![t] = w]
        PROVE  FALSE
    BY <1>1, <1>5
  <1>6. CASE Enqueue(t) \/ StoreEntry(t) \/ CommitUpdate(t) \/ Abandon(t)
    BY <1>5, <1>6 DEF Enqueue, StoreEntry, CommitUpdate, Abandon, Waiting
  <1>7. CASE RereadText(t) \/ EnqueueRefused(t)
    BY <1>5, <1>7 DEF RereadText, EnqueueRefused, Waiting
  <1>8. CASE EmbedNew(t)
    BY <1>1, <1>8 DEF EmbedNew, ThreadState
  <1>9. ASSUME NEW m \in Memories,
               Backfill(t, m) \/ \E c \in Contents : ColdAdd(t, m, c) \/ BeginUpdate(t, m, c)
        PROVE  FALSE
    BY <1>5, <1>9 DEF Backfill, ColdAdd, BeginUpdate, Waiting
  <1> QED BY <1>2, <1>3, <1>4, <1>6, <1>7, <1>8, <1>9 DEF ThreadNext

LEMMA StillHeld ==
    ASSUME Inv, Inv', Versioned, Versioned', DataStep, NEW m \in Memories,
           memory[m] # None, NEW row, Exists(m) /\ vectors[m] = None => memory[m] = row
    PROVE  memory'[m] # None /\ (Exists(m)' /\ vectors'[m] = None => memory'[m] = row)
  <1>1. memory'[m] # None
    BY RowsMove
  <1>2. ASSUME Exists(m)', vectors'[m] = None PROVE memory'[m] = row
    <2>1. /\ Exists(m) /\ memory[m] \in Row /\ memory'[m] \in Row
          /\ memory'[m].rev >= memory[m].rev /\ vectors[m] = None
      BY <1>2, RowsMove
    <2>2. memory[m].rev >= 1 /\ ~(memory'[m].rev > 1)
      BY <1>2, <2>1 DEF Versioned
    <2>3. memory'[m].rev = memory[m].rev
      BY <2>1, <2>2 DEF Row
    <2> QED BY <1>2, <2>1, <2>3, RowsMove
  <1> QED BY <1>1, <1>2

LEMMA EntryHeldStep ==
    ASSUME Inv, Inv', Versioned, Versioned', EntryHeld, DataStep, [Next]_vars
    PROVE  EntryHeld'
  <1> SUFFICES ASSUME NEW t \in Threads, thread'[t].pc \in {"embed", "store"},
                      NEW m, m = thread'[t].mem
               PROVE  /\ memory'[m] # None
                      /\ Exists(m)' /\ vectors'[m] = None => memory'[m] = thread'[t].entry
    BY DEF EntryHeld, Exists
  <1>1. m \in Memories
    BY DEF Inv, TypeOK, ThreadHolds, WellHeld, ThreadState
  <1>2. CASE /\ thread[t].pc \in {"embed", "store"} /\ thread'[t].mem = thread[t].mem
             /\ thread'[t].entry = thread[t].entry
    <2>1. /\ memory[m] # None
          /\ Exists(m) /\ vectors[m] = None => memory[m] = thread[t].entry
      BY <1>2 DEF EntryHeld
    <2> QED BY <1>1, <1>2, <2>1, StillHeld
  <1>3. CASE /\ Exists(thread'[t].mem) /\ thread'[t].entry = memory[thread'[t].mem]
             /\ UNCHANGED <<memory, vectors>>
    BY <1>3 DEF Exists
  <1> QED BY <1>2, <1>3, EntryOrigin

\* A row comes into being with the thread that inserts it, or unqueued.
LEMMA InsertedByThread ==
    ASSUME Inv, [Next]_vars, NEW m \in Memories, memory[m] = None, memory'[m] # None,
           \A c \in Contents : ~ InsertUnqueued(m, c)
    PROVE  Carried(m)'
  <1> USE NoneAssumption
  <1>1. ASSUME NEW t \in Threads, ThreadNext(t), memory' # memory PROVE Carried(m)'
    <2>1. ASSUME NEW n \in Memories, NEW c \in Contents, ColdAdd(t, n, c) PROVE Carried(m)'
      <3>1. n = m
        BY <2>1 DEF ColdAdd, Inv, TypeOK
      <3>2. thread'[t].mem = m /\ thread'[t].pc \in {"enqueue", "reread"}
        BY <2>1, <3>1 DEF ColdAdd, Inv, TypeOK, Waiting
      <3> QED BY <3>2 DEF Carried
    <2>2. CASE CommitUpdate(t)
      BY <2>2 DEF CommitUpdate, EntryMatches, Exists, Inv, TypeOK
    <2> QED
      BY <1>1, <2>1, <2>2
         DEF ThreadNext, BeginUpdate, Backfill, Enqueue, EnqueueRefused, RereadText,
             ReadEntry, EmbedEntry, StoreEntry, EmbedNew, Abandon, db
  <1>2. ASSUME NEW d \in Drainers, DrainerNext(d) \/ FaultNext(d) PROVE UNCHANGED memory
    BY <1>2 DEF DrainerNext, FaultNext, Startup, Fetch, EmbedJob, EmbedJobFails,
                CompleteFresh, CompleteStale, CompleteGone, CompleteRaises, MarkFailed, Crash,
                StartupResetFails, MarkFailedFails, db
  <1>3. CASE OperatorNext
    <2>1. ASSUME NEW n \in Memories, NEW c \in Contents, InsertUnqueued(n, c) PROVE FALSE
      BY <2>1 DEF InsertUnqueued, Inv, TypeOK
    <2> QED BY <1>3, <2>1 DEF OperatorNext, CleanupDone, PurgeRow, AdoptLegacySpace,
                              SwitchProvider, Exists, Inv, TypeOK, db
  <1>4. CASE UNCHANGED vars
    BY <1>4 DEF vars
  <1> QED BY <1>1, <1>2, <1>3, <1>4 DEF Next

\* An open job is not lost.
LEMMA OpenJobsStay ==
    ASSUME Inv, IndexInv, [Next]_vars, NEW m, Queued(m)
    PROVE  HasJob(m)'
  <1> USE DEF IndexInv
  <1>1. PICK j \in JobIds : jobs[j] # None /\ jobs[j].target = m /\ jobs[j].status # "done"
    BY DEF Queued
  <1>2. SUFFICES jobs'[j] # None /\ jobs'[j].target = jobs[j].target
    BY <1>1 DEF HasJob
  <1>3. ASSUME NEW t \in Threads, Enqueue(t) PROVE jobs'[j] = jobs[j]
    BY <1>1, <1>3, EnqueueOnJobs
  <1>4. ASSUME NEW t \in Threads, ThreadNext(t), ~ Enqueue(t)
        PROVE  jobs'[j] # None /\ jobs'[j].target = jobs[j].target
    BY <1>1, <1>4, ThreadOnJobs DEF Continues
  <1>5. ASSUME NEW d \in Drainers, DrainerNext(d) \/ FaultNext(d)
        PROVE  jobs'[j] # None /\ jobs'[j].target = jobs[j].target
    BY <1>1, <1>5, DrainerOnJobs DEF Continues
  <1>6. CASE OperatorNext
    BY <1>1, <1>6
       DEF OperatorNext, CleanupDone, InsertUnqueued, PurgeRow, AdoptLegacySpace, SwitchProvider,
                      Inv, TypeOK, db
  <1>7. CASE UNCHANGED vars
    BY <1>1, <1>7 DEF vars
  <1> QED BY <1>1, <1>3, <1>4, <1>5, <1>6, <1>7 DEF Next

\* A row is let go of with a vector or a job, but for the two faults.
LEMMA LetGo ==
    ASSUME Inv, Inv', IndexInv, EntryHeld, DataStep, [Next]_vars, NEW m \in Memories,
           Exists(m)', vectors'[m] = None, memory[m] # None, Carried(m),
           \A t \in Threads :
              ~ Abandon(t) /\ (StoreEntry(t) => SpaceOpen(thread[t].vec.space))
    PROVE  Carried(m)' \/ HasJob(m)'
  <1>1. Exists(m) /\ vectors[m] = None
    BY RowsMove
  <1>2. PICK t \in Threads : thread[t].mem = m /\ thread[t].pc \in Carrying
    BY DEF Carried, Carrying
  <1>3. CASE thread'[t].mem = m /\ thread'[t].pc \in Carrying
    BY <1>3 DEF Carried, Carrying
  <1>4. CASE Enqueue(t)
    <2>1. /\ lastJob + 1 \in JobIds
          /\ jobs' = [jobs EXCEPT ![lastJob + 1] =
                        [status |-> "pending", attempts |-> 0, target |-> m,
                         content |-> thread[t].text, version |-> memory[m].rev]]
      BY <1>1, <1>2, <1>4, BoundsAssumption DEF Enqueue, JobIds, Inv, TypeOK
    <2>2. /\ jobs'[lastJob + 1].target = m
          /\ jobs'[lastJob + 1] =
                [status |-> "pending", attempts |-> 0, target |-> m,
                 content |-> thread[t].text, version |-> memory[m].rev]
      BY <2>1 DEF Inv, TypeOK
    <2>3. jobs'[lastJob + 1] \in Job
      <3>1. memory[m] \in Row
        BY <1>1 DEF Exists, Inv, TypeOK
      <3>2. thread[t].text \in Contents
        BY <1>2, <1>4 DEF Enqueue, Inv, TypeOK, ThreadHolds, WellHeld, ThreadState
      <3> QED BY <2>2, <3>1, <3>2, BoundsAssumption DEF Job, Statuses, Row
    <2> QED BY <2>1, <2>2, <2>3, NoneAssumption DEF HasJob
  <1>5. CASE StoreEntry(t)
    <2>1. SpaceOpen(thread[t].vec.space) /\ EntryMatches(m, thread[t].entry)
      BY <1>1, <1>2, <1>5 DEF StoreEntry, EntryHeld, EntryMatches
    <2>2. vectors'[m] = thread[t].vec /\ thread[t].vec # None
      BY <1>2, <1>5, <2>1 DEF StoreEntry, Inv, TypeOK, ThreadHolds, WellHeld
    <2> QED BY <2>2
  <1>6. CASE ThreadNext(t)
    BY <1>1, <1>2, <1>3, <1>4, <1>5, <1>6, ThreadCarries
  <1>7. CASE ~ ThreadNext(t)
    BY <1>2, <1>3, <1>7, OthersCarryOn
  <1> QED BY <1>6, <1>7

LEMMA StrandedStep ==
    ASSUME Inv, Inv', IndexInv, DoneMeansIndexed', EntryHeld, DataStep, [Next]_vars,
           \A t \in Threads :
              ~ Abandon(t) /\ (StoreEntry(t) => SpaceOpen(thread[t].vec.space))
    PROVE  \/ Stranded' \subseteq Stranded
           \/ \E m \in Memories, c \in Contents :
                InsertUnqueued(m, c) /\ Stranded' \subseteq Stranded \cup {m}
  <1>1. ASSUME NEW m \in Memories, m \in Stranded',
               \A c \in Contents : ~ InsertUnqueued(m, c)
        PROVE  m \in Stranded
    <2> USE <1>1
    <2>1. Exists(m)' /\ vectors'[m] = None /\ ~ Carried(m)' /\ ~ Queued(m)'
      BY DEF Stranded
    <2>2. ~ HasJob(m)'
      <3>1. (DoneMeansIndexed => LastOpen)'
        BY LastJobOpen, PTL
      <3> QED BY <2>1, <3>1 DEF LastOpen
    <2>3. ~ Queued(m)
      BY <2>2, OpenJobsStay
    <2>4. memory[m] # None
      BY <2>1, InsertedByThread DEF Exists
    <2>5. Exists(m) /\ vectors[m] = None
      BY <2>1, <2>4, RowsMove
    <2>6. ~ Carried(m)
      BY <2>1, <2>2, <2>4, LetGo
    <2> QED BY <2>3, <2>5, <2>6 DEF Stranded
  <1>2. Stranded' \subseteq Memories
    BY DEF Stranded
  <1>3. ASSUME NEW m \in Memories, NEW c \in Contents, InsertUnqueued(m, c)
        PROVE  Stranded' \subseteq Stranded \cup {m}
    <2>1. \A n \in Memories, e \in Contents : InsertUnqueued(n, e) => n = m
      BY <1>3, NoneAssumption DEF InsertUnqueued, Inv, TypeOK, Row
    <2> QED BY <1>1, <1>2, <2>1
  <1> QED BY <1>1, <1>2, <1>3

(* Whatever is refused, closed, retried, overtaken and cleaned up, with the *)
(* one worker of a server a row is left without a vector, and without a     *)
(* thread or an open or failed job, only where a thread dies on it or finds *)
(* the index closed to its vector, or where it is itself inserted without   *)
(* being handed on: archived by hot_remove or imported without a vector.    *)
THEOREM QueueStrandsNone ==
    ASSUME NEW d, Drainers = {d}
    PROVE  Spec => OnlyFaultsStrand
  <1> DEFINE I == Inv /\ IndexInv /\ EntryHeld
  <1>1. Init => I
    <2>1. Init => EntryHeld
      BY DEF Init, EntryHeld, Waiting
    <2> QED BY <2>1, InitInv, InitIndex
  <1>2. ASSUME I, [Next]_vars PROVE I'
    BY <1>2, Inductive, IndexStep, StepsOnData, EntryHeldStep DEF IndexInv
  <1>3. ASSUME I, I', [Next]_vars
        PROVE  [\/ Stranded' \subseteq Stranded
                \/ \E t \in Threads :
                     \/ Abandon(t)
                     \/ StoreEntry(t) /\ ~SpaceOpen(thread[t].vec.space)
                \/ \E m \in Memories, c \in Contents :
                     InsertUnqueued(m, c) /\ Stranded' \subseteq Stranded \cup {m}]_vars
    BY <1>3, StepsOnData, StrandedStep DEF IndexInv
  <1> HIDE DEF I
  <1> QED BY <1>1, <1>2, <1>3, PTL DEF Spec, OnlyFaultsStrand

-----------------------------------------------------------------------------
(* The server beside which reconcile.py works does what EmbedQueue says,    *)
(* but for rows that are enqueued a second time.                            *)

AskedAgain ==
    \E t \in Threads, m \in Memories :
        /\ thread[t].pc = "idle" /\ Exists(m)
        /\ thread' = [thread EXCEPT ![t] = [Waiting EXCEPT !.pc = "reread", !.mem = m]]
        /\ UNCHANGED <<db, drainer, rest>>

ServerStep == [Next]_vars \/ AskedAgain

LEMMA StepsOfServer == [RNext]_rvars => ServerStep
  <1>1. CASE RNext
    BY <1>1 DEF RNext, ServerStep, AskedAgain, Requeue, Plan, Refuse, Apply, Drop, server
  <1>2. CASE UNCHANGED rvars
    BY <1>2 DEF rvars, ServerStep
  <1> QED BY <1>1, <1>2

LEMMA AskedAgainKeeps ==
    ASSUME Inv, AskedAgain
    PROVE  Inv' /\ DataStep /\ UNCHANGED <<jobs, lastJob, receipts, drainer, memory, vectors>>
  <1> USE NoneAssumption
  <1>1. PICK t \in Threads, m \in Memories :
          /\ Exists(m)
          /\ thread' = [thread EXCEPT ![t] = [Waiting EXCEPT !.pc = "reread", !.mem = m]]
          /\ UNCHANGED <<db, drainer, rest>>
    BY DEF AskedAgain
  <1>2. UNCHANGED <<memory, vectors, jobs, lastJob, receipts, drainer, provider, crashes, lost>>
    BY <1>1 DEF db, rest
  <1> DEFINE w == [Waiting EXCEPT !.pc = "reread", !.mem = m]
  <1>3. w \in ThreadState /\ WellHeld(w)
    BY DEF ThreadState, Waiting, WellHeld
  <1>4. thread' = [thread EXCEPT ![t] = w]
    BY <1>1
  <1> HIDE DEF w
  <1>5. TypeOK'
    BY <1>2, <1>3, <1>4 DEF Inv, TypeOK
  <1>6. ThreadHolds'
    BY <1>3, <1>4 DEF Inv, TypeOK, ThreadHolds
  <1>7. AttemptLeft' /\ DrainerHolds'
    BY <1>2 DEF Inv, AttemptLeft, DrainerHolds
  <1> QED BY <1>2, <1>5, <1>6, <1>7 DEF Inv, DataStep

LEMMA ServerInductive ==
    ASSUME Inv, ServerStep
    PROVE  Inv' /\ DataStep
  BY Inductive, StepsOnData, AskedAgainKeeps DEF ServerStep

LEMMA ServerOnReceipts ==
    ASSUME Inv, ServerStep
    PROVE  UNCHANGED receipts \/ Completing
  BY StepsOnReceipts, AskedAgainKeeps DEF ServerStep

LEMMA ServerKeepsDone ==
    ASSUME Inv, JobsInOrder, ServerStep
    PROVE  DoneKept /\ JobsInOrder'
  <1>1. CASE AskedAgain
    BY <1>1, AskedAgainKeeps DEF DoneKept, JobsInOrder
  <1> QED BY <1>1, DoneStep DEF ServerStep

(* What holds of the tables whoever enqueues a row again.                   *)
ServerInv == Inv /\ VectorFresh /\ RInv /\ JobsInOrder

LEMMA ServerInvStep == ServerInv /\ ServerStep => ServerInv'
  BY ServerInductive, ServerOnReceipts, ServerKeepsDone, FreshStep, ReceiptStep
     DEF ServerInv

LEMMA ServerInvAlways == RSpec => []ServerInv
  <1>1. RInit => ServerInv
    <2>1. Init => VectorFresh
      BY NoneAssumption, LegacyAssumption DEF Init, VectorFresh, Exists, Row
    <2>2. Init => RInv /\ JobsInOrder
      BY DEF Init, RInv, JobsInOrder
    <2> QED BY <2>1, <2>2, InitInv DEF RInit, ServerInv
  <1>2. ServerInv /\ [RNext]_rvars => ServerInv'
    BY ServerInvStep, StepsOfServer
  <1> QED BY <1>1, <1>2, PTL DEF RSpec

(* Beside operators and other programs, too, no row is searchable under a   *)
(* text it does not have, nor in two spaces, and receipts vouch for what    *)
(* the index holds.                                                         *)
THEOREM TablesStaySound == RSpec => [](VectorFresh /\ SingleSpace /\ ReceiptVouches)
  <1>1. ServerInv => VectorFresh /\ ReceiptVouches
    BY DEF ServerInv, RInv, Sound, ReceiptVouches
  <1>2. RInit => SingleSpace
    BY NoneAssumption DEF RInit, Init, SingleSpace
  <1>3. ServerInv /\ SingleSpace /\ [RNext]_rvars => SingleSpace'
    BY StepsOfServer, ServerInductive, SingleSpaceStep DEF ServerInv
  <1> QED BY <1>1, <1>2, <1>3, ServerInvAlways, PTL DEF RSpec

(* So the server implements its index beside them as it does alone.         *)
THEOREM RefinementBeside == RSpec => ImplementsIndex
  <1>1. RInit => VI!Init
    BY InitImplements DEF RInit
  <1>2. ServerInv /\ ServerInv' /\ [RNext]_rvars => [VI!Next]_(VI!vars)
    BY StepsOfServer, ServerInductive, StepImplements DEF VI!vars, Text, ServerInv
  <1> QED
    BY <1>1, <1>2, ServerInvAlways, PTL DEF RSpec, ImplementsIndex, VI!Spec

(* A closed job stays closed, though its row is enqueued again.             *)
THEOREM DoneStaysDoneBeside == RSpec => DoneIsFinal
  <1>1. ASSUME ServerInv, [RNext]_rvars
        PROVE  [\A j \in JobIds :
                  jobs[j] # None /\ jobs[j].status = "done"
                    => jobs'[j] = None \/ jobs'[j].status = "done"]_vars
    BY <1>1, StepsOfServer, ServerKeepsDone DEF ServerInv, DoneKept
  <1> QED BY <1>1, ServerInvAlways, PTL DEF RSpec, DoneIsFinal

LEMMA IndexBesideStep ==
    ASSUME Inv, Inv', IndexInv, ServerStep, NEW d, Drainers = {d}
    PROVE  IndexInv'
  <1>1. CASE AskedAgain
    <2>1. PICK t \in Threads, m \in Memories :
            /\ Exists(m)
            /\ thread' = [thread EXCEPT ![t] = [Waiting EXCEPT !.pc = "reread", !.mem = m]]
      BY <1>1 DEF AskedAgain
    <2>2. UNCHANGED <<jobs, lastJob, receipts, drainer, memory, vectors>>
      BY <1>1, AskedAgainKeeps
    <2>3. RowsHeld'
      BY <2>1, <2>2, NoneAssumption DEF IndexInv, RowsHeld, Exists, Waiting, Inv, TypeOK
    <2>4. /\ JobsInOrder' /\ Versioned' /\ JobsFit' /\ DoneMeansIndexed'
      BY <2>2 DEF IndexInv, JobsInOrder, Versioned, Exists, JobsFit, FitsRow,
                  DoneMeansIndexed
    <2>5. ClaimsHeld'
      BY <2>2 DEF IndexInv, ClaimsHeld, Agrees, StillRunning
    <2> QED BY <2>3, <2>4, <2>5 DEF IndexInv
  <1> QED BY <1>1, IndexStep DEF ServerStep

\* Nor does it matter to what the threads hold that a row is enqueued again.
LEMMA StrandedBesideStep ==
    ASSUME Inv, AskedAgain, EntryHeld
    PROVE  EntryHeld' /\ Stranded' \subseteq Stranded
  <1>1. PICK t \in Threads, n \in Memories :
          /\ thread[t].pc = "idle"
          /\ thread' = [thread EXCEPT ![t] = [Waiting EXCEPT !.pc = "reread", !.mem = n]]
    BY DEF AskedAgain
  <1>2. UNCHANGED <<jobs, memory, vectors>>
    BY AskedAgainKeeps
  <1>3. thread'[t].pc = "reread" /\ \A u \in Threads : u # t => thread'[u] = thread[u]
    BY <1>1 DEF Inv, TypeOK, Waiting
  <1>4. EntryHeld'
    BY <1>2, <1>3 DEF EntryHeld, Exists
  <1>5. \A m \in Memories : Carried(m) => Carried(m)'
    BY <1>1, <1>3 DEF Carried
  <1>6. \A m \in Memories : (Exists(m)' <=> Exists(m)) /\ (Queued(m)' <=> Queued(m))
    BY <1>2 DEF Exists, Queued
  <1> QED BY <1>2, <1>4, <1>5, <1>6 DEF Stranded

IndexBeside == IndexInv /\ EntryHeld

LEMMA IndexBesideAlways ==
    ASSUME NEW d, Drainers = {d}
    PROVE  RSpec => []IndexBeside
  <1>1. RInit => IndexBeside
    <2>1. Init => EntryHeld
      BY DEF Init, EntryHeld, Waiting
    <2> QED BY <2>1, InitIndex DEF RInit, IndexBeside
  <1>2. ASSUME ServerInv, ServerInv', IndexBeside, [RNext]_rvars PROVE IndexBeside'
    <2>1. IndexInv'
      BY <1>2, StepsOfServer, IndexBesideStep DEF ServerInv, IndexBeside
    <2>2. EntryHeld'
      BY <1>2, <2>1, StepsOfServer, StrandedBesideStep, EntryHeldStep, ServerInductive
         DEF ServerInv, IndexBeside, IndexInv, ServerStep
    <2> QED BY <2>1, <2>2 DEF IndexBeside
  <1> QED BY <1>1, <1>2, ServerInvAlways, PTL DEF RSpec

(* Nor does a second job of a row leave a closed one without a vector.      *)
THEOREM ClosedJobsIndexedBeside ==
    ASSUME NEW d, Drainers = {d}
    PROVE  RSpec => []DoneMeansIndexed
  <1>1. IndexBeside => DoneMeansIndexed
    BY DEF IndexBeside, IndexInv
  <1> QED BY <1>1, IndexBesideAlways, PTL

(* Nor does it strand a row that it is enqueued again and that its failed   *)
(* jobs are being explained: the causes stay those of QueueStrandsNone.     *)
THEOREM QueueStrandsNoneBeside ==
    ASSUME NEW d, Drainers = {d}
    PROVE  RSpec => OnlyFaultsStrand
  <1>1. ASSUME ServerInv, ServerInv', IndexBeside, IndexBeside', [RNext]_rvars
        PROVE  [\/ Stranded' \subseteq Stranded
                \/ \E t \in Threads :
                     \/ Abandon(t)
                     \/ StoreEntry(t) /\ ~SpaceOpen(thread[t].vec.space)
                \/ \E m \in Memories, c \in Contents :
                     InsertUnqueued(m, c) /\ Stranded' \subseteq Stranded \cup {m}]_vars
    <2>1. CASE AskedAgain
      BY <1>1, <2>1, StrandedBesideStep DEF ServerInv, IndexBeside
    <2>2. CASE [Next]_vars
      BY <1>1, <2>2, StepsOnData, StrandedStep DEF ServerInv, IndexBeside, IndexInv
    <2> QED BY <1>1, <2>1, <2>2, StepsOfServer DEF ServerStep
  <1> QED
    BY <1>1, ServerInvAlways, IndexBesideAlways, PTL DEF RSpec, OnlyFaultsStrand

-----------------------------------------------------------------------------
(* The audits: a list that grows at its end, by what was true then.         *)

AuditsListed == \E S : audits \in Seq(S)

LEMMA Grows ==
    ASSUME NEW S, audits \in Seq(S), NEW e, audits' = Append(audits, e)
    PROVE  /\ audits' \in Seq(S \cup {e})
           /\ DOMAIN audits' \ DOMAIN audits = {Len(audits) + 1}
           /\ audits'[Len(audits) + 1] = e
           /\ DOMAIN audits \subseteq DOMAIN audits'
           /\ \A i \in DOMAIN audits : audits'[i] = audits[i] /\ i < Len(audits) + 1
           /\ \A i \in DOMAIN audits' : i \in Nat
  <1>1. audits \in Seq(S \cup {e})
    BY SeqMonotonic
  <1>2. /\ Append(audits, e) \in Seq(S \cup {e})
        /\ Len(Append(audits, e)) = Len(audits) + 1
        /\ \A i \in 1..Len(audits) : Append(audits, e)[i] = audits[i]
        /\ Append(audits, e)[Len(audits) + 1] = e
    BY <1>1, AppendProperties
  <1>3. /\ DOMAIN audits = 1..Len(audits) /\ Len(audits) \in Nat
        /\ DOMAIN audits' = 1..Len(audits) + 1
    BY <1>1, <1>2, LenProperties
  <1> QED BY <1>2, <1>3

LEMMA AuditSteps ==
    ASSUME [RNext]_rvars
    PROVE  \/ UNCHANGED audits
           \/ \E p : /\ Current(p) /\ Exhausted(p.job) /\ ~ Applied(p)
                      /\ audits' = Append(audits, p)
                      /\ UNCHANGED vars
  <1>1. ASSUME NEW o \in Operators, Apply(o)
        PROVE  \E p : /\ Current(p) /\ Exhausted(p.job) /\ ~ Applied(p)
                      /\ audits' = Append(audits, p)
                      /\ UNCHANGED vars
    BY <1>1 DEF Apply, Accepted, server
  <1>2. CASE UNCHANGED rvars
    BY <1>2 DEF rvars
  <1>3. CASE RNext
    BY <1>1, <1>3 DEF RNext, Requeue, Plan, Refuse, Drop
  <1> QED BY <1>2, <1>3

LEMMA AlwaysListed == RSpec => []AuditsListed
  <1>1. RInit => AuditsListed
    BY EmptySeq DEF RInit, AuditsListed
  <1>2. AuditsListed /\ [RNext]_rvars => AuditsListed'
    BY AuditSteps, Grows DEF AuditsListed
  <1> QED BY <1>1, <1>2, PTL DEF RSpec

\* What the evidence of a current audit proves about the tables.
LEMMA CurrentTruth ==
    ASSUME ServerInv, NEW p, Current(p)
    PROVE  LET m == jobs[p.job].target
           IN  /\ p.job \in JobIds /\ jobs[p.job] # None /\ m \in Memories
               /\ p.evidence.job = jobs[p.job]
               /\ p.decision # "needs_confirmation" =>
                    /\ Exists(m) /\ vectors[m] # None
                    /\ vectors[m] = [text |-> memory[m].content,
                                     space |-> p.evidence.expected]
                    /\ p.decision = "resolved" <=>
                         /\ jobs[p.job].version = memory[m].rev
                         /\ jobs[p.job].content = memory[m].content
  <1> DEFINE m == jobs[p.job].target
             x == p.evidence.expected
  <1>1. p.job \in JobIds /\ jobs[p.job] # None /\ m \in Memories
    BY DEF Current, Failed, ServerInv, Inv, TypeOK, Job
  <1>2. Inspect(p.job, x) = p
    BY DEF Current
  <1>3. p.decision = Decision(p.job, x) /\ p.evidence = Evidence(p.job, x)
    BY <1>2 DEF Inspect
  <1>4. p.evidence.job = jobs[p.job]
    BY <1>3 DEF Evidence
  <1>5. ASSUME p.decision # "needs_confirmation"
        PROVE  /\ Exists(m) /\ vectors[m] # None
               /\ vectors[m] = [text |-> memory[m].content, space |-> x]
               /\ p.decision = "resolved" <=>
                    jobs[p.job].version = memory[m].rev /\ jobs[p.job].content = memory[m].content
    <2>1. /\ Exists(m) /\ vectors[m] # None /\ vectors[m].space = x
          /\ p.decision = IF jobs[p.job].version = memory[m].rev
                             /\ jobs[p.job].content = memory[m].content
                          THEN "resolved" ELSE "superseded"
      BY <1>3, <1>5 DEF Decision
    <2>2. vectors[m].text = memory[m].content
      BY <1>1, <2>1 DEF ServerInv, VectorFresh
    <2>3. vectors[m] \in Vector
      BY <1>1, <2>1 DEF ServerInv, Inv, TypeOK
    <2> HIDE DEF m, x
    <2>4. vectors[m] = [text |-> memory[m].content, space |-> x]
      BY <2>1, <2>2, <2>3 DEF Vector
    <2> QED BY <2>1, <2>4
  <1> QED BY <1>1, <1>4, <1>5

(* Whatever the server, other programs and other operators did between plan *)
(* and apply: at the moment an audit is committed its row has the vector,   *)
(* in the expected space, of the text it has then.                          *)
THEOREM AuditsAreTrue == RSpec => AuditsTellTruth
  <1> DEFINE Truth ==
        \A i \in DOMAIN audits' \ DOMAIN audits :
          LET a == audits'[i]
              m == jobs[a.job].target
          IN  a.decision # "needs_confirmation" =>
                 /\ Exists(m)
                 /\ vectors[m] = [text |-> memory[m].content, space |-> a.evidence.expected]
                 /\ a.decision = "resolved" <=>
                       jobs[a.job].version = memory[m].rev /\ jobs[a.job].content = memory[m].content
  <1>1. ASSUME ServerInv, AuditsListed, [RNext]_rvars PROVE [Truth]_rvars
    <2>1. CASE UNCHANGED audits
      BY <2>1
    <2>2. ASSUME NEW p, Current(p), audits' = Append(audits, p) PROVE Truth
      <3>1. PICK S : audits \in Seq(S)
        BY <1>1 DEF AuditsListed
      <3>2. \A i \in DOMAIN audits' \ DOMAIN audits : audits'[i] = p
        BY <2>2, <3>1, Grows
      <3> QED BY <1>1, <2>2, <3>2, CurrentTruth
    <2> QED BY <1>1, <2>1, <2>2, AuditSteps
  <1>2. RSpec => [][Truth]_rvars
    <2> HIDE DEF Truth
    <2> QED BY <1>1, ServerInvAlways, AlwaysListed, PTL DEF RSpec
  <1> QED BY <1>2 DEF AuditsTellTruth

-----------------------------------------------------------------------------
(* An explanation lasts: the row of an audit that explains its job keeps a  *)
(* vector as long as it exists.                                             *)

Lasting(a) ==
    LET m == a.evidence.job.target
    IN  /\ a.job \in JobIds /\ a.job <= lastJob
        /\ jobs[a.job] # None => jobs[a.job].target = m
        /\ a.decision # "needs_confirmation" =>
             /\ m \in Memories /\ memory[m] # None
             /\ Exists(m) => vectors[m] # None

AuditsLast == \A i \in DOMAIN audits : Lasting(audits[i])

\* No step gives another row to a number that was given out.
LEMMA TargetKept ==
    ASSUME Inv, JobsInOrder, ServerStep, NEW j \in JobIds, j <= lastJob, jobs'[j] # None
    PROVE  jobs[j] # None /\ jobs'[j].target = jobs[j].target
  <1>1. CASE UNCHANGED jobs
    BY <1>1
  <1>2. ASSUME NEW t \in Threads, ThreadNext(t)
        PROVE  jobs[j] # None /\ jobs'[j].target = jobs[j].target
    <2>1. CASE ~ Enqueue(t)
      BY <1>2, <2>1, ThreadOnJobs DEF Continues
    <2>2. CASE Enqueue(t)
      <3>1. j # lastJob + 1
        BY DEF Inv, TypeOK, JobIds
      <3>2. jobs'[j] = jobs[j]
        BY <2>2, <3>1 DEF Enqueue, Inv, TypeOK
      <3> QED BY <3>2
    <2> QED BY <2>1, <2>2
  <1>3. ASSUME NEW d \in Drainers, DrainerNext(d) \/ FaultNext(d)
        PROVE  jobs[j] # None /\ jobs'[j].target = jobs[j].target
    <2> USE NoneAssumption
    <2>. jobs \in [JobIds -> Job \cup {None}]
      BY DEF Inv, TypeOK
    <2>1. CASE Startup(d)
      BY <2>1 DEF Startup, ResetRunning, Job
    <2>2. CASE Fetch(d)
      BY <2>2 DEF Fetch, Retryable, Job
    <2>3. CASE CompleteFresh(d) \/ CompleteStale(d) \/ MarkFailed(d)
      <3>1. CASE UNCHANGED jobs
        BY <3>1
      <3>2. CASE StillRunning(drainer[d].claim)
        <4>1. PICK i \in JobIds : i = drainer[d].claim.id /\ jobs[i] \in Job /\ jobs[i] # None
          BY <2>3, <3>2 DEF CompleteFresh, CompleteStale, MarkFailed, Inv, TypeOK,
                            DrainerHolds, DrainerState, Claim, StillRunning
        <4>2. \/ jobs' = [jobs EXCEPT ![i].status = "done"]
              \/ jobs' = [jobs EXCEPT ![i] = [jobs[i] EXCEPT !.status = "failed",
                                               !.attempts = jobs[i].attempts + 1]]
          BY <2>3, <3>2, <4>1 DEF CompleteFresh, CompleteStale, MarkFailed
        <4>3. \A k \in JobIds : k # i => jobs'[k] = jobs[k]
          BY <4>2
        <4>4. jobs'[i].target = jobs[i].target
          <5>1. \/ jobs'[i] = [jobs[i] EXCEPT !.status = "done"]
                \/ jobs'[i] = [jobs[i] EXCEPT !.status = "failed",
                                              !.attempts = jobs[i].attempts + 1]
            BY <4>2
          <5> QED BY <4>1, <5>1 DEF Job
        <4> QED BY <4>1, <4>3, <4>4
      <3> QED BY <2>3, <3>1, <3>2 DEF CompleteFresh, CompleteStale, MarkFailed
    <2> QED
      BY <1>3, <2>1, <2>2, <2>3
         DEF DrainerNext, FaultNext, EmbedJob, EmbedJobFails, CompleteGone, CompleteRaises,
             Crash, StartupResetFails, MarkFailedFails, db
  <1>4. CASE OperatorNext
    BY <1>4, OperatorOnJobs DEF Continues
  <1>5. CASE AskedAgain
    BY <1>1, <1>5, AskedAgainKeeps
  <1> QED BY <1>1, <1>2, <1>3, <1>4, <1>5 DEF ServerStep, Next, vars

LEMMA NumbersGrow == Inv /\ ServerStep => lastJob' >= lastJob
  <1>1. ASSUME Inv, NEW t \in Threads, ThreadNext(t) PROVE lastJob' >= lastJob
    <2>1. lastJob' = lastJob \/ lastJob' = lastJob + 1
      BY <1>1 DEF ThreadNext, ColdAdd, BeginUpdate, Backfill, Enqueue,
                  EnqueueRefused, RereadText, ReadEntry, EmbedEntry, StoreEntry, EmbedNew,
                  CommitUpdate, Abandon, db
    <2> QED BY <1>1, <2>1 DEF Inv, TypeOK
  <1>2. ASSUME Inv, NEW d \in Drainers, DrainerNext(d) \/ FaultNext(d)
        PROVE  lastJob' = lastJob
    BY <1>2 DEF DrainerNext, FaultNext, Startup, Fetch, EmbedJob, EmbedJobFails,
                CompleteFresh, CompleteStale, CompleteGone, CompleteRaises, MarkFailed,
                Crash, StartupResetFails, MarkFailedFails, db
  <1>3. ASSUME OperatorNext PROVE lastJob' = lastJob
    BY <1>3
       DEF OperatorNext, CleanupDone, InsertUnqueued, PurgeRow, AdoptLegacySpace, SwitchProvider, db
  <1> QED
    BY <1>1, <1>2, <1>3, AskedAgainKeeps
       DEF ServerStep, Next, vars, Inv, TypeOK

LEMMA StaysLasting ==
    ASSUME ServerInv, ServerInv', ServerStep, NEW a, Lasting(a)
    PROVE  Lasting(a)'
  <1> DEFINE m == a.evidence.job.target
  <1>1. Inv /\ Inv' /\ DataStep /\ JobsInOrder
    BY ServerInductive DEF ServerInv
  <1>2. /\ a.job \in JobIds /\ a.job <= lastJob
        /\ jobs[a.job] # None => jobs[a.job].target = m
    BY DEF Lasting
  <1>3. a.job <= lastJob'
    BY <1>1, <1>2, NumbersGrow DEF Inv, TypeOK, JobIds
  <1>4. jobs'[a.job] # None => jobs'[a.job].target = m
    BY <1>1, <1>2, TargetKept
  <1>5. ASSUME a.decision # "needs_confirmation"
        PROVE  /\ m \in Memories /\ memory'[m] # None
               /\ Exists(m)' => vectors'[m] # None
    <2>1. m \in Memories /\ memory[m] # None /\ (Exists(m) => vectors[m] # None)
      BY <1>5 DEF Lasting
    <2> HIDE DEF m
    <2> QED BY <1>1, <2>1, RowsMove
  <1> QED BY <1>2, <1>3, <1>4, <1>5 DEF Lasting, Exists

LEMMA LastingAlways == RSpec => []AuditsLast
  <1>1. RInit => AuditsLast
    <2> SUFFICES ASSUME RInit PROVE DOMAIN audits = {}
      BY DEF AuditsLast
    <2> QED BY DEF RInit
  <1>2. ASSUME ServerInv, ServerInv', AuditsListed, AuditsLast, [RNext]_rvars
        PROVE  AuditsLast'
    <2>1. CASE UNCHANGED audits
      <3>1. \A i \in DOMAIN audits' : Lasting(audits'[i])
        BY <1>2, <2>1 DEF AuditsLast
      <3>2. ASSUME NEW i \in DOMAIN audits' PROVE Lasting(audits[i])'
        <4>1. PICK a : a = audits[i] /\ Lasting(a)
          BY <1>2, <2>1, <3>1
        <4>2. Lasting(a)'
          BY <1>2, <4>1, StepsOfServer, StaysLasting
        <4> QED BY <2>1, <4>1, <4>2 DEF Lasting
      <3> QED BY <3>2 DEF AuditsLast
    <2>2. ASSUME NEW p, Current(p), audits' = Append(audits, p), UNCHANGED vars
          PROVE  AuditsLast'
      <3>1. PICK S : audits \in Seq(S)
        BY <1>2 DEF AuditsListed
      <3>2. Lasting(p)
        BY <1>2, <2>2, CurrentTruth DEF ServerInv, JobsInOrder, Lasting, Exists
      <3>3. \A i \in DOMAIN audits' : Lasting(audits'[i])
        BY <1>2, <2>2, <3>1, <3>2, Grows DEF AuditsLast
      <3> QED BY <2>2, <3>3 DEF AuditsLast, Lasting, Exists, vars
    <2> QED BY <1>2, <2>1, <2>2, AuditSteps
  <1> QED BY <1>1, <1>2, ServerInvAlways, AlwaysListed, PTL DEF RSpec

(* A failure that the statistics no longer count stays explained: its row   *)
(* is found by search, by the text it has now, as long as it exists.        *)
THEOREM ExplanationsLast == RSpec => []ExplainedStayFindable
  <1>1. ASSUME ServerInv, AuditsLast PROVE ExplainedStayFindable
    <2> SUFFICES ASSUME NEW j \in Explained, Exists(jobs[j].target)
                 PROVE  /\ vectors[jobs[j].target] # None
                        /\ vectors[jobs[j].target].text = memory[jobs[j].target].content
      BY DEF ExplainedStayFindable
    <2>1. PICK i \in DOMAIN audits :
            audits[i].job = j /\ audits[i].decision \in {"resolved", "superseded"}
      BY DEF Explained
    <2>2. j \in JobIds /\ jobs[j] # None
      BY DEF Explained, Failed
    <2>3. Lasting(audits[i])
      BY <1>1 DEF AuditsLast
    <2>4. jobs[j].target \in Memories /\ vectors[jobs[j].target] # None
      BY <2>1, <2>2, <2>3 DEF Lasting
    <2> QED BY <1>1, <2>4 DEF ServerInv, VectorFresh
  <1> QED BY <1>1, ServerInvAlways, LastingAlways, PTL

(* The same evidence is never applied twice in a row to a job, by however   *)
(* many operators: each reads the latest audit in its own transaction.      *)
THEOREM AuditsNotRepeated == RSpec => []NoRepeatedAudit
  <1>1. RInit => NoRepeatedAudit
    BY DEF RInit, NoRepeatedAudit
  <1>2. ASSUME AuditsListed, NoRepeatedAudit, [RNext]_rvars PROVE NoRepeatedAudit'
    <2>1. CASE UNCHANGED audits
      BY <1>2, <2>1 DEF NoRepeatedAudit
    <2>2. ASSUME NEW p, ~ Applied(p), audits' = Append(audits, p) PROVE NoRepeatedAudit'
      <3>1. PICK S : audits \in Seq(S)
        BY <1>2 DEF AuditsListed
      <3> DEFINE l == Len(audits) + 1
      <3>2. /\ DOMAIN audits = 1..Len(audits) /\ Len(audits) \in Nat
            /\ DOMAIN audits' = 1..l /\ audits'[l] = p
            /\ \A i \in 1..Len(audits) : audits'[i] = audits[i]
        <4>1. DOMAIN audits = 1..Len(audits) /\ Len(audits) \in Nat
          BY <3>1, LenProperties
        <4>2. DOMAIN audits' = DOMAIN audits \cup {l}
          BY <2>2, <3>1, Grows
        <4> QED BY <2>2, <3>1, <4>1, <4>2, Grows
      <3> SUFFICES ASSUME NEW i \in DOMAIN audits', NEW k \in DOMAIN audits', i < k,
                          audits'[i].job = audits'[k].job,
                          audits'[i].evidence = audits'[k].evidence
                   PROVE  \E n \in i + 1 .. k - 1 : audits'[n].job = audits'[i].job
        BY DEF NoRepeatedAudit
      <3>3. CASE k # l
        <4>1. i \in DOMAIN audits /\ k \in DOMAIN audits
          BY <3>2, <3>3
        <4>2. PICK n \in i + 1 .. k - 1 : audits[n].job = audits[i].job
          BY <1>2, <3>2, <4>1 DEF NoRepeatedAudit
        <4> QED BY <3>2, <4>1, <4>2
      <3>4. CASE k = l
        <4>1. i \in DOMAIN audits /\ audits[i].job = p.job /\ audits[i].evidence = p.evidence
          BY <3>2, <3>4
        <4>2. PICK n \in DOMAIN audits : n > i /\ audits[n].job = audits[i].job
          BY <2>2, <4>1 DEF Applied, Latest
        <4>3. n \in i + 1 .. k - 1
          BY <3>2, <3>4, <4>1, <4>2
        <4> QED BY <3>2, <4>1, <4>2, <4>3
      <3> QED BY <3>3, <3>4
    <2> QED BY <1>2, <2>1, <2>2, AuditSteps
  <1> QED BY <1>1, <1>2, AlwaysListed, PTL DEF RSpec

=============================================================================
