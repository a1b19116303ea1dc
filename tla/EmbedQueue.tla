----------------------------- MODULE EmbedQueue -----------------------------
(***************************************************************************)
(* The asynchronous embedding queue of OpenHippo: core/embed_queue.py, the *)
(* vector half of core/storage.py and the engine's embedding paths.        *)
(*                                                                         *)
(* A row of cold_memory needs a vector of its text.  Request threads       *)
(* insert rows and enqueue jobs, rewrite rows (cold_update) and embed rows *)
(* directly (backfill, fallback when the queue refuses a job); drainers    *)
(* claim jobs, call the embedding provider outside any transaction and     *)
(* complete the job in one transaction.  Every action is one SQLite        *)
(* transaction or one provider call, so that everything that may happen    *)
(* between two of them does happen here.                                   *)
(*                                                                         *)
(* The text of a vector is kept beside its space instead of the floats:    *)
(* two embeddings of one text in one space are the same vector.            *)
(***************************************************************************)
EXTENDS Integers

CONSTANTS
    Memories,     \* ids of cold_memory rows (uuids, never used twice)
    Contents,     \* the texts a row can hold
    Spaces,       \* identities (model and space_id) a provider can have
    Drainers,     \* processes that drain the queue (the server's worker)
    Threads,      \* request threads
    Legacy,       \* rows whose vector predates the space metadata
    MaxAttempts,  \* MAX_ATTEMPTS
    MaxJobs,      \* bound: jobs ever enqueued
    MaxRev,       \* bound: revisions of a row
    MaxCrashes,   \* bound: crashes of a drainer
    MaxLost,      \* bound: bookkeeping writes that fail and are only logged
    None,         \* SQL NULL, or no such row
    Purged        \* the id of a row that was deleted

JobIds == 1..MaxJobs

\* A revision stands for updated_at, which cold_update makes strictly larger.
Row      == [content : Contents, rev : Nat]
Vector   == [text : Contents, space : Spaces \cup {None}]
Statuses == {"pending", "running", "failed", "done"}
Job      == [status : Statuses, attempts : 0..MaxAttempts, target : Memories,
             content : Contents, version : Nat \cup {None}]
Receipt  == [target : Memories, content : Contents, rev : Nat,
             vector : Vector]
Claim    == [id : JobIds, target : Memories, content : Contents,
             attempts : 0..MaxAttempts]

ASSUME BoundsAssumption ==
    /\ MaxAttempts \in Nat \ {0} /\ MaxJobs \in Nat
    /\ MaxRev \in Nat /\ MaxCrashes \in Nat /\ MaxLost \in Nat
ASSUME LegacyAssumption == Legacy \subseteq Memories
ASSUME NoneAssumption ==
    /\ None \notin Memories /\ None \notin Contents /\ None \notin Spaces
    /\ None \notin Nat
    /\ None \notin Row /\ None \notin Vector /\ None \notin Job
    /\ None \notin Receipt /\ None \notin Claim
    /\ Purged \notin Row /\ Purged # None

VARIABLES
    memory,    \* cold_memory: id -> row, None before its insert
    vectors,   \* cold_embeddings, cold_memory_vec and embedding_spaces
    jobs,      \* embedding_jobs joined with embedding_job_versions
    lastJob,   \* the AUTOINCREMENT sequence of embedding_jobs
    receipts,  \* embedding_job_receipts
    drainer,   \* what each drainer is doing
    thread,    \* what each request thread is doing
    provider,  \* the space the embedding provider works in now
    crashes,   \* crashes so far
    lost       \* bookkeeping writes lost so far

db   == <<memory, vectors, jobs, lastJob, receipts>>
rest == <<provider, crashes, lost>>
vars == <<memory, vectors, jobs, lastJob, receipts, drainer, thread,
          provider, crashes, lost>>

DrainerState ==
    [pc : {"down", "idle", "embed", "complete", "fail"},
     claim : Claim \cup {None}, vec : Vector \cup {None}]
ThreadState ==
    [pc : {"idle", "reread", "enqueue", "read", "embed", "store", "embedNew", "update"},
     mem : Memories \cup {None}, entry : Row \cup {None},
     text : Contents \cup {None}, vec : Vector \cup {None}]

TypeOK ==
    /\ memory   \in [Memories -> Row \cup {None, Purged}]
    /\ vectors  \in [Memories -> Vector \cup {None}]
    /\ jobs     \in [JobIds -> Job \cup {None}]
    /\ lastJob  \in 0..MaxJobs
    /\ receipts \in [JobIds -> Receipt \cup {None}]
    /\ drainer  \in [Drainers -> DrainerState]
    /\ thread   \in [Threads -> ThreadState]
    /\ provider \in Spaces
    /\ crashes  \in 0..MaxCrashes
    /\ lost     \in 0..MaxLost

Down    == [pc |-> "down", claim |-> None, vec |-> None]
Idle    == [pc |-> "idle", claim |-> None, vec |-> None]
Waiting == [pc |-> "idle", mem |-> None, entry |-> None, text |-> None,
            vec |-> None]

-----------------------------------------------------------------------------
(* What storage.py decides from the tables.                                *)

Exists(m) == memory[m] \notin {None, Purged}

(* Mistakes this code could plausibly have made, one operator each; none is *)
(* part of the specification, they show what the properties would notice.  *)

\* The check before a store looks only whether the row is still there.
EntryMatches_ById(m, row) == Exists(m)

\* A vector without space metadata is taken for one of any space.
SpaceOpen_UnknownIsFine(s) ==
    \A m \in Memories : vectors[m] # None => vectors[m].space \in {None, s}

\* fetch_one_pending without the attempts limit.
Retryable_Uncapped(j) ==
    jobs[j] # None /\ jobs[j].status \in {"pending", "failed"}

\* "newer job" written with >= instead of >.
HasNewerJob_OrSame(j) ==
    \E k \in JobIds : k >= j /\ jobs[k] # None /\ jobs[k].target = jobs[j].target

\* updated_at from a clock that did not advance, without nextafter.
NextRev_ClockOnly(row) == row.rev

\* The status guards of mark_failed and complete_job dropped.
StillRunning_AnyStatus(claim) == jobs[claim.id] # None

\* A start that leaves interrupted jobs as they are.
ResetRunning_Forgotten == jobs

\* A purge that leaves the rows of the vector tables behind.
PurgeRow_KeepsVector(m) ==
    /\ Exists(m)
    /\ memory' = [memory EXCEPT ![m] = Purged]
    /\ UNCHANGED <<vectors, jobs, lastJob, receipts, drainer, thread, rest>>

-----------------------------------------------------------------------------
(* The decisions as the code takes them.                                   *)

\* _entry_matches: the row is still the one that was read.
EntryMatches(m, row) == Exists(m) /\ memory[m] = row

\* _check_vector_space: one vector of another or of an unknown space closes
\* the whole index.
SpaceOpen(s) == \A m \in Memories : vectors[m] # None => vectors[m].space = s

\* get_embedding: the provider's answer carries the space it was made in.
Embedding(c) == [text |-> c, space |-> provider]

Retryable(j) ==
    /\ jobs[j] # None
    /\ jobs[j].status \in {"pending", "failed"}
    /\ jobs[j].attempts < MaxAttempts

HasNewerJob(j) ==
    \E k \in JobIds : k > j /\ jobs[k] # None /\ jobs[k].target = jobs[j].target

-----------------------------------------------------------------------------
(* Legacy rows start with a vector that has no entry in embedding_spaces.  *)
Init ==
    /\ \E text \in [Legacy -> Contents] :
        /\ memory = [m \in Memories |->
                        IF m \in Legacy THEN [content |-> text[m], rev |-> 1]
                                        ELSE None]
        /\ vectors = [m \in Memories |->
                        IF m \in Legacy THEN [text |-> text[m], space |-> None]
                                        ELSE None]
    /\ jobs = [j \in JobIds |-> None]
    /\ lastJob = 0
    /\ receipts = [j \in JobIds |-> None]
    /\ drainer = [d \in Drainers |-> Down]
    /\ thread = [t \in Threads |-> Waiting]
    /\ provider \in Spaces
    /\ crashes = 0 /\ lost = 0

-----------------------------------------------------------------------------
(* Request threads: insert a row and hand it to the queue.                 *)

\* The engine's cold_add, archive and the second insert of an eviction: the
\* row is committed before anything is enqueued.  Only archive does not hand
\* its text on and has it read once more.  See InsertUnqueued for the rest.
ColdAdd(t, m, c) ==
    /\ thread[t].pc = "idle"
    /\ memory[m] = None
    /\ memory' = [memory EXCEPT ![m] = [content |-> c, rev |-> 1]]
    /\ \E next \in {"enqueue", "reread"} :
         thread' = [thread EXCEPT ![t] =
                      [Waiting EXCEPT !.pc = next, !.mem = m, !.text = c]]
    /\ UNCHANGED <<vectors, jobs, lastJob, receipts, drainer, rest>>

RereadText(t) ==
    LET m == thread[t].mem
    IN  /\ thread[t].pc = "reread"
        /\ thread' = [thread EXCEPT ![t] =
                        IF Exists(m)
                        THEN [Waiting EXCEPT !.pc = "enqueue", !.mem = m,
                                             !.text = memory[m].content]
                        ELSE Waiting]
        /\ UNCHANGED <<db, drainer, rest>>

\* enqueue: a snapshot of the row's version goes in with the job; a row
\* that has other content by now refuses the job.
Enqueue(t) ==
    LET m == thread[t].mem
    IN  /\ thread[t].pc = "enqueue"
        /\ lastJob < MaxJobs
        /\ Exists(m) => memory[m].content = thread[t].text
        /\ jobs' = [jobs EXCEPT ![lastJob + 1] =
                      [status |-> "pending", attempts |-> 0, target |-> m,
                       content |-> thread[t].text,
                       version |-> IF Exists(m) THEN memory[m].rev ELSE None]]
        /\ lastJob' = lastJob + 1
        /\ thread' = [thread EXCEPT ![t] = Waiting]
        /\ UNCHANGED <<memory, vectors, receipts, drainer, rest>>

\* _embed_or_enqueue when enqueue raises (stale content or a busy database)
\* or the queue is switched off: embed the row in this thread.
EnqueueRefused(t) ==
    /\ thread[t].pc = "enqueue"
    /\ thread' = [thread EXCEPT ![t] =
                    [Waiting EXCEPT !.pc = "read", !.mem = thread[t].mem]]
    /\ UNCHANGED <<db, drainer, rest>>

\* embed_all_cold picks the rows that have no vector.
Backfill(t, m) ==
    /\ thread[t].pc = "idle"
    /\ Exists(m) /\ vectors[m] = None
    /\ thread' = [thread EXCEPT ![t] =
                    [Waiting EXCEPT !.pc = "read", !.mem = m]]
    /\ UNCHANGED <<db, drainer, rest>>

(* _embed_cold_entry: read the row, embed its text, store under a check.   *)
ReadEntry(t) ==
    LET m == thread[t].mem
    IN  /\ thread[t].pc = "read"
        /\ thread' = [thread EXCEPT ![t] =
                        IF Exists(m)
                        THEN [Waiting EXCEPT !.pc = "embed", !.mem = m,
                                             !.entry = memory[m]]
                        ELSE Waiting]
        /\ UNCHANGED <<db, drainer, rest>>

EmbedEntry(t) ==
    /\ thread[t].pc = "embed"
    /\ thread' = [thread EXCEPT ![t] =
                    [thread[t] EXCEPT !.pc = "store", !.vec = Embedding(thread[t].entry.content)]]
    /\ UNCHANGED <<db, drainer, rest>>

\* vec_store with the entry that was read as `expected`; it raises when the
\* row changed or the space is closed, and _embed_cold_entry gives up.
StoreEntry(t) ==
    LET w == thread[t]
    IN  /\ w.pc = "store"
        /\ vectors' = IF EntryMatches(w.mem, w.entry) /\ SpaceOpen(w.vec.space)
                      THEN [vectors EXCEPT ![w.mem] = w.vec]
                      ELSE vectors
        /\ thread' = [thread EXCEPT ![t] = Waiting]
        /\ UNCHANGED <<memory, jobs, lastJob, receipts, drainer, rest>>

(* cold_update: read the row, embed the new text, commit all or nothing.   *)
BeginUpdate(t, m, c) ==
    /\ thread[t].pc = "idle"
    /\ Exists(m) /\ memory[m].rev < MaxRev
    /\ thread' = [thread EXCEPT ![t] =
                    [Waiting EXCEPT !.pc = "embedNew", !.mem = m,
                                    !.entry = memory[m], !.text = c]]
    /\ UNCHANGED <<db, drainer, rest>>

EmbedNew(t) ==
    /\ thread[t].pc = "embedNew"
    /\ thread' = [thread EXCEPT ![t] =
                    [thread[t] EXCEPT !.pc = "update", !.vec = Embedding(thread[t].text)]]
    /\ UNCHANGED <<db, drainer, rest>>

\* Jobs of the row that wait or run are closed with the rewrite; failed
\* ones are history and stay.
Superseded(j, m) ==
    jobs[j] # None /\ jobs[j].target = m /\ jobs[j].status \in {"pending", "running"}

\* The new updated_at is later than the old one even if the clock stood still.
NextRev(row) == row.rev + 1

CommitUpdate(t) ==
    LET w == thread[t]
    IN  /\ w.pc = "update"
        /\ thread' = [thread EXCEPT ![t] = Waiting]
        /\ IF EntryMatches(w.mem, w.entry) /\ SpaceOpen(w.vec.space)
           THEN /\ memory' = [memory EXCEPT ![w.mem] =
                                [content |-> w.text, rev |-> NextRev(w.entry)]]
                /\ vectors' = [vectors EXCEPT ![w.mem] = w.vec]
                /\ jobs' = [j \in JobIds |->
                              IF Superseded(j, w.mem)
                              THEN [jobs[j] EXCEPT !.status = "done"]
                              ELSE jobs[j]]
           ELSE UNCHANGED <<memory, vectors, jobs>>
        /\ UNCHANGED <<lastJob, receipts, drainer, rest>>

\* The provider answers nothing, or the database raises, or the process
\* dies: the thread drops what it was doing.
Abandon(t) ==
    /\ thread[t].pc # "idle"
    /\ thread' = [thread EXCEPT ![t] = Waiting]
    /\ UNCHANGED <<db, drainer, rest>>

-----------------------------------------------------------------------------
(* Drainers: embedding_worker.                                             *)

ResetRunning ==
    [j \in JobIds |-> IF jobs[j] # None /\ jobs[j].status = "running"
                      THEN [jobs[j] EXCEPT !.status = "pending"]
                      ELSE jobs[j]]

\* The server's lifespan: reset_running_on_startup, then start the worker.
Startup(d) ==
    /\ drainer[d].pc = "down"
    /\ jobs' = ResetRunning
    /\ drainer' = [drainer EXCEPT ![d] = Idle]
    /\ UNCHANGED <<memory, vectors, lastJob, receipts, thread, rest>>

\* fetch_one_pending: the oldest job that may be tried, flipped to running.
Fetch(d) ==
    \E j \in JobIds :
        /\ drainer[d].pc = "idle"
        /\ Retryable(j)
        /\ \A k \in JobIds : Retryable(k) => j <= k
        /\ jobs' = [jobs EXCEPT ![j].status = "running"]
        /\ drainer' = [drainer EXCEPT ![d] =
                         [pc |-> "embed", vec |-> None,
                          claim |-> [id |-> j, target |-> jobs[j].target,
                                     content |-> jobs[j].content,
                                     attempts |-> jobs[j].attempts]]]
        /\ UNCHANGED <<memory, vectors, lastJob, receipts, thread, rest>>

EmbedJob(d) ==
    /\ drainer[d].pc = "embed"
    /\ drainer' = [drainer EXCEPT ![d] =
                    [drainer[d] EXCEPT !.pc = "complete",
                                       !.vec = Embedding(drainer[d].claim.content)]]
    /\ UNCHANGED <<db, thread, rest>>

\* The provider returned nothing.
EmbedJobFails(d) ==
    /\ drainer[d].pc = "embed"
    /\ drainer' = [drainer EXCEPT ![d].pc = "fail"]
    /\ UNCHANGED <<db, thread, rest>>

\* complete_job: is the claim still the job, the job still the row's last,
\* and the row still the revision the job was enqueued for?
Valid(claim) ==
    LET job == jobs[claim.id]
    IN  /\ job.version # None
        /\ job.target = claim.target
        /\ job.content = claim.content
        /\ job.attempts = claim.attempts
        /\ EntryMatches(job.target,
                        [content |-> job.content, rev |-> job.version])
        /\ ~HasNewerJob(claim.id)

StillRunning(claim) ==
    jobs[claim.id] # None /\ jobs[claim.id].status = "running"

\* Vector, receipt and status are one commit.
CompleteFresh(d) ==
    LET claim == drainer[d].claim
        vec   == drainer[d].vec
        job   == jobs[claim.id]
    IN  /\ drainer[d].pc = "complete"
        /\ StillRunning(claim) /\ Valid(claim)
        /\ SpaceOpen(vec.space)
        /\ vectors' = [vectors EXCEPT ![job.target] = vec]
        /\ receipts' = [receipts EXCEPT ![claim.id] =
                          [target |-> job.target, content |-> job.content,
                           rev |-> job.version, vector |-> vec]]
        /\ jobs' = [jobs EXCEPT ![claim.id].status = "done"]
        /\ drainer' = [drainer EXCEPT ![d] = Idle]
        /\ UNCHANGED <<memory, lastJob, thread, rest>>

\* The job is closed as stale and its vector thrown away.
CompleteStale(d) ==
    LET claim == drainer[d].claim
    IN  /\ drainer[d].pc = "complete"
        /\ StillRunning(claim) /\ ~Valid(claim)
        /\ jobs' = [jobs EXCEPT ![claim.id].status = "done"]
        /\ drainer' = [drainer EXCEPT ![d] = Idle]
        /\ UNCHANGED <<memory, vectors, lastJob, receipts, thread, rest>>

\* Somebody else closed the job while it was being embedded.
CompleteGone(d) ==
    /\ drainer[d].pc = "complete"
    /\ ~StillRunning(drainer[d].claim)
    /\ drainer' = [drainer EXCEPT ![d] = Idle]
    /\ UNCHANGED <<db, thread, rest>>

\* The space is closed, or the database is busy: nothing of it is committed.
CompleteRaises(d) ==
    /\ drainer[d].pc = "complete"
    /\ drainer' = [drainer EXCEPT ![d].pc = "fail"]
    /\ UNCHANGED <<db, thread, rest>>

\* mark_failed: only a job that still runs is failed and counted.
MarkFailed(d) ==
    LET claim == drainer[d].claim
        job   == jobs[claim.id]
    IN  /\ drainer[d].pc = "fail"
        /\ jobs' = IF StillRunning(claim)
                   THEN [jobs EXCEPT ![claim.id] =
                           [job EXCEPT !.status = "failed",
                                       !.attempts = job.attempts + 1]]
                   ELSE jobs
        /\ drainer' = [drainer EXCEPT ![d] = Idle]
        /\ UNCHANGED <<memory, vectors, lastJob, receipts, thread, rest>>

-----------------------------------------------------------------------------
(* Faults, and whatever else writes the tables.                            *)

\* The process is killed, or its worker is cancelled at shutdown.
Crash(d) ==
    /\ drainer[d].pc # "down" /\ crashes < MaxCrashes
    /\ drainer' = [drainer EXCEPT ![d] = Down]
    /\ crashes' = crashes + 1
    /\ UNCHANGED <<db, thread, provider, lost>>

\* "startup reset failed" is logged and the worker starts all the same.
StartupResetFails(d) ==
    /\ drainer[d].pc = "down" /\ lost < MaxLost
    /\ drainer' = [drainer EXCEPT ![d] = Idle]
    /\ lost' = lost + 1
    /\ UNCHANGED <<db, thread, provider, crashes>>

\* "mark_failed itself failed" is logged and the worker goes on.
MarkFailedFails(d) ==
    /\ drainer[d].pc = "fail" /\ lost < MaxLost
    /\ drainer' = [drainer EXCEPT ![d] = Idle]
    /\ lost' = lost + 1
    /\ UNCHANGED <<db, thread, provider, crashes>>

\* cleanup_done: old done jobs go, unless a receipt speaks of them.
CleanupDone(j) ==
    /\ jobs[j] # None /\ jobs[j].status = "done" /\ receipts[j] = None
    /\ jobs' = [jobs EXCEPT ![j] = None]
    /\ UNCHANGED <<memory, vectors, lastJob, receipts, drainer, thread,
                   rest>>

\* hot_remove, called by remove and by an eviction: the row it archives is
\* inserted and hidden and handed to nobody.  Nor are rows that an import
\* brings without their vectors.
InsertUnqueued(m, c) ==
    /\ memory[m] = None
    /\ memory' = [memory EXCEPT ![m] = [content |-> c, rev |-> 1]]
    /\ UNCHANGED <<vectors, jobs, lastJob, receipts, drainer, thread, rest>>

\* purge_overdue_dormant: the row goes with its vector; its jobs stay.  Which
\* rows may be purged is the matter of DreamLifecycle, here any may.
PurgeRow(m) ==
    /\ Exists(m)
    /\ memory' = [memory EXCEPT ![m] = Purged]
    /\ vectors' = [vectors EXCEPT ![m] = None]
    /\ UNCHANGED <<jobs, lastJob, receipts, drainer, thread, rest>>

\* adopt_legacy_space: an operator vouches that every vector of unknown
\* space belongs to s; refused when some vector is known to be elsewhere.
\* All Spaces are spaces of the legacy vectors' model: another is refused.
AdoptLegacySpace(s) ==
    /\ \E m \in Memories : vectors[m] # None
    /\ \A m \in Memories : vectors[m] # None => vectors[m].space \in {None, s}
    /\ vectors' = [m \in Memories |->
                     IF vectors[m] # None THEN [vectors[m] EXCEPT !.space = s]
                                          ELSE None]
    /\ UNCHANGED <<memory, jobs, lastJob, receipts, drainer, thread, rest>>

\* The provider is configured or detected anew.
SwitchProvider(s) ==
    /\ s # provider
    /\ provider' = s
    /\ UNCHANGED <<db, drainer, thread, crashes, lost>>

-----------------------------------------------------------------------------
ThreadNext(t) ==
    \/ \E m \in Memories, c \in Contents : ColdAdd(t, m, c)
    \/ \E m \in Memories, c \in Contents : BeginUpdate(t, m, c)
    \/ \E m \in Memories : Backfill(t, m)
    \/ RereadText(t) \/ Enqueue(t) \/ EnqueueRefused(t)
    \/ ReadEntry(t) \/ EmbedEntry(t) \/ StoreEntry(t)
    \/ EmbedNew(t) \/ CommitUpdate(t)
    \/ Abandon(t)

DrainerNext(d) ==
    \/ Startup(d) \/ Fetch(d)
    \/ EmbedJob(d) \/ EmbedJobFails(d)
    \/ CompleteFresh(d) \/ CompleteStale(d) \/ CompleteGone(d)
    \/ CompleteRaises(d) \/ MarkFailed(d)

FaultNext(d) == Crash(d) \/ StartupResetFails(d) \/ MarkFailedFails(d)

OperatorNext ==
    \/ \E j \in JobIds : CleanupDone(j)
    \/ \E m \in Memories, c \in Contents : InsertUnqueued(m, c)
    \/ \E m \in Memories : PurgeRow(m)
    \/ \E s \in Spaces : AdoptLegacySpace(s)
    \/ \E s \in Spaces : SwitchProvider(s)

Next ==
    \/ \E t \in Threads : ThreadNext(t)
    \/ \E d \in Drainers : DrainerNext(d)
    \/ \E d \in Drainers : FaultNext(d)
    \/ OperatorNext

Spec == Init /\ [][Next]_vars

\* The server is run as a service that is started again when it stops, its
\* worker loops until it is stopped, and every call of it returns or raises.
\* Nothing is assumed of request threads, operators or the provider.
Fairness ==
    \A d \in Drainers :
        /\ WF_vars(Startup(d))
        /\ WF_vars(Fetch(d))
        /\ WF_vars(EmbedJob(d) \/ EmbedJobFails(d))
        /\ WF_vars(CompleteFresh(d) \/ CompleteStale(d) \/ CompleteGone(d)
                     \/ CompleteRaises(d))
        /\ WF_vars(MarkFailed(d))

FairSpec == Spec /\ Fairness

-----------------------------------------------------------------------------
(* Safety.                                                                 *)

\* A row is never searchable under a text it does not have: whatever
\* updates, purges, retries and late answers did in between, a vector in the
\* index was made from the present text of a row that exists
\* (vec_store's expected check, complete_job, cold_update, purge).
VectorFresh ==
    \A m \in Memories :
        vectors[m] # None => Exists(m) /\ vectors[m].text = memory[m].content

\* Vectors of two spaces are never in the index together, the unknown space
\* of legacy vectors being one of them, though the provider may change while
\* embeddings are under way (_check_vector_space).
SingleSpace ==
    \A m, n \in Memories :
        vectors[m] # None /\ vectors[n] # None
            => vectors[m].space = vectors[n].space

\* A receipt for the revision a row still has vouches for the very vector
\* the index holds, text and space; reconcile.py closes failed jobs on the
\* strength of it (_record_completion_receipt).
ReceiptVouches ==
    \A j \in JobIds :
        LET r == receipts[j]
        IN  r # None /\ Exists(r.target) /\ memory[r.target].rev = r.rev
                => /\ memory[r.target].content = r.content
                   /\ vectors[r.target] = r.vector

\* The queue never closes a job whose row it leaves invisible: a job that is
\* done, for whatever reason, has a row with a vector, or no row any more,
\* or a newer job for the same row (complete_job, cold_update).
DoneMeansIndexed ==
    \A j \in JobIds :
        jobs[j] # None /\ jobs[j].status = "done" /\ Exists(jobs[j].target)
            => \/ vectors[jobs[j].target] # None
               \/ \E k \in JobIds : /\ k > j /\ jobs[k] # None
                                     /\ jobs[k].target = jobs[j].target

(* What a step may never do.                                               *)

\* A job that is done stays done until it is cleaned up: no late failure,
\* retry or restart brings back one that an update or a completion closed
\* (the status guards of mark_failed, complete_job, reset_running_on_startup).
DoneIsFinal ==
    [][\A j \in JobIds :
          jobs[j] # None /\ jobs[j].status = "done"
              => jobs'[j] = None \/ jobs'[j].status = "done"]_vars

(* Which rows nobody will make searchable.                                 *)

\* A thread still has to embed or enqueue the row.
Carried(m) ==
    \E t \in Threads :
        /\ thread[t].mem = m
        /\ thread[t].pc \in {"reread", "enqueue", "read", "embed", "store"}

\* A job of the row waits, runs, or is counted among the failed ones.
Queued(m) == \E j \in JobIds : jobs[j] # None /\ jobs[j].target = m /\ jobs[j].status # "done"

Stranded == {m \in Memories : Exists(m) /\ vectors[m] = None /\ ~Carried(m) /\ ~Queued(m)}

\* A row that was to be embedded is left without a vector and out of sight
\* only when the thread that inserted it dies or gets no answer between the
\* insert and its vector or job, or finds the index closed to the space of
\* its vector: the queue strands none, neither by refusing, closing and
\* cleaning up jobs nor by rewrites that overtake an embedding
\* (_embed_or_enqueue, complete_job, cold_update, cleanup_done).  The rows that
\* hot_remove archives and those imported without a vector begin like that:
\* until a backfill no search by vectors finds them, also when restored.
OnlyFaultsStrand ==
    [][\/ Stranded' \subseteq Stranded
       \/ \E t \in Threads :
            \/ Abandon(t)
            \/ StoreEntry(t) /\ ~SpaceOpen(thread[t].vec.space)
       \/ \E m \in Memories, c \in Contents :
            InsertUnqueued(m, c) /\ Stranded' \subseteq Stranded \cup {m}]_vars

(* Liveness.                                                               *)

Settled(j) ==
    \/ jobs[j] = None
    \/ jobs[j].status = "done"
    \/ jobs[j].status = "failed" /\ jobs[j].attempts = MaxAttempts

\* Every job that was enqueued is in the end done or has used up its
\* attempts, through crashes, updates and failing providers ("pending ->
\* running -> done|failed (capped retries)", embed_queue.py), unless the reset
\* at startup or the record of a failure was lost: a job that is left running
\* is not looked at again while the server lives.
JobsSettle == \A j \in JobIds : [](lastJob >= j => <>(Settled(j) \/ lost > 0))

(* The queue implements the index that searches rely on.                   *)
VI == INSTANCE VectorIndex WITH
            text <- [m \in Memories |->
                        IF Exists(m) THEN memory[m].content ELSE None],
            vec  <- vectors

\* Every step of every thread, drainer and operator is, for the index, one
\* of its own steps or none (storage.py's three vector tables).
ImplementsIndex == VI!Spec

=============================================================================
