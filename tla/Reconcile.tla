------------------------------ MODULE Reconcile ------------------------------
(***************************************************************************)
(* Offline reconciliation of failed embedding jobs (reconcile.py), beside  *)
(* a server that works on the same database (EmbedQueue).                  *)
(*                                                                         *)
(* An operator's process reads the evidence about a batch of failed jobs   *)
(* in one transaction and then writes one audit per job, each in a         *)
(* transaction that reads the evidence anew.  In between the server may    *)
(* have gone on, or another operator may have been here.                   *)
(*                                                                         *)
(* The server of this module is one that ignores the audits, as older ones *)
(* do: Retryable of EmbedQueue has no hold.  The fingerprint of the        *)
(* evidence is the evidence.  The times at which vectors were stored are   *)
(* left out: where the code finds a receipt for an equal vector stored at  *)
(* another time and asks for confirmation, the model may take it as proof. *)
(***************************************************************************)
EXTENDS EmbedQueue, SequencesExt

CONSTANTS
    Operators,  \* processes that run reconcile --apply
    MaxAudits   \* bound: audits ever written

ASSUME AuditsAssumption == MaxAudits \in Nat

VARIABLES
    plan,   \* the evidence each operator has read, by job, and not yet used
    audits  \* embedding_job_reconciliation

rvars == <<vars, plan, audits>>
server == <<vars>>

Decisions == {"resolved", "superseded", "needs_confirmation"}

Failed == {j \in JobIds : jobs[j] # None /\ jobs[j].status = "failed"}

RInit ==
    /\ Init
    /\ plan = [o \in Operators |-> <<>>]
    /\ audits = <<>>

-----------------------------------------------------------------------------
(* Mistakes this code could plausibly have made.                            *)

\* A plan is applied as it was made.
Current_Planned(p) == p.job \in Failed

\* The audits written before are not looked at.
Applied_Never(p) == FALSE

\* A later job of the row is taken for one that covers it.
Decision_LaterJob(j, expected) ==
    IF HasNewerJob(j) THEN "superseded" ELSE "needs_confirmation"

-----------------------------------------------------------------------------
(* _inspect_job                                                             *)

LastReceipt(m) ==
    LET rs == {r \in JobIds : receipts[r] # None /\ receipts[r].target = m}
    IN  IF rs = {} THEN None ELSE Max(rs)

Newer(r) == {k \in JobIds : k > r /\ jobs[k] # None /\ jobs[r] # None
                                 /\ jobs[k].target = jobs[r].target}

Evidence(j, expected) ==
    LET m == jobs[j].target
        r == LastReceipt(m)
    IN  [job      |-> jobs[j],
         row      |-> memory[m],
         vector   |-> vectors[m],
         receipt  |-> IF r = None THEN None ELSE <<r, receipts[r]>>,
         proofJob |-> IF r = None THEN None ELSE jobs[r],
         newer    |-> IF r = None THEN {} ELSE Newer(r),
         expected |-> expected]

\* The receipt r of row m shows that its vector was made, by a job after j,
\* from what the row holds now.
Proves(r, m, j) ==
    /\ receipts[r] = [target |-> m, content |-> memory[m].content,
                      rev |-> memory[m].rev, vector |-> vectors[m]]
    /\ jobs[r] # None /\ jobs[r].status = "done" /\ jobs[r].target = m
    /\ jobs[r].content = memory[m].content /\ jobs[r].version = memory[m].rev
    /\ r > j /\ Newer(r) = {}

Decision(j, expected) ==
    LET job == jobs[j]
        m   == job.target
        r   == LastReceipt(m)
    IN  IF /\ Exists(m) /\ vectors[m] # None
           /\ expected # None /\ vectors[m].space = expected
           /\ r # None /\ Proves(r, m, j)
        THEN IF job.version = memory[m].rev /\ job.content = memory[m].content
             THEN "resolved" ELSE "superseded"
        ELSE "needs_confirmation"

Inspect(j, expected) ==
    [job |-> j, evidence |-> Evidence(j, expected), decision |-> Decision(j, expected)]

-----------------------------------------------------------------------------
(* main: a batch of failed jobs, planned in one read transaction.           *)

Plan(o, S, expected) ==
    /\ plan[o] = <<>> /\ S # {} /\ S \subseteq Failed
    /\ plan' = [plan EXCEPT ![o] =
                  LET ids == SetToSortSeq(S, <)
                  IN  [i \in DOMAIN ids |-> Inspect(ids[i], expected)]]
    /\ UNCHANGED <<server, audits>>

(* apply_plan                                                               *)

\* The job is still failed and the evidence still the same.
Current(p) == p.job \in Failed /\ Inspect(p.job, p.evidence.expected) = p
Exhausted(j) == jobs[j].attempts >= MaxAttempts

\* Audit i is the last one of its job.
Latest(i) == \A k \in DOMAIN audits : k > i => audits[k].job # audits[i].job

\* The job's latest audit has the same evidence.
Applied(p) ==
    \E i \in DOMAIN audits :
        Latest(i) /\ audits[i].job = p.job /\ audits[i].evidence = p.evidence

Accepted(p) == Current(p) /\ Exhausted(p.job) /\ ~Applied(p)

\* Conflicts, retryable jobs and what was applied before are answered so, and
\* nothing is written.
Refuse(o) ==
    /\ plan[o] # <<>> /\ ~Accepted(Head(plan[o]))
    /\ plan' = [plan EXCEPT ![o] = Tail(@)]
    /\ UNCHANGED <<server, audits>>

Apply(o) ==
    /\ plan[o] # <<>> /\ Accepted(Head(plan[o]))
    /\ Len(audits) < MaxAudits
    /\ audits' = Append(audits, Head(plan[o]))
    /\ plan' = [plan EXCEPT ![o] = Tail(@)]
    /\ UNCHANGED server

\* The database is busy, or the process ends before the rest of its batch.
Drop(o) ==
    /\ plan[o] # <<>>
    /\ \E rest2 \in {Tail(plan[o]), <<>>} : plan' = [plan EXCEPT ![o] = rest2]
    /\ UNCHANGED <<server, audits>>

\* enqueue for a row that had a job before.  The server itself enqueues each
\* row once; another program may do it again.
Requeue(t, m) ==
    /\ thread[t].pc = "idle" /\ Exists(m)
    /\ thread' = [thread EXCEPT ![t] = [Waiting EXCEPT !.pc = "reread", !.mem = m]]
    /\ UNCHANGED <<db, drainer, rest, plan, audits>>

RNext ==
    \/ Next /\ UNCHANGED <<plan, audits>>
    \/ \E t \in Threads, m \in Memories : Requeue(t, m)
    \/ \E o \in Operators :
          \/ \E S \in SUBSET Failed, s \in Spaces \cup {None} : Plan(o, S, s)
          \/ Refuse(o) \/ Apply(o) \/ Drop(o)

RSpec == RInit /\ [][RNext]_rvars

-----------------------------------------------------------------------------
(* queue_stats                                                              *)

\* The failed jobs that failed_unresolved does not count: their latest audit
\* explains the failure.
Explained ==
    {j \in Failed : \E i \in DOMAIN audits :
        Latest(i) /\ audits[i].job = j /\ audits[i].decision \in {"resolved", "superseded"}}

-----------------------------------------------------------------------------
(* Properties.                                                             *)

\* A failure that the statistics no longer count is about a row that search
\* finds, by the text it has now, or about one that is gone for good: neither
\* a rewrite nor a later failure after the audit undoes that (queue_stats).
ExplainedStayFindable ==
    \A j \in Explained :
        LET m == jobs[j].target
        IN  Exists(m) => vectors[m] # None /\ vectors[m].text = memory[m].content

\* When an audit is committed what it says of the row is so: whatever happened
\* since the plan was made (apply_plan).
AuditsTellTruth ==
    [][\A i \in DOMAIN audits' \ DOMAIN audits :
          LET a == audits'[i]
              m == jobs[a.job].target
          IN  a.decision # "needs_confirmation" =>
                 /\ Exists(m)
                 /\ vectors[m] = [text |-> memory[m].content, space |-> a.evidence.expected]
                 /\ a.decision = "resolved" <=>
                       jobs[a.job].version = memory[m].rev /\ jobs[a.job].content = memory[m].content]_rvars

\* Applying the same evidence again writes nothing, in one process or in two
\* (apply_plan).
NoRepeatedAudit ==
    \A i, k \in DOMAIN audits :
        i < k /\ audits[i].job = audits[k].job /\ audits[i].evidence = audits[k].evidence
          => \E n \in i + 1 .. k - 1 : audits[n].job = audits[i].job

=============================================================================
