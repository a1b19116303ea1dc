------------------------------ MODULE Importer ------------------------------
(***************************************************************************)
(* Backup and restore: export_json of export.py and import_json of         *)
(* importer.py, with what other programs write meanwhile.                  *)
(*                                                                         *)
(* An import takes one record after another, each in a savepoint of its    *)
(* own that no one else's write can come into: SQLite refuses a write      *)
(* after a read that is no longer current.  With `reembed' the provider is *)
(* asked in between, while the transaction is open.                        *)
(*                                                                         *)
(* A row is its fields, all of them one value; a vector is the space it    *)
(* belongs to and when it was made.  Every record has an id and is well    *)
(* formed.                                                                 *)
(***************************************************************************)
EXTENDS Naturals, SequencesExt

CONSTANTS
    Cold, Hot,   \* ids of rows, by tier
    Fields, Spaces, Times,
    Unknown,     \* the space of a vector whose origin no one has attested
    None,        \* no row, no vector
    LeftOut,     \* exported without embeddings
    Importers,
    Backups,     \* backups made of other databases, sequences of records
    MaxWrites,   \* bound: writes of other programs
    MaxCrashes   \* bound: imports that die half way

Ids == Cold \cup Hot
Vectors == [space : Spaces, at : Times]
Record == [id : Ids, fields : Fields,
           vector : [space : Spaces \cup {Unknown}, at : Times] \cup {None, LeftOut}]
Outcomes == {"imported", "skipped", "error"}

ASSUME IdsAssumption == Cold \cap Hot = {} /\ IsFiniteSet(Ids)
ASSUME ValuesAssumption ==
    /\ None \notin Fields \cup Vectors /\ LeftOut \notin Vectors \cup {None} /\ Unknown \notin Spaces
    /\ MaxWrites \in Nat /\ MaxCrashes \in Nat
ASSUME ImportersAssumption == None \notin Importers
ASSUME BackupsAssumption ==
    Backups \subseteq Seq({r \in Record : r.id \in Hot => r.vector = LeftOut})

VARIABLES
    memory,    \* hot_memory and cold_memory
    vectors,   \* cold_embeddings, cold_memory_vec and embedding_spaces
    provider,  \* the space of the provider that is configured
    backup,    \* the document to import
    import,    \* what each import is doing
    writes, crashes

vars == <<memory, vectors, provider, backup, import, writes, crashes>>

Idle == [pc |-> "idle", reembed |-> FALSE, results |-> <<>>, predicted |-> <<>>,
         alone |-> TRUE, asked |-> None, current |-> TRUE]

TypeOK ==
    /\ memory \in [Ids -> Fields \cup {None}]
    /\ vectors \in [Ids -> Vectors \cup {None}]
    /\ provider \in Spaces
    /\ \A k \in DOMAIN backup : backup[k] \in Record
    /\ \A p \in Importers :
          /\ import[p].pc \in {"idle", "record", "asks", "done"}
          /\ import[p].reembed \in BOOLEAN /\ import[p].alone \in BOOLEAN /\ import[p].current \in BOOLEAN
          /\ import[p].results \in Seq(Outcomes) /\ Len(import[p].results) <= Len(backup)
          /\ import[p].predicted \in Seq(Outcomes)
          /\ import[p].asked \in Spaces \cup {None}
    /\ writes \in 0..MaxWrites /\ crashes \in 0..MaxCrashes

Init ==
    /\ memory = [i \in Ids |-> None] /\ vectors = [i \in Ids |-> None]
    /\ provider \in Spaces
    /\ backup \in Backups
    /\ import = [p \in Importers |-> Idle]
    /\ writes = 0 /\ crashes = 0

HasVector(r) == r.vector \notin {None, LeftOut}
OpenTo(v, s) == \A i \in Ids : v[i] # None => v[i].space = s

-----------------------------------------------------------------------------
(* Mistakes this code could plausibly have made.                            *)

\* A row whose fields are the same is taken for the same row.
SameRow_Fields(m, v, r) == m[r.id] = r.fields

\* The space of a vector is not compared with the index.
Fits_Always(v, r) == TRUE

\* A re-embedded row is stored without its vector.
Fresh_Forgotten(v, i, t) == v

\* What was written while the provider was asked is not noticed.
Current_Assumed(p) == TRUE

-----------------------------------------------------------------------------
(* One record.                                                              *)

SameRow(m, v, r) == m[r.id] = r.fields /\ (r.id \in Cold /\ r.vector # LeftOut => v[r.id] = r.vector)
SameButVector(m, v, r) ==
    m[r.id] = r.fields /\ (r.id \in Cold => v[r.id] # None /\ OpenTo(v, v[r.id].space))
Fits(v, r) == HasVector(r) => OpenTo(v, r.vector.space)
Attested(r) == HasVector(r) => r.vector.space # Unknown

\* _restore_record and what is checked before it; the provider is not asked.
Outcome(m, v, r, reembed) ==
    LET same == IF reembed THEN SameButVector(m, v, r) ELSE Attested(r) /\ SameRow(m, v, r) IN
    IF m[r.id] # None THEN IF same THEN "skipped" ELSE "error"
    ELSE IF Attested(r) /\ Fits(v, r) THEN "imported" ELSE "error"

RestoredRow(m, r) == [m EXCEPT ![r.id] = r.fields]
RestoredVector(v, r) == IF HasVector(r) THEN [v EXCEPT ![r.id] = r.vector] ELSE v
\* What the provider that is configured gives a row.
Fresh(v, i, t) == [v EXCEPT ![i] = [space |-> provider, at |-> t]]

\* A mistake: the dry run rolls every record back before the next.
Previewed_Apart(s, r, reembed) == [s EXCEPT !.results = Append(@, Outcome(s.m, s.v, r, reembed))]

\* A dry run goes through the records in one transaction that is rolled back.
Previewed(s, r, reembed) ==
    LET o == Outcome(s.m, s.v, r, reembed) IN
    [m |-> IF o = "imported" THEN RestoredRow(s.m, r) ELSE s.m,
     v |-> IF o = "imported" THEN RestoredVector(s.v, r) ELSE s.v,
     results |-> Append(s.results, o)]
DryRun(reembed) ==
    FoldLeft(LAMBDA s, r : Previewed(s, r, reembed),
             [m |-> memory, v |-> vectors, results |-> <<>>], backup).results

-----------------------------------------------------------------------------
Exported(i, withVectors) ==
    [id |-> i, fields |-> memory[i],
     vector |-> IF i \in Cold /\ withVectors THEN vectors[i] ELSE LeftOut]

\* export_json; the order of the rows is that of their creation.
Export(withVectors) ==
    /\ \A p \in Importers : import[p].pc \in {"idle", "done"}
    /\ \E order \in SetToSeqs({i \in Ids : memory[i] # None}) :
          backup' = [k \in DOMAIN order |-> Exported(order[k], withVectors)]
    /\ import' = [p \in Importers |-> Idle]
    /\ UNCHANGED <<memory, vectors, provider, writes, crashes>>

NextRecord(p) == backup[Len(import[p].results) + 1]
HasNext(p) == import[p].pc = "record" /\ Len(import[p].results) < Len(backup)
NeedsProvider(p) == import[p].reembed /\ NextRecord(p).id \in Cold /\ memory[NextRecord(p).id] = None
Current(p) == import[p].current

\* What the others notice of a write.
Seen(f, but) == [q \in Importers |->
    IF q = but THEN f[q] ELSE [f[q] EXCEPT !.alone = FALSE, !.current = FALSE]]
Answered(p, o) == [import EXCEPT ![p].results = Append(@, o), ![p].pc = "record", ![p].asked = None]

Begin(p, reembed) ==
    /\ import[p].pc \in {"idle", "done"} /\ backup # <<>>
    /\ import' = [import EXCEPT ![p] = [Idle EXCEPT !.pc = "record", !.reembed = reembed,
                                                    !.predicted = DryRun(reembed)]]
    /\ UNCHANGED <<memory, vectors, provider, backup, writes, crashes>>

ImportRecord(p) ==
    /\ HasNext(p) /\ ~NeedsProvider(p)
    /\ LET r == NextRecord(p)
           o == Outcome(memory, vectors, r, import[p].reembed) IN
       IF o = "imported"
       THEN /\ memory' = RestoredRow(memory, r)
            /\ vectors' = RestoredVector(vectors, r)
            /\ import' = Seen(Answered(p, o), p)
       ELSE import' = Answered(p, o) /\ UNCHANGED <<memory, vectors>>
    /\ UNCHANGED <<provider, backup, writes, crashes>>

\* Another program holds the database for longer than the timeout, or wrote
\* after the savepoint had read.
Busy(p) ==
    /\ HasNext(p) /\ ~NeedsProvider(p) /\ writes < MaxWrites
    /\ Outcome(memory, vectors, NextRecord(p), import[p].reembed) = "imported"
    /\ import' = [Answered(p, "error") EXCEPT ![p].alone = FALSE]
    /\ UNCHANGED <<memory, vectors, provider, backup, writes, crashes>>

\* --reembed: the index has to be open to the provider before it is asked.
AskProvider(p) ==
    /\ HasNext(p) /\ NeedsProvider(p)
    /\ import' = IF OpenTo(vectors, provider)
                 THEN [import EXCEPT ![p].pc = "asks", ![p].asked = provider, ![p].current = TRUE]
                 ELSE Answered(p, "error")
    /\ UNCHANGED <<memory, vectors, provider, backup, writes, crashes>>

ProviderAnswers(p, t) ==
    /\ import[p].pc = "asks" /\ provider = import[p].asked
    /\ IF Current(p)
       THEN /\ memory' = RestoredRow(memory, NextRecord(p))
            /\ vectors' = Fresh(vectors, NextRecord(p).id, t)
            /\ import' = Seen(Answered(p, "imported"), p)
       ELSE import' = Answered(p, "error") /\ UNCHANGED <<memory, vectors>>
    /\ UNCHANGED <<provider, backup, writes, crashes>>

\* No vector comes back, or the provider has been changed meanwhile.
ProviderFails(p) ==
    /\ import[p].pc = "asks"
    /\ import' = [Answered(p, "error") EXCEPT ![p].alone = FALSE]
    /\ UNCHANGED <<memory, vectors, provider, backup, writes, crashes>>

End(p) ==
    /\ import[p].pc = "record" /\ Len(import[p].results) = Len(backup)
    /\ import' = [import EXCEPT ![p].pc = "done"]
    /\ UNCHANGED <<memory, vectors, provider, backup, writes, crashes>>

\* The open savepoint is rolled back, the records before it stay.
Die(p) ==
    /\ import[p].pc \in {"record", "asks"} /\ crashes < MaxCrashes
    /\ crashes' = crashes + 1
    /\ import' = [import EXCEPT ![p] = Idle]
    /\ UNCHANGED <<memory, vectors, provider, backup, writes>>

-----------------------------------------------------------------------------
(* Other programs.                                                          *)

Write(m, v) ==
    /\ writes < MaxWrites /\ writes' = writes + 1
    /\ memory' = m /\ vectors' = v
    /\ import' = Seen(import, None)
    /\ UNCHANGED <<provider, backup, crashes>>

\* A new row, or one that is read, edited or hidden.
Change(i, f) == memory[i] # f /\ Write([memory EXCEPT ![i] = f], vectors)
RemoveRow(i) == memory[i] # None /\ Write([memory EXCEPT ![i] = None], [vectors EXCEPT ![i] = None])
\* The embedding worker.
Embed(i, t) ==
    /\ memory[i] # None /\ OpenTo(vectors, provider)
    /\ Write(memory, Fresh(vectors, i, t))
Configure(s) ==
    /\ s # provider /\ writes < MaxWrites
    /\ writes' = writes + 1 /\ provider' = s
    /\ import' = [p \in Importers |-> [import[p] EXCEPT !.alone = FALSE]]
    /\ UNCHANGED <<memory, vectors, backup, crashes>>

Imports(p) ==
    \/ ImportRecord(p) \/ AskProvider(p) \/ \E t \in Times : ProviderAnswers(p, t)

Next ==
    \/ \E b \in BOOLEAN : Export(b)
    \/ \E p \in Importers :
          \/ \E b \in BOOLEAN : Begin(p, b)
          \/ Imports(p) \/ Busy(p) \/ ProviderFails(p) \/ End(p) \/ Die(p)
    \/ \E i \in Ids : RemoveRow(i) \/ \E f \in Fields : Change(i, f)
    \/ \E i \in Cold, t \in Times : Embed(i, t)
    \/ \E s \in Spaces : Configure(s)

Spec == Init /\ [][Next]_vars

-----------------------------------------------------------------------------
(* Properties.                                                             *)

Done(p) == import[p].pc = "done"
Complete(p) == Done(p) /\ import[p].alone /\ "error" \notin ToSet(import[p].results)

\* An import never changes a row or a vector that is there ("never upserts"),
\* not even one that appeared while the provider was asked (_restore_record).
NeverOverwrites ==
    [][\A p \in Importers : Imports(p) =>
          \A i \in Ids : memory[i] # None => memory'[i] = memory[i] /\ vectors'[i] = vectors[i]]_vars

\* All vectors of the index stay in one space and belong to rows that are
\* there, whatever the backup holds and whoever else imports, embeds or purges
\* meanwhile (_check_vector_space, _restore_record): otherwise no vector could
\* be searched or stored any more.
IndexStaysOpen == \E s \in Spaces : OpenTo(vectors, s)
NoOrphans == \A i \in Ids : vectors[i] # None => i \in Cold /\ memory[i] # None
IndexSound == IndexStaysOpen /\ NoOrphans

\* What an import without errors leaves is the backup, field for field and
\* vector for vector, also where a row was there before ("Even a matching
\* content string cannot mask a different ... vector").
RestoresTheBackup ==
    \A p \in Importers : Complete(p) /\ ~import[p].reembed =>
        \A k \in DOMAIN backup :
            /\ memory[backup[k].id] = backup[k].fields
            /\ backup[k].id \in Cold /\ backup[k].vector # LeftOut =>
                  vectors[backup[k].id] = backup[k].vector

\* An import that was complete, perhaps after one that died, can be repeated
\* the same way and finds all it would do done ("verified idempotent retry").
RetryFindsAllDone ==
    \A p \in Importers : Complete(p) =>
        \A k \in DOMAIN backup : Outcome(memory, vectors, backup[k], import[p].reembed) = "skipped"

\* If nobody else interferes an import without reembed ends as a dry run before
\* it said, record by record ("Dry-run performs the same constraints/trigger/
\* blob writes"); a dry run with it takes the vectors of the backup instead.
AsPreviewed ==
    \A p \in Importers : Done(p) /\ import[p].alone /\ ~import[p].reembed
        => import[p].results = import[p].predicted

=============================================================================
