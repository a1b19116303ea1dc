--------------------------- MODULE ImporterProofs ---------------------------
(***************************************************************************)
(* Proofs about Importer: what is there is never overwritten, the index    *)
(* stays open, an import that is complete leaves the backup and can be     *)
(* repeated, and one that nobody disturbs does what its dry run said, for  *)
(* any number of rows, spaces, imports and backups.                        *)
(***************************************************************************)
EXTENDS Importer, FiniteSetTheorems, SequenceTheorems, WellFoundedInduction, TLAPS

\* Only cold rows have vectors to export.
Restorable == {r \in Record : r.id \in Hot => r.vector = LeftOut}

Tables ==
    /\ memory \in [Ids -> Fields \cup {None}]
    /\ vectors \in [Ids -> Vectors \cup {None}]
    /\ provider \in Spaces
    /\ backup \in Seq(Restorable)

\* What an import predicted is a sequence computed by a fold; Foretold says
\* below what it is.
Shape ==
    /\ DOMAIN import = Importers
    /\ \A p \in Importers :
          /\ DOMAIN import[p] = {"pc", "reembed", "results", "predicted", "alone", "asked", "current"}
          /\ import[p].results \in Seq(Outcomes)

\* What an import that waits for the provider relies on.
Waiting(p) ==
    import[p].pc = "asks" =>
        /\ Len(import[p].results) < Len(backup)
        /\ NextRecord(p).id \in Cold
        /\ import[p].asked \in Spaces
        /\ Current(p) => OpenTo(vectors, import[p].asked) /\ memory[NextRecord(p).id] = None

Inv == Tables /\ Shape /\ IndexSound /\ \A p \in Importers : Waiting(p)

-----------------------------------------------------------------------------
(* The index.                                                               *)

\* A row that is restored is new, and its vector fits the index.
LEMMA ImportedIsNew ==
    ASSUME NEW m, NEW v, NEW r, NEW b, Outcome(m, v, r, b) = "imported"
    PROVE  m[r.id] = None /\ Attested(r) /\ Fits(v, r)
BY DEF Outcome

\* Storing a vector of the one space the index has keeps it sound.
LEMMA StoreKeepsSound ==
    ASSUME Tables, IndexSound, NEW i \in Cold, NEW f \in Fields, NEW s \in Spaces, NEW t \in Times,
           OpenTo(vectors, s),
           memory' = [memory EXCEPT ![i] = f],
           vectors' = [vectors EXCEPT ![i] = [space |-> s, at |-> t]]
    PROVE  IndexSound'
<1>1. OpenTo(vectors, s)'
  BY DEF OpenTo, Tables
<1>2. NoOrphans'
  BY ValuesAssumption DEF Tables, IndexSound, NoOrphans, Ids
<1> QED
  BY <1>1, <1>2 DEF IndexSound, IndexStaysOpen

\* So does writing a row without touching its vector.
LEMMA RowKeepsSound ==
    ASSUME Tables, IndexSound, NEW i \in Ids, NEW f \in Fields,
           memory' = [memory EXCEPT ![i] = f], vectors' = vectors
    PROVE  IndexSound'
BY ValuesAssumption DEF Tables, IndexSound, IndexStaysOpen, NoOrphans, OpenTo

\* A record that passed its checks.
LEMMA RestoreKeepsSound ==
    ASSUME Tables, IndexSound, NEW r \in Restorable, Attested(r), Fits(vectors, r),
           memory' = RestoredRow(memory, r), vectors' = RestoredVector(vectors, r)
    PROVE  IndexSound' /\ memory' \in [Ids -> Fields \cup {None}] /\ vectors' \in [Ids -> Vectors \cup {None}]
<1>1. r.id \in Ids /\ r.fields \in Fields
  BY DEF Restorable, Record
<1>2. memory' = [memory EXCEPT ![r.id] = r.fields] /\ memory' \in [Ids -> Fields \cup {None}]
  BY <1>1 DEF RestoredRow, Tables
<1>3. CASE ~HasVector(r)
  BY <1>1, <1>2, <1>3, RowKeepsSound DEF RestoredVector, Tables
<1>4. CASE HasVector(r)
  <2>1. r.id \in Cold
    BY <1>4 DEF HasVector, Restorable, Record, Ids
  <2>2. r.vector \in [space : Spaces, at : Times]
    BY <1>4 DEF HasVector, Restorable, Record, Attested
  <2>3. PICK s \in Spaces, t \in Times : r.vector = [space |-> s, at |-> t]
    BY <2>2
  <2>4. OpenTo(vectors, s)
    BY <1>4, <2>3 DEF Fits
  <2>5. vectors' = [vectors EXCEPT ![r.id] = [space |-> s, at |-> t]]
    BY <1>4, <2>3 DEF RestoredVector
  <2>6. IndexSound'
    BY <1>1, <1>2, <2>1, <2>4, <2>5, StoreKeepsSound
  <2>7. [space |-> s, at |-> t] \in Vectors
    BY DEF Vectors
  <2> QED
    BY <1>1, <1>2, <2>5, <2>6, <2>7 DEF Tables
<1> QED
  BY <1>3, <1>4

-----------------------------------------------------------------------------
(* The records.                                                             *)

LEMMA NextIsRestorable ==
    ASSUME Tables, Shape, NEW p \in Importers, Len(import[p].results) < Len(backup)
    PROVE  NextRecord(p) \in Restorable
BY ElementOfSeq, LenProperties DEF Tables, Shape, NextRecord

\* An answer is one more result; the import goes on with the next record.
LEMMA AnsweredShape ==
    ASSUME Shape, NEW p \in Importers, NEW o \in Outcomes
    PROVE  /\ DOMAIN Answered(p, o) = Importers
           /\ \A q \in Importers :
                 /\ DOMAIN Answered(p, o)[q] = DOMAIN import[q]
                 /\ Answered(p, o)[q].results \in Seq(Outcomes)
                 /\ q # p => Answered(p, o)[q] = import[q]
           /\ Answered(p, o)[p].pc = "record"
<1>1. Append(import[p].results, o) \in Seq(Outcomes)
  BY AppendProperties DEF Shape
<1> QED
  BY <1>1 DEF Shape, Answered

LEMMA SeenShape ==
    ASSUME NEW f, NEW but, DOMAIN f = Importers,
           \A q \in Importers :
              /\ DOMAIN f[q] = {"pc", "reembed", "results", "predicted", "alone", "asked", "current"}
              /\ f[q].results \in Seq(Outcomes)
    PROVE  /\ DOMAIN Seen(f, but) = Importers
           /\ \A q \in Importers :
                 /\ DOMAIN Seen(f, but)[q] = DOMAIN f[q]
                 /\ Seen(f, but)[q].results = f[q].results
                 /\ Seen(f, but)[q].pc = f[q].pc
                 /\ Seen(f, but)[q].asked = f[q].asked
                 /\ q # but => ~Seen(f, but)[q].current
           /\ but \in Importers => Seen(f, but)[but] = f[but]
BY DEF Seen

-----------------------------------------------------------------------------
(* The steps.                                                               *)

LEMMA IdleShape ==
    /\ DOMAIN Idle = {"pc", "reembed", "results", "predicted", "alone", "asked", "current"}
    /\ Idle.results \in Seq(Outcomes) /\ Idle.pc = "idle"
<1>1. <<>> \in Seq(Outcomes)
  BY EmptySeq
<1> QED
  BY <1>1 DEF Idle

LEMMA InvInit == Init => Inv
<1> SUFFICES ASSUME Init PROVE Inv
  OBVIOUS
<1>1. Tables
  BY BackupsAssumption DEF Init, Tables, Restorable
<1>2. Shape /\ \A p \in Importers : Waiting(p)
  BY IdleShape DEF Init, Shape, Waiting
<1>3. IndexSound
  BY <1>1 DEF Init, Tables, IndexSound, IndexStaysOpen, NoOrphans, OpenTo
<1> QED
  BY <1>1, <1>2, <1>3 DEF Inv

\* A step that leaves the database and the backup alone, and of one import
\* changes no more than what it is about to do.
LEMMA QuietStep ==
    ASSUME Inv, NEW p \in Importers, UNCHANGED <<memory, vectors, backup>>, provider' \in Spaces,
           Shape', \A q \in Importers \ {p} : import'[q] = import[q], Waiting(p)'
    PROVE  Inv'
<1>1. Tables' /\ IndexSound'
  BY DEF Inv, Tables, IndexSound, IndexStaysOpen, NoOrphans, OpenTo
<1>2. ASSUME NEW q \in Importers, q # p PROVE Waiting(q)'
  <2>1. Waiting(q) /\ import'[q] = import[q] /\ UNCHANGED <<memory, vectors, backup>>
    BY <1>2 DEF Inv
  <2> QED
    BY <2>1 DEF Waiting, NextRecord, Current, OpenTo
<1> QED
  BY <1>1, <1>2 DEF Inv

\* A step that writes: all others learn of it.
LEMMA LoudStep ==
    ASSUME Inv, NEW f, NEW but, UNCHANGED <<provider, backup>>, import' = Seen(f, but),
           DOMAIN f = Importers,
           \A q \in Importers :
              /\ DOMAIN f[q] = {"pc", "reembed", "results", "predicted", "alone", "asked", "current"}
              /\ f[q].results \in Seq(Outcomes)
              /\ IF q = but THEN f[q].pc # "asks" ELSE f[q] = import[q],
           memory' \in [Ids -> Fields \cup {None}], vectors' \in [Ids -> Vectors \cup {None}], IndexSound'
    PROVE  Inv'
<1>1. Tables'
  BY DEF Inv, Tables
<1>2. Shape'
  BY SeenShape DEF Shape
<1>3. ASSUME NEW q \in Importers PROVE Waiting(q)'
  <2>1. CASE q = but
    BY <2>1, SeenShape DEF Waiting
  <2>2. CASE q # but
    <3>1. /\ import'[q].results = import[q].results /\ import'[q].pc = import[q].pc
          /\ import'[q].asked = import[q].asked /\ ~import'[q].current
      BY <2>2, SeenShape
    <3> QED
      BY <3>1 DEF Inv, Waiting, NextRecord, Current
  <2> QED
    BY <2>1, <2>2
<1> QED
  BY <1>1, <1>2, <1>3 DEF Inv

LEMMA ExportStep ==
    ASSUME Inv, NEW b \in BOOLEAN, Export(b)
    PROVE  Inv'
<1> DEFINE Present == {i \in Ids : memory[i] # None}
<1>1. PICK order \in SetToSeqs(Present) :
          backup' = [k \in DOMAIN order |-> Exported(order[k], b)]
  BY DEF Export
<1>2. Cardinality(Present) \in Nat
  BY IdsAssumption, FS_Subset, FS_CardinalityType
<1>3. order \in [1 .. Cardinality(Present) -> Present]
  BY <1>1 DEF SetToSeqs
<1>4. \A i \in Present : Exported(i, b) \in Restorable
  <2> SUFFICES ASSUME NEW i \in Present PROVE Exported(i, b) \in Restorable
    OBVIOUS
  <2>1. i \in Ids /\ memory[i] \in Fields
    BY DEF Inv, Tables
  <2>2. vectors[i] \in [space : Spaces \cup {Unknown}, at : Times] \cup {None}
    BY <2>1 DEF Inv, Tables, Vectors
  <2>3. i \in Hot => i \notin Cold
    BY IdsAssumption
  <2> QED
    BY <2>1, <2>2, <2>3 DEF Exported, Restorable, Record
<1> HIDE DEF Present
<1>5. backup' \in Seq(Restorable)
  <2>1. backup' \in [1 .. Cardinality(Present) -> Restorable]
    BY <1>1, <1>3, <1>4
  <2> QED
    BY <1>2, <2>1, SeqDef
<1>6. import' = [p \in Importers |-> Idle] /\ UNCHANGED <<memory, vectors, provider>>
  BY DEF Export
<1>7. Shape' /\ \A p \in Importers : Waiting(p)'
  BY <1>6, IdleShape DEF Shape, Waiting
<1> QED
  BY <1>5, <1>6, <1>7 DEF Inv, Tables, IndexSound, IndexStaysOpen, NoOrphans, OpenTo

\* Beginning, ending and dying, and answers that write nothing.
LEMMA BookkeepingStep ==
    ASSUME Inv, NEW p \in Importers,
           \/ \E b \in BOOLEAN : Begin(p, b)
           \/ Busy(p) \/ ProviderFails(p) \/ End(p) \/ Die(p)
    PROVE  Inv'
<1>1. provider \in Spaces /\ Shape
  BY DEF Inv, Tables
<1>2. ASSUME NEW b \in BOOLEAN, Begin(p, b) PROVE Inv'
  <2>1. Shape' /\ import'[p].pc = "record" /\ \A q \in Importers \ {p} : import'[q] = import[q]
    BY <1>1, <1>2, IdleShape DEF Begin, Shape, Idle
  <2> QED
    BY <1>1, <1>2, <2>1, QuietStep DEF Begin, Waiting
<1>3. CASE Busy(p) \/ ProviderFails(p)
  <2>1. "error" \in Outcomes
    BY DEF Outcomes
  <2>2. import' = [Answered(p, "error") EXCEPT ![p].alone = FALSE]
        /\ UNCHANGED <<memory, vectors, provider, backup>>
    BY <1>3 DEF Busy, ProviderFails
  <2>3. Shape' /\ import'[p].pc = "record" /\ \A q \in Importers \ {p} : import'[q] = import[q]
    BY <1>1, <2>1, <2>2, AnsweredShape DEF Shape
  <2> QED
    BY <1>1, <2>2, <2>3, QuietStep DEF Waiting
<1>4. CASE End(p)
  <2>1. Shape' /\ import'[p].pc = "done" /\ \A q \in Importers \ {p} : import'[q] = import[q]
    BY <1>1, <1>4 DEF End, Shape
  <2> QED
    BY <1>1, <1>4, <2>1, QuietStep DEF End, Waiting
<1>5. CASE Die(p)
  <2>1. Shape' /\ import'[p].pc = "idle" /\ \A q \in Importers \ {p} : import'[q] = import[q]
    BY <1>1, <1>5, IdleShape DEF Die, Shape
  <2> QED
    BY <1>1, <1>5, <2>1, QuietStep DEF Die, Waiting
<1> QED
  BY <1>2, <1>3, <1>4, <1>5

LEMMA ImportRecordStep ==
    ASSUME Inv, NEW p \in Importers, ImportRecord(p)
    PROVE  Inv'
<1> DEFINE r == NextRecord(p)
           o == Outcome(memory, vectors, r, import[p].reembed)
<1>1. Shape /\ Tables /\ IndexSound /\ provider \in Spaces
  BY DEF Inv, Tables
<1>2. o \in Outcomes
  BY DEF Outcome, Outcomes
<1>3. r \in Restorable
  BY <1>1, NextIsRestorable DEF ImportRecord, HasNext
<1>4. CASE o = "imported"
  <2>1. /\ memory' = RestoredRow(memory, r) /\ vectors' = RestoredVector(vectors, r)
        /\ import' = Seen(Answered(p, o), p) /\ UNCHANGED <<provider, backup>>
    BY <1>4 DEF ImportRecord
  <2>2. Attested(r) /\ Fits(vectors, r)
    BY <1>4, ImportedIsNew
  <2> HIDE DEF r, o
  <2>3. IndexSound' /\ memory' \in [Ids -> Fields \cup {None}] /\ vectors' \in [Ids -> Vectors \cup {None}]
    BY <1>1, <1>3, <2>1, <2>2, RestoreKeepsSound
  <2>4. /\ DOMAIN Answered(p, o) = Importers
        /\ \A q \in Importers :
              /\ DOMAIN Answered(p, o)[q] = {"pc", "reembed", "results", "predicted", "alone", "asked", "current"}
              /\ Answered(p, o)[q].results \in Seq(Outcomes)
              /\ q # p => Answered(p, o)[q] = import[q]
        /\ Answered(p, o)[p].pc = "record"
    BY <1>1, <1>2, AnsweredShape DEF Shape
  <2> QED
    BY <2>1, <2>3, <2>4, LoudStep
<1>5. CASE o # "imported"
  <2>1. import' = Answered(p, o) /\ UNCHANGED <<memory, vectors, provider, backup>>
    BY <1>5 DEF ImportRecord
  <2> HIDE DEF r, o
  <2>2. Shape' /\ import'[p].pc = "record" /\ \A q \in Importers \ {p} : import'[q] = import[q]
    BY <1>1, <1>2, <2>1, AnsweredShape DEF Shape
  <2> QED
    BY <1>1, <2>1, <2>2, QuietStep DEF Waiting
<1> QED
  BY <1>4, <1>5

LEMMA AskStep ==
    ASSUME Inv, NEW p \in Importers, AskProvider(p)
    PROVE  Inv'
<1>1. Shape /\ provider \in Spaces /\ "error" \in Outcomes
  BY DEF Inv, Tables, Outcomes
<1>2. UNCHANGED <<memory, vectors, provider, backup>>
  BY DEF AskProvider
<1>3. CASE OpenTo(vectors, provider)
  <2>1. import' = [import EXCEPT ![p].pc = "asks", ![p].asked = provider, ![p].current = TRUE]
    BY <1>3 DEF AskProvider
  <2>2. Shape' /\ \A q \in Importers \ {p} : import'[q] = import[q]
    BY <1>1, <2>1 DEF Shape
  <2>3. import'[p].results = import[p].results /\ import'[p].asked = provider
    BY <1>1, <2>1 DEF Shape
  <2>4. Waiting(p)'
    BY <1>1, <1>2, <1>3, <2>3 DEF AskProvider, HasNext, NeedsProvider, Waiting, NextRecord, OpenTo
  <2> QED
    BY <1>1, <1>2, <2>2, <2>4, QuietStep
<1>4. CASE ~OpenTo(vectors, provider)
  <2>1. import' = Answered(p, "error")
    BY <1>4 DEF AskProvider
  <2>2. Shape' /\ import'[p].pc = "record" /\ \A q \in Importers \ {p} : import'[q] = import[q]
    BY <1>1, <2>1, AnsweredShape DEF Shape
  <2> QED
    BY <1>1, <1>2, <2>2, QuietStep DEF Waiting
<1> QED
  BY <1>3, <1>4

LEMMA AnswerStep ==
    ASSUME Inv, NEW p \in Importers, NEW t \in Times, ProviderAnswers(p, t)
    PROVE  Inv'
<1>1. /\ Shape /\ Tables /\ IndexSound /\ provider \in Spaces
      /\ "error" \in Outcomes /\ "imported" \in Outcomes
  BY DEF Inv, Tables, Outcomes
<1>2. UNCHANGED <<provider, backup>>
  BY DEF ProviderAnswers
<1>3. CASE Current(p)
  <2> DEFINE r == NextRecord(p)
  <2>1. /\ memory' = RestoredRow(memory, r) /\ vectors' = Fresh(vectors, r.id, t)
        /\ import' = Seen(Answered(p, "imported"), p)
    BY <1>3 DEF ProviderAnswers
  <2>2. r.id \in Cold /\ OpenTo(vectors, provider) /\ Len(import[p].results) < Len(backup)
    BY <1>3 DEF ProviderAnswers, Inv, Waiting
  <2>3. r.fields \in Fields
    BY <1>1, <2>2, NextIsRestorable DEF Restorable, Record
  <2> HIDE DEF r
  <2>4. [space |-> provider, at |-> t] \in Vectors
    BY <1>1 DEF Vectors
  <2>5. /\ memory' = [memory EXCEPT ![r.id] = r.fields]
        /\ vectors' = [vectors EXCEPT ![r.id] = [space |-> provider, at |-> t]]
    BY <2>1 DEF RestoredRow, Fresh
  <2>6. IndexSound'
    BY <1>1, <2>2, <2>3, <2>5, StoreKeepsSound
  <2>7. memory' \in [Ids -> Fields \cup {None}] /\ vectors' \in [Ids -> Vectors \cup {None}]
    BY <1>1, <2>3, <2>4, <2>5 DEF Tables
  <2>8. /\ DOMAIN Answered(p, "imported") = Importers
        /\ \A q \in Importers :
              /\ DOMAIN Answered(p, "imported")[q] =
                    {"pc", "reembed", "results", "predicted", "alone", "asked", "current"}
              /\ Answered(p, "imported")[q].results \in Seq(Outcomes)
              /\ q # p => Answered(p, "imported")[q] = import[q]
        /\ Answered(p, "imported")[p].pc = "record"
    BY <1>1, AnsweredShape DEF Shape
  <2> QED
    BY <1>2, <2>1, <2>6, <2>7, <2>8, LoudStep
<1>4. CASE ~Current(p)
  <2>1. import' = Answered(p, "error") /\ UNCHANGED <<memory, vectors>>
    BY <1>4 DEF ProviderAnswers
  <2>2. Shape' /\ import'[p].pc = "record" /\ \A q \in Importers \ {p} : import'[q] = import[q]
    BY <1>1, <2>1, AnsweredShape DEF Shape
  <2> QED
    BY <1>1, <1>2, <2>1, <2>2, QuietStep DEF Waiting
<1> QED
  BY <1>3, <1>4

LEMMA OthersStep ==
    ASSUME Inv,
           \/ \E i \in Ids : RemoveRow(i) \/ \E f \in Fields : Change(i, f)
           \/ \E i \in Cold, t \in Times : Embed(i, t)
           \/ \E s \in Spaces : Configure(s)
    PROVE  Inv'
<1>1. Shape /\ Tables /\ IndexSound /\ provider \in Spaces
  BY DEF Inv, Tables
<1>2. ASSUME NEW m, NEW v, Write(m, v), IndexSound',
             m \in [Ids -> Fields \cup {None}], v \in [Ids -> Vectors \cup {None}]
      PROVE  Inv'
  <2>1. /\ memory' = m /\ vectors' = v /\ import' = Seen(import, None)
        /\ UNCHANGED <<provider, backup>>
    BY <1>2 DEF Write
  <2>2. \A q \in Importers : q # None
    BY ImportersAssumption
  <2> QED
    BY <1>1, <1>2, <2>1, <2>2, LoudStep DEF Shape
<1>3. ASSUME NEW i \in Ids, RemoveRow(i) PROVE Inv'
  <2>1. Write([memory EXCEPT ![i] = None], [vectors EXCEPT ![i] = None])
    BY <1>3 DEF RemoveRow
  <2>2. IndexSound'
    BY <1>1, <2>1 DEF Write, Tables, IndexSound, IndexStaysOpen, NoOrphans, OpenTo
  <2> QED
    BY <1>1, <1>2, <2>1, <2>2 DEF Tables
<1>4. ASSUME NEW i \in Ids, NEW f \in Fields, Change(i, f) PROVE Inv'
  <2>1. Write([memory EXCEPT ![i] = f], vectors)
    BY <1>4 DEF Change
  <2>2. IndexSound'
    BY <1>1, <2>1, RowKeepsSound DEF Write
  <2> QED
    BY <1>1, <1>2, <2>1, <2>2 DEF Tables
<1>5. ASSUME NEW i \in Cold, NEW t \in Times, Embed(i, t) PROVE Inv'
  <2>1. /\ Write(memory, Fresh(vectors, i, t)) /\ memory[i] # None /\ OpenTo(vectors, provider)
        /\ Fresh(vectors, i, t) = [vectors EXCEPT ![i] = [space |-> provider, at |-> t]]
    BY <1>5 DEF Embed, Fresh
  <2>2. memory[i] \in Fields /\ memory = [memory EXCEPT ![i] = memory[i]]
    BY <1>1, <2>1 DEF Tables, Ids
  <2>3. IndexSound'
    BY <1>1, <2>1, <2>2, StoreKeepsSound DEF Write
  <2>4. [space |-> provider, at |-> t] \in Vectors
    BY <1>1 DEF Vectors
  <2> QED
    BY <1>1, <1>2, <2>1, <2>3, <2>4 DEF Tables
<1>6. ASSUME NEW s \in Spaces, Configure(s) PROVE Inv'
  <2>1. /\ provider' \in Spaces /\ UNCHANGED <<memory, vectors, backup>>
        /\ import' = [p \in Importers |-> [import[p] EXCEPT !.alone = FALSE]]
    BY <1>6 DEF Configure
  <2>2. Shape' /\ \A p \in Importers :
            /\ import'[p].results = import[p].results /\ import'[p].pc = import[p].pc
            /\ import'[p].asked = import[p].asked /\ import'[p].current = import[p].current
    BY <1>1, <2>1 DEF Shape
  <2>3. \A p \in Importers : Waiting(p)'
    BY <2>1, <2>2 DEF Inv, Waiting, NextRecord, Current, OpenTo
  <2> QED
    BY <1>1, <2>1, <2>2, <2>3 DEF Inv, Tables, IndexSound, IndexStaysOpen, NoOrphans, OpenTo
<1> QED
  BY <1>3, <1>4, <1>5, <1>6

LEMMA InvStep == Inv /\ [Next]_vars => Inv'
<1> SUFFICES ASSUME Inv, [Next]_vars PROVE Inv'
  OBVIOUS
<1>1. CASE UNCHANGED vars
  BY <1>1 DEF vars, Inv, Tables, Shape, IndexSound, IndexStaysOpen, NoOrphans, OpenTo, Waiting,
              NextRecord, Current
<1>2. CASE Next
  BY <1>2, ExportStep, BookkeepingStep, ImportRecordStep, AskStep, AnswerStep, OthersStep
     DEF Next, Imports
<1> QED
  BY <1>1, <1>2

LEMMA Invariance == Spec => []Inv
BY InvInit, InvStep, PTL DEF Spec

-----------------------------------------------------------------------------
\* All vectors stay in one space and belong to cold rows that are there,
\* whatever backups hold and whoever else writes (_check_vector_space).
THEOREM IndexAlwaysSound == Spec => []IndexSound
BY Invariance, PTL DEF Inv

LEMMA ImportWritesNew ==
    Inv /\ [Next]_vars =>
        \A p \in Importers : Imports(p) =>
            \A i \in Ids : memory[i] # None => memory'[i] = memory[i] /\ vectors'[i] = vectors[i]
<1> SUFFICES ASSUME Inv, NEW p \in Importers, Imports(p),
                    NEW i \in Ids, memory[i] # None
             PROVE  memory'[i] = memory[i] /\ vectors'[i] = vectors[i]
  OBVIOUS
<1> DEFINE r == NextRecord(p)
<1>1. CASE ImportRecord(p)
  <2>1. \/ UNCHANGED <<memory, vectors>>
        \/ /\ Outcome(memory, vectors, r, import[p].reembed) = "imported"
           /\ memory' = RestoredRow(memory, r) /\ vectors' = RestoredVector(vectors, r)
    BY <1>1 DEF ImportRecord
  <2> HIDE DEF r
  <2> QED
    BY <2>1, ImportedIsNew DEF RestoredRow, RestoredVector, Inv, Tables
<1>2. CASE AskProvider(p)
  BY <1>2 DEF AskProvider
<1>3. ASSUME NEW t \in Times, ProviderAnswers(p, t)
      PROVE  memory'[i] = memory[i] /\ vectors'[i] = vectors[i]
  <2>1. \/ UNCHANGED <<memory, vectors>>
        \/ /\ Current(p) /\ memory' = RestoredRow(memory, r)
           /\ vectors' = Fresh(vectors, r.id, t)
    BY <1>3 DEF ProviderAnswers
  <2>2. Current(p) => memory[r.id] = None
    BY <1>3 DEF ProviderAnswers, Inv, Waiting
  <2> HIDE DEF r
  <2> QED
    BY <2>1, <2>2 DEF RestoredRow, Fresh, Inv, Tables
<1> QED
  BY <1>1, <1>2, <1>3 DEF Imports

\* An import never changes a row that is there, nor its vector, however many
\* imports run at once (_restore_record: "never upserts").
THEOREM NothingOverwritten == Spec => NeverOverwrites
<1>1. Inv /\ [Next]_vars => [\A p \in Importers : Imports(p) =>
          \A i \in Ids : memory[i] # None => memory'[i] = memory[i] /\ vectors'[i] = vectors[i]]_vars
  BY ImportWritesNew
<1> QED
  BY <1>1, Invariance, PTL DEF Spec, NeverOverwrites

-----------------------------------------------------------------------------
(* What an import leaves.                                                   *)

\* The row of a record is in the database as an import leaves it.
Settled(r, reembed) ==
    /\ memory[r.id] = r.fields
    /\ reembed /\ r.id \in Cold => vectors[r.id] # None
    /\ ~reembed => Attested(r)
    /\ ~reembed => (r.id \in Cold /\ r.vector # LeftOut => vectors[r.id] = r.vector)

Flawless(p) == import[p].alone /\ "error" \notin ToSet(import[p].results)

\* What an import that nobody disturbs has gone through is settled.
Progress(p) ==
    /\ Len(import[p].results) <= Len(backup)
    /\ Done(p) => Len(import[p].results) = Len(backup)
    /\ import[p].pc = "asks" => import[p].reembed
    /\ Flawless(p) =>
          \A k \in 1 .. Len(import[p].results) : Settled(backup[k], import[p].reembed)

AllProgress == \A p \in Importers : Progress(p)

LEMMA Results ==
    ASSUME Inv, NEW p \in Importers
    PROVE  /\ import[p].results \in Seq(Outcomes) /\ Len(import[p].results) \in Nat
           /\ Len(backup) \in Nat /\ DOMAIN backup = 1 .. Len(backup)
           /\ \A k \in 1 .. Len(backup) : backup[k] \in Restorable
BY LenProperties, ElementOfSeq DEF Inv, Tables, Shape

\* What is settled is a row that is there.
LEMMA SettledIsThere ==
    ASSUME NEW r \in Restorable, NEW b, Settled(r, b)
    PROVE  r.id \in Ids /\ memory[r.id] # None
BY ValuesAssumption DEF Settled, Restorable, Record

\* An import that ends as it was, or that is disturbed.
LEMMA StaysProgress ==
    ASSUME NEW p \in Importers, Progress(p), backup' = backup,
           import'[p].results = import[p].results, import'[p].reembed = import[p].reembed,
           import'[p].pc = "done" => Len(import[p].results) = Len(backup),
           import'[p].pc = "asks" => import[p].reembed,
           \/ ~import'[p].alone
           \/ import[p].alone /\ UNCHANGED <<memory, vectors>>
    PROVE  Progress(p)'
<1>1. Flawless(p)' => Flawless(p) /\ UNCHANGED <<memory, vectors>>
  BY DEF Flawless
<1> QED
  BY <1>1 DEF Progress, Done, Settled

\* An import that starts anew.
LEMMA IdleProgress ==
    ASSUME Inv, NEW p \in Importers, backup' \in Seq(Restorable),
           import'[p].results = <<>>, import'[p].pc \notin {"done", "asks"}
    PROVE  Progress(p)'
<1>1. Len(<<>>) = 0 /\ Len(backup') \in Nat
  BY LenProperties
<1> QED
  BY <1>1 DEF Progress, Done

\* An import that has dealt with one more record.
LEMMA AnsweredProgress ==
    ASSUME Inv, NEW p \in Importers, Progress(p), NEW o \in Outcomes,
           Len(import[p].results) < Len(backup), backup' = backup,
           import'[p].results = Append(import[p].results, o), import'[p].pc = "record",
           import'[p].reembed = import[p].reembed,
           import'[p].alone /\ o # "error" => import[p].alone,
           o # "error" =>
             \A r, b : /\ r = NextRecord(p) /\ b = import[p].reembed => Settled(r, b)'
                       /\ r \in Restorable /\ Settled(r, b) => Settled(r, b)'
    PROVE  Progress(p)'
<1>1. PICK n, b, bs :
          n \in Nat /\ n = Len(import[p].results) /\ b = import[p].reembed /\ bs = backup
  BY Results
<1>2. PICK s : s = Append(import[p].results, o)
  OBVIOUS
<1>3. /\ Len(bs) \in Nat /\ n + 1 <= Len(bs)
      /\ import[p].results \in Seq(Outcomes)
      /\ \A k \in 1 .. n : bs[k] \in Restorable
  BY <1>1, Results
<1>4. /\ Len(s) = n + 1 /\ s \in Seq(Outcomes) /\ s[n + 1] = o
      /\ \A k \in 1 .. n : s[k] = import[p].results[k]
  BY <1>1, <1>2, <1>3, AppendProperties
<1>5. DOMAIN s = 1 .. n + 1 /\ DOMAIN import[p].results = 1 .. n
  BY <1>1, <1>3, <1>4, LenProperties
<1>6. ToSet(import[p].results) \cup {o} \subseteq ToSet(s)
  <2>1. \A k \in 1 .. n : k \in DOMAIN s /\ s[k] = import[p].results[k]
    BY <1>1, <1>4, <1>5
  <2>2. n + 1 \in DOMAIN s
    BY <1>1, <1>5
  <2> QED
    BY <1>4, <1>5, <2>1, <2>2 DEF ToSet
<1>7. Flawless(p)' => Flawless(p) /\ o # "error"
  BY <1>2, <1>6 DEF Flawless
<1>8. ASSUME Flawless(p)', NEW k \in 1 .. n + 1 PROVE Settled(bs[k], b)'
  <2>1. CASE k = n + 1
    <3>1. bs[k] = NextRecord(p)
      BY <1>1, <2>1 DEF NextRecord
    <3> QED
      BY <1>1, <1>7, <1>8, <3>1
  <2>2. CASE k # n + 1
    <3>1. k \in 1 .. n /\ bs[k] \in Restorable
      BY <1>1, <1>3, <2>2
    <3>2. Settled(bs[k], b)
      BY <1>1, <1>7, <1>8, <3>1 DEF Progress
    <3> QED
      BY <1>7, <1>8, <3>1, <3>2
  <2> QED
    BY <2>1, <2>2
<1>9. Len(import'[p].results) = n + 1
  BY <1>2, <1>4
<1> QED
  BY <1>1, <1>3, <1>8, <1>9 DEF Progress, Done, Settled

\* Restoring a row that was not there leaves what is settled as it is.
LEMMA StaysSettled ==
    ASSUME Tables, NEW r \in Restorable, NEW b, Settled(r, b), NEW i, memory[i] = None,
           \E f : memory' = [memory EXCEPT ![i] = f],
           vectors' = vectors \/ \E x : vectors' = [vectors EXCEPT ![i] = x]
    PROVE  Settled(r, b)'
<1>1. r.id \in Ids /\ r.id # i
  BY SettledIsThere
<1>2. memory'[r.id] = memory[r.id] /\ vectors'[r.id] = vectors[r.id]
  BY <1>1 DEF Tables
<1> QED
  BY <1>2 DEF Settled

LEMMA RecordSettles ==
    ASSUME Inv, NEW r \in Restorable, NEW b,
           b => r.id \notin Cold \/ memory[r.id] # None,
           \/ /\ Outcome(memory, vectors, r, b) = "imported"
              /\ memory' = RestoredRow(memory, r) /\ vectors' = RestoredVector(vectors, r)
           \/ /\ Outcome(memory, vectors, r, b) = "skipped"
              /\ UNCHANGED <<memory, vectors>>
    PROVE  Settled(r, b)'
<1>1. /\ Tables /\ NoOrphans /\ r.id \in Ids /\ r.fields \in Fields /\ r.fields # None
  BY ValuesAssumption DEF Inv, IndexSound, Restorable, Record
<1>2. CASE Outcome(memory, vectors, r, b) = "imported"
  <2>1. memory[r.id] = None /\ Attested(r) /\ (b => r.id \notin Cold)
    BY <1>2, ImportedIsNew
  <2>2. memory' = RestoredRow(memory, r) /\ vectors' = RestoredVector(vectors, r)
    BY <1>2
  <2>3. memory'[r.id] = r.fields
    BY <1>1, <2>2 DEF RestoredRow, Tables
  <2>4. ASSUME r.id \in Cold, r.vector # LeftOut PROVE vectors'[r.id] = r.vector
    <3>1. CASE HasVector(r)
      BY <1>1, <2>2, <3>1 DEF RestoredVector, Tables
    <3>2. CASE ~HasVector(r)
      <4>1. vectors' = vectors /\ r.vector = None
        BY <2>2, <2>4, <3>2 DEF RestoredVector, HasVector
      <4> QED
        BY <1>1, <2>1, <4>1 DEF NoOrphans
    <3> QED
      BY <3>1, <3>2
  <2> QED
    BY <2>1, <2>3, <2>4 DEF Settled
<1>3. CASE Outcome(memory, vectors, r, b) = "skipped"
  <2>1. IF b THEN SameButVector(memory, vectors, r)
             ELSE Attested(r) /\ SameRow(memory, vectors, r)
    BY <1>3 DEF Outcome, SameButVector, SameRow, Attested
  <2>2. UNCHANGED <<memory, vectors>>
    BY <1>3
  <2>3. Settled(r, b)
    BY <2>1 DEF Settled, SameButVector, SameRow
  <2> QED
    BY <2>2, <2>3 DEF Settled
<1> QED
  BY <1>2, <1>3

LEMMA ImportRecordProgress ==
    ASSUME Inv, AllProgress, NEW p \in Importers, ImportRecord(p)
    PROVE  AllProgress'
<1> DEFINE r == NextRecord(p)
           b == import[p].reembed
           o == Outcome(memory, vectors, r, b)
<1>1. /\ Inv /\ Shape /\ Tables /\ Progress(p) /\ backup' = backup
      /\ Len(import[p].results) < Len(backup)
      /\ b => r.id \notin Cold \/ memory[r.id] # None
  BY DEF Inv, AllProgress, ImportRecord, HasNext, NeedsProvider
<1>2. o \in Outcomes
  BY DEF Outcome, Outcomes
<1>3. r \in Restorable
  BY <1>1, NextIsRestorable
<1>4. \/ /\ o = "imported" /\ import' = Seen(Answered(p, o), p)
         /\ memory' = RestoredRow(memory, r) /\ vectors' = RestoredVector(vectors, r)
         /\ memory[r.id] = None
      \/ /\ o # "imported" /\ import' = Answered(p, o) /\ UNCHANGED <<memory, vectors>>
  BY ImportedIsNew DEF ImportRecord
<1>5. /\ import'[p].results = Append(import[p].results, o) /\ import'[p].pc = "record"
      /\ import'[p].reembed = b /\ import'[p].alone = import[p].alone
  <2> DEFINE f == Answered(p, o)
  <2>1. /\ f[p].results = Append(import[p].results, o) /\ f[p].pc = "record"
        /\ f[p].reembed = b /\ f[p].alone = import[p].alone
    BY <1>1 DEF Answered, Shape
  <2>2. DOMAIN f = Importers /\ Seen(f, p)[p] = f[p]
    BY <1>1, <1>2, AnsweredShape DEF Seen
  <2>3. import' = f \/ import' = Seen(f, p)
    BY <1>4
  <2> HIDE DEF f
  <2> QED
    BY <2>1, <2>2, <2>3
<1>6. ASSUME NEW q \in Importers, q # p PROVE Progress(q)'
  <2>1. Answered(p, o)[q] = import[q]
    BY <1>2, <1>6, AnsweredShape DEF Inv
  <2>2. CASE import' = Answered(p, o) /\ UNCHANGED <<memory, vectors>>
    BY <1>1, <1>6, <2>1, <2>2, StaysProgress DEF AllProgress, Progress, Done
  <2>3. CASE import' = Seen(Answered(p, o), p)
    <3>1. /\ import'[q].results = import[q].results /\ import'[q].reembed = import[q].reembed
          /\ import'[q].pc = import[q].pc /\ ~import'[q].alone
      BY <1>1, <1>6, <2>1, <2>3 DEF Seen, Shape
    <3> QED
      BY <1>1, <1>6, <3>1, StaysProgress DEF AllProgress, Progress, Done
  <2> QED
    BY <1>4, <2>2, <2>3
<1>7. ASSUME o # "error", NEW x, NEW c
      PROVE  /\ x = r /\ c = b => Settled(x, c)'
             /\ x \in Restorable /\ Settled(x, c) => Settled(x, c)'
  <2>1. o = "skipped" \/ o = "imported"
    BY <1>2, <1>7 DEF Outcomes
  <2>2. ASSUME x = r, c = b PROVE Settled(x, c)'
    BY <1>1, <1>3, <1>4, <2>1, <2>2, RecordSettles
  <2>3. ASSUME x \in Restorable, Settled(x, c) PROVE Settled(x, c)'
    <3>1. CASE UNCHANGED <<memory, vectors>>
      BY <2>3, <3>1 DEF Settled
    <3>2. CASE ~ UNCHANGED <<memory, vectors>>
      <4>1. PICK i : /\ memory[i] = None /\ \E f : memory' = [memory EXCEPT ![i] = f]
                     /\ vectors' = vectors \/ \E v : vectors' = [vectors EXCEPT ![i] = v]
        BY <1>4, <3>2 DEF RestoredRow, RestoredVector
      <4> QED
        BY <1>1, <2>3, <4>1, StaysSettled
    <3> QED
      BY <3>1, <3>2
  <2> QED
    BY <2>2, <2>3
<1>8. Progress(p)'
  BY <1>1, <1>2, <1>5, <1>7, AnsweredProgress
<1> QED
  BY <1>6, <1>8 DEF AllProgress

\* A step of one import that leaves the tables alone.
LEMMA QuietProgress ==
    ASSUME AllProgress, NEW p \in Importers, UNCHANGED <<memory, vectors, backup>>,
           \A q \in Importers \ {p} : import'[q] = import[q], Progress(p)'
    PROVE  AllProgress'
<1>1. ASSUME NEW q \in Importers, q # p PROVE Progress(q)'
  BY <1>1 DEF AllProgress, Progress, Done, Flawless, Settled
<1> QED
  BY <1>1 DEF AllProgress

\* An error: nothing is written, and the import is no longer without one.
LEMMA ErrorProgress ==
    ASSUME Inv, AllProgress, NEW p \in Importers, NEW f,
           Len(import[p].results) < Len(backup), UNCHANGED <<memory, vectors, backup>>,
           import' = Answered(p, "error") \/ import' = [Answered(p, "error") EXCEPT ![p].alone = f]
    PROVE  AllProgress'
<1>1. Shape /\ "error" \in Outcomes /\ Progress(p)
  BY DEF Inv, Outcomes, AllProgress
<1>2. \A q \in Importers \ {p} : import'[q] = import[q]
  BY <1>1, AnsweredShape
<1>3. /\ import'[p].results = Append(import[p].results, "error") /\ import'[p].pc = "record"
      /\ import'[p].reembed = import[p].reembed
  BY <1>1 DEF Answered, Shape
<1>4. Progress(p)'
  BY <1>1, <1>3, AnsweredProgress
<1> QED
  BY <1>2, <1>4, QuietProgress

LEMMA AskProgress ==
    ASSUME Inv, AllProgress, NEW p \in Importers, AskProvider(p)
    PROVE  AllProgress'
<1>1. /\ Shape /\ Progress(p) /\ UNCHANGED <<memory, vectors, backup>>
      /\ Len(import[p].results) < Len(backup)
  BY DEF Inv, AllProgress, AskProvider, HasNext
<1>2. CASE OpenTo(vectors, provider)
  <2>1. import' = [import EXCEPT ![p].pc = "asks", ![p].asked = provider, ![p].current = TRUE]
    BY <1>2 DEF AskProvider
  <2>2. \A q \in Importers \ {p} : import'[q] = import[q]
    BY <1>1, <2>1 DEF Shape
  <2>3. /\ import'[p].results = import[p].results /\ import'[p].reembed = import[p].reembed
        /\ import'[p].pc = "asks" /\ import'[p].alone = import[p].alone
    BY <1>1, <2>1 DEF Shape
  <2>4. Progress(p)'
    BY <1>1, <2>3, StaysProgress DEF AskProvider, NeedsProvider
  <2> QED
    BY <1>1, <2>2, <2>4, QuietProgress
<1>3. CASE ~OpenTo(vectors, provider)
  BY <1>1, <1>3, ErrorProgress DEF AskProvider
<1> QED
  BY <1>2, <1>3

LEMMA AnswerProgress ==
    ASSUME Inv, AllProgress, NEW p \in Importers, NEW t \in Times, ProviderAnswers(p, t)
    PROVE  AllProgress'
<1>1. /\ Shape /\ Tables /\ Progress(p) /\ backup' = backup /\ "imported" \in Outcomes
      /\ Waiting(p) /\ import[p].pc = "asks" /\ Len(import[p].results) < Len(backup)
  BY DEF Inv, AllProgress, ProviderAnswers, Waiting, Outcomes
<1>2. CASE ~Current(p)
  BY <1>1, <1>2, ErrorProgress DEF ProviderAnswers
<1>3. CASE Current(p)
  <2>1. PICK r \in Restorable : r = NextRecord(p)
    BY <1>1, NextIsRestorable
  <2>2. /\ memory[r.id] = None /\ r.id \in Cold
        /\ memory' = [memory EXCEPT ![r.id] = r.fields]
        /\ vectors' = [vectors EXCEPT ![r.id] = [space |-> provider, at |-> t]]
        /\ import' = Seen(Answered(p, "imported"), p)
    BY <1>1, <1>3, <2>1 DEF Waiting, ProviderAnswers, RestoredRow, Fresh
  <2>3. /\ import'[p].results = Append(import[p].results, "imported")
        /\ import'[p].pc = "record" /\ import'[p].alone = import[p].alone
        /\ import'[p].reembed = import[p].reembed
    BY <1>1, <2>2 DEF Answered, Seen, Shape
  <2>4. ASSUME NEW q \in Importers, q # p PROVE Progress(q)'
    <3>1. Answered(p, "imported")[q] = import[q]
      BY <1>1, <2>4, AnsweredShape
    <3>2. /\ import'[q].results = import[q].results /\ import'[q].reembed = import[q].reembed
          /\ import'[q].pc = import[q].pc /\ ~import'[q].alone
      BY <1>1, <2>2, <2>4, <3>1 DEF Seen, Shape
    <3> QED
      BY <1>1, <2>4, <3>2, StaysProgress DEF AllProgress, Progress, Done
  <2>5. ASSUME NEW x, NEW c, x \in Restorable, Settled(x, c) PROVE Settled(x, c)'
    BY <1>1, <2>2, <2>5, StaysSettled
  <2>6. ASSUME NEW x, NEW c, x = r, c = import[p].reembed PROVE Settled(x, c)'
    <3>1. r.id \in Ids /\ [space |-> provider, at |-> t] \in Vectors
      BY <1>1 DEF Restorable, Record, Tables, Vectors
    <3>2. memory'[r.id] = r.fields /\ vectors'[r.id] # None
      BY <1>1, <2>2, <3>1, ValuesAssumption DEF Tables
    <3>3. import[p].reembed
      BY <1>1 DEF Progress
    <3> QED
      BY <2>6, <3>2, <3>3 DEF Settled
  <2>7. Progress(p)'
    BY <1>1, <2>1, <2>3, <2>5, <2>6, AnsweredProgress
  <2> QED
    BY <2>4, <2>7 DEF AllProgress
<1> QED
  BY <1>2, <1>3

LEMMA BookkeepingProgress ==
    ASSUME Inv, AllProgress, NEW p \in Importers,
           \/ \E b \in BOOLEAN : Begin(p, b)
           \/ Busy(p) \/ ProviderFails(p) \/ End(p) \/ Die(p)
    PROVE  AllProgress'
<1>1. Shape /\ Progress(p) /\ UNCHANGED <<memory, vectors, backup>> /\ backup \in Seq(Restorable)
  BY DEF Inv, Tables, AllProgress, Begin, Busy, ProviderFails, End, Die
<1>2. CASE Busy(p) \/ ProviderFails(p)
  <2>1. Len(import[p].results) < Len(backup)
    BY <1>2 DEF Busy, HasNext, ProviderFails, Inv, Waiting
  <2>2. import' = [Answered(p, "error") EXCEPT ![p].alone = FALSE]
    BY <1>2 DEF Busy, ProviderFails
  <2> QED
    BY <1>1, <2>1, <2>2, ErrorProgress
<1>3. CASE Die(p) \/ \E b \in BOOLEAN : Begin(p, b)
  <2>1. PICK x : /\ x.results = <<>> /\ x.pc \notin {"done", "asks"}
                /\ import' = [import EXCEPT ![p] = x]
    BY <1>3 DEF Die, Begin, Idle
  <2>2. import'[p] = x /\ \A q \in Importers \ {p} : import'[q] = import[q]
    BY <1>1, <2>1 DEF Shape
  <2> QED
    BY <1>1, <2>1, <2>2, IdleProgress, QuietProgress
<1>4. CASE End(p)
  <2>1. /\ import'[p].results = import[p].results /\ import'[p].reembed = import[p].reembed
        /\ import'[p].alone = import[p].alone /\ Len(import[p].results) = Len(backup)
        /\ import'[p].pc = "done"
        /\ \A q \in Importers \ {p} : import'[q] = import[q]
    BY <1>1, <1>4 DEF End, Shape
  <2>2. Progress(p)'
    BY <1>1, <2>1, StaysProgress
  <2> QED
    BY <1>1, <2>1, <2>2, QuietProgress
<1> QED
  BY <1>2, <1>3, <1>4

LEMMA OthersProgress ==
    ASSUME Inv, AllProgress,
           \/ \E i \in Ids : RemoveRow(i) \/ \E f \in Fields : Change(i, f)
           \/ \E i \in Cold, t \in Times : Embed(i, t)
           \/ \E s \in Spaces : Configure(s)
    PROVE  AllProgress'
<1>1. Shape /\ backup' = backup /\ \A q \in Importers : q # None
  BY ImportersAssumption DEF Inv, RemoveRow, Change, Embed, Configure, Write
<1>2. \/ import' = Seen(import, None)
      \/ import' = [p \in Importers |-> [import[p] EXCEPT !.alone = FALSE]]
  BY DEF RemoveRow, Change, Embed, Configure, Write
<1>3. ASSUME NEW q \in Importers
      PROVE  /\ import'[q].results = import[q].results /\ import'[q].reembed = import[q].reembed
             /\ import'[q].pc = import[q].pc /\ ~import'[q].alone
  <2>1. CASE import' = Seen(import, None)
    BY <1>1, <2>1 DEF Seen, Shape
  <2>2. CASE import' = [p \in Importers |-> [import[p] EXCEPT !.alone = FALSE]]
    BY <1>1, <2>2 DEF Shape
  <2> QED
    BY <1>2, <2>1, <2>2
<1>4. ASSUME NEW q \in Importers PROVE Progress(q)'
  BY <1>1, <1>3, StaysProgress DEF AllProgress, Progress, Done
<1> QED
  BY <1>4 DEF AllProgress

LEMMA ProgressStep == Inv /\ AllProgress /\ [Next]_vars => AllProgress'
<1> SUFFICES ASSUME Inv, AllProgress, [Next]_vars PROVE AllProgress'
  OBVIOUS
<1>1. CASE UNCHANGED vars
  BY <1>1 DEF vars, AllProgress, Progress, Done, Flawless, Settled
<1>2. ASSUME NEW b \in BOOLEAN, Export(b) PROVE AllProgress'
  <2>1. backup' \in Seq(Restorable)
    BY <1>2, ExportStep DEF Inv, Tables
  <2>2. ASSUME NEW p \in Importers PROVE Progress(p)'
    <3>1. import'[p].results = <<>> /\ import'[p].pc = "idle"
      BY <1>2 DEF Export, Idle
    <3> QED
      BY <2>1, <3>1, IdleProgress
  <2> QED
    BY <2>2 DEF AllProgress
<1>3. CASE Next
  BY <1>2, <1>3, BookkeepingProgress, ImportRecordProgress, AskProgress, AnswerProgress,
     OthersProgress DEF Next, Imports
<1> QED
  BY <1>1, <1>3

LEMMA ProgressInit == Init => AllProgress
<1> SUFFICES ASSUME Init, NEW p \in Importers PROVE Progress(p)
  BY DEF AllProgress
<1>1. import[p].results = <<>> /\ import[p].pc = "idle" /\ Len(backup) \in Nat
  BY BackupsAssumption, LenProperties DEF Init, Idle
<1> QED
  BY <1>1 DEF Progress, Done

LEMMA AlwaysProgress == Spec => [](Inv /\ AllProgress)
<1>1. Inv /\ AllProgress /\ [Next]_vars => AllProgress'
  BY ProgressStep
<1> QED
  BY <1>1, ProgressInit, Invariance, PTL DEF Spec

LEMMA CompleteSettles ==
    ASSUME Inv, AllProgress, NEW p \in Importers, Complete(p), NEW k \in DOMAIN backup
    PROVE  backup[k] \in Restorable /\ Settled(backup[k], import[p].reembed)
<1>1. k \in 1 .. Len(import[p].results) /\ Flawless(p)
  BY Results DEF AllProgress, Progress, Complete, Flawless
<1> QED
  BY <1>1, Results DEF AllProgress, Progress

\* What an import without errors leaves is the backup, field for field and
\* vector for vector, whatever was there before and for any number of imports
\* at once (_restore_record).
THEOREM ImportRestores == Spec => []RestoresTheBackup
<1>1. Inv /\ AllProgress => RestoresTheBackup
  BY CompleteSettles DEF RestoresTheBackup, Settled
<1> QED
  BY <1>1, AlwaysProgress, PTL

\* An import that was complete can be repeated the same way and finds all it
\* would do done ("verified idempotent retry", _restore_record).
THEOREM RetryIsIdempotent == Spec => []RetryFindsAllDone
<1>1. ASSUME Inv, AllProgress, NEW p \in Importers, Complete(p), NEW k \in DOMAIN backup
      PROVE  Outcome(memory, vectors, backup[k], import[p].reembed) = "skipped"
  <2> DEFINE r == backup[k]
             b == import[p].reembed
  <2>1. r \in Restorable /\ Settled(r, b) /\ r.id \in Ids /\ memory[r.id] # None
    BY <1>1, CompleteSettles, SettledIsThere
  <2>2. CASE b
    <3>1. PICK s \in Spaces : OpenTo(vectors, s)
      BY <1>1 DEF Inv, IndexSound, IndexStaysOpen
    <3>2. r.id \in Cold => vectors[r.id] # None /\ vectors[r.id].space = s
      BY <2>1, <2>2, <3>1 DEF Settled, OpenTo
    <3>3. SameButVector(memory, vectors, r)
      BY <2>1, <3>1, <3>2 DEF Settled, SameButVector
    <3> QED
      BY <2>1, <2>2, <3>3 DEF Outcome, SameButVector
  <2>3. CASE ~b
    <3>1. Attested(r) /\ SameRow(memory, vectors, r)
      BY <2>1, <2>3 DEF Settled, SameRow
    <3> QED
      BY <2>1, <2>3, <3>1 DEF Outcome, Attested, SameRow
  <2> QED
    BY <2>2, <2>3
<1>2. Inv /\ AllProgress => RetryFindsAllDone
  BY <1>1 DEF RetryFindsAllDone
<1> QED
  BY <1>2, AlwaysProgress, PTL

-----------------------------------------------------------------------------
(* What a dry run foretells.  DryRun folds Previewed over the backup; that   *)
(* the fold is a run through the records, one after another, follows by     *)
(* taking the first number for which it is not.                              *)

\* A set of numbers that holds 0 and with each number the next is all of them.
LEMMA OneByOne ==
    ASSUME NEW T, 0 \in T, \A n \in Nat : n \in T => n + 1 \in T
    PROVE  \A n \in Nat : n \in T
<1> DEFINE U == {n \in Nat : n \notin T}
<1> SUFFICES ASSUME U # {} PROVE FALSE
  OBVIOUS
<1>1. U \subseteq Nat
  OBVIOUS
<1>2. PICK x \in U : \A y \in U : ~(<<y, x>> \in OpToRel(<, Nat))
  BY <1>1, NatLessThanWellFounded, WFMin
<1>3. \A y \in U : ~(y < x)
  BY <1>1, <1>2 DEF OpToRel
<1>4. x \in Nat /\ x \notin T /\ x # 0
  BY <1>2, Zenon
<1>5. x - 1 \in Nat /\ x - 1 < x /\ x = (x - 1) + 1
  BY <1>4
<1>6. x - 1 \in T
  BY <1>3, <1>5
<1> QED
  BY <1>4, <1>5, <1>6

\* The greatest of finitely many positions.
LEMMA MaxIsThere ==
    ASSUME NEW n \in Nat, NEW s \in SUBSET (1..n), s # {}
    PROVE  Max(s) \in s /\ \A x \in s : x <= Max(s)
<1> DEFINE T == {k \in Nat : \A u \in SUBSET (1..k) : u # {} => \E x \in u : \A y \in u : x >= y}
<1>1. 0 \in T
  <2>1. 1..0 = {}
    OBVIOUS
  <2>2. \A u \in SUBSET (1..0) : u = {}
    BY <2>1
  <2> QED
    BY <2>2
<1>2. \A k \in Nat : k \in T => k + 1 \in T
  <2> SUFFICES ASSUME NEW k \in Nat, k \in T, NEW u \in SUBSET (1..(k + 1)), u # {}
               PROVE  \E x \in u : \A y \in u : x >= y
    OBVIOUS
  <2>1. CASE k + 1 \in u
    BY <2>1
  <2>2. CASE k + 1 \notin u
    <3>1. u \in SUBSET (1..k)
      BY <2>2
    <3> QED
      BY <3>1
  <2> QED
    BY <2>1, <2>2
<1> HIDE DEF T
<1>3. n \in T
  BY <1>1, <1>2, OneByOne
<1>4. \E x \in s : \A y \in s : x >= y
  BY <1>3 DEF T
<1> QED
  BY <1>4 DEF Max

\* What the import of the records at the positions in s makes of the tables.
Goes(g, b) ==
    g = [s \in SUBSET DOMAIN backup |->
            IF s = {} THEN [m |-> memory, v |-> vectors, results |-> <<>>]
            ELSE Previewed(g[s \ {Max(s)}], backup[Max(s)], b)]

LEMMA DryRunExists ==
    ASSUME NEW n \in Nat, DOMAIN backup = 1..n, NEW b
    PROVE  \E g : Goes(g, b)
<1> DEFINE Body(g, s) == IF s = {} THEN [m |-> memory, v |-> vectors, results |-> <<>>]
                         ELSE Previewed(g[s \ {Max(s)}], backup[Max(s)], b)
           T == {k \in Nat : \E g : \A s \in SUBSET (1..k) : g[s] = Body(g, s)}
<1>1. 0 \in T
  <2> DEFINE g == [s \in SUBSET (1..0) |-> [m |-> memory, v |-> vectors, results |-> <<>>]]
  <2>1. \A s \in SUBSET (1..0) : g[s] = Body(g, s)
    OBVIOUS
  <2> HIDE DEF g
  <2>2. \E h : \A s \in SUBSET (1..0) : h[s] = Body(h, s)
    BY <2>1
  <2> HIDE DEF Body
  <2> QED
    BY <2>2
<1>2. \A k \in Nat : k \in T => k + 1 \in T
  <2> SUFFICES ASSUME NEW k \in Nat, k \in T PROVE k + 1 \in T
    OBVIOUS
  <2>1. PICK g : \A s \in SUBSET (1..k) : g[s] = Body(g, s)
    OBVIOUS
  <2> DEFINE h == [s \in SUBSET (1..(k + 1)) |-> IF s \subseteq 1..k THEN g[s] ELSE Body(g, s)]
  <2>2. \A s \in SUBSET (1..(k + 1)) : h[s] = Body(h, s)
    <3> TAKE s \in SUBSET (1..(k + 1))
    <3>1. h[s] = Body(g, s)
      BY <2>1
    <3>2. CASE s = {}
      BY <3>1, <3>2
    <3>3. CASE s # {}
      <4>1. Max(s) \in s /\ \A x \in s : x <= Max(s)
        <5>1. k + 1 \in Nat
          OBVIOUS
        <5> QED
          BY <3>3, <5>1, MaxIsThere
      <4>2. s \ {Max(s)} \in SUBSET (1..k) /\ s \ {Max(s)} \in SUBSET (1..(k + 1))
        <5>1. PICK m \in 1..(k + 1) : m = Max(s)
          BY <4>1
        <5>2. \A x \in s : x \in 1..(k + 1) /\ x <= m
          BY <4>1, <5>1
        <5>3. \A x \in s \ {m} : x \in 1..k
          BY <5>2
        <5> QED
          BY <5>1, <5>3
      <4>3. h[s \ {Max(s)}] = g[s \ {Max(s)}]
        BY <4>2
      <4> HIDE DEF h
      <4> QED
        BY <3>1, <3>3, <4>3
    <3> QED
      BY <3>2, <3>3
  <2> HIDE DEF h
  <2>3. \E f : \A s \in SUBSET (1..(k + 1)) : f[s] = Body(f, s)
    BY <2>2
  <2> HIDE DEF Body
  <2> QED
    BY <2>3
<1> HIDE DEF T
<1>3. n \in T
  BY <1>1, <1>2, OneByOne
<1>4. PICK g : \A s \in SUBSET (1..n) : g[s] = Body(g, s)
  BY <1>3 DEF T
<1> DEFINE h == [s \in SUBSET (1..n) |-> Body(g, s)]
<1>5. \A s \in SUBSET (1..n) : h[s] = g[s]
  BY <1>4
<1>6. \A s \in SUBSET (1..n) : Body(h, s) = Body(g, s)
  <2> TAKE s \in SUBSET (1..n)
  <2>1. h[s \ {Max(s)}] = g[s \ {Max(s)}]
    BY <1>5
  <2> HIDE DEF h
  <2> QED
    BY <2>1
<1>7. h = [s \in SUBSET (1..n) |-> Body(h, s)]
  BY <1>6
<1>8. \E f : f = [s \in SUBSET (1..n) |-> Body(f, s)]
  BY <1>7
<1> QED
  BY <1>8 DEF Goes

\* The states a dry run goes through, from the tables as they are.
Runs(st, n, b) ==
    /\ st[0] = [m |-> memory, v |-> vectors, results |-> <<>>]
    /\ \A k \in 1..n : st[k] = Previewed(st[k - 1], backup[k], b)

LEMMA DryRunRuns ==
    ASSUME NEW n \in Nat, DOMAIN backup = 1..n, NEW b
    PROVE  \E st : Runs(st, n, b) /\ DryRun(b) = st[n].results
<1> DEFINE G == CHOOSE g : g = [s \in SUBSET DOMAIN backup |->
                    IF s = {} THEN [m |-> memory, v |-> vectors, results |-> <<>>]
                    ELSE Previewed(g[s \ {Max(s)}], backup[Max(s)], b)]
<1>1. DryRun(b) = G[DOMAIN backup].results
  BY DEF DryRun, FoldLeft, MapThenFoldSet
<1>2. Goes(G, b)
  <2>1. \E g : Goes(g, b)
    BY DryRunExists
  <2> QED
    BY <2>1 DEF Goes
<1> HIDE DEF G
<1> DEFINE st == [k \in 0..n |-> G[1..k]]
<1>3. \A s \in SUBSET (1..n) : G[s] = IF s = {} THEN [m |-> memory, v |-> vectors, results |-> <<>>]
                                      ELSE Previewed(G[s \ {Max(s)}], backup[Max(s)], b)
  BY <1>2 DEF Goes
<1>4. st[0] = [m |-> memory, v |-> vectors, results |-> <<>>]
  <2>1. 1..0 = {} /\ st[0] = G[1..0]
    OBVIOUS
  <2> QED
    BY <1>3, <2>1
<1>5. ASSUME NEW k \in 1..n PROVE st[k] = Previewed(st[k - 1], backup[k], b)
  <2>1. 1..k \in SUBSET (1..n) /\ 1..k # {} /\ (1..k) \ {k} = 1..(k - 1)
    OBVIOUS
  <2>2. Max(1..k) \in 1..k /\ \A x \in 1..k : x <= Max(1..k)
    BY <2>1, MaxIsThere
  <2>3. Max(1..k) = k
    BY <2>2
  <2>4. G[1..k] = Previewed(G[1..(k - 1)], backup[k], b)
    BY <1>3, <2>1, <2>3
  <2> QED
    BY <2>4
<1>6. st[n] = G[DOMAIN backup]
  OBVIOUS
<1> HIDE DEF st
<1> QED
  BY <1>1, <1>4, <1>5, <1>6 DEF Runs

\* The rest of an import, as far as nobody disturbs it, is the rest of the run
\* that its dry run went through: the tables are as the dry run had them.
Foretold(p) ==
    import[p].pc # "idle" /\ import[p].alone /\ ~import[p].reembed =>
        \E st :
            /\ \A k \in 1 .. Len(backup) : st[k] = Previewed(st[k - 1], backup[k], FALSE)
            /\ st[Len(import[p].results)]
                  = [m |-> memory, v |-> vectors, results |-> import[p].results]
            /\ import[p].predicted = st[Len(backup)].results

AllForetold == \A p \in Importers : Foretold(p)

\* An import that goes on as it was, or that is disturbed.
LEMMA StaysForetold ==
    ASSUME NEW p \in Importers, Foretold(p),
           \/ import'[p].pc = "idle" \/ ~import'[p].alone \/ import'[p].reembed
           \/ /\ import[p].pc # "idle" /\ UNCHANGED <<memory, vectors, backup>>
              /\ import'[p].results = import[p].results /\ import'[p].alone = import[p].alone
              /\ import'[p].reembed = import[p].reembed
              /\ import'[p].predicted = import[p].predicted
    PROVE  Foretold(p)'
BY DEF Foretold

\* What the others do leaves what an import was told, or disturbs it.
LEMMA OthersForetold ==
    ASSUME Shape, AllForetold, NEW p, NEW f, DOMAIN f = Importers,
           \A q \in Importers : DOMAIN f[q] = DOMAIN import[q] /\ (q # p => f[q] = import[q]),
           backup' = backup,
           \/ import' = f /\ UNCHANGED <<memory, vectors>>
           \/ import' = Seen(f, p)
    PROVE  \A q \in Importers : q # p => Foretold(q)'
<1> SUFFICES ASSUME NEW q \in Importers, q # p PROVE Foretold(q)'
  OBVIOUS
<1>1. Foretold(q) /\ f[q] = import[q]
  BY DEF AllForetold
<1>2. CASE import' = f /\ UNCHANGED <<memory, vectors>>
  BY <1>1, <1>2 DEF Foretold
<1>3. CASE import' = Seen(f, p)
  <2>1. ~import'[q].alone
    BY <1>1, <1>3 DEF Seen, Shape
  <2> QED
    BY <1>1, <2>1, StaysForetold
<1> QED
  BY <1>2, <1>3

LEMMA BeginForetold ==
    ASSUME Inv, NEW p \in Importers, NEW b \in BOOLEAN, Begin(p, b)
    PROVE  Foretold(p)'
<1>1. /\ UNCHANGED <<memory, vectors, backup>>
      /\ import'[p].results = <<>> /\ import'[p].reembed = b
      /\ import'[p].predicted = DryRun(b)
  BY DEF Inv, Shape, Begin, Idle
<1>2. Len(backup) \in Nat /\ DOMAIN backup = 1 .. Len(backup) /\ Len(<<>>) = 0
  BY LenProperties DEF Inv, Tables
<1>3. PICK st : Runs(st, Len(backup), b) /\ DryRun(b) = st[Len(backup)].results
  BY <1>2, DryRunRuns
<1>4. CASE b
  BY <1>1, <1>4 DEF Foretold
<1>5. CASE ~b
  <2>1. b = FALSE
    BY <1>5
  <2>2. /\ \A k \in 1 .. Len(backup) : st[k] = Previewed(st[k - 1], backup[k], FALSE)
        /\ st[0] = [m |-> memory, v |-> vectors, results |-> <<>>]
        /\ DryRun(b) = st[Len(backup)].results
    BY <1>3, <2>1 DEF Runs
  <2> QED
    BY <1>1, <1>2, <2>2 DEF Foretold
<1> QED
  BY <1>4, <1>5

LEMMA RecordForetold ==
    ASSUME Inv, NEW p \in Importers, Foretold(p), ImportRecord(p)
    PROVE  Foretold(p)'
<1> DEFINE r == NextRecord(p)
           o == Outcome(memory, vectors, r, import[p].reembed)
<1>1. /\ Shape /\ backup' = backup /\ Len(import[p].results) < Len(backup)
      /\ import[p].pc = "record"
  BY DEF Inv, ImportRecord, HasNext
<1>2. PICK n, m : n \in Nat /\ n = Len(import[p].results) /\ m \in Nat /\ m = Len(backup)
  BY Results
<1>3. \/ /\ o = "imported" /\ import' = Seen(Answered(p, o), p)
         /\ memory' = RestoredRow(memory, r) /\ vectors' = RestoredVector(vectors, r)
      \/ /\ o # "imported" /\ import' = Answered(p, o) /\ UNCHANGED <<memory, vectors>>
  BY DEF ImportRecord
<1>4. /\ import'[p].results = Append(import[p].results, o)
      /\ import'[p].reembed = import[p].reembed /\ import'[p].alone = import[p].alone
      /\ import'[p].predicted = import[p].predicted
  <2> DEFINE f == Answered(p, o)
  <2> HIDE DEF r, o
  <2>1. /\ f[p].results = Append(import[p].results, o) /\ f[p].reembed = import[p].reembed
        /\ f[p].alone = import[p].alone /\ f[p].predicted = import[p].predicted
    BY <1>1 DEF Answered, Shape
  <2>2. Seen(f, p)[p] = f[p]
    BY DEF Seen
  <2> HIDE DEF f
  <2>3. import'[p] = f[p]
    BY <1>3, <2>2 DEF f
  <2> QED
    BY <2>1, <2>3
<1> SUFFICES ASSUME import[p].alone, ~import[p].reembed PROVE Foretold(p)'
  BY <1>4 DEF Foretold
<1>5. PICK st : /\ \A k \in 1..m : st[k] = Previewed(st[k - 1], backup[k], FALSE)
                /\ st[n] = [m |-> memory, v |-> vectors, results |-> import[p].results]
                /\ import[p].predicted = st[m].results
  BY <1>1, <1>2 DEF Foretold
<1>6. r = backup[n + 1] /\ n + 1 \in 1..m
  BY <1>1, <1>2 DEF NextRecord
<1>7. o = Outcome(memory, vectors, r, FALSE)
  BY DEF Outcome
<1>8. st[n + 1] = Previewed(st[n], r, FALSE)
  <2>1. (n + 1) - 1 = n
    BY <1>2
  <2> QED
    BY <1>5, <1>6, <2>1
<1>9. st[n + 1] = [m |-> memory', v |-> vectors', results |-> import'[p].results]
  <2>1. Previewed([m |-> memory, v |-> vectors, results |-> import[p].results], r, FALSE)
          = [m |-> IF o = "imported" THEN RestoredRow(memory, r) ELSE memory,
             v |-> IF o = "imported" THEN RestoredVector(vectors, r) ELSE vectors,
             results |-> Append(import[p].results, o)]
    BY <1>7 DEF Previewed
  <2> HIDE DEF r, o
  <2> QED
    BY <1>3, <1>4, <1>5, <1>8, <2>1
<1>10. Len(import'[p].results) = n + 1
  <2>1. o \in Outcomes
    BY DEF Outcome, Outcomes
  <2> HIDE DEF o
  <2> QED
    BY <1>1, <1>2, <1>4, <2>1, AppendProperties DEF Shape
<1> QED
  BY <1>1, <1>2, <1>4, <1>5, <1>9, <1>10 DEF Foretold

LEMMA ForetoldStep == Inv /\ AllProgress /\ AllForetold /\ [Next]_vars => AllForetold'
<1> SUFFICES ASSUME Inv, AllProgress, AllForetold, [Next]_vars PROVE AllForetold'
  OBVIOUS
<1>0. Shape /\ \A q \in Importers : Foretold(q)
  BY DEF Inv, AllForetold
<1>1. CASE UNCHANGED vars
  BY <1>0, <1>1, StaysForetold DEF vars, AllForetold, Foretold
<1>2. ASSUME NEW b \in BOOLEAN, Export(b) PROVE AllForetold'
  BY <1>2 DEF Export, Idle, AllForetold, Foretold
\* One import moves; what it does to itself is left to show.
<1>3. ASSUME NEW p \in Importers, NEW f, DOMAIN f = Importers, backup' = backup,
             \A q \in Importers : DOMAIN f[q] = DOMAIN import[q] /\ (q # p => f[q] = import[q]),
             \/ import' = f /\ UNCHANGED <<memory, vectors>>
             \/ import' = Seen(f, p),
             Foretold(p)'
      PROVE  AllForetold'
  BY <1>0, <1>3, OthersForetold DEF AllForetold
<1>4. ASSUME NEW p \in Importers, NEW b \in BOOLEAN, Begin(p, b) PROVE AllForetold'
  <2>1. /\ DOMAIN import' = Importers /\ UNCHANGED <<memory, vectors, backup>>
        /\ \A q \in Importers : DOMAIN import'[q] = DOMAIN import[q]
                                /\ (q # p => import'[q] = import[q])
    BY <1>0, <1>4 DEF Begin, Shape, Idle
  <2> QED
    BY <1>3, <1>4, <2>1, BeginForetold
<1>5. ASSUME NEW p \in Importers, ImportRecord(p) PROVE AllForetold'
  <2> DEFINE r == NextRecord(p)
             o == Outcome(memory, vectors, r, import[p].reembed)
  <2>1. o \in Outcomes
    BY DEF Outcome, Outcomes
  <2>2. /\ \/ import' = Seen(Answered(p, o), p)
           \/ import' = Answered(p, o) /\ UNCHANGED <<memory, vectors>>
        /\ backup' = backup
    BY <1>5 DEF ImportRecord
  <2> HIDE DEF o, r
  <2>3. /\ DOMAIN Answered(p, o) = Importers
        /\ \A q \in Importers : /\ DOMAIN Answered(p, o)[q] = DOMAIN import[q]
                                /\ q # p => Answered(p, o)[q] = import[q]
    BY <1>0, <2>1, AnsweredShape
  <2> QED
    BY <1>0, <1>3, <1>5, <2>2, <2>3, RecordForetold
<1>6. ASSUME NEW p \in Importers, AskProvider(p) PROVE AllForetold'
  <2>1. /\ import[p].reembed /\ UNCHANGED <<memory, vectors, backup>> /\ "error" \in Outcomes
        /\ \/ import' = [import EXCEPT ![p].pc = "asks", ![p].asked = provider, ![p].current = TRUE]
           \/ import' = Answered(p, "error")
    BY <1>6 DEF AskProvider, NeedsProvider, Outcomes
  <2>2. /\ DOMAIN import' = Importers /\ import'[p].reembed
        /\ \A q \in Importers : DOMAIN import'[q] = DOMAIN import[q]
                                /\ (q # p => import'[q] = import[q])
    <3>1. CASE import' = [import EXCEPT ![p].pc = "asks", ![p].asked = provider, ![p].current = TRUE]
      BY <1>0, <2>1, <3>1 DEF Shape
    <3>2. CASE import' = Answered(p, "error")
      <4>1. import'[p].reembed = import[p].reembed
        BY <1>0, <3>2 DEF Answered, Shape
      <4>2. /\ DOMAIN Answered(p, "error") = Importers
            /\ \A q \in Importers : DOMAIN Answered(p, "error")[q] = DOMAIN import[q]
                                    /\ (q # p => Answered(p, "error")[q] = import[q])
        BY <1>0, <2>1, AnsweredShape
      <4> QED
        BY <2>1, <3>2, <4>1, <4>2
    <3> QED
      BY <2>1, <3>1, <3>2
  <2>3. Foretold(p)'
    BY <1>0, <2>2, StaysForetold
  <2> QED
    BY <1>3, <2>1, <2>2, <2>3
<1>7. ASSUME NEW p \in Importers, NEW t \in Times, ProviderAnswers(p, t) PROVE AllForetold'
  <2>1. /\ import[p].reembed /\ backup' = backup
        /\ \E o \in Outcomes : \/ import' = Seen(Answered(p, o), p)
                               \/ import' = Answered(p, o) /\ UNCHANGED <<memory, vectors>>
    BY <1>7 DEF ProviderAnswers, Outcomes, AllProgress, Progress
  <2>2. PICK o \in Outcomes : \/ import' = Seen(Answered(p, o), p)
                              \/ import' = Answered(p, o) /\ UNCHANGED <<memory, vectors>>
    BY <2>1
  <2>3. /\ DOMAIN Answered(p, o) = Importers
        /\ \A q \in Importers : /\ DOMAIN Answered(p, o)[q] = DOMAIN import[q]
                                /\ q # p => Answered(p, o)[q] = import[q]
    BY <1>0, AnsweredShape
  <2>4. import'[p].reembed
    <3>1. Answered(p, o)[p].reembed = import[p].reembed
      BY <1>0 DEF Answered, Shape
    <3>2. Seen(Answered(p, o), p)[p] = Answered(p, o)[p]
      BY DEF Seen
    <3> QED
      BY <2>1, <2>2, <3>1, <3>2
  <2>5. Foretold(p)'
    BY <1>0, <2>4, StaysForetold
  <2> DEFINE f == Answered(p, o)
  <2>6. \/ import' = Seen(f, p)
        \/ import' = f /\ UNCHANGED <<memory, vectors>>
    BY <2>2
  <2>7. DOMAIN f = Importers /\ \A q \in Importers : DOMAIN f[q] = DOMAIN import[q]
                                                  /\ (q # p => f[q] = import[q])
    BY <2>3
  <2> HIDE DEF f
  <2> QED
    BY <1>3, <2>1, <2>5, <2>6, <2>7
<1>8. ASSUME NEW p \in Importers, Busy(p) \/ ProviderFails(p) PROVE AllForetold'
  <2>1. /\ import' = [Answered(p, "error") EXCEPT ![p].alone = FALSE] /\ "error" \in Outcomes
        /\ UNCHANGED <<memory, vectors, backup>>
    BY <1>8 DEF Busy, ProviderFails, Outcomes
  <2>2. /\ DOMAIN import' = Importers /\ ~import'[p].alone
        /\ \A q \in Importers : DOMAIN import'[q] = DOMAIN import[q]
                                /\ (q # p => import'[q] = import[q])
    <3> DEFINE f == Answered(p, "error")
    <3>1. /\ DOMAIN f = Importers
          /\ \A q \in Importers : DOMAIN f[q] = DOMAIN import[q] /\ (q # p => f[q] = import[q])
      BY <1>0, <2>1, AnsweredShape
    <3>2. "alone" \in DOMAIN f[p] /\ import' = [f EXCEPT ![p].alone = FALSE]
      BY <1>0, <2>1, <3>1 DEF Shape
    <3> HIDE DEF f
    <3> QED
      BY <3>1, <3>2
  <2>3. Foretold(p)'
    BY <1>0, <2>2, StaysForetold
  <2> QED
    BY <1>3, <2>1, <2>2, <2>3
<1>9. ASSUME NEW p \in Importers, End(p) \/ Die(p) PROVE AllForetold'
  <2>1. /\ DOMAIN import' = Importers /\ UNCHANGED <<memory, vectors, backup>>
        /\ \A q \in Importers : DOMAIN import'[q] = DOMAIN import[q]
                                /\ (q # p => import'[q] = import[q])
        /\ \/ import'[p].pc = "idle"
           \/ /\ import[p].pc # "idle" /\ import'[p].results = import[p].results
              /\ import'[p].alone = import[p].alone /\ import'[p].reembed = import[p].reembed
              /\ import'[p].predicted = import[p].predicted
    <3>1. CASE End(p)
      BY <1>0, <3>1 DEF End, Shape
    <3>2. CASE Die(p)
      BY <1>0, <3>2, IdleShape DEF Die, Shape
    <3> QED
      BY <1>9, <3>1, <3>2
  <2>2. Foretold(p)'
    BY <1>0, <2>1, StaysForetold
  <2> QED
    BY <1>3, <2>1, <2>2
<1>10. ASSUME \/ \E i \in Ids : RemoveRow(i) \/ \E f \in Fields : Change(i, f)
              \/ \E i \in Cold, t \in Times : Embed(i, t)
              \/ \E s \in Spaces : Configure(s)
       PROVE  AllForetold'
  <2>1. /\ \A q \in Importers : q # None
        /\ \/ import' = Seen(import, None)
           \/ import' = [q \in Importers |-> [import[q] EXCEPT !.alone = FALSE]]
    BY <1>10, ImportersAssumption DEF RemoveRow, Change, Embed, Configure, Write
  <2>2. \A q \in Importers : ~import'[q].alone
    <3>1. CASE import' = Seen(import, None)
      BY <1>0, <2>1, <3>1 DEF Seen, Shape
    <3>2. CASE import' = [q \in Importers |-> [import[q] EXCEPT !.alone = FALSE]]
      BY <1>0, <3>2 DEF Shape
    <3> QED
      BY <2>1, <3>1, <3>2
  <2> QED
    BY <1>0, <2>2, StaysForetold DEF AllForetold
<1>11. CASE Next
  BY <1>2, <1>4, <1>5, <1>6, <1>7, <1>8, <1>9, <1>10, <1>11 DEF Next, Imports
<1> QED
  BY <1>1, <1>11

\* If nobody else writes, an import without reembed ends as a dry run before it
\* said, record by record and for every backup, although it takes one savepoint
\* after another where the dry run took one transaction ("Dry-run performs the
\* same constraints/trigger/blob writes").
THEOREM DryRunForetells == Spec => []AsPreviewed
<1>1. Init => AllForetold
  BY DEF Init, Idle, AllForetold, Foretold
<1>2. Inv /\ AllProgress /\ AllForetold => AsPreviewed
  <2> SUFFICES ASSUME Inv, AllProgress, AllForetold, NEW p \in Importers,
                      Done(p), import[p].alone, ~import[p].reembed
               PROVE  import[p].results = import[p].predicted
    BY DEF AsPreviewed
  <2>1. Len(import[p].results) = Len(backup)
    BY DEF AllProgress, Progress
  <2>2. PICK st : /\ st[Len(import[p].results)]
                        = [m |-> memory, v |-> vectors, results |-> import[p].results]
                  /\ import[p].predicted = st[Len(backup)].results
    BY DEF AllForetold, Foretold, Done
  <2> QED
    BY <2>1, <2>2
<1> QED
  BY <1>1, <1>2, ForetoldStep, AlwaysProgress, PTL DEF Spec

=============================================================================
