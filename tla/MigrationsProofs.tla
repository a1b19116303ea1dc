-------------------------- MODULE MigrationsProofs --------------------------
(* The version of the schema is true for any scripts, processes and deaths.  *)
EXTENDS Migrations, SequenceTheorems, TLAPS

\* What a statement has left, and what keeps it that way: a row that is no
\* longer active when it is audited never becomes one that should have been.
Lasting(s) == LeftBy(s) /\ (s.does = "audit" => row # "active")

\* The first k statements of a script, or all of them, have been run.
RunUpTo(v, k) == \A i \in DOMAIN Statements(v) : i <= k => Lasting(Statements(v)[i])
RunAll(v) == \A i \in DOMAIN Statements(v) : Lasting(Statements(v)[i])

Typed ==
    /\ version \in Versions
    /\ row \in {"absent", "active", "dormant"} /\ run \in BOOLEAN /\ audited \in BOOLEAN
    /\ process \in [Processes -> [pc : {"down", "up", "apply"}, at : Nat, step : Nat]]

\* A process applies a script only after all before it have been run.
Ahead(p) ==
    process[p].pc = "apply" =>
        /\ process[p].at \in 1 .. Len(Scripts) /\ process[p].step >= 1
        /\ \A v \in 1 .. process[p].at - 1 : RunAll(v)
        /\ \A k \in Nat : k < process[p].step => RunUpTo(process[p].at, k)

MInv == Typed /\ (\A v \in 1 .. version : RunAll(v)) /\ \A p \in Processes : Ahead(p)

-----------------------------------------------------------------------------
LEMMA ScriptType ==
    /\ Len(Scripts) \in Nat /\ DOMAIN Scripts = 1 .. Len(Scripts)
    /\ \A v \in 1 .. Len(Scripts) :
          /\ Scripts[v].python \in BOOLEAN /\ Statements(v) \in Seq(Statement)
          /\ Len(Statements(v)) \in Nat /\ DOMAIN Statements(v) = 1 .. Len(Statements(v))
          /\ \A i \in 1 .. Len(Statements(v)) : Statements(v)[i] \in Statement
<1>1. /\ Len(Scripts) \in Nat /\ DOMAIN Scripts = 1 .. Len(Scripts)
      /\ \A v \in 1 .. Len(Scripts) : Scripts[v] \in [python : BOOLEAN, statements : Seq(Statement)]
  BY ScriptsAssumption, LenProperties, ElementOfSeq
<1>2. ASSUME NEW v \in 1 .. Len(Scripts)
      PROVE  /\ Scripts[v].python \in BOOLEAN /\ Statements(v) \in Seq(Statement)
             /\ Len(Statements(v)) \in Nat /\ DOMAIN Statements(v) = 1 .. Len(Statements(v))
             /\ \A i \in 1 .. Len(Statements(v)) : Statements(v)[i] \in Statement
  <2>1. Scripts[v].python \in BOOLEAN /\ Statements(v) \in Seq(Statement)
    BY <1>1 DEF Statements
  <2> QED
    BY <2>1, LenProperties, ElementOfSeq
<1> QED
  BY <1>1, <1>2

\* What the database may do meanwhile.
Grows ==
    /\ schema \subseteq schema' /\ (audited => audited')
    /\ row' = row \/ (row = "active" /\ row' = "dormant")

LEMMA LastingLasts ==
    ASSUME NEW s, Lasting(s), Grows
    PROVE  Lasting(s)'
BY DEF Lasting, LeftBy, Grows

LEMMA ScriptsLast ==
    ASSUME Grows, NEW v
    PROVE  /\ RunAll(v) => RunAll(v)'
           /\ \A k : RunUpTo(v, k) => RunUpTo(v, k)'
<1>1. ASSUME RunAll(v) PROVE RunAll(v)'
  BY <1>1, LastingLasts DEF RunAll
<1>2. ASSUME NEW k, RunUpTo(v, k) PROVE RunUpTo(v, k)'
  BY <1>2, LastingLasts DEF RunUpTo
<1> QED
  BY <1>1, <1>2

\* A step of one process.
LEMMA OneProcess ==
    ASSUME MInv, Typed', NEW p \in Processes, Grows, Ahead(p)',
           \A q \in Processes \ {p} : process'[q] = process[q],
           version' = version \/ \A v \in 1 .. version' : RunAll(v)'
    PROVE  MInv'
<1>1. \A v \in 1 .. version' : RunAll(v)'
  BY ScriptsLast DEF MInv
<1>2. ASSUME NEW q \in Processes, q # p PROVE Ahead(q)'
  <2>1. process'[q] = process[q] /\ Ahead(q)
    BY <1>2 DEF MInv
  <2> QED
    BY <2>1, ScriptsLast DEF Ahead
<1> QED
  BY <1>1, <1>2 DEF MInv

LEMMA FollowingType ==
    ASSUME NEW v \in 0 .. Len(Scripts)
    PROVE  Following(v) \in [pc : {"down", "up", "apply"}, at : Nat, step : Nat]
<1>1. Len(Scripts) \in Nat
  BY ScriptType
<1>2. v \in Nat /\ v + 1 \in Nat
  BY <1>1
<1> QED
  BY <1>2 DEF Following

\* What a process goes on with when all scripts up to one have been run.
LEMMA FollowingAhead ==
    ASSUME NEW p \in Processes, NEW v \in 0 .. Len(Scripts), process'[p] = Following(v),
           \A u \in 1 .. v : RunAll(u)'
    PROVE  Ahead(p)'
<1>1. CASE v = Len(Scripts)
  BY <1>1 DEF Following, Ahead
<1>2. CASE v # Len(Scripts)
  <2>0. Len(Scripts) \in Nat
    BY ScriptType
  <2>1. v + 1 \in 1 .. Len(Scripts) /\ v \in Nat
    BY <1>2, <2>0
  <2>2. process'[p].at = v + 1 /\ process'[p].step = 1
    BY <1>2 DEF Following
  <2>3. RunUpTo(v + 1, 0)'
    BY <2>1, ScriptType DEF RunUpTo
  <2>4. \A u \in 1 .. (v + 1) - 1 : RunAll(u)'
    BY <2>1
  <2>5. \A k \in Nat : k < 1 => k = 0
    OBVIOUS
  <2> QED
    BY <2>1, <2>2, <2>3, <2>4, <2>5 DEF Ahead
<1> QED
  BY <1>1, <1>2

-----------------------------------------------------------------------------
LEMMA StartStep ==
    ASSUME MInv, NEW p \in Processes, Start(p)
    PROVE  MInv'
<1>1. /\ Typed /\ version \in 0 .. Len(Scripts) /\ process' = [process EXCEPT ![p] = Following(version)]
      /\ UNCHANGED <<version, schema, row, run, audited>>
  BY DEF MInv, Typed, Versions, Start, data
<1>2. Grows /\ Typed' /\ process'[p] = Following(version)
  BY <1>1, FollowingType DEF Grows, Typed
<1>3. \A u \in 1 .. version : RunAll(u)'
  BY <1>2, ScriptsLast DEF MInv
<1>4. Ahead(p)'
  BY <1>1, <1>2, <1>3, FollowingAhead
<1> QED
  BY <1>1, <1>2, <1>4, OneProcess DEF Typed

LEMMA StopStep ==
    ASSUME MInv, NEW p \in Processes, ExecuteFails(p) \/ Crash(p)
    PROVE  MInv'
<1>1. Typed /\ process' = [process EXCEPT ![p] = Down] /\ UNCHANGED <<version, schema, row, run, audited>>
  BY DEF MInv, ExecuteFails, Crash, data
<1>2. Grows /\ Typed' /\ process'[p].pc = "down"
  BY <1>1 DEF Grows, Typed, Down
<1> QED
  BY <1>1, <1>2, OneProcess DEF Typed, Ahead

\* A statement leaves what it is there for.
LEMMA ExecuteLeaves ==
    ASSUME NEW s \in Statement, Execute(s), s.does = "audit" => row # "active"
    PROVE  Lasting(s)' /\ Grows
<1>1. /\ s.does \in {"add", "create"} => schema' = schema \cup {s.object}
      /\ s.does \notin {"add", "create"} => schema' = schema
      /\ s.does = "hide" /\ row = "active" => row' = "dormant"
      /\ ~(s.does = "hide" /\ row = "active") => row' = row
      /\ audited' = (audited \/ (s.does = "audit" /\ row = "dormant"))
  BY DEF Execute
<1>2. Grows
  BY <1>1 DEF Grows
<1>3. CASE s.does \in {"add", "create"}
  <2>1. s.object \in schema' /\ s.does # "audit"
    BY <1>1, <1>3
  <2> QED
    BY <1>2, <1>3, <2>1 DEF Lasting, LeftBy
<1>4. CASE s.does = "hide"
  <2>1. row' # "active"
    BY <1>1, <1>4
  <2> QED
    BY <1>2, <1>4, <2>1 DEF Lasting, LeftBy
<1>5. CASE s.does = "audit"
  <2>1. row' = row /\ (row = "dormant" => audited')
    BY <1>1, <1>5
  <2> QED
    BY <1>2, <1>5, <2>1 DEF Lasting, LeftBy
<1>6. CASE s.does = "run"
  BY <1>2, <1>6 DEF Lasting, LeftBy
<1> QED
  BY <1>3, <1>4, <1>5, <1>6 DEF Statement

LEMMA ExecuteStep ==
    ASSUME MInv, NEW p \in Processes, ExecuteNext(p)
    PROVE  MInv'
<1>1. PICK v \in 1 .. Len(Scripts), n \in Nat : v = process[p].at /\ n = process[p].step
  BY DEF MInv, Ahead, Typed, ExecuteNext, Applies
<1>2. PICK s : s = Statements(v)[n]
  OBVIOUS
<1>3. /\ Typed /\ Ahead(p) /\ process[p].pc = "apply" /\ n \in 1 .. Len(Statements(v))
      /\ version' = version /\ process' = [process EXCEPT ![p].step = @ + 1]
      /\ Execute(s) /\ ~Scripts[v].python
  <2>1. n >= 1 /\ ~(n > Len(Statements(v))) /\ Len(Statements(v)) \in Nat
    BY <1>1, ScriptType DEF MInv, Ahead, ExecuteNext, Applies, Through
  <2> QED
    BY <1>1, <1>2, <2>1 DEF MInv, ExecuteNext, Applies, Current
<1>4. s \in Statement /\ n \in DOMAIN Statements(v)
  BY <1>2, <1>3, ScriptType
<1>5. \A k \in 0 .. n - 1 : RunUpTo(v, k)
  BY <1>1, <1>3 DEF Ahead
<1>6. s.does = "audit" => row # "active"
  <2> SUFFICES ASSUME s.does = "audit" PROVE row # "active"
    OBVIOUS
  <2>1. PICK k \in 1 .. n - 1 : Statements(v)[k].does = "hide"
    BY <1>2, <1>4, ScriptType, ScriptsAssumption DEF Statements
  <2>2. k \in DOMAIN Statements(v) /\ k <= n - 1 /\ n - 1 \in 0 .. n - 1
    BY <1>3, ScriptType
  <2>3. Lasting(Statements(v)[k])
    BY <1>5, <2>2 DEF RunUpTo
  <2> QED
    BY <2>1, <2>3 DEF Lasting, LeftBy
<1>7. Lasting(s)' /\ Grows
  BY <1>3, <1>4, <1>6, ExecuteLeaves
<1>8. Typed'
  <2>1. row' \in {"absent", "active", "dormant"} /\ run' \in BOOLEAN /\ audited' \in BOOLEAN
    BY <1>3 DEF Execute, Typed
  <2>2. process' \in [Processes -> [pc : {"down", "up", "apply"}, at : Nat, step : Nat]]
    <3>1. process' = [process EXCEPT ![p] = [process[p] EXCEPT !.step = n + 1]]
      BY <1>1, <1>3 DEF Typed
    <3>2. [process[p] EXCEPT !.step = n + 1] \in [pc : {"down", "up", "apply"}, at : Nat, step : Nat]
      BY <1>3 DEF Typed
    <3> QED
      BY <1>3, <3>1, <3>2 DEF Typed
  <2> QED
    BY <1>3, <2>1, <2>2 DEF Typed
<1>9. Ahead(p)'
  <2>1. process'[p].at = v /\ process'[p].step = n + 1
    BY <1>1, <1>3 DEF Typed
  <2>2. \A u \in 1 .. v - 1 : RunAll(u)'
    BY <1>1, <1>3, <1>7, ScriptsLast DEF Ahead
  <2>3. ASSUME NEW k \in Nat, k < n + 1 PROVE RunUpTo(v, k)'
    <3>1. CASE k < n
      <4>1. k \in 0 .. n - 1
        BY <3>1
      <4>2. RunUpTo(v, k)
        BY <1>5, <4>1
      <4> QED
        BY <1>7, <4>2, ScriptsLast
    <3>2. CASE k = n
      <4>1. RunUpTo(v, n - 1)'
        <5>1. n - 1 \in 0 .. n - 1
          BY <1>3
        <5>2. RunUpTo(v, n - 1)
          BY <1>5, <5>1
        <5> QED
          BY <1>7, <5>2, ScriptsLast
      <4>2. \A i \in DOMAIN Statements(v) : i <= n => i <= n - 1 \/ i = n
        BY <1>1, ScriptType
      <4> QED
        BY <1>2, <1>7, <3>2, <4>1, <4>2 DEF RunUpTo
    <3> QED
      BY <2>3, <3>1, <3>2
  <2>4. n + 1 >= 1
    BY <1>3
  <2> QED
    BY <2>1, <2>2, <2>3, <2>4 DEF Ahead
<1> QED
  BY <1>3, <1>7, <1>8, <1>9, OneProcess DEF Typed

\* A script that is through is recorded, and the next begins.
LEMMA RecordedStep ==
    ASSUME MInv, NEW p \in Processes, process[p].pc = "apply", Grows,
           NEW v \in 1 .. Len(Scripts), v = process[p].at, RunAll(v)',
           row' \in {"absent", "active", "dormant"}, run' \in BOOLEAN, audited' \in BOOLEAN,
           version' = Recorded(v), process' = [process EXCEPT ![p] = Following(v)]
    PROVE  MInv'
<1>1. Typed /\ Ahead(p) /\ version \in 0 .. Len(Scripts) /\ Len(Scripts) \in Nat
  BY ScriptType DEF MInv, Typed, Versions
<1>2. \A u \in 1 .. v : RunAll(u)'
  <2>1. ASSUME NEW u \in 1 .. v - 1 PROVE RunAll(u)'
    BY <1>1, <2>1, ScriptsLast DEF Ahead
  <2>2. \A u \in 1 .. v : u = v \/ u \in 1 .. v - 1
    OBVIOUS
  <2> QED
    BY <2>1, <2>2
<1>3. version' = version \/ version' = v
  BY <1>1 DEF Recorded, Max
<1>4. process'[p] = Following(v) /\ Typed'
  <2>1. v \in 0 .. Len(Scripts)
    BY <1>1
  <2>2. Following(v) \in [pc : {"down", "up", "apply"}, at : Nat, step : Nat]
    BY <2>1, FollowingType
  <2> QED
    BY <1>1, <1>3, <2>1, <2>2 DEF Typed, Versions
<1>5. Ahead(p)'
  BY <1>1, <1>2, <1>4, FollowingAhead
<1>6. \A q \in Processes \ {p} : process'[q] = process[q]
  BY <1>1 DEF Typed
<1> QED
  BY <1>2, <1>3, <1>4, <1>5, <1>6, OneProcess

LEMMA RecordStep ==
    ASSUME MInv, NEW p \in Processes, Record(p)
    PROVE  MInv'
<1>1. /\ Typed /\ Ahead(p) /\ process[p].pc = "apply" /\ UNCHANGED <<schema, row, run, audited>>
      /\ version' = Recorded(process[p].at)
      /\ process' = [process EXCEPT ![p] = Following(process[p].at)]
  BY DEF MInv, Record, Applies, data
<1>2. PICK v \in 1 .. Len(Scripts), n \in Nat : v = process[p].at /\ n = process[p].step
  BY <1>1 DEF Ahead, Typed
<1>3. n > Len(Statements(v)) /\ Len(Statements(v)) \in Nat
  BY <1>2, ScriptType DEF Record, Through
<1>4. RunAll(v)
  <2>1. RunUpTo(v, Len(Statements(v)))
    BY <1>1, <1>2, <1>3 DEF Ahead
  <2> QED
    BY <2>1, ScriptType DEF RunUpTo, RunAll
<1>5. Grows
  BY <1>1 DEF Grows
<1>6. RunAll(v)'
  BY <1>4, <1>5, ScriptsLast
<1> QED
  BY <1>1, <1>2, <1>5, <1>6, RecordedStep DEF Typed

LEMMA UpgradeStep ==
    ASSUME MInv, NEW p \in Processes, Upgrade(p)
    PROVE  MInv'
<1>1. /\ Typed /\ Ahead(p) /\ process[p].pc = "apply" /\ UNCHANGED <<row, run, audited>>
      /\ version' = Recorded(process[p].at)
      /\ process' = [process EXCEPT ![p] = Following(process[p].at)]
  BY DEF MInv, Upgrade, Applies
<1>2. PICK v \in 1 .. Len(Scripts) :
        v = process[p].at /\ Scripts[v].python /\ schema' = schema \cup MadeBy(v)
  BY <1>1 DEF Ahead, Upgrade, Applies
<1>3. Grows
  BY <1>1, <1>2 DEF Grows
<1>4. RunAll(v)'
  <2> SUFFICES ASSUME NEW i \in DOMAIN Statements(v) PROVE Lasting(Statements(v)[i])'
    BY DEF RunAll
  <2>1. Statements(v)[i].does \in {"add", "create"}
    BY <1>2, ScriptType, ScriptsAssumption DEF Statements
  <2>2. Statements(v)[i].object \in schema'
    BY <1>2, <2>1 DEF MadeBy
  <2> QED
    BY <2>1, <2>2 DEF Lasting, LeftBy
<1> QED
  BY <1>1, <1>2, <1>3, <1>4, RecordedStep DEF Typed

LEMMA MInit == Init => MInv
<1> SUFFICES ASSUME Init PROVE MInv
  OBVIOUS
<1>1. Typed
  <2>1. version \in Versions
    <3>1. Len(Scripts) \in Nat
      BY ScriptType
    <3> QED
      BY <3>1 DEF Init, Versions
  <2>2. process \in [Processes -> [pc : {"down", "up", "apply"}, at : Nat, step : Nat]]
    BY DEF Init, Down
  <2> QED
    BY <2>1, <2>2, RowsAssumption DEF Init, Typed
<1> QED
  BY <1>1 DEF Init, MInv, Ahead, Down

LEMMA MStep == MInv /\ [Next]_vars => MInv'
<1> SUFFICES ASSUME MInv, [Next]_vars PROVE MInv'
  OBVIOUS
<1>1. CASE UNCHANGED vars
  BY <1>1 DEF vars, data, MInv, Typed, Ahead, RunAll, RunUpTo, Lasting, LeftBy
<1>2. CASE Next
  BY <1>2, StartStep, StopStep, ExecuteStep, RecordStep, UpgradeStep DEF Next, Works
<1> QED
  BY <1>1, <1>2

\* The version counts only scripts that were run to their end, whatever the
\* scripts are, however many processes run them and whichever die
\* (run_migrations).
THEOREM VersionAlwaysTrue == Spec => []VersionIsTrue
<1>1. MInv => VersionIsTrue
  BY DEF MInv, RunAll, Lasting, VersionIsTrue
<1> QED
  BY <1>1, MInit, MStep, PTL DEF Spec

=============================================================================
