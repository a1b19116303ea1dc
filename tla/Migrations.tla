----------------------------- MODULE Migrations -----------------------------
(***************************************************************************)
(* Schema migrations at startup: run_migrations of migrations_runner.py,   *)
(* called by Storage._init_db in every process that opens the database.    *)
(*                                                                         *)
(* executescript commits the transaction it is called in and every         *)
(* statement of an SQL script is one of its own; a Python migration and    *)
(* its version are one transaction.  Processes that start together run the *)
(* same scripts at the same time.                                          *)
(*                                                                         *)
(* Of the rows only the snapshots matter that migration 011 hides, all of  *)
(* which stand or fall together and are one row here.                      *)
(***************************************************************************)
EXTENDS Integers, Sequences, FiniteSetsExt

CONSTANTS
    Scripts,    \* the pending migrations in order, [python, statements]
    Objects,    \* the columns, tables, indexes and triggers they make
    Processes,
    OldRows,    \* what the snapshot row may be like before: absent, active
                \* or dormant, because a Dream run has forgotten it
    MaxCrashes  \* bound: processes that die half way

Versions == 0..Len(Scripts)
\* "add" is ALTER TABLE ADD COLUMN, "create" has an IF NOT EXISTS; the rest
\* are the three statements of migration 011 about rows.
Statement == [does : {"add", "create", "run", "hide", "audit"}, object : Objects]

ASSUME ScriptsAssumption ==
    /\ Scripts \in Seq([python : BOOLEAN, statements : Seq(Statement)])
    /\ \A v \in DOMAIN Scripts : \A i \in DOMAIN Scripts[v].statements :
          LET does == Scripts[v].statements[i].does IN
          \* Only SQL scripts change rows, and 011 hides them before it audits.
          /\ Scripts[v].python => does \in {"add", "create"}
          /\ does = "audit" => \E k \in 1 .. i - 1 : Scripts[v].statements[k].does = "hide"
ASSUME RowsAssumption == OldRows \subseteq {"absent", "active", "dormant"} /\ MaxCrashes \in Nat

VARIABLES
    version,  \* MAX(version) of schema_version
    schema,   \* the objects that exist
    row,      \* the snapshot row
    run,      \* is the synthetic dream_run of 011 there?
    audited,  \* has 011 written its dream_action?
    process,  \* what each process is doing
    crashes

vars == <<version, schema, row, run, audited, process, crashes>>
data == <<schema, row, run, audited>>

Down == [pc |-> "down", at |-> 0, step |-> 0]
Statements(v) == Scripts[v].statements
MadeBy(v) == {Statements(v)[i].object : i \in {k \in DOMAIN Statements(v) :
                                                Statements(v)[k].does \in {"add", "create"}}}

TypeOK ==
    /\ version \in Versions /\ schema \subseteq Objects
    /\ row \in {"absent", "active", "dormant"} /\ run \in BOOLEAN /\ audited \in BOOLEAN
    /\ \A p \in Processes :
          \/ process[p].pc \in {"down", "up"}
          \/ /\ process[p].pc = "apply" /\ process[p].at \in DOMAIN Scripts
             /\ process[p].step \in 1 .. Len(Statements(process[p].at)) + 1
    /\ crashes \in 0..MaxCrashes

\* A database of the first release.
Init ==
    /\ version = 0 /\ schema = {}
    /\ row \in OldRows /\ run = FALSE /\ audited = FALSE
    /\ process = [p \in Processes |-> Down]
    /\ crashes = 0

-----------------------------------------------------------------------------
(* Mistakes this code could plausibly have made.                            *)

\* The last statement of a script is not run.
Through_Early(p) == process[p].step >= Len(Statements(process[p].at))

\* The version is what was written last.
Recorded_Last(v) == v

-----------------------------------------------------------------------------
Succeeds(s) ==
    CASE s.does = "add"   -> s.object \notin schema
      [] s.does = "audit" -> (row = "dormant" /\ ~audited) => run  \* the foreign key
      [] OTHER            -> TRUE

Execute(s) ==
    /\ schema' = IF s.does \in {"add", "create"} THEN schema \cup {s.object} ELSE schema
    /\ run' = (run \/ (s.does = "run" /\ row = "active"))
    /\ row' = IF s.does = "hide" /\ row = "active" THEN "dormant" ELSE row
    /\ audited' = (audited \/ (s.does = "audit" /\ row = "dormant"))

Recorded(v) == Max({version, v})
Following(v) ==
    IF v = Len(Scripts) THEN [pc |-> "up", at |-> 0, step |-> 0]
    ELSE [pc |-> "apply", at |-> v + 1, step |-> 1]

\* What is pending is found out once.
Start(p) ==
    /\ process[p].pc = "down"
    /\ process' = [process EXCEPT ![p] = Following(version)]
    /\ UNCHANGED <<version, data, crashes>>

Current(p) == Statements(process[p].at)[process[p].step]
Through(p) == process[p].step > Len(Statements(process[p].at))
Applies(p, python) == process[p].pc = "apply" /\ Scripts[process[p].at].python = python

\* _apply_sql
ExecuteNext(p) ==
    /\ Applies(p, FALSE) /\ ~Through(p) /\ Succeeds(Current(p))
    /\ Execute(Current(p))
    /\ process' = [process EXCEPT ![p].step = @ + 1]
    /\ UNCHANGED <<version, crashes>>

\* The statement raises and nothing is left to roll back; the process ends.
ExecuteFails(p) ==
    /\ Applies(p, FALSE) /\ ~Through(p) /\ ~Succeeds(Current(p))
    /\ process' = [process EXCEPT ![p] = Down]
    /\ UNCHANGED <<version, data, crashes>>

Record(p) ==
    /\ Applies(p, FALSE) /\ Through(p)
    /\ version' = Recorded(process[p].at)
    /\ process' = [process EXCEPT ![p] = Following(process[p].at)]
    /\ UNCHANGED <<data, crashes>>

\* _apply_py: each statement drops what it makes first, so that it succeeds.
Upgrade(p) ==
    /\ Applies(p, TRUE)
    /\ schema' = schema \cup MadeBy(process[p].at)
    /\ version' = Recorded(process[p].at)
    /\ process' = [process EXCEPT ![p] = Following(process[p].at)]
    /\ UNCHANGED <<row, run, audited, crashes>>

Crash(p) ==
    /\ process[p].pc = "apply" /\ crashes < MaxCrashes
    /\ crashes' = crashes + 1
    /\ process' = [process EXCEPT ![p] = Down]
    /\ UNCHANGED <<version, data>>

Works(p) == Start(p) \/ ExecuteNext(p) \/ ExecuteFails(p) \/ Record(p) \/ Upgrade(p)
Next == \E p \in Processes : Works(p) \/ Crash(p)

Spec == Init /\ [][Next]_vars
\* A process that ended is started again, one that runs goes on.
FairSpec == Spec /\ \A p \in Processes : WF_vars(Works(p))

-----------------------------------------------------------------------------
(* Properties.                                                             *)

LeftBy(s) ==
    CASE s.does \in {"add", "create"} -> s.object \in schema
      [] s.does = "hide"              -> row # "active"
      [] s.does = "audit"             -> row = "dormant" => audited
      [] OTHER                        -> TRUE

\* The version of the schema counts only scripts that were run to their end,
\* by this process or another, whatever died in between (run_migrations).
VersionIsTrue ==
    \A v \in 1..version : \A i \in DOMAIN Statements(v) : LeftBy(Statements(v)[i])

\* Unless a process runs it now a script has been run as a whole or not at
\* all ("Wrapped in transaction per migration").
ScriptsAreAtomic ==
    \A v \in DOMAIN Scripts :
        (\A p \in Processes : process[p].pc = "apply" => process[p].at # v) =>
            MadeBy(v) \subseteq schema \/ MadeBy(v) \cap schema = {}

\* A column has been added by a process that is no longer there to go on with
\* the script: nobody can run it again.
Stuck ==
    \E v \in version + 1 .. Len(Scripts) : \E i \in DOMAIN Statements(v) :
        /\ Statements(v)[i].does = "add" /\ Statements(v)[i].object \in schema
        /\ \A p \in Processes : ~(process[p].at = v /\ process[p].step > i)
AllUp == version = Len(Scripts) /\ \A p \in Processes : process[p].pc = "up"

\* However many processes start together, and whichever of them die and are
\* started again, all are served in the end by a database of the last version
\* (run_migrations), except where one died after an ALTER TABLE, or where
\* a Dream run had forgotten the snapshot before the upgrade.
AllComeUp == row # "dormant" => (<>[]AllUp \/ <>(crashes > 0 /\ Stuck))

=============================================================================
