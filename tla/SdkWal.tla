------------------------------- MODULE SdkWal -------------------------------
(***************************************************************************)
(* The write-ahead log of the Python SDK: wal.py, the writes of client.py  *)
(* and post of transport.py.                                               *)
(*                                                                         *)
(* A write that gets no answer is appended to a file and sent again by     *)
(* replay, which reads the whole file, sends each entry, and writes the    *)
(* file anew with what is left.  An action is one request, one read or one *)
(* write of the file; write_text empties the file before it fills it.      *)
(* There is no lock, so the processes of Agents that share a directory     *)
(* interleave at all these points.  A process may die at each of them, and *)
(* a file operation may fail there: that is caught, and the process lives  *)
(* on.                                                                     *)
(***************************************************************************)
EXTENDS Integers, SequencesExt

CONSTANTS
    Writes,      \* requests of the agents, each made once
    Agents,      \* processes, or threads of one, that use the log
    MaxRetries,  \* wal_max_retries
    MaxLines,    \* wal_max_bytes, counted in lines
    Keep,        \* the 100 lines that _rotate keeps
    Splits,      \* writes whose text holds a separator that json.dumps leaves
                 \* as it is and splitlines takes for the end of a line
    Odds,        \* those of them where a piece is JSON, but not an object
    MaxCrashes,  \* bound: agents that die half way
    MaxFailures, \* bound: operations that raise
    Half, Torn,  \* a cut line without its newline, Torn within a character
    Junk, Broken,\* the same with a newline after it
    Odd,         \* a line that holds such a piece
    None

Entry == [write : Writes, retries : 0..MaxRetries]
Cut   == {Half, Torn}
Line  == Entry \cup Cut \cup {Junk, Broken, Odd}

ASSUME BoundsAssumption ==
    /\ MaxRetries \in Nat /\ MaxLines \in Nat /\ Keep \in Nat
    /\ MaxCrashes \in Nat /\ MaxFailures \in Nat
ASSUME SplitsAssumption == Splits \subseteq Writes /\ Odds \subseteq Splits
ASSUME NoneAssumption ==
    /\ None \notin Writes
    /\ {Half, Torn, Junk, Broken, Odd} \cap Entry = {}
    /\ Cut \cap {Junk, Broken, Odd} = {} /\ Half # Torn

VARIABLES
    wal,         \* wal.jsonl
    dead,        \* wal.dead.jsonl, without its order
    agent,       \* what each agent is doing
    fresh,       \* the writes not yet made
    crashes,
    failures,    \* operations on the files, and replays, that raised
    \* what the server did, and history:
    applied,     \* how often it executed each write
    unanswered,  \* how often its answer was lost
    sent,        \* how often each write was sent
    accepted,    \* the writes that append put into the log
    forgotten    \* those that were to go to the dead file and did not get there

vars == <<wal, dead, agent, fresh, crashes, failures, applied, unanswered, sent,
          accepted, forgotten>>
server == <<applied, unanswered, sent>>
mishaps == <<crashes, failures>>

Agent ==
    [pc : {"idle", "append", "rotate", "bury", "replay", "truncate", "fill"},
     write : Writes \cup {None},
     todo : Seq(Line),   \* lines it has read and not yet dealt with
     kept : Seq(Line)]   \* lines it will write back

TypeOK ==
    /\ wal \in Seq(Line)
    /\ dead \subseteq Line
    /\ agent \in [Agents -> Agent]
    /\ fresh \subseteq Writes /\ accepted \subseteq Writes /\ forgotten \subseteq Writes
    /\ crashes \in 0..MaxCrashes /\ failures \in 0..MaxFailures
    /\ applied \in [Writes -> Nat] /\ unanswered \in [Writes -> Nat]
    /\ sent \in [Writes -> Nat]

Idle == [pc |-> "idle", write |-> None, todo |-> <<>>, kept |-> <<>>]

Init ==
    /\ wal = <<>> /\ dead = {} /\ fresh = Writes /\ accepted = {} /\ forgotten = {}
    /\ agent = [a \in Agents |-> Idle]
    /\ crashes = 0 /\ failures = 0
    /\ applied = [w \in Writes |-> 0] /\ unanswered = applied /\ sent = applied

Becomes(a, state) == agent' = [agent EXCEPT ![a] = state]

-----------------------------------------------------------------------------
(* Mistakes this code could plausibly have made.                            *)

\* An entry that has used up its retries is buried and tried all the same.
AfterBury_Kept(state, e) == [state EXCEPT !.todo = Tail(@), !.kept = Append(@, e)]

\* A failed retry is not written back.
AfterSend_Dropped(state, e, answered) == [state EXCEPT !.todo = Tail(@)]

\* A delivered entry is written back.
AfterSend_Kept(state, e, answered) ==
    [state EXCEPT !.todo = Tail(@), !.kept = Append(@, [e EXCEPT !.retries = @ + 1])]

-----------------------------------------------------------------------------
(* Lines as read_text and splitlines find them.  Only an entry that is in    *)
(* one piece is read again; its pieces are one line of the model.            *)

Readable(lines) == \A i \in DOMAIN lines : lines[i] \notin {Torn, Broken}

AsRead(line) ==
    CASE line = Half -> Junk
      [] line \in Entry /\ line.write \in Odds -> Odd
      [] line \in Entry /\ line.write \in Splits \ Odds -> Junk
      [] OTHER -> line
Read(lines) == [i \in DOMAIN lines |-> AsRead(lines[i])]

\* What is written after a cut line becomes part of that line.
Joined(cut, line) ==
    CASE Torn \in {cut, line} -> IF line \in Cut THEN Torn ELSE Broken
      [] line = Half -> Half
      [] AsRead(line) = Odd -> Odd
      [] OTHER -> Junk

WithLine(lines, line) ==
    IF lines # <<>> /\ Last(lines) \in Cut
    THEN Append(Front(lines), Joined(Last(lines), line)) ELSE Append(lines, line)

-----------------------------------------------------------------------------
(* post of transport.py: a refused connection, a timeout before or after    *)
(* the server has executed the write, and an error status are all None.     *)

Outcomes == {"answered", "unanswered", "failed"}
Answered(outcome) == outcome = "answered"

Post(w, outcome) ==
    /\ sent' = [sent EXCEPT ![w] = @ + 1]
    /\ applied' = IF outcome = "failed" THEN applied ELSE [applied EXCEPT ![w] = @ + 1]
    /\ unanswered' = IF outcome = "unanswered" THEN [unanswered EXCEPT ![w] = @ + 1]
                     ELSE unanswered

\* _post_or_wal
Write(a, w, outcome) ==
    /\ agent[a].pc = "idle" /\ w \in fresh
    /\ fresh' = fresh \ {w}
    /\ Post(w, outcome)
    /\ Becomes(a, IF Answered(outcome) THEN Idle
                  ELSE [Idle EXCEPT !.pc = "append", !.write = w])
    /\ UNCHANGED <<wal, dead, mishaps, accepted, forgotten>>

AppendEntry(a) ==
    LET w == agent[a].write IN
    /\ agent[a].pc = "append"
    /\ wal' = WithLine(wal, [write |-> w, retries |-> 0])
    /\ accepted' = accepted \cup {w}
    /\ Becomes(a, IF Len(wal') > MaxLines THEN [Idle EXCEPT !.pc = "rotate"] ELSE Idle)
    /\ UNCHANGED <<dead, fresh, mishaps, server, forgotten>>

-----------------------------------------------------------------------------
(* Lines that go to the dead file.                                          *)

\* The dead file after lines are appended to it; Half is in it when it ends
\* with a cut line, and takes the first of them with it.
Interred(lines) ==
    IF Half \in dead /\ lines # <<>> THEN (dead \ {Half}) \cup {Junk} \cup ToSet(Tail(lines))
    ELSE dead \cup ToSet(lines)
Garbled(lines) ==
    IF Half \in dead /\ lines # <<>> THEN {e.write : e \in {Head(lines)} \cap Entry} ELSE {}

\* And after only a part of them is.
PartlyInterred(lines) ==
    LET first(n) == Interred(SubSeq(lines, 1, n))
    IN  {first(n) : n \in 0..Len(lines)} \cup {first(n) \cup {Half} : n \in 0..Len(lines) - 1}

-----------------------------------------------------------------------------
(* _rotate: all lines but the last 100 go to the dead file.                 *)

RotateRead(a) ==
    LET old == Len(wal) - Keep IN
    /\ agent[a].pc = "rotate"
    /\ Becomes(a, IF old <= 0 \/ ~Readable(wal) THEN Idle
                  ELSE [Idle EXCEPT !.pc = "bury", !.todo = Read(SubSeq(wal, 1, old)),
                                    !.kept = Read(SubSeq(wal, old + 1, Len(wal)))])
    /\ UNCHANGED <<wal, dead, fresh, mishaps, server, accepted, forgotten>>

Bury(a) ==
    /\ agent[a].pc = "bury"
    /\ dead' = Interred(agent[a].todo)
    /\ forgotten' = forgotten \cup Garbled(agent[a].todo)
    /\ Becomes(a, [agent[a] EXCEPT !.pc = "truncate", !.todo = <<>>])
    /\ UNCHANGED <<wal, fresh, mishaps, server, accepted>>

-----------------------------------------------------------------------------
(* replay                                                                   *)

Exhausted(e) == e.retries >= MaxRetries

AfterSend(state, e, answered) ==
    [state EXCEPT !.todo = Tail(@),
                  !.kept = IF answered THEN @ ELSE Append(@, [e EXCEPT !.retries = @ + 1])]

BeginReplay(a) ==
    /\ agent[a].pc = "idle" /\ wal # <<>> /\ Readable(wal)
    /\ Becomes(a, [Idle EXCEPT !.pc = "replay", !.todo = Read(wal)])
    /\ UNCHANGED <<wal, dead, fresh, mishaps, server, accepted, forgotten>>

AfterBury(state, e) == [state EXCEPT !.todo = Tail(@)]

\* The entry at hand, and what becomes of it.
At(a, e) == agent[a].pc = "replay" /\ agent[a].todo # <<>> /\ e = Head(agent[a].todo)

ReplaySend(a, outcome) ==
    \E e \in Entry :
        /\ At(a, e) /\ ~Exhausted(e)
        /\ Post(e.write, outcome)
        /\ Becomes(a, AfterSend(agent[a], e, Answered(outcome)))
        /\ UNCHANGED <<wal, dead, fresh, mishaps, accepted, forgotten>>

ReplayBury(a) ==
    \E e \in Entry :
        /\ At(a, e) /\ Exhausted(e)
        /\ dead' = Interred(<<e>>) /\ forgotten' = forgotten \cup Garbled(<<e>>)
        /\ Becomes(a, AfterBury(agent[a], e))
        /\ UNCHANGED <<wal, fresh, mishaps, server, accepted>>

\* _move_to_dead catches what open and write raise.
ReplayBuryFails(a) ==
    \E e \in Entry :
        /\ At(a, e) /\ Exhausted(e) /\ failures < MaxFailures
        /\ failures' = failures + 1
        /\ dead' \in {dead, dead \cup {Half}} /\ forgotten' = forgotten \cup {e.write}
        /\ Becomes(a, AfterBury(agent[a], e))
        /\ UNCHANGED <<wal, fresh, crashes, server, accepted>>

ReplayDrop(a) ==
    /\ At(a, Junk)
    /\ Becomes(a, [agent[a] EXCEPT !.todo = Tail(@)])
    /\ UNCHANGED <<wal, dead, fresh, mishaps, server, accepted, forgotten>>

\* entry.get raises, and neither replay nor drain_wal catches that.
ReplayRaises(a) ==
    /\ At(a, Odd) /\ failures < MaxFailures
    /\ failures' = failures + 1
    /\ Becomes(a, Idle)
    /\ UNCHANGED <<wal, dead, fresh, crashes, server, accepted, forgotten>>

ReplayEnds(a) ==
    /\ agent[a].pc = "replay" /\ agent[a].todo = <<>>
    /\ Becomes(a, [agent[a] EXCEPT !.pc = "truncate"])
    /\ UNCHANGED <<wal, dead, fresh, mishaps, server, accepted, forgotten>>

-----------------------------------------------------------------------------
(* write_text of replay and _rotate                                         *)

Truncate(a) ==
    /\ agent[a].pc = "truncate"
    /\ wal' = <<>>
    /\ Becomes(a, [agent[a] EXCEPT !.pc = "fill"])
    /\ UNCHANGED <<dead, fresh, mishaps, server, accepted, forgotten>>

\* The text overwrites the first lines of what others appended meanwhile, may
\* leave the end of one, and leaves the lines after it.
Overwritten(lines, text) ==
    LET rest(n) == SubSeq(lines, n + 1, Len(lines))
        end(n)  == IF lines[n] \in Cut THEN Cut
                   ELSE {Junk, Broken} \cup ({AsRead(lines[n])} \cap {Odd})
    IN  IF lines = <<>> \/ text = <<>> THEN {text \o lines}
        ELSE IF Last(text) \in Cut
        THEN {text} \cup UNION {{Append(Front(text), line) \o rest(n) : line \in end(n)} :
                                   n \in DOMAIN lines}
        ELSE UNION {{text \o rest(n)} \cup {Append(text, line) \o rest(n) : line \in end(n)} :
                       n \in DOMAIN lines}

Fill(a) ==
    /\ agent[a].pc = "fill"
    /\ wal' \in Overwritten(wal, agent[a].kept)
    /\ Becomes(a, Idle)
    /\ UNCHANGED <<dead, fresh, mishaps, server, accepted, forgotten>>

-----------------------------------------------------------------------------
(* The process dies, or a file operation raises and append, _rotate or      *)
(* replay returns, with a part of what it was writing in the file perhaps.  *)

PartsOf(text) ==
    LET first(n) == SubSeq(text, 1, n)
    IN  {first(n) : n \in 0..Len(text)}
            \cup {Append(first(n), line) : n \in 0..Len(text) - 1, line \in Cut}

LogLeft(s) ==
    CASE s.pc = "append" -> {wal} \cup {WithLine(wal, line) : line \in Cut}
      [] s.pc = "fill"   -> UNION {Overwritten(wal, part) : part \in PartsOf(s.kept)}
      [] OTHER           -> {wal}

Burying(s) ==
    CASE s.pc = "bury" -> s.todo
      [] s.pc = "replay" /\ \E e \in Entry : s.todo # <<>> /\ e = Head(s.todo) /\ Exhausted(e)
                       -> <<Head(s.todo)>>
      [] OTHER         -> <<>>

Stops(a) ==
    /\ wal' \in LogLeft(agent[a]) /\ dead' \in PartlyInterred(Burying(agent[a]))
    /\ Becomes(a, Idle)
    /\ UNCHANGED <<fresh, server, accepted, forgotten>>

Crash(a) ==
    /\ agent[a].pc # "idle" /\ crashes < MaxCrashes
    /\ crashes' = crashes + 1 /\ UNCHANGED failures
    /\ Stops(a)

Fails(a) ==
    /\ agent[a].pc \in {"append", "rotate", "bury", "truncate", "fill"}
    /\ failures < MaxFailures
    /\ failures' = failures + 1 /\ UNCHANGED crashes
    /\ Stops(a)

Replay(a) ==
    \/ BeginReplay(a) \/ ReplayBury(a) \/ ReplayDrop(a) \/ ReplayRaises(a) \/ ReplayEnds(a)
    \/ \E outcome \in Outcomes : ReplaySend(a, outcome)

Next ==
    \E a \in Agents :
        \/ \E w \in Writes, outcome \in Outcomes : Write(a, w, outcome)
        \/ AppendEntry(a) \/ RotateRead(a) \/ Bury(a)
        \/ Replay(a) \/ Truncate(a) \/ Fill(a)
        \/ ReplayBuryFails(a) \/ Fails(a) \/ Crash(a)

Spec == Init /\ [][Next]_vars

\* Agents call drain_wal at the start of each hook, and each call returns.
Fairness ==
    \A a \in Agents :
        WF_vars(AppendEntry(a) \/ RotateRead(a) \/ Bury(a)
                    \/ Replay(a) \/ Truncate(a) \/ Fill(a))
FairSpec == Spec /\ Fairness

-----------------------------------------------------------------------------
(* Properties.                                                             *)

Written(lines) == {e.write : e \in ToSet(lines) \cap Entry}

\* The writes that are still to be sent: those in the file, and those that
\* were in it until an agent emptied it to write them back.
Pending ==
    Written(wal) \cup UNION {Written(agent[a].kept) : a \in {b \in Agents : agent[b].pc = "fill"}}
Buried == {e.write : e \in dead \cap Entry}

\* Writes that went into the log and were neither executed nor buried, and are
\* no longer there.
Lost == {w \in accepted : applied[w] = 0 /\ w \notin Pending \cup Buried}

Faults == crashes + failures

StopsWhileFilling == \E a \in Agents : agent[a].pc = "fill" /\ (Crash(a) \/ Fails(a))
AppendToCutLine == wal # <<>> /\ Last(wal) \in Cut /\ \E a \in Agents : AppendEntry(a)
DropsSplitOrForgotten ==
    (\E a \in Agents : Truncate(a)) /\ Lost' \subseteq Lost \cup Splits \cup forgotten

\* One agent loses a write only where it dies or fails between emptying the
\* file and filling it, or appends to a line that such a stop has cut, or,
\* when it empties the file, a write that splitlines has cut or that did not
\* get into the dead file (append, replay, _rotate, _move_to_dead).
OnlyFaultsDrop ==
    [][ \/ Lost' \subseteq Lost
        \/ StopsWhileFilling \/ AppendToCutLine \/ DropsSplitOrForgotten ]_vars

\* With one agent a write is sent once by the caller and wal_max_retries times
\* by replay, and once more for each death and each failure: the count of a
\* replay that does not come to its end is never written.  The server executes
\* it twice only because an answer was lost or the log was not written anew
\* (replay).
RetriesCapped == \A w \in Writes : sent[w] <= 1 + MaxRetries + Faults
DuplicatesExplained == \A w \in Writes : applied[w] <= 1 + unanswered[w] + Faults
SendsBounded == RetriesCapped /\ DuplicatesExplained

\* What stops every replay: a cut character anywhere in the file, or a piece of
\* a split line that is JSON and not an object.
Blocked == ~Readable(wal) \/ \E line \in ToSet(wal) : AsRead(line) = Odd

\* As long as agents call drain_wal, no write stays in the log forever,
\* whether the server is up or not, unless the log stays blocked from some time
\* on (a rotation may clear it).
LogDrains == []<>(~Blocked) => \A w \in Writes : w \in accepted ~> w \notin Pending

\* The log is a queue that delivers at least once, gives up openly, or loses
\* what it cannot read again and what it holds when a fault stops it.
Queue == INSTANCE RetryQueue WITH pending <- Pending, buried <- Buried, Frail <- Splits,
                                  faults <- Faults
ImplementsQueue == Queue!Spec

=============================================================================
