----------------------------- MODULE RetryQueue -----------------------------
(* What a log of failed writes promises: a write that was accepted stays     *)
(* pending until the server has executed it or the log gives it up, in the   *)
(* dead-letter file if no fault keeps it from there, or a fault stops the    *)
(* log.  Frail writes it may drop: it cannot read them again.  The server    *)
(* may execute a write more than once.                                       *)
EXTENDS Integers

CONSTANTS Writes, Frail

VARIABLES
    fresh,      \* writes not yet made
    pending,    \* writes in the log
    buried,     \* writes in the dead-letter file
    forgotten,  \* writes given up that are not
    applied,    \* how often the server executed each
    faults      \* deaths of agents and failures of the log

Init ==
    /\ fresh = Writes /\ pending = {} /\ buried = {} /\ forgotten = {}
    /\ applied = [w \in Writes |-> 0] /\ faults = 0

Execute(w) == applied' = [applied EXCEPT ![w] = @ + 1]

\* A write is made, executed at once or not.
Make(w) ==
    /\ w \in fresh /\ fresh' = fresh \ {w}
    /\ UNCHANGED <<pending, buried, forgotten, faults>>
    /\ Execute(w) \/ UNCHANGED applied

Accept(w) ==
    /\ w \notin fresh /\ pending' = pending \cup {w}
    /\ UNCHANGED <<fresh, buried, forgotten, applied, faults>>

Deliver(w) ==
    /\ w \in pending /\ Execute(w)
    /\ UNCHANGED <<fresh, pending, buried, forgotten, faults>>

\* Burying fails by a fault, or because an earlier one has left the dead-letter
\* file with half a line.
GiveUp(S, F) ==
    /\ S \cup F # {} /\ S \cup F \subseteq pending
    /\ buried' = buried \cup S /\ forgotten' = forgotten \cup F
    /\ faults' \in {faults, faults + 1}
    /\ F # {} => faults' > 0
    /\ UNCHANGED <<fresh, pending, applied>>

\* Only what was executed or given up leaves the log, or what is frail.
Settle(S) ==
    /\ S # {} /\ S \subseteq pending
    /\ \A w \in S : applied[w] > 0 \/ w \in buried \cup forgotten \cup Frail
    /\ pending' = pending \ S
    /\ UNCHANGED <<fresh, buried, forgotten, applied, faults>>

\* What the log had in its hands when a fault stopped it may be gone.
Lose(S) ==
    /\ faults' = faults + 1
    /\ S \subseteq pending /\ pending' = pending \ S
    /\ UNCHANGED <<fresh, buried, forgotten, applied>>

Next ==
    \/ \E w \in Writes : Make(w) \/ Accept(w) \/ Deliver(w)
    \/ \E S, F \in SUBSET Writes : GiveUp(S, F)
    \/ \E S \in SUBSET Writes : Settle(S) \/ Lose(S)

Spec == Init /\ [][Next]_<<fresh, pending, buried, forgotten, applied, faults>>

=============================================================================
