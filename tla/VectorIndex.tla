---------------------------- MODULE VectorIndex ----------------------------
(***************************************************************************)
(* What the vector index of the cold tier promises to whoever searches it. *)
(* A row has a text and at most one vector.  The vector is always made     *)
(* from the text the row has now, and all vectors of the index belong to   *)
(* one space, so that their distances mean something.  Nothing is said of  *)
(* jobs, threads or retries: EmbedQueue implements this.                   *)
(***************************************************************************)
CONSTANTS Memories, Contents, Spaces, Legacy, None

VARIABLES
    text,  \* the text of each row, None when there is no row
    vec    \* the vector of each row, None when it has none

vars == <<text, vec>>

\* Vectors of unknown space come only from before the metadata existed.
Init ==
    /\ text \in [Memories -> Contents \cup {None}]
    /\ \A m \in Memories : text[m] # None <=> m \in Legacy
    /\ vec = [m \in Memories |->
                IF m \in Legacy THEN [text |-> text[m], space |-> None] ELSE None]

OpenTo(s) == \A m \in Memories : vec[m] # None => vec[m].space = s

\* A row appears, not yet searchable.
Insert(m, c) ==
    /\ text[m] = None
    /\ text' = [text EXCEPT ![m] = c]
    /\ UNCHANGED vec

\* A row becomes searchable, or is embedded again.
Embed(m, s) ==
    /\ text[m] # None /\ OpenTo(s)
    /\ vec' = [vec EXCEPT ![m] = [text |-> text[m], space |-> s]]
    /\ UNCHANGED text

\* Text and vector of a row change together.
Rewrite(m, c, s) ==
    /\ text[m] # None /\ OpenTo(s)
    /\ text' = [text EXCEPT ![m] = c]
    /\ vec' = [vec EXCEPT ![m] = [text |-> c, space |-> s]]

\* A row goes, and its vector with it.
Forget(m) ==
    /\ text[m] # None
    /\ text' = [text EXCEPT ![m] = None]
    /\ vec' = [vec EXCEPT ![m] = None]

\* The vectors of unknown space are declared to be of the one known space.
Adopt(s) ==
    /\ \A m \in Memories : vec[m] # None => vec[m].space \in {None, s}
    /\ vec' = [m \in Memories |->
                 IF vec[m] # None THEN [vec[m] EXCEPT !.space = s] ELSE None]
    /\ UNCHANGED text

Next ==
    \/ \E m \in Memories, c \in Contents : Insert(m, c)
    \/ \E m \in Memories, s \in Spaces : Embed(m, s)
    \/ \E m \in Memories, c \in Contents, s \in Spaces : Rewrite(m, c, s)
    \/ \E m \in Memories : Forget(m)
    \/ \E s \in Spaces : Adopt(s)

Spec == Init /\ [][Next]_vars

=============================================================================
