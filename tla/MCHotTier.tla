----------------------------- MODULE MCHotTier -----------------------------
(* Small instances of HotTier for TLC.  Texts are a, b, the same text as a   *)
(* with a known prefix, and the beginnings at which the three are cut.       *)
EXTENDS HotTier, TLC

CONSTANTS a, pa, b, ca, cpa

\* pa is "[hermes-mirror] " followed by a.
MCNormal == [t \in Texts |-> IF t = pa THEN a ELSE IF t = cpa THEN ca ELSE t]

MCLength == [t \in Texts |-> CASE t \in {ca, cpa} -> 1 [] t = b -> 2
                               [] t = a -> 6 [] t = pa -> 7]

\* The first 60 characters of a are also those of b, which is shorter; they
\* are found in pa behind its prefix, and those of pa in no other text.
MCBeginning == [t \in Texts |-> CASE t \in {a, b} -> ca [] t = pa -> cpa [] OTHER -> t]
MCOccurs ==
    {p \in Texts \X Texts : \/ p[1] = p[2] \/ p = <<a, pa>> \/ p = <<cpa, pa>>
                            \/ p[1] = ca /\ p[2] \in {a, b, pa, cpa}}
MCNear == {<<b, a>>}

VARIABLE active   \* the clients there are: one, or two with fewer rows

MCInit == Init /\ active \in SUBSET Clients \ {{}}
MCNext ==
    /\ \/ \E r \in active : Step(r)
       \/ \E c \in ColdIds : RestoreCold(c)
    /\ UNCHANGED active
MCSpec == MCInit /\ [][MCNext]_<<vars, active>>

Alone == \E r \in Clients : active = {r}
FewerRows == ~Alone => lastHot <= 2 /\ lastCold <= 2

(* What holds as long as requests follow one another.                       *)

\* add inserts only what is new: when it does, no hot or cold row has the
\* same normalized text (the "exact match" of its docstring).
AddsOnlyNew == [][Alone => InsertsNew]_vars

\* Eviction takes entries from the oldest on: the row it is about to delete
\* holds the text whose turn it is, although it names it by its first 60
\* characters only, provided that they occur in no other listed text that is
\* not longer.  (Of two rows with equal texts either may go; of a long text and
\* a shorter one that contains its beginning the shorter goes, out of turn.)
OldestGoFirst == Alone => EvictsOldest

\* When _evict_hot is done its current_count is the number of entries there
\* are, and the tier is within 90% of both limits provided that the entries
\* can be told apart.  If not, current_chars may be that of other rows.
EvictionSuffices == Alone => WithinLimits

Symmetry == Permutations(Clients)

=============================================================================
