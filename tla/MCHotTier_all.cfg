\* One or two clients, every operation, a process that may end at any point;
\* texts some of which are confused by their beginnings.
CONSTANTS
    a = a
    pa = pa
    b = b
    ca = ca
    cpa = cpa
    Texts = {a, pa, b, ca, cpa}
    NewTexts = {a, pa, b}
    Queries = {a}
    Replacements = {ca}
    Length <- MCLength
    Normal <- MCNormal
    Beginning <- MCBeginning
    Occurs <- MCOccurs
    Near <- MCNear
    Clients = {r1, r2}
    Limit = 6
    MaxEntries = 2
    MaxHot = 3
    MaxCold = 5
    MaxFaults = 1
    None = None

CONSTRAINT FewerRows
SYMMETRY Symmetry
SPECIFICATION MCSpec
INVARIANTS OldestGoFirst EvictionSuffices
PROPERTIES OneTierAtATime OnlyFaultsLose AddsOnlyNew
CHECK_DEADLOCK FALSE
