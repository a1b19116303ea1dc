\* One agent that may die once and fail once, a log that holds fewer entries
\* than there are writes, one of them split and one whose piece is no object.
CONSTANTS
    Writes = {w1, w2, w3}
    Agents = {a1}
    Splits = {w2, w3}
    Odds = {w3}
    MaxRetries = 2
    MaxLines = 1
    Keep = 1
    MaxCrashes = 1
    MaxFailures = 1
    Half = Half
    Torn = Torn
    Junk = Junk
    Broken = Broken
    Odd = Odd
    None = None
SPECIFICATION FairSpec
INVARIANTS SendsBounded
PROPERTIES OnlyFaultsDrop ImplementsQueue LogDrains
CHECK_DEADLOCK FALSE
