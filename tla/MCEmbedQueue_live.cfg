\* Two rows that each get a job and one from before the space metadata, or one
\* and one with rewrites and a fault; a provider that changes its space.
CONSTANTS
    Memories = {m1, m2, m3}
    Contents = {a}
    Spaces = {s1, s2}
    Drainers = {d1}
    Threads = {t1}
    Legacy = {m1}
    MaxAttempts = 2
    MaxJobs = 2
    MaxRev = 2
    MaxCrashes = 1
    MaxLost = 1
    None = None
    Purged = Purged

CONSTRAINT FewerRows
SPECIFICATION FairSpec
INVARIANTS TypeOK SingleSpace
PROPERTIES JobsSettle ImplementsIndex
CHECK_DEADLOCK FALSE
