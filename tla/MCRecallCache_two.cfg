\* Two threads of one agent; two queries that begin alike and three sets of
\* options: three keys and room for two.
CONSTANTS
    q1 = q1
    q2 = q2
    o1 = o1
    Threads = {t1, t2}
    Queries = {q1, q2}
    Options = {o1, o2, o3}
    Cut256 <- Long
    Cut500 <- Short
    Capacity = 2
    TTL = 1
    Delay = 1
    MaxTime = 3
    None = None
CONSTRAINT FewerKinds
SYMMETRY Symmetry
SPECIFICATION Spec
INVARIANTS HitIsRecent HitAnswersQuery
PROPERTIES EvictsLeastRecent
CHECK_DEADLOCK FALSE
