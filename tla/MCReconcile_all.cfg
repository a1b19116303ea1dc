\* One row with up to two jobs, each tried up to twice, rewritten back and
\* forth, bookkeeping that fails once, and an operator.
CONSTANTS
    Memories = {m1}
    Contents = {a, b}
    Spaces = {s1}
    Drainers = {d1}
    Threads = {t1}
    Legacy = {}
    MaxAttempts = 2
    MaxJobs = 2
    MaxRev = 3
    MaxCrashes = 0
    MaxLost = 1
    Operators = {o1}
    MaxAudits = 2
    None = None
    Purged = Purged

CONSTRAINT RewritesOrJobs
SYMMETRY Symmetry
SPECIFICATION RSpec
INVARIANTS VectorFresh ReceiptVouches DoneMeansIndexed
           ExplainedStayFindable NoRepeatedAudit
PROPERTIES DoneIsFinal OnlyFaultsStrand AuditsTellTruth
CHECK_DEADLOCK FALSE
