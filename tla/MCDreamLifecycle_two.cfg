\* The timer and a request dream at once; a user and a purge come between.
CONSTANTS
    Memories = {1, 2, 3, 4}
    Unreadable = {4}
    Dreamers = {d1, d2}
    Clients = {c1}
    Purgers = {p1}
    None = None

SYMMETRY Symmetry
CONSTRAINT Bounded
SPECIFICATION Spec
INVARIANTS OldestFirst StatusMatchesSeed AuditExplains
PROPERTIES MembersStayKnown
