\* Three processes that start together, and deaths at any statement.
CONSTANTS
    Scripts <- MCScripts
    Objects <- MCObjects
    Processes = {p1, p2, p3}
    OldRows = {"absent", "active", "dormant"}
    MaxCrashes = 2
SPECIFICATION FairSpec
INVARIANTS VersionIsTrue
PROPERTIES AllComeUp
CHECK_DEADLOCK FALSE
