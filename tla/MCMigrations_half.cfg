\* One process that dies.
CONSTANTS
    Scripts <- MCScripts
    Objects <- MCObjects
    Processes = {p1}
    OldRows = {"absent"}
    MaxCrashes = 1
SPECIFICATION Spec
INVARIANTS ScriptsAreAtomic
CHECK_DEADLOCK FALSE
