\* Two imports, one of which may die, and a write of another program.
CONSTANTS
    c1 = c1
    c2 = c2
    h1 = h1
    f1 = f1
    f2 = f2
    s1 = s1
    s2 = s2
    t1 = t1
    t2 = t2
    Cold = {c1, c2}
    Hot = {h1}
    Fields = {f1, f2}
    Spaces = {s1, s2}
    Times = {t1}
    Unknown = Unknown
    None = None
    LeftOut = LeftOut
    Importers = {p1, p2}
    Backups <- MCHotBackups
    MaxWrites = 1
    MaxCrashes = 1
SPECIFICATION Spec
INVARIANTS RestoresTheBackup RetryFindsAllDone AsPreviewed IndexSound
PROPERTIES NeverOverwrites
SYMMETRY MCSymmetry
CHECK_DEADLOCK FALSE
