\* All indexes of five rows at three distances, the last beyond the threshold.
CONSTANTS
    Ids = {1, 2, 3, 4, 5}
    Distances = {0, 1, 2}
    Limits <- MCLimits
    DistanceThreshold = 1
    FirstWindow = 2
    Ceiling = 4
SPECIFICATION VFairSpec
INVARIANTS ResultIsExact
PROPERTIES Answers
CHECK_DEADLOCK FALSE
