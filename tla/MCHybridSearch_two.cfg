\* Two searches among rows that come and go, one not found by text and one not
\* by vector.
CONSTANTS
    Rows = {1, 2, 3, 4}
    Matching = {2, 3, 4}
    Distance <- MCDistance
    Threshold = 3
    Limit = 3
    K = 60
    Searchers = {s1, s2}
    MaxSearches = 2
    MaxChanges = 2
SYMMETRY Symmetry
SPECIFICATION Spec
INVARIANTS ReturnsWhatWasActive CountsOnlyReturned FusionIsFair
CHECK_DEADLOCK FALSE
