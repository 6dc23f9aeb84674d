SPECIFICATION SharedSpec
CONSTANTS
    Analysts = {a1, a2}
    Unrestricted = {a1}
    MaxRuns = 1
INVARIANT SameEvents
CHECK_DEADLOCK FALSE
