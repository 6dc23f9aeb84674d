SPECIFICATION TroubledSpec
CONSTANTS
    main = main
    dev = dev
    Branches = {main}
    Commits = {c1, c2}
    Watched = {main}
    Keys = {main}
    KeyOf <- BranchKey
    JobIds = {j1, j2}
    Limit <- OneTrouble
PROPERTY EveryRunEnds
PROPERTY EveryPushAnalysed
CHECK_DEADLOCK FALSE
