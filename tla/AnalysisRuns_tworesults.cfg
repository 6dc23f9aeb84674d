SPECIFICATION Spec
CONSTANTS
    main = main
    dev = dev
    Branches = {main}
    Commits = {c1, c2}
    Watched = {main}
    Keys = {main}
    KeyOf <- BranchKey
    JobIds = {j1, j2}
    Limit <- NoTrouble
INVARIANT OneResultPerRun
CHECK_DEADLOCK FALSE
