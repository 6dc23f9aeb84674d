SPECIFICATION FairSpec
CONSTANTS
    r1 = r1
    i1 = i1
    c1 = c1
    c2 = c2
    Repos = {r1}
    Images = {i1}
    RepoOf <- OneRepo
    Contents = {c1, c2}
    Requests = {q1}
    Sources = {"webhook"}
    JobIds = {k1, k2}
    Modes = {"on"}
    PromptCommit = TRUE
    MaxPushes = 2
    MaxAsks = 0
    MaxDeletes = 0
    MaxDrops = 0
    MaxFaults = 0
    MaxCrashes = 0
PROPERTIES PushIsScanned
CHECK_DEADLOCK FALSE
