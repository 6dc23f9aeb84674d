SPECIFICATION LedgerSpec
CONSTANTS
    q1 = q1
    q2 = q2
    k1 = k1
    k2 = k2
    r1 = r1
    i1 = i1
    c1 = c1
    c2 = c2
    Repos = {r1}
    Images = {i1}
    RepoOf <- OneRepo
    Contents = {c1}
    Requests = {q1}
    Sources = {"webhook"}
    JobIds = {k1, k2}
    Modes = {"on"}
    PromptCommit = FALSE
    MaxPushes = 1
    MaxAsks = 0
    MaxDeletes = 1
    MaxDrops = 1
    MaxFaults = 1
    MaxCrashes = 1
SYMMETRY Alike
INVARIANTS LedgersTyped PromptScansAreDue ScannedIsEarned NoScanBeforeBaseline
CHECK_DEADLOCK FALSE
