SPECIFICATION AllSpec
CONSTANTS
    main = main
    dev = dev
    Branches = {main, dev}
    Commits = {c1, c2}
    Watched = {main, dev}
    Keys = {main, dev}
    KeyOf <- BranchKey
    JobIds = {j1, j2}
    Limit <- OneTrouble
    a = a
    b = b
    l = l
    project = project
    Hub = {a, b}
    Open = {a, b}
    Lab = {l}
    SlugOf <- Slugs
    Projects = {project}
    Lists <- BothWays
    Unrecorded = Unrecorded
    Unmapped = Unmapped
    MaxRequests = 2
    MaxTroubles = 1
    Hosts = {h1}
    Paths = {x, y}
    MaxCalls = 3
    MaxReinstalls = 1
    Presets = {"standard", "bugs_only"}
    Default = "standard"
    Metrics = {"blocker", "coverage", "violations"}
    Intended <- Bars
    SonarWay <- SonarsOwn
    SonarKeys = {k1}
    SonarBranches = {b1}
    Changes = {q1, q2}
    MaxEdits = 1
    Bots = {1, 2}
    First <- Firsts
    MaxArrivals = 2
    MaxFails = 2
    MaxBoots = 2
    MaxSwitches = 1
    MaxTaps = 8
    MaxChanges = 1
    Tracked = {s1, s2}
    Measures <- Samples
    Unmeasured = Unmeasured
    MaxAnalyses = 3
SYMMETRY Symmetry
INVARIANTS TypesOK RunningIsWorkedOn WebhookOnce MarkersHold RegisteredHears HandledOnce FreshButtonsWork HealthIsHonest
PROPERTIES CleanRunIsExact ReconciledIsPreset
CHECK_DEADLOCK FALSE
