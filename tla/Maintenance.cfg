SPECIFICATION AllSpec
CONSTANTS
    r1 = r1
    b1 = b1
    a1 = a1
    a2 = a2
    Slots = 2
    FirstWeekday = 2
    MonthLengths <- EarlyYear
    CronDays <- Matches
    Schedules = {s1}
    Runs = {1, 2, 3}
    NoSchedule = NoSchedule
    NoRule = NoRule
    Choices <- TwiceADay
    KeepRules = {0, 1}
    AgeRules = {1}
    MaxTime = 3
    MaxEdits = 1
    MaxRestarts = 1
    Components = {1, 2, 3}
    Repositories = {"x", "y"}
    RepoOf <- InX
    ImageOf <- OneImage
    Undatable = {1}
    Policies = {p1}
    Sweeps = {1, 2}
    Everyone = Everyone
    Nobody = Nobody
    User = User
    Undated = Undated
    Unset = Unset
    Limits = {1}
    MaxDay = 2
    MaxChanges = 1
    Repos = {r1}
    Blobstores = {b1}
    AlertRules = {a1, a2}
    Watches <- WatchedBy
    Rounds = {m1, m2}
    KeepFor = 1
    MaxNow = 2
    MaxTroubles = 1
    Urls = {u1, u2}
    Secrets = {x1, x2, x3}
    Keys = {k1, k2}
    Clients = {q1, q2}
    Absent = Absent
    MaxSaves = 2
    MaxStarts = 1
INVARIANTS TypesOK SchedulesFireOnce SuccessHasItsArchive NotifiedMeansRecorded SettingsAreSaved
PROPERTY RemovalsAreEarned
CHECK_DEADLOCK FALSE
