SPECIFICATION AllSpec
CONSTANTS
    a = a
    b = b
    r1 = r1
    Jobs = {a, b}
    Clients = {c}
    MaxRetries <- OneRetries
    Handled <- AllButB
    IndexMax = 2
    MaxStops = 2
    MaxFaults = 2
    Streams = {s1, s2}
    EventsMax = 2
    MaxEvents = 4
    Repos = {r1}
    Images = {i1}
    RepoOf <- OneRepo
    Contents = {d1, d2}
    Requests = {q1}
    Sources = {"webhook"}
    ScanIds = {k1, k2}
    Modes = {"on", "off"}
INVARIANTS TypesOK SingleCarrier EventsInOrder
PROPERTIES OutcomesHold AttemptsSpec EveryJobSettles StreamsEnd PushesAreScanned
CHECK_DEADLOCK FALSE
