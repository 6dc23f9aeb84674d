SPECIFICATION AllSpec
CONSTANTS
    Pullers = {p1, p2}
    Mirrors <- BothRegistries
    SizeOf <- TwoPieces
    MaxBuild = 2
    MaxBreaks = 1
    Scans = {s1, s2, s3}
    Writers = {w1, w2}
    Slots = 2
    Nobody = Nobody
    MaxBuilds = 3
    MaxRestarts = 1
    DbJobs = {j1}
    Scanners = {"trivy", "grype"}
    Installed = {"trivy", "grype", "oras"}
    EnvEnabled = {"trivy", "grype"}
    NoJob = NoJob
    Retries = 2
    Hosts = {h1, h2}
    Repos = {r1}
    Ports = {"p8082"}
    Askers = {k1}
    MaxChanges = 3
    Analysts = {a1, a2}
    Unrestricted = {a1}
    MaxRuns = 2
    Tags = {t1, t2}
    Digests = {"arm", "amd", "multi", "nested", "deep"}
    Blobs = {"base", "top", "old", "empty"}
    BytesOf <- BlobBytes
    Lists <- ManifestLists
    Layers <- ManifestLayers
    Concurrency = 2
    MaxEvents = 1
SYMMETRY Symmetry
INVARIANTS TypesOK FilesKeptApart EveryScannerAnswered WaitersAreServed EndpointsHold ActiveIsWhatTagsUse
CHECK_DEADLOCK FALSE
