SPECIFICATION AllSpec
CONSTANTS
    Repos <- RepoNames
    Images <- ImageNames
    Patterns <- RulePatterns
    Matches <- MatchOf
    Universal <- UniversalOf
    Actions = {"read"}
    PermKeys = {}
    Names = {"admin", "viewer", "team"}
    SystemPerms <- SeededRoles
    RoleIds = {1, 2, 3}
    UserIds = {1}
    Boot1 = 1
    MaxRules = 2
    Users = {u1, u2}
    Projects = {p1}
    Requests = {q1, q2}
    Perms <- PermOnly
    Keys = {"sonar", "bogus"}
    Registered = {"sonar"}
    MaxMembers = 3
    Browsers = {b1, b2}
    ApiTokens = {t1}
    Scopes = {"access:write"}
    AccessTTL = 1
    RefreshTTL = 4
    IdleTimeout = 2
    MaxTime = 4
    Clients = {c1, c2}
    Ip <- OneAddress
    Threshold = 3
    PerIp = 3
    MaxWrong = 6
    MaxOutages = 1
SYMMETRY Symmetry
INVARIANTS TypesOK DecisionsAgree SignInHolds
PROPERTIES AdminLostOnlyToRace
CHECK_DEADLOCK FALSE
