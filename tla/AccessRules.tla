---------------------------- MODULE AccessRules -----------------------------
(***************************************************************************)
(* Who may reach which repository and image: backend/app/core/             *)
(* access_control.py, the role, rule and user handlers that change what it *)
(* decides from (routers/roles.py, routers/users.py), the two screens that *)
(* explain a decision, and the seed that repairs the system roles at every *)
(* start (db/seed.py).                                                     *)
(*                                                                         *)
(* A handler is one transaction on rows it reads itself, and the unique    *)
(* keys close the gap between its checks and its insert, so every handler  *)
(* is one step.  Patterns and names are opaque: Matches and Universal are  *)
(* parameters, and GlobPatterns defines them.                              *)
(***************************************************************************)
EXTENDS Integers, FiniteSets

CONSTANTS
    Repos, Images,          \* names an action may be asked for
    Patterns,               \* patterns a rule may carry
    Matches(_, _),          \* whether a pattern matches a name in full
    Universal(_),           \* whether a pattern is known to match every name
    Actions,                \* what a rule can allow or deny
    PermKeys,               \* global permission keys
    Names,                  \* role names
    SystemPerms,            \* the system roles: name -> permission keys
    RoleIds, UserIds, Boot1, \* ids; the bootstrap administrator
    MaxRules                \* bound: rules stored at once

Admin == "admin"
Modes == {"unrestricted", "scoped"}
Effects == {"allow", "deny"}
Role == [name : Names, system : BOOLEAN, mode : Modes, perms : SUBSET PermKeys]
ActionSets == SUBSET Actions \ {{}}
Rule == [role : RoleIds, effect : Effects, repo : Patterns, image : Patterns,
         actions : ActionSets]

ASSUME NamesAssumption == Admin \in DOMAIN SystemPerms /\ DOMAIN SystemPerms \subseteq Names
ASSUME PermsAssumption == \A n \in DOMAIN SystemPerms : SystemPerms[n] \subseteq PermKeys
ASSUME BootAssumption == Boot1 \in UserIds
ASSUME MaxRulesAssumption == MaxRules \in Nat
\* is_universal tells of some patterns that match everything; others may too.
ASSUME UniversalAssumption ==
    \A p \in Patterns, image \in Images : Universal(p) => Matches(p, image)

VARIABLES roles,    \* live roles, by id
          rules,    \* role_access_rules
          users     \* the roles of each live user (is_active is in Sessions)

vars == <<roles, rules, users>>

-----------------------------------------------------------------------------
(* The decision: RepoAccess and AccessResolver. *)

RulesFor(r, repo) == {x \in rules : x.role = r /\ Matches(x.repo, repo)}

Covers(x, image, a) == a \in x.actions /\ Matches(x.image, image)

Compiled(r, repo) ==
    [allow |-> {x \in RulesFor(r, repo) : x.effect # "deny"},
     deny  |-> {x \in RulesFor(r, repo) : x.effect = "deny"}]

\* A fault: denies are forgotten.
GrantsAnyRule(c, image, a) == \E x \in c.allow : Covers(x, image, a)

Grants(c, image, a) ==
    /\ \A x \in c.deny : ~Covers(x, image, a)
    /\ \E x \in c.allow : Covers(x, image, a)

GrantsEverything(c, a) ==
    /\ \A x \in c.deny : a \notin x.actions
    /\ \E x \in c.allow : Universal(x.image) /\ a \in x.actions

\* A role no rule of which speaks of the repository is left to its mode.
Silent(rs, repo) == {r \in rs : RulesFor(r, repo) = {}}

Decide(rs, repo) ==
    LET open == \E r \in Silent(rs, repo) : roles[r].mode = "unrestricted"
    IN  [unrestricted |-> open,
         roles |-> IF open THEN {}
                   ELSE {Compiled(r, repo) : r \in rs \ Silent(rs, repo)}]

Allows(d, image, a) == d.unrestricted \/ \E c \in d.roles : Grants(c, image, a)

BlocksEverything(d) == ~d.unrestricted /\ \A c \in d.roles : c.allow = {}

CoversAll(d, a) == d.unrestricted \/ \E c \in d.roles : GrantsEverything(c, a)

UnrestrictedEverywhere(rs) ==
    /\ \A x \in rules : x.role \notin rs
    /\ \E r \in rs : roles[r].mode = "unrestricted"

\* Rows that carry a repository and an image, as the listings filter them;
\* without an image to look at, a row of a visible repository is kept.
FilterByRepo(rs, rows, byImage, a) ==
    {w \in rows : IF byImage THEN Allows(Decide(rs, w[1]), w[2], a)
                  ELSE ~BlocksEverything(Decide(rs, w[1]))}

-----------------------------------------------------------------------------
(* The same decision, explained: the rule tester and a user's effective    *)
(* access are computed from explain(), not from the resolver.              *)

Explain(r, repo, image) ==
    LET hit == {x \in RulesFor(r, repo) : Matches(x.image, image)}
        of(e) == UNION {x.actions : x \in {y \in hit : y.effect = e}}
    IN  [applied |-> RulesFor(r, repo), allowed |-> of("allow") \ of("deny")]

TestAccessRules(r, repo, image) ==
    LET e == Explain(r, repo, image)
        open == e.applied = {} /\ roles[r].mode = "unrestricted"
    IN  [unrestricted |-> open, allowed |-> IF open THEN Actions ELSE e.allowed]

EffectiveAccess(rs, repo, image) ==
    LET each == {TestAccessRules(r, repo, image) : r \in rs}
    IN  [unrestricted |-> \E t \in each : t.unrestricted,
         allowed |-> UNION {t.allowed : t \in each}]

-----------------------------------------------------------------------------
(* Roles. *)

Live == DOMAIN roles
NameTaken(n, except) == \E r \in Live \ except : roles[r].name = n

RejectIfAdmin(r) == ~(roles[r].system /\ roles[r].name = Admin)

CreateRole ==
    \E r \in RoleIds \ Live, n \in Names, m \in Modes, p \in SUBSET PermKeys :
        /\ ~NameTaken(n, {})
        /\ roles' = [i \in Live \union {r} |->
                        IF i = r THEN [name |-> n, system |-> FALSE, mode |-> m, perms |-> p]
                        ELSE roles[i]]
        /\ UNCHANGED <<rules, users>>

\* The body may carry each field or not: an omitted field is the stored one.
UpdateRole ==
    \E r \in Live, n \in Names, m \in Modes, p \in SUBSET PermKeys :
        /\ n # roles[r].name => RejectIfAdmin(r) /\ ~NameTaken(n, {r})
        /\ m # roles[r].mode => RejectIfAdmin(r)
        /\ roles' = [roles EXCEPT ![r] = [@ EXCEPT !.name = n, !.mode = m, !.perms = p]]
        /\ UNCHANGED <<rules, users>>

\* Rules and assignments go with the role (ON DELETE CASCADE).
DeleteRole ==
    \E r \in Live :
        /\ ~roles[r].system
        /\ roles' = [i \in Live \ {r} |-> roles[i]]
        /\ rules' = {x \in rules : x.role # r}
        /\ users' = [u \in DOMAIN users |-> users[u] \ {r}]

-----------------------------------------------------------------------------
(* Access rules. *)

Key(x) == <<x.role, x.effect, x.repo, x.image>>
RejectDuplicate(x, except) == \A y \in rules \ except : Key(y) # Key(x)

CreateAccessRule ==
    \E x \in Rule :
        /\ Cardinality(rules) < MaxRules
        /\ x.role \in Live
        /\ RejectIfAdmin(x.role)
        /\ RejectDuplicate(x, {})
        /\ rules' = rules \union {x}
        /\ UNCHANGED <<roles, users>>

UpdateAccessRule ==
    \E x \in rules, y \in Rule :
        /\ y.role = x.role
        /\ RejectDuplicate(y, {x})
        /\ rules' = (rules \ {x}) \union {y}
        /\ UNCHANGED <<roles, users>>

DeleteAccessRule ==
    \E x \in rules :
        /\ rules' = rules \ {x}
        /\ UNCHANGED <<roles, users>>

-----------------------------------------------------------------------------
(* Users. *)

CreateUser ==
    \E u \in UserIds \ DOMAIN users, rs \in SUBSET Live :
        /\ users' = [i \in DOMAIN users \union {u} |-> IF i = u THEN rs ELSE users[i]]
        /\ UNCHANGED <<roles, rules>>

UpdateUser ==
    \E u \in DOMAIN users, rs \in SUBSET Live :
        /\ users' = [users EXCEPT ![u] = rs]
        /\ UNCHANGED <<roles, rules>>

DeleteUser ==
    \E u \in DOMAIN users :
        /\ users' = [i \in DOMAIN users \ {u} |-> users[i]]
        /\ UNCHANGED <<roles, rules>>

-----------------------------------------------------------------------------
(* Start-up: the seed. *)

Missing == {n \in DOMAIN SystemPerms : ~NameTaken(n, {})}

SystemRole(n) ==
    [name |-> n, system |-> TRUE, mode |-> "unrestricted", perms |-> SystemPerms[n]]

\* A system role gets back its flag and permissions; of the modes only the
\* administrator's is repaired.
Repaired(role) ==
    IF role.name \in DOMAIN SystemPerms
    THEN [role EXCEPT !.system = TRUE, !.perms = SystemPerms[role.name],
                      !.mode = IF role.name = Admin THEN "unrestricted" ELSE @]
    ELSE role

\* Missing system roles are inserted.
Seeded(new) ==
    [i \in Live \union {new[n] : n \in DOMAIN new} |->
        IF i \in Live THEN Repaired(roles[i])
        ELSE SystemRole(CHOOSE n \in DOMAIN new : new[n] = i)]

AdminRoles(rs) == {i \in DOMAIN rs : rs[i].name = Admin}

SeedBootstrapAdmin(rs) ==
    IF Boot1 \in DOMAIN users
    THEN [users EXCEPT ![Boot1] = @ \union AdminRoles(rs)]
    ELSE [i \in DOMAIN users \union {Boot1} |-> IF i = Boot1 THEN AdminRoles(rs) ELSE users[i]]

RunSeed ==
    \E new \in [Missing -> RoleIds \ Live] :
        /\ \A m, n \in Missing : new[m] = new[n] => m = n
        /\ roles' = Seeded(new)
        /\ users' = SeedBootstrapAdmin(Seeded(new))
        /\ UNCHANGED rules

\* After the first seed of an empty database.
Init ==
    /\ \E id \in [DOMAIN SystemPerms -> RoleIds] :
          /\ \A m, n \in DOMAIN SystemPerms : id[m] = id[n] => m = n
          /\ roles = [i \in {id[n] : n \in DOMAIN SystemPerms} |->
                        SystemRole(CHOOSE n \in DOMAIN SystemPerms : id[n] = i)]
          /\ users = [i \in {Boot1} |-> {id[Admin]}]
    /\ rules = {}

Next ==
    \/ CreateRole \/ UpdateRole \/ DeleteRole
    \/ CreateAccessRule \/ UpdateAccessRule \/ DeleteAccessRule
    \/ CreateUser \/ UpdateUser \/ DeleteUser
    \/ RunSeed

Spec == Init /\ [][Next]_vars

-----------------------------------------------------------------------------
(* Types: live roles and users are known ids, and nothing outlives the role *)
(* it belongs to.                                                           *)
TypeOK ==
    /\ roles \in [Live -> Role] /\ Live \subseteq RoleIds
    /\ rules \subseteq Rule /\ \A x \in rules : x.role \in Live
    /\ users \in [DOMAIN users -> SUBSET Live] /\ DOMAIN users \subseteq UserIds

(* The role named "admin" exists, cannot be deleted, and whatever sequence  *)
(* of renames, rule edits, deletions and restarts is gone through, it is    *)
(* unrestricted and carries no rule: administrators reach every image.      *)
AdminUnscoped ==
    \E r \in Live :
        /\ roles[r].name = Admin /\ roles[r].system /\ roles[r].mode = "unrestricted"
        /\ \A x \in rules : x.role # r

(* What the effective-access screen and the rule tester say is what the     *)
(* resolver then does, for every user, repository, image and action.        *)
ExplanationAgrees ==
    \A u \in DOMAIN users, repo \in Repos, image \in Images :
        LET d == Decide(users[u], repo)
            e == EffectiveAccess(users[u], repo, image)
        IN  /\ e.unrestricted = d.unrestricted
            /\ e.allowed = {a \in Actions : Allows(d, image, a)}

(* The shortcuts are sound: an action granted wholesale is granted on every *)
(* image, a repository answered without being looked at has nothing to      *)
(* show, and a user no rule narrows is narrowed in no repository.           *)
ShortcutsSound ==
    \A u \in DOMAIN users :
        LET rs == users[u] IN
        /\ \A repo \in Repos, image \in Images, a \in Actions :
              LET d == Decide(rs, repo) IN
              /\ CoversAll(d, a) => Allows(d, image, a)
              /\ Allows(d, image, a) => ~BlocksEverything(d)
              /\ UnrestrictedEverywhere(rs) => d.unrestricted
        /\ \A a \in Actions :
              FilterByRepo(rs, Repos \X Images, TRUE, a)
                  \subseteq FilterByRepo(rs, Repos \X Images, FALSE, a)
=============================================================================
