---------------------------- MODULE Access_proofs ----------------------------
(***************************************************************************)
(* Proofs about who may do what, one section for each part of MCAccess:    *)
(* the access rules, projects and their members, sessions, the login       *)
(* throttle; and last what they make of all parts together.                *)
(***************************************************************************)
EXTENDS MCAccess, FiniteSetTheorems, TLAPS

-----------------------------------------------------------------------------
(* Access rules: types.                                                    *)

\* A new role table with its rules and users is well typed.
LEMMA RulesStored ==
    ASSUME NEW R, R \subseteq RoleIds, roles' \in [R -> Role],
           rules' \subseteq Rule, \A x \in rules' : x.role \in R,
           users' \in [DOMAIN users' -> SUBSET R], DOMAIN users' \subseteq UserIds
    PROVE  TypeOK'
<1>1. DOMAIN roles' = R
  OBVIOUS
<1>. QED  BY <1>1 DEF TypeOK, Live

\* Editing a role keeps the table's type and what may not be edited.
LEMMA RoleEdited ==
    ASSUME TypeOK, UpdateRole
    PROVE  /\ roles' \in [Live -> Role] /\ UNCHANGED <<rules, users>>
           /\ \A i \in Live : ~RejectIfAdmin(i) =>
                /\ roles'[i].name = roles[i].name /\ roles'[i].mode = roles[i].mode
                /\ roles'[i].system = roles[i].system
<1>1. PICK r \in Live, n \in Names, m \in Modes, p \in SUBSET PermKeys :
        /\ n # roles[r].name => RejectIfAdmin(r) /\ ~NameTaken(n, {r})
        /\ m # roles[r].mode => RejectIfAdmin(r)
        /\ roles' = [roles EXCEPT ![r] = [@ EXCEPT !.name = n, !.mode = m, !.perms = p]]
        /\ UNCHANGED <<rules, users>>
  BY Zenon DEF UpdateRole
<1>2. roles \in [Live -> Role] /\ roles[r] \in Role
  BY DEF TypeOK
<1>3. roles' \in [Live -> Role]
  BY <1>1, <1>2 DEF Role
<1>4. roles'[r] = [roles[r] EXCEPT !.name = n, !.mode = m, !.perms = p]
  BY <1>1, <1>2 DEF Role
<1>5. roles'[r].name = n /\ roles'[r].mode = m /\ roles'[r].system = roles[r].system
  BY <1>2, <1>4 DEF Role
<1>6. \A i \in Live \ {r} : roles'[i] = roles[i]
  BY <1>1, <1>2
<1>. QED  BY <1>1, <1>3, <1>5, <1>6

LEMMA RolesTyped ==
    ASSUME TypeOK, CreateRole \/ UpdateRole \/ DeleteRole
    PROVE  TypeOK'
<1>1. CASE CreateRole
  <2>1. PICK r \in RoleIds \ Live, n \in Names, m \in Modes, p \in SUBSET PermKeys :
          /\ roles' = [i \in Live \union {r} |->
                         IF i = r THEN [name |-> n, system |-> FALSE, mode |-> m, perms |-> p]
                         ELSE roles[i]]
          /\ UNCHANGED <<rules, users>>
    BY <1>1 DEF CreateRole
  <2>2. roles' \in [Live \union {r} -> Role]
    BY <2>1 DEF TypeOK, Role
  <2>3. /\ Live \union {r} \subseteq RoleIds
        /\ rules' \subseteq Rule /\ \A x \in rules' : x.role \in Live \union {r}
        /\ users' \in [DOMAIN users' -> SUBSET (Live \union {r})] /\ DOMAIN users' \subseteq UserIds
    BY <2>1 DEF TypeOK
  <2>. QED  BY <2>2, <2>3, RulesStored
<1>2. CASE UpdateRole
  BY <1>2, RoleEdited, RulesStored DEF TypeOK
<1>3. CASE DeleteRole
  <2>1. PICK r \in Live :
          /\ roles' = [i \in Live \ {r} |-> roles[i]]
          /\ rules' = {x \in rules : x.role # r}
          /\ users' = [u \in DOMAIN users |-> users[u] \ {r}]
    BY <1>3 DEF DeleteRole
  <2>2. /\ roles' \in [Live \ {r} -> Role] /\ Live \ {r} \subseteq RoleIds
        /\ rules' \subseteq Rule /\ \A x \in rules' : x.role \in Live \ {r}
    BY <2>1 DEF TypeOK
  <2>3. users' \in [DOMAIN users' -> SUBSET (Live \ {r})] /\ DOMAIN users' \subseteq UserIds
    BY <2>1 DEF TypeOK
  <2>. QED  BY <2>2, <2>3, RulesStored
<1>. QED  BY <1>1, <1>2, <1>3

LEMMA RuleEditsTyped ==
    ASSUME TypeOK,
           \/ CreateAccessRule \/ UpdateAccessRule \/ DeleteAccessRule
           \/ CreateUser \/ UpdateUser \/ DeleteUser
    PROVE  TypeOK'
<1>1. UNCHANGED roles
  BY DEF CreateAccessRule, UpdateAccessRule, DeleteAccessRule, CreateUser, UpdateUser,
     DeleteUser
<1>2. CASE CreateAccessRule \/ UpdateAccessRule \/ DeleteAccessRule
  <2>1. /\ UNCHANGED users /\ rules' \subseteq Rule
        /\ \A x \in rules' : x.role \in Live
    BY <1>2 DEF CreateAccessRule, UpdateAccessRule, DeleteAccessRule, TypeOK
  <2>. QED  BY <1>1, <2>1, RulesStored DEF TypeOK
<1>3. CASE CreateUser \/ UpdateUser \/ DeleteUser
  <2>1. /\ UNCHANGED rules /\ users' \in [DOMAIN users' -> SUBSET Live]
        /\ DOMAIN users' \subseteq UserIds
    BY <1>3 DEF CreateUser, UpdateUser, DeleteUser, TypeOK
  <2>. QED  BY <1>1, <2>1, RulesStored DEF TypeOK
<1>. QED  BY <1>2, <1>3

\* The seed inserts roles under free ids and repairs the others.
LEMMA RepairedTyped ==
    ASSUME NEW role \in Role
    PROVE  /\ Repaired(role) \in Role /\ Repaired(role).name = role.name
           /\ role.name = Admin => Repaired(role).system /\ Repaired(role).mode = "unrestricted"
  BY PermsAssumption, NamesAssumption DEF Repaired, Role, Modes

LEMMA SystemRoleTyped ==
    ASSUME NEW n \in DOMAIN SystemPerms
    PROVE  SystemRole(n) \in Role
  BY PermsAssumption, NamesAssumption DEF SystemRole, Role, Modes

LEMMA SeededTyped ==
    ASSUME TypeOK, NEW new \in [Missing -> RoleIds \ Live]
    PROVE  LET R == Live \union {new[n] : n \in DOMAIN new} IN
           /\ Seeded(new) \in [R -> Role] /\ R \subseteq RoleIds
           /\ \A i \in Live : Seeded(new)[i] = Repaired(roles[i])
<1> DEFINE R == Live \union {new[n] : n \in DOMAIN new}
           of(i) == CHOOSE n \in DOMAIN new : new[n] = i
           role(i) == IF i \in Live THEN Repaired(roles[i]) ELSE SystemRole(of(i))
<1>1. R \subseteq RoleIds
  BY DEF TypeOK
<1>2. Seeded(new) = [i \in R |-> role(i)]
  BY DEF Seeded
<1>3. \A i \in R : role(i) \in Role
  <2> SUFFICES ASSUME NEW i \in R PROVE role(i) \in Role
    OBVIOUS
  <2>1. CASE i \in Live
    BY <2>1, RepairedTyped DEF TypeOK
  <2>2. CASE i \notin Live
    <3>1. of(i) \in DOMAIN SystemPerms
      BY <2>2 DEF Missing
    <3>. QED  BY <2>2, <3>1, SystemRoleTyped
  <2>. QED  BY <2>1, <2>2
<1>4. \A i \in Live : role(i) = Repaired(roles[i]) /\ i \in R
  OBVIOUS
<1> HIDE DEF R, role
<1>5. Seeded(new) \in [R -> Role] /\ \A i \in Live : Seeded(new)[i] = Repaired(roles[i])
  BY <1>2, <1>3, <1>4
<1>. QED  BY <1>1, <1>5 DEF R

LEMMA RunSeedTyped == ASSUME TypeOK, RunSeed PROVE TypeOK'
<1>1. PICK new \in [Missing -> RoleIds \ Live] :
        roles' = Seeded(new) /\ users' = SeedBootstrapAdmin(Seeded(new)) /\ UNCHANGED rules
  BY DEF RunSeed
<1> DEFINE R == Live \union {new[n] : n \in DOMAIN new}
<1>2. Seeded(new) \in [R -> Role] /\ R \subseteq RoleIds
  BY SeededTyped
<1>3. AdminRoles(Seeded(new)) \subseteq R
  BY <1>2 DEF AdminRoles
<1>4. users' \in [DOMAIN users' -> SUBSET R] /\ DOMAIN users' \subseteq UserIds
  <2>1. CASE Boot1 \in DOMAIN users
    BY <1>1, <1>3, <2>1 DEF SeedBootstrapAdmin, TypeOK
  <2>2. CASE Boot1 \notin DOMAIN users
    BY <1>1, <1>3, <2>2, BootAssumption DEF SeedBootstrapAdmin, TypeOK
  <2>. QED  BY <2>1, <2>2
<1>. QED  BY <1>1, <1>2, <1>4, RulesStored DEF TypeOK

\* The start: one role for each system role, and the administrator of the first boot.
LEMMA FirstSeed ==
    ASSUME Init
    PROVE  TypeOK /\ AdminUnscoped
<1>1. PICK id \in [DOMAIN SystemPerms -> RoleIds] :
        /\ \A m, n \in DOMAIN SystemPerms : id[m] = id[n] => m = n
        /\ roles = [i \in {id[n] : n \in DOMAIN SystemPerms} |->
                      SystemRole(CHOOSE n \in DOMAIN SystemPerms : id[n] = i)]
        /\ users = [i \in {Boot1} |-> {id[Admin]}]
  BY DEF Init
<1>2. \A n \in DOMAIN SystemPerms : id[n] \in DOMAIN roles /\ roles[id[n]] = SystemRole(n)
  <2> SUFFICES ASSUME NEW n \in DOMAIN SystemPerms
               PROVE  id[n] \in DOMAIN roles /\ roles[id[n]] = SystemRole(n)
    OBVIOUS
  <2>1. (CHOOSE m \in DOMAIN SystemPerms : id[m] = id[n]) = n
    BY <1>1
  <2>. QED  BY <1>1, <2>1
<1>3. \A i \in DOMAIN roles : roles[i] \in Role /\ i \in RoleIds
  <2> SUFFICES ASSUME NEW i \in DOMAIN roles PROVE roles[i] \in Role /\ i \in RoleIds
    OBVIOUS
  <2>1. PICK n \in DOMAIN SystemPerms : i = id[n]
    BY <1>1
  <2>. QED  BY <1>1, <1>2, <2>1, SystemRoleTyped
<1>4. roles \in [Live -> Role]
  BY <1>1, <1>3 DEF Live
<1>5. rules = {} /\ Admin \in DOMAIN SystemPerms /\ id[Admin] \in Live
  BY <1>2, NamesAssumption DEF Init, Live
<1>6. TypeOK
  BY <1>1, <1>3, <1>4, <1>5, BootAssumption DEF TypeOK, Live
<1>7. AdminUnscoped
  <2>1. roles[id[Admin]] = SystemRole(Admin)
    BY <1>2, <1>5
  <2>2. /\ roles[id[Admin]].name = Admin /\ roles[id[Admin]].system
        /\ roles[id[Admin]].mode = "unrestricted"
    BY <2>1 DEF SystemRole
  <2>. QED  BY <1>5, <2>2 DEF AdminUnscoped
<1>. QED  BY <1>6, <1>7

LEMMA RulesStepTyped == TypeOK /\ [Next]_vars => TypeOK'
<1> SUFFICES ASSUME TypeOK, [Next]_vars PROVE TypeOK'
  OBVIOUS
<1>1. CASE UNCHANGED vars
  BY <1>1 DEF vars, TypeOK, Live
<1>2. CASE Next
  BY <1>2, RolesTyped, RuleEditsTyped, RunSeedTyped DEF Next
<1>. QED  BY <1>1, <1>2

-----------------------------------------------------------------------------
(* Access rules: what holds of the administrator.                          *)

LEMMA AdminStaysUnscoped == TypeOK /\ AdminUnscoped /\ [Next]_vars => AdminUnscoped'
<1> SUFFICES ASSUME TypeOK, AdminUnscoped, [Next]_vars PROVE AdminUnscoped'
  OBVIOUS
<1>1. PICK r \in Live :
        /\ roles[r].name = Admin /\ roles[r].system /\ roles[r].mode = "unrestricted"
        /\ \A x \in rules : x.role # r
  BY DEF AdminUnscoped
<1>2. roles[r] \in Role /\ ~RejectIfAdmin(r)
  BY <1>1 DEF TypeOK, RejectIfAdmin
<1>3. CASE CreateRole \/ DeleteRole
  BY <1>1, <1>3 DEF CreateRole, DeleteRole, AdminUnscoped, Live
<1>4. CASE UpdateRole
  <2>1. /\ r \in DOMAIN roles' /\ roles'[r].name = Admin /\ roles'[r].system
        /\ roles'[r].mode = "unrestricted"
    BY <1>1, <1>2, <1>4, RoleEdited
  <2>. QED  BY <1>1, <1>4, <2>1, RoleEdited DEF AdminUnscoped, Live
<1>5. CASE CreateAccessRule \/ UpdateAccessRule \/ DeleteAccessRule
  <2>1. UNCHANGED roles /\ \A x \in rules' : x.role # r
    BY <1>1, <1>2, <1>5 DEF CreateAccessRule, UpdateAccessRule, DeleteAccessRule
  <2>. QED  BY <1>1, <2>1 DEF AdminUnscoped, Live
<1>6. CASE CreateUser \/ UpdateUser \/ DeleteUser \/ UNCHANGED vars
  BY <1>1, <1>6 DEF CreateUser, UpdateUser, DeleteUser, vars, AdminUnscoped, Live
<1>7. CASE RunSeed
  <2>1. PICK new \in [Missing -> RoleIds \ Live] : roles' = Seeded(new) /\ UNCHANGED rules
    BY <1>7 DEF RunSeed
  <2>2. r \in DOMAIN roles' /\ roles'[r] = Repaired(roles[r])
    BY <1>1, <2>1, SeededTyped
  <2>3. roles'[r].name = Admin /\ roles'[r].system /\ roles'[r].mode = "unrestricted"
    BY <1>1, <1>2, <2>2, RepairedTyped
  <2>. QED  BY <1>1, <2>1, <2>2, <2>3 DEF AdminUnscoped, Live
<1>. QED  BY <1>3, <1>4, <1>5, <1>6, <1>7 DEF Next

-----------------------------------------------------------------------------
(* Access rules: the decisions, in any state that is well typed.           *)

\* What one role explains is what its compiled rules grant.
LEMMA ExplainsGrants ==
    ASSUME TypeOK, NEW r \in Live, NEW repo, NEW image, NEW a \in Actions
    PROVE  a \in Explain(r, repo, image).allowed <=> Grants(Compiled(r, repo), image, a)
<1>1. \A x \in RulesFor(r, repo) : x.effect \in {"allow", "deny"}
  BY DEF TypeOK, RulesFor, Rule, Effects
<1>2. a \in Explain(r, repo, image).allowed <=>
        /\ \E x \in RulesFor(r, repo) :
              Matches(x.image, image) /\ x.effect = "allow" /\ a \in x.actions
        /\ ~\E x \in RulesFor(r, repo) :
              Matches(x.image, image) /\ x.effect = "deny" /\ a \in x.actions
  BY DEF Explain
<1>3. Grants(Compiled(r, repo), image, a) <=>
        /\ \E x \in RulesFor(r, repo) :
              Matches(x.image, image) /\ x.effect # "deny" /\ a \in x.actions
        /\ ~\E x \in RulesFor(r, repo) :
              Matches(x.image, image) /\ x.effect = "deny" /\ a \in x.actions
  BY DEF Grants, Compiled, Covers
<1>. QED  BY <1>1, <1>2, <1>3

LEMMA AllowedAreActions ==
    ASSUME TypeOK, NEW r, NEW repo, NEW image
    PROVE  Explain(r, repo, image).allowed \subseteq Actions
<1>1. \A x \in RulesFor(r, repo) : x.actions \subseteq Actions
  BY DEF TypeOK, RulesFor, Rule, ActionSets
<1>. QED  BY <1>1 DEF Explain

LEMMA NothingSaid ==
    ASSUME NEW r, NEW repo, NEW image, RulesFor(r, repo) = {}
    PROVE  Explain(r, repo, image).allowed = {}
  BY DEF Explain

\* What is explained to a user is what is decided.
LEMMA Agreement ==
    ASSUME TypeOK, NEW rs \in SUBSET Live, NEW repo, NEW image
    PROVE  LET d == Decide(rs, repo)
               e == EffectiveAccess(rs, repo, image)
           IN  /\ e.unrestricted = d.unrestricted
               /\ e.allowed = {a \in Actions : Allows(d, image, a)}
<1> DEFINE d == Decide(rs, repo)
           e == EffectiveAccess(rs, repo, image)
           t(r) == TestAccessRules(r, repo, image)
           open == \E r \in Silent(rs, repo) : roles[r].mode = "unrestricted"
<1>1. \A r \in rs : t(r).unrestricted <=> r \in Silent(rs, repo) /\ roles[r].mode = "unrestricted"
  BY DEF TestAccessRules, Explain, Silent
<1>2. e.unrestricted <=> open
  BY <1>1 DEF EffectiveAccess, Silent
<1>3. d.unrestricted = open /\ e.unrestricted \in BOOLEAN
  BY DEF Decide, EffectiveAccess
<1>4. e.unrestricted = d.unrestricted
  BY <1>2, <1>3
<1>5. e.allowed = UNION {t(r).allowed : r \in rs}
  BY DEF EffectiveAccess
<1>6. \A r \in rs : t(r).allowed \subseteq Actions
  BY AllowedAreActions DEF TestAccessRules
<1>7. CASE open
  <2>1. \E r \in rs : t(r).allowed = Actions
    BY <1>1, <1>7 DEF TestAccessRules, Silent, Explain
  <2>2. e.allowed = Actions
    BY <1>5, <1>6, <2>1
  <2>3. \A a \in Actions : Allows(d, image, a)
    BY <1>3, <1>7 DEF Allows
  <2>. QED  BY <1>4, <2>2, <2>3
<1>8. CASE ~open
  <2>1. \A r \in rs : t(r).allowed = Explain(r, repo, image).allowed
    BY <1>1, <1>8 DEF TestAccessRules
  <2>2. \A a \in Actions : Allows(d, image, a) <=>
          \E r \in rs \ Silent(rs, repo) : Grants(Compiled(r, repo), image, a)
    BY <1>3, <1>8 DEF Allows, Decide
  <2>3. \A a \in Actions : Allows(d, image, a) <=> a \in e.allowed
    <3> SUFFICES ASSUME NEW a \in Actions PROVE Allows(d, image, a) <=> a \in e.allowed
      OBVIOUS
    <3>1. a \in e.allowed <=> \E r \in rs : a \in Explain(r, repo, image).allowed
      BY <1>5, <2>1
    <3>2. \A r \in rs : a \in Explain(r, repo, image).allowed => r \notin Silent(rs, repo)
      BY NothingSaid DEF Silent
    <3>. QED  BY <2>2, <3>1, <3>2, ExplainsGrants
  <2>4. e.allowed \subseteq Actions
    BY <1>5, <1>6
  <2>. QED  BY <1>4, <2>3, <2>4
<1>. QED  BY <1>7, <1>8

\* The shortcuts answer as the decision would.
LEMMA Shortcuts ==
    ASSUME TypeOK, NEW rs \in SUBSET Live, NEW repo, NEW image \in Images, NEW a \in Actions
    PROVE  LET d == Decide(rs, repo) IN
           /\ CoversAll(d, a) => Allows(d, image, a)
           /\ Allows(d, image, a) => ~BlocksEverything(d)
           /\ UnrestrictedEverywhere(rs) => d.unrestricted
<1> DEFINE d == Decide(rs, repo)
<1>1. \A c \in d.roles : \E r \in rs : c = Compiled(r, repo)
  BY DEF Decide
<1>2. ASSUME NEW c \in d.roles, GrantsEverything(c, a) PROVE Grants(c, image, a)
  <2>1. \A x \in c.allow \union c.deny : x.image \in Patterns
    BY <1>1 DEF Compiled, RulesFor, TypeOK, Rule
  <2>. QED  BY <1>2, <2>1, UniversalAssumption DEF GrantsEverything, Grants, Covers
<1>3. CoversAll(d, a) => Allows(d, image, a)
  BY <1>2 DEF CoversAll, Allows
<1>4. Allows(d, image, a) => ~BlocksEverything(d)
  BY DEF Allows, BlocksEverything, Grants
<1>5. UnrestrictedEverywhere(rs) => d.unrestricted
  BY DEF UnrestrictedEverywhere, Decide, Silent, RulesFor
<1>. QED  BY <1>3, <1>4, <1>5

LEMMA DecisionsSound == TypeOK => ExplanationAgrees /\ ShortcutsSound
<1> SUFFICES ASSUME TypeOK PROVE ExplanationAgrees /\ ShortcutsSound
  OBVIOUS
<1>1. \A u \in DOMAIN users : users[u] \in SUBSET Live
  BY DEF TypeOK
<1>2. ExplanationAgrees
  BY <1>1, Agreement DEF ExplanationAgrees
<1>3. \A u \in DOMAIN users, repo \in Repos, image \in Images, a \in Actions :
        LET d == Decide(users[u], repo) IN
        /\ CoversAll(d, a) => Allows(d, image, a)
        /\ Allows(d, image, a) => ~BlocksEverything(d)
        /\ UnrestrictedEverywhere(users[u]) => d.unrestricted
  BY <1>1, Shortcuts
<1>4. \A u \in DOMAIN users, a \in Actions :
        FilterByRepo(users[u], Repos \X Images, TRUE, a)
            \subseteq FilterByRepo(users[u], Repos \X Images, FALSE, a)
  BY <1>3 DEF FilterByRepo
<1>. QED  BY <1>2, <1>3, <1>4 DEF ShortcutsSound

-----------------------------------------------------------------------------
(* Members.                                                                *)

\* What a request holds is of its type.
RequestsTyped ==
    /\ request = [r \in Requests |-> request[r]]
    /\ \A r \in Requests :
         /\ request[r].kind = "create" => request[r].project \in Projects
         /\ request[r].kind = "add" => request[r].role \in ProjectRoles
         /\ request[r].kind = "update" => request[r].role \in ProjectRoles
         /\ request[r].kind = "connect" => request[r].key \in Registered

\* Membership ids come from a sequence.
IdsUnique ==
    /\ nextId \in Nat \ {0}
    /\ \A m \in members : m.id < nextId
    /\ \A m, n \in members : m.id = n.id => m = n

Known == projects \subseteq Projects /\ DOMAIN accounts \subseteq Users

\* What an update or removal read was read at once: the row and the administrators
\* of its project, of whom another was left if the row is to stop being one.
ReadTogether ==
    \A r \in Requests : request[r].kind \in {"update", "remove"} =>
        LET q == request[r] IN
        /\ \A m \in q.admins : m.role = "admin" /\ (m.id = q.was.id => m = q.was)
        /\ q.was.role = "admin" /\ (q.kind = "update" => q.role # "admin") =>
              \E m \in q.admins : m # q.was

MembersInv == MembersTyped /\ RequestsTyped /\ IdsUnique /\ Known /\ ReadTogether

LEMMA MembersStart == MembersInit => MembersInv
  BY DEF MembersInit, MembersInv, MembersTyped, RequestsTyped, IdsUnique, Known,
     ReadTogether, NoRequest

\* A request's record goes into the table and changes nothing else.
LEMMA StartKeeps ==
    ASSUME MembersInv, NEW r \in Requests, NEW rec, Start(r, rec),
           rec.kind = "create" => rec.project \in Projects,
           rec.kind = "add" => rec.role \in ProjectRoles,
           rec.kind = "update" => rec.role \in ProjectRoles,
           rec.kind = "connect" => rec.key \in Registered,
           rec.kind \in {"update", "remove"} =>
             /\ \A m \in rec.admins : m.role = "admin" /\ (m.id = rec.was.id => m = rec.was)
             /\ rec.was.role = "admin" /\ (rec.kind = "update" => rec.role # "admin") =>
                   \E m \in rec.admins : m # rec.was
    PROVE  MembersInv'
<1>1. /\ request' = [request EXCEPT ![r] = rec]
      /\ UNCHANGED <<accounts, projects, members, integrations, nextId>>
  BY DEF Start
<1>2. request'[r] = rec /\ \A q \in Requests \ {r} : request'[q] = request[q]
  BY <1>1 DEF MembersInv, RequestsTyped
<1>3. request' = [q \in Requests |-> request'[q]]
  BY <1>1 DEF MembersInv, RequestsTyped
<1>4. RequestsTyped'
  BY <1>2, <1>3 DEF MembersInv, RequestsTyped
<1>5. ReadTogether'
  BY <1>2 DEF MembersInv, ReadTogether
<1>. QED  BY <1>1, <1>4, <1>5 DEF MembersInv, MembersTyped, IdsUnique, Known, Member

LEMMA AskKeeps ==
    ASSUME MembersInv, NEW r \in Requests,
           \/ AskCreateProject(r) \/ AskDeleteProject(r) \/ AskAddMember(r)
           \/ AskUpdateMember(r) \/ AskRemoveMember(r) \/ AskConnect(r)
    PROVE  MembersInv'
<1>1. CASE AskCreateProject(r)
  <2>1. PICK u \in DOMAIN accounts, p \in Projects \ projects :
          Start(r, [kind |-> "create", project |-> p, user |-> u])
    BY <1>1 DEF AskCreateProject
  <2>. QED  BY <2>1, StartKeeps
<1>2. CASE AskDeleteProject(r)
  <2>1. PICK p : Start(r, [kind |-> "delete", project |-> p])
    BY <1>2 DEF AskDeleteProject
  <2>. QED  BY <2>1, StartKeeps
<1>3. CASE AskAddMember(r)
  <2>1. PICK p \in projects, v \in DOMAIN accounts, role \in ProjectRoles :
          Start(r, [kind |-> "add", project |-> p, user |-> v, role |-> role])
    BY <1>3 DEF AskAddMember
  <2>. QED  BY <2>1, StartKeeps
<1>4. CASE AskUpdateMember(r)
  <2>1. PICK m \in members, role \in ProjectRoles :
          /\ m.role = "admin" /\ role # "admin" => OtherAdmins(m) # {}
          /\ Start(r, [kind |-> "update", was |-> m, role |-> role,
                       admins |-> AdminsOf(m.project)])
    BY <1>4 DEF AskUpdateMember
  <2>2. \A n \in AdminsOf(m.project) : n.role = "admin" /\ (n.id = m.id => n = m)
    BY DEF AdminsOf, MembersInv, IdsUnique
  <2>3. OtherAdmins(m) # {} => \E n \in AdminsOf(m.project) : n # m
    BY DEF OtherAdmins
  <2>. QED  BY <2>1, <2>2, <2>3, StartKeeps
<1>5. CASE AskRemoveMember(r)
  <2>1. PICK m \in members :
          /\ m.role = "admin" => OtherAdmins(m) # {}
          /\ Start(r, [kind |-> "remove", was |-> m, admins |-> AdminsOf(m.project)])
    BY <1>5 DEF AskRemoveMember
  <2>2. \A n \in AdminsOf(m.project) : n.role = "admin" /\ (n.id = m.id => n = m)
    BY DEF AdminsOf, MembersInv, IdsUnique
  <2>3. OtherAdmins(m) # {} => \E n \in AdminsOf(m.project) : n # m
    BY DEF OtherAdmins
  <2>. QED  BY <2>1, <2>2, <2>3, StartKeeps
<1>6. CASE AskConnect(r)
  <2>1. PICK p \in projects, k \in Keys :
          k \in Registered /\ Start(r, [kind |-> "connect", project |-> p, key |-> k])
    BY <1>6 DEF AskConnect
  <2>. QED  BY <2>1, StartKeeps
<1>. QED  BY <1>1, <1>2, <1>3, <1>4, <1>5, <1>6

\* A request that ends holds nothing, and the others what they held.
LEMMA EndKeeps ==
    ASSUME MembersInv, NEW r \in Requests, request' = [request EXCEPT ![r] = NoRequest]
    PROVE  RequestsTyped' /\ ReadTogether' /\ request'[r] = NoRequest
<1>1. request'[r] = NoRequest /\ \A q \in Requests \ {r} : request'[q] = request[q]
  BY DEF MembersInv, RequestsTyped
<1>2. request' = [q \in Requests |-> request'[q]]
  BY DEF MembersInv, RequestsTyped
<1>3. NoRequest.kind = "idle"
  BY DEF NoRequest
<1>4. RequestsTyped'
  BY <1>1, <1>2, <1>3 DEF MembersInv, RequestsTyped
<1>5. ReadTogether'
  BY <1>1, <1>3 DEF MembersInv, ReadTogether
<1>. QED  BY <1>1, <1>4, <1>5

Rows == MembersTyped /\ IdsUnique /\ Known

\* The unique key, the foreign keys and the sequence see to a new row.
LEMMA InsertKeeps ==
    ASSUME Rows, nextId <= MaxMembers, NEW p, NEW u, NEW role \in ProjectRoles,
           projects \subseteq projects', projects' \subseteq Projects,
           Insert(p, u, role), UNCHANGED <<accounts, integrations>>
    PROVE  Rows'
<1>1. CASE p \in projects' /\ u \in DOMAIN accounts /\ Membership(p, u) = {}
  <2> DEFINE row == [id |-> nextId, project |-> p, user |-> u, role |-> role]
  <2>1. members' = members \union {row} /\ nextId' = nextId + 1
    BY <1>1 DEF Insert
  <2>2. /\ row \in Member /\ row.id = nextId /\ row.project = p /\ row.user = u
    BY <1>1, MaxMembersAssumption DEF Rows, Known, IdsUnique, Member, Ids
  <2>3. \A m \in members : ~(m.project = p /\ m.user = u)
    BY <1>1 DEF Membership
  <2> HIDE DEF row
  <2>4. IdsUnique'
    BY <2>1, <2>2 DEF Rows, IdsUnique, MembersTyped, Member, Ids
  <2>5. MembersTyped'
    <3>1. members' \subseteq Member
      BY <2>1, <2>2 DEF Rows, MembersTyped
    <3>2. \A m \in members' : m.project \in projects' /\ m.user \in DOMAIN accounts'
      BY <1>1, <2>1, <2>2 DEF Rows, MembersTyped
    <3>3. \A m, n \in members' : m.project = n.project /\ m.user = n.user => m = n
      BY <2>1, <2>2, <2>3 DEF Rows, MembersTyped
    <3>. QED  BY <3>1, <3>2, <3>3 DEF Rows, MembersTyped
  <2>. QED  BY <2>4, <2>5 DEF Rows, Known
<1>2. CASE ~(p \in projects' /\ u \in DOMAIN accounts /\ Membership(p, u) = {})
  <2>1. UNCHANGED <<members, nextId>>
    BY <1>2 DEF Insert
  <2>. QED  BY <2>1 DEF Rows, MembersTyped, IdsUnique, Known
<1>. QED  BY <1>1, <1>2

\* A member's new role changes one row.
LEMMA UpdateKeeps ==
    ASSUME Rows, NEW r \in Requests, UpdateMember(r), request[r].role \in ProjectRoles,
           UNCHANGED accounts
    PROVE  Rows'
<1>1. CASE request[r].role = request[r].was.role
  BY <1>1 DEF UpdateMember, Rows, MembersTyped, IdsUnique, Known
<1>2. CASE request[r].role # request[r].was.role
  <2> DEFINE new(m) == [m EXCEPT !.role = request[r].role]
  <2>1. /\ members' = (members \ Row(r)) \union {new(m) : m \in Row(r)}
        /\ Row(r) \subseteq members /\ UNCHANGED <<projects, integrations, nextId>>
    BY <1>2 DEF UpdateMember, Row
  <2>2. \A m \in members : /\ new(m) \in Member /\ new(m).id = m.id
                            /\ new(m).project = m.project /\ new(m).user = m.user
    BY DEF Rows, MembersTyped, Member
  <2> HIDE DEF new
  <2>3. \A n \in members' : \E m \in members :
          /\ n = m \/ n = new(m)
          /\ n.id = m.id /\ n.project = m.project /\ n.user = m.user
          /\ m \in Row(r) <=> n = new(m) /\ m \in Row(r)
    BY <2>1, <2>2
  <2>4. \A m, n \in members' : m.id = n.id => m = n
    <3> SUFFICES ASSUME NEW m \in members', NEW n \in members', m.id = n.id PROVE m = n
      OBVIOUS
    <3>1. \A i, j \in members : i.id = j.id => i = j
      BY DEF Rows, IdsUnique
    <3>2. \A i \in members : i.id = request[r].was.id <=> i \in Row(r)
      BY DEF Row
    <3>3. CASE m.id = request[r].was.id
      <4>1. \E i \in Row(r) : m = new(i)
        BY <2>1, <2>2, <3>2, <3>3
      <4>2. \E j \in Row(r) : n = new(j)
        BY <2>1, <2>2, <3>2, <3>3
      <4>. QED  BY <2>1, <3>1, <3>2, <4>1, <4>2
    <3>4. CASE m.id # request[r].was.id
      BY <2>1, <2>2, <3>1, <3>2, <3>4
    <3>. QED  BY <3>3, <3>4
  <2>5. \A m, n \in members' : m.project = n.project /\ m.user = n.user => m = n
    <3> SUFFICES ASSUME NEW m \in members', NEW n \in members',
                        m.project = n.project, m.user = n.user
                 PROVE  m = n
      OBVIOUS
    <3>1. PICK i \in members : m.id = i.id /\ m.project = i.project /\ m.user = i.user
      BY <2>3
    <3>2. PICK j \in members : n.id = j.id /\ n.project = j.project /\ n.user = j.user
      BY <2>3
    <3>3. i = j
      BY <3>1, <3>2 DEF Rows, MembersTyped
    <3>. QED  BY <2>4, <3>1, <3>2, <3>3
  <2>6. /\ members' \subseteq Member
        /\ \A n \in members' : /\ n.project \in projects /\ n.user \in DOMAIN accounts
                                /\ n.id < nextId
    BY <2>1, <2>2 DEF Rows, MembersTyped, IdsUnique
  <2>. QED  BY <2>1, <2>4, <2>5, <2>6 DEF Rows, MembersTyped, IdsUnique, Known
<1>. QED  BY <1>1, <1>2

\* Rows and projects that go take what refers to them along.
LEMMA FewerKeeps ==
    ASSUME Rows, members' \subseteq members, projects' \subseteq projects,
           integrations' \subseteq integrations, nextId' = nextId,
           accounts' \in [DOMAIN accounts' -> [admin : BOOLEAN, perms : SUBSET Perms]],
           DOMAIN accounts' \subseteq DOMAIN accounts,
           \A m \in members' : m.project \in projects' /\ m.user \in DOMAIN accounts',
           \A i \in integrations' : i[1] \in projects'
    PROVE  Rows'
<1>1. integrations' \subseteq projects' \X Registered
  BY DEF Rows, MembersTyped
<1>. QED  BY <1>1 DEF Rows, MembersTyped, IdsUnique, Known

LEMMA CommitKeeps ==
    ASSUME MembersInv, NEW r \in Requests, Commit(r)
    PROVE  MembersInv'
<1>1. Rows /\ UNCHANGED accounts
  BY DEF MembersInv, Rows, Commit
<1>2. CASE CreateProject(r)
  <2>1. /\ nextId <= MaxMembers /\ projects' = projects \union {request[r].project}
        /\ Insert(request[r].project, request[r].user, "admin") /\ UNCHANGED integrations
        /\ request[r].project \in Projects /\ "admin" \in ProjectRoles
    BY <1>2 DEF CreateProject, MembersInv, RequestsTyped, ProjectRoles, Ranks
  <2>2. projects \subseteq projects' /\ projects' \subseteq Projects
    BY <1>1, <2>1 DEF Rows, Known
  <2>. QED  BY <1>1, <2>1, <2>2, InsertKeeps, EndKeeps DEF Commit, MembersInv, Rows
<1>3. CASE AddMember(r)
  <2>1. /\ nextId <= MaxMembers /\ UNCHANGED <<projects, integrations>>
        /\ Insert(request[r].project, request[r].user, request[r].role)
        /\ request[r].role \in ProjectRoles
    BY <1>3 DEF AddMember, MembersInv, RequestsTyped
  <2>. QED  BY <1>1, <2>1, InsertKeeps, EndKeeps DEF Commit, MembersInv, Rows, Known
<1>4. CASE UpdateMember(r)
  <2>1. request[r].role \in ProjectRoles
    BY <1>4 DEF UpdateMember, MembersInv, RequestsTyped
  <2>. QED  BY <1>1, <1>4, <2>1, UpdateKeeps, EndKeeps DEF Commit, MembersInv, Rows
<1>5. CASE CreateProjectFails(r) \/ DeleteProject(r) \/ RemoveMember(r)
  <2>1. /\ members' \subseteq members /\ projects' \subseteq projects
        /\ integrations' \subseteq integrations /\ nextId' = nextId
        /\ \A m \in members' : m.project \in projects' /\ m.user \in DOMAIN accounts'
        /\ \A i \in integrations' : i[1] \in projects'
    BY <1>1, <1>5 DEF CreateProjectFails, DeleteProject, RemoveMember, Rows, MembersTyped
  <2>. QED  BY <1>1, <2>1, FewerKeeps, EndKeeps DEF Commit, MembersInv, Rows, MembersTyped
<1>6. CASE ConnectIntegration(r)
  <2>1. integrations' \subseteq projects \X Registered
    BY <1>1, <1>6 DEF ConnectIntegration, MembersInv, RequestsTyped, Rows, MembersTyped
  <2>2. Rows'
    BY <1>1, <1>6, <2>1 DEF ConnectIntegration, Rows, MembersTyped, IdsUnique, Known
  <2>. QED  BY <2>2, EndKeeps DEF Commit, MembersInv, Rows
<1>. QED  BY <1>2, <1>3, <1>4, <1>5, <1>6 DEF Commit

LEMMA MembersStep == MembersInv /\ [MembersNext]_membersVars => MembersInv'
<1> SUFFICES ASSUME MembersInv, [MembersNext]_membersVars PROVE MembersInv'
  OBVIOUS
<1>1. CASE UNCHANGED membersVars
  BY <1>1 DEF membersVars, MembersInv, MembersTyped, RequestsTyped, IdsUnique, Known,
     ReadTogether
<1>2. CASE ChangeAccount \/ DeleteAccount
  <2>1. /\ UNCHANGED <<projects, integrations, nextId, request>> /\ members' \subseteq members
        /\ accounts' \in [DOMAIN accounts' -> [admin : BOOLEAN, perms : SUBSET Perms]]
        /\ DOMAIN accounts' \subseteq DOMAIN accounts
        /\ \A m \in members' : m.user \in DOMAIN accounts'
    <3>1. accounts \in [DOMAIN accounts -> [admin : BOOLEAN, perms : SUBSET Perms]]
      BY DEF MembersInv, MembersTyped
    <3>2. CASE ChangeAccount
      BY <3>1, <3>2 DEF ChangeAccount, MembersInv, MembersTyped
    <3>3. CASE DeleteAccount
      BY <3>1, <3>3 DEF DeleteAccount, MembersInv, MembersTyped
    <3>. QED  BY <1>2, <3>2, <3>3
  <2>2. Rows'
    BY <2>1, FewerKeeps DEF MembersInv, Rows, MembersTyped
  <2>3. RequestsTyped' /\ ReadTogether'
    BY <2>1 DEF MembersInv, RequestsTyped, ReadTogether
  <2>. QED  BY <2>2, <2>3 DEF MembersInv, Rows
<1>. QED  BY <1>1, <1>2, AskKeeps, CommitKeeps DEF MembersNext

\* The projects listed are those that open.
LEMMA ListingSound == MembersTyped => ListingAgrees
<1> SUFFICES ASSUME MembersTyped, NEW u \in DOMAIN accounts, NEW p \in projects
             PROVE  p \in ListProjects(u) <=> RequireProjectAccess(u, p, "viewer")
  BY DEF ListingAgrees, ListProjects
<1>1. \A m \in members : Meets(m.role, "viewer")
  BY DEF MembersTyped, Member, Meets, ProjectRoles, Ranks
<1>. QED  BY <1>1 DEF ListProjects, AccessibleProjectIds, RequireProjectAccess,
             AssertProjectAccess, Membership

\* The last administrator of a project that stays goes with a request that had seen
\* other administrators.
LEMMA LostToRace ==
    ASSUME MembersInv, [MembersNext]_membersVars, NEW p \in Projects,
           AdminsOf(p) # {}, AdminsOf(p)' = {}, p \in projects', accounts' = accounts
    PROVE  \E r \in Requests :
              /\ request[r].kind \in {"update", "remove"}
              /\ request'[r] = NoRequest
              /\ request[r].admins # AdminsOf(p)
<1>1. PICK a \in members : a.project = p /\ a.role = "admin" /\ a \notin members'
  BY DEF AdminsOf
<1>2. ~DeleteAccount
  <2> SUFFICES ASSUME DeleteAccount PROVE FALSE
    OBVIOUS
  <2>1. PICK u \in DOMAIN accounts : accounts' = [v \in DOMAIN accounts \ {u} |-> accounts[v]]
    BY DEF DeleteAccount
  <2>2. u \notin DOMAIN accounts'
    BY <2>1
  <2>. QED  BY <2>2
<1>3. PICK r \in Requests : Commit(r)
  BY <1>1, <1>2 DEF MembersNext, membersVars, AskCreateProject, AskDeleteProject,
     AskAddMember, AskUpdateMember, AskRemoveMember, AskConnect, Start, ChangeAccount
<1>4. UpdateMember(r) \/ RemoveMember(r)
  <2>1. ~CreateProject(r) /\ ~AddMember(r)
    BY <1>1 DEF CreateProject, AddMember, Insert
  <2>2. ~DeleteProject(r)
    BY <1>1 DEF DeleteProject
  <2>. QED  BY <1>1, <1>3, <2>1, <2>2 DEF Commit, CreateProjectFails, ConnectIntegration
<1> DEFINE q == request[r]
<1>5. q.kind \in {"update", "remove"} /\ request'[r] = NoRequest
  BY <1>3, <1>4, EndKeeps DEF Commit, UpdateMember, RemoveMember
<1>6. a.id = q.was.id /\ members \subseteq members' \union Row(r)
  BY <1>1, <1>4 DEF UpdateMember, RemoveMember, Row
<1>7. \A m \in AdminsOf(p) : m = a
  <2> SUFFICES ASSUME NEW m \in AdminsOf(p) PROVE m = a
    OBVIOUS
  <2>1. m \in Row(r)
    BY <1>6 DEF AdminsOf
  <2>. QED  BY <1>1, <1>6, <2>1 DEF Row, MembersInv, IdsUnique
<1>8. q.kind = "update" => q.role # "admin" /\ q.role # q.was.role
  <2> SUFFICES ASSUME q.kind = "update", q.role = "admin" \/ q.role = q.was.role PROVE FALSE
    OBVIOUS
  <2>1. UpdateMember(r)
    BY <1>4 DEF RemoveMember
  <2>2. CASE q.role = q.was.role
    BY <1>1, <2>1, <2>2 DEF UpdateMember
  <2>3. CASE q.role = "admin" /\ q.role # q.was.role
    <3>1. [a EXCEPT !.role = q.role] \in members'
      BY <1>1, <1>6, <2>1, <2>3 DEF UpdateMember, Row
    <3>2. [a EXCEPT !.role = q.role] \in AdminsOf(p)'
      BY <1>1, <2>3, <3>1 DEF AdminsOf, MembersInv, MembersTyped, Member
    <3>. QED  BY <3>2
  <2>. QED  BY <2>2, <2>3
<1>9. q.admins # AdminsOf(p)
  <2> SUFFICES ASSUME q.admins = AdminsOf(p) PROVE FALSE
    OBVIOUS
  <2>1. a \in q.admins
    BY <1>1 DEF AdminsOf
  <2>2. a = q.was /\ q.was.role = "admin"
    BY <1>1, <1>5, <1>6, <2>1 DEF MembersInv, ReadTogether
  <2>3. \E m \in q.admins : m # q.was
    BY <1>5, <1>8, <2>2 DEF MembersInv, ReadTogether
  <2>. QED  BY <1>7, <2>2, <2>3
<1>. QED  BY <1>5, <1>9

-----------------------------------------------------------------------------
(* Sessions.                                                               *)

\* When the user was last seen or gave a password.
Sign == Bigger(lastSeen, signedIn)

\* Nobody is seen, or signs in, in the future.
SeenInThePast ==
    /\ {now, lastSeen, signedIn} \subseteq Nat
    /\ lastSeen <= now /\ signedIn <= now
    /\ {access, refresh} \subseteq [Browsers -> Nat]

\* What IdleMeansSignIn rests on: the expiry of an access cookie, valid or not,
\* is never further from the last sign of the user than the two limits.
Tethered == \A b \in Browsers : access[b] <= Sign + IdleTimeout + AccessTTL

SessionInv == SeenInThePast /\ Tethered

LEMMA Limits == AccessTTL \in Nat /\ RefreshTTL \in Nat /\ IdleTimeout \in Nat
BY TimesAssumption

LEMMA SignIsASign ==
    ASSUME SeenInThePast
    PROVE  Sign \in Nat /\ lastSeen <= Sign /\ signedIn <= Sign /\ Sign <= now
BY DEF SeenInThePast, Sign, Bigger

\* A step that gives no browser a later access cookie keeps the tether, as the
\* last sign of the user only gets later.
LEMMA NoLaterCookie ==
    ASSUME SessionInv, SeenInThePast', lastSeen' >= lastSeen, signedIn' >= signedIn,
           \A b \in Browsers : access'[b] \in {0, access[b]}
    PROVE  Tethered'
<1>1. Sign \in Nat /\ Sign' \in Nat /\ Sign' >= Sign
    BY DEF SessionInv, SeenInThePast, Sign, Bigger
<1>2. \A b \in Browsers : access[b] \in Nat /\ access[b] <= Sign + IdleTimeout + AccessTTL
    BY DEF SessionInv, SeenInThePast, Tethered
<1> QED  BY <1>1, <1>2, Limits DEF Tethered

LEMMA SessionsStep ==
    ASSUME SessionInv, [SessionsNext]_sessionsVars
    PROVE  SessionInv'
<1> USE DEF cookies, account
<1>1. SeenInThePast /\ Tethered
    BY DEF SessionInv
<1>2. ASSUME NEW b \in Browsers, Login(b) PROVE SessionInv'
    <2>1. SeenInThePast'
        BY <1>1, <1>2, Limits DEF SeenInThePast, Login
    <2>2. Sign' \in Nat /\ Sign' = now /\ Sign <= now /\ Sign \in Nat
        BY <1>1, <1>2, SignIsASign DEF SeenInThePast, Sign, Bigger, Login
    <2>3. \A d \in Browsers : access'[d] \in Nat /\ access'[d] <= Sign' + IdleTimeout + AccessTTL
        BY <1>1, <1>2, <2>2, Limits DEF SeenInThePast, Tethered, Login
    <2> QED  BY <2>1, <2>3 DEF SessionInv, Tethered
<1>3. ASSUME NEW b \in Browsers, Logout(b) \/ RefreshWhenIdle(b) PROVE SessionInv'
    <2>1. SeenInThePast' /\ UNCHANGED <<lastSeen, signedIn>>
        BY <1>1, <1>3 DEF SeenInThePast, Logout, RefreshWhenIdle, sessionsVars, account, cookies
    <2>2. \A d \in Browsers : access'[d] \in {0, access[d]}
        BY <1>1, <1>3 DEF SeenInThePast, Logout, RefreshWhenIdle, sessionsVars, account, cookies
    <2> QED  BY <1>1, <2>1, <2>2, NoLaterCookie DEF SessionInv, SeenInThePast
<1>4. ASSUME NEW b \in Browsers, Request(b) PROVE SessionInv'
    <2>1. SeenInThePast' /\ lastSeen' >= lastSeen /\ UNCHANGED <<signedIn, access>>
        BY <1>1, <1>4 DEF SeenInThePast, Request
    <2> QED  BY <1>1, <2>1, NoLaterCookie DEF SessionInv, SeenInThePast
<1>5. ASSUME NEW b \in Browsers, Refresh(b) PROVE SessionInv'
    <2>1. SeenInThePast' /\ Sign' = Sign
        BY <1>1, <1>5, Limits DEF SeenInThePast, Refresh, Sign
    <2>2. now <= Sign + IdleTimeout /\ Sign \in Nat /\ now \in Nat
        <3>1. now <= lastSeen + IdleTimeout
            BY <1>1, <1>5, Limits DEF Refresh, Idle, SeenInThePast
        <3> QED  BY <1>1, <3>1, SignIsASign, Limits DEF SeenInThePast
    <2>3. \A d \in Browsers : access'[d] <= Sign + IdleTimeout + AccessTTL
        BY <1>1, <1>5, <2>2, Limits DEF SeenInThePast, Tethered, Refresh
    <2> QED  BY <2>1, <2>3 DEF SessionInv, Tethered
<1>6. CASE \/ \E t \in ApiTokens : CreateToken(t) \/ RevokeToken(t) \/ UseToken(t)
           \/ EditUser \/ UNCHANGED sessionsVars
    <2>1. UNCHANGED <<now, lastSeen, signedIn, access, refresh>>
        BY <1>6 DEF CreateToken, RevokeToken, UseToken, EditUser, sessionsVars
    <2> QED  BY <1>1, <2>1 DEF SessionInv, SeenInThePast, Tethered, Sign
<1>7. CASE Tick
    <2>1. SeenInThePast' /\ UNCHANGED <<lastSeen, signedIn, access>>
        BY <1>1, <1>7 DEF SeenInThePast, Tick
    <2> QED  BY <1>1, <2>1, NoLaterCookie DEF SessionInv, SeenInThePast
<1> QED  BY <1>2, <1>3, <1>4, <1>5, <1>6, <1>7 DEF SessionsNext

\* Whoever holds a working session was seen, or gave a password, within the
\* idle timeout and the life of one access cookie (routers/auth.py's refresh
\* looks at last_seen_at, not at the cookie it replaces): for every number of
\* browsers refreshing side by side, and every choice of the three limits.
THEOREM IdleMeansSignInCorrect == SessionsSpec => []IdleMeansSignIn
<1>1. SessionsInit => SessionInv
    BY Limits DEF SessionsInit, SessionInv, SeenInThePast, Tethered, Sign, Bigger
<1>2. SessionInv => IdleMeansSignIn
    <2> SUFFICES ASSUME SessionInv, NEW b \in Browsers, Valid(access[b])
                 PROVE  now - Bigger(lastSeen, signedIn) <= IdleTimeout + AccessTTL
        BY DEF IdleMeansSignIn
    <2>1. Sign \in Nat /\ now \in Nat /\ access[b] \in Nat
        BY SignIsASign DEF SessionInv, SeenInThePast
    <2>2. now < access[b] /\ access[b] <= Sign + IdleTimeout + AccessTTL
        BY <2>1 DEF SessionInv, Tethered, Valid
    <2> QED  BY <2>1, <2>2, Limits DEF Sign
<1> QED  BY <1>1, <1>2, SessionsStep, PTL DEF SessionsSpec
-----------------------------------------------------------------------------
(* The login throttle.                                                     *)

\* How many attempts are at a place.
Those(p)  == {c \in Clients : at[c] = p}
Num(p) == Cardinality(Those(p))

Placed == at \in [Clients -> Places] /\ failures \in Nat /\ wrong \in Nat

\* While Redis answers: each failure beyond the threshold has an attempt that
\* is about to lock the account, or to forget the failures having locked it;
\* only a locked account has one of the latter.  While the account is open,
\* each wrong password is among the failures or about to be; while it is
\* locked, only the attempts past the lock's check can still be wrong.
Accounted ==
    /\ up
    /\ failures <= Threshold - 1 + Num("lock") + Num("unfail")
    /\ \A c \in Clients : at[c] = "unfail" => locked
    /\ ~locked => wrong <= failures + Num("count")
    /\ locked => wrong + Num("verify") <= Threshold - 1 + Cardinality(Clients)

ThrottleInv == Placed /\ (outages = 0 => Accounted)


LEMMA NumIsNat ==
    ASSUME NEW p
    PROVE  IsFiniteSet(Those(p)) /\ Num(p) \in Nat /\ Num(p) <= Cardinality(Clients)
<1>1. Those(p) \subseteq Clients /\ IsFiniteSet(Clients)
    BY ClientsAssumption DEF Those
<1> QED  BY <1>1, FS_Subset, FS_CardinalityType DEF Num

\* An attempt that moves leaves one place and arrives at another.
LEMMA MoveCounts ==
    ASSUME Placed, NEW c \in Clients, NEW from \in Places, NEW to \in Places,
           at[c] = from, from # to, Goto(c, to)
    PROVE  /\ at' \in [Clients -> Places]
           /\ Num(from)' = Num(from) - 1 /\ Num(to)' = Num(to) + 1
           /\ \A p \in Places \ {from, to} : Num(p)' = Num(p)
           /\ \A p \in Places : Num(p) \in Nat /\ Num(p)' \in Nat
<1>1. /\ Those(from)' = Those(from) \ {c} /\ c \in Those(from)
      /\ Those(to)' = Those(to) \union {c} /\ c \notin Those(to)
      /\ \A p \in Places \ {from, to} : Those(p)' = Those(p)
    BY DEF Placed, Goto, Those
<1>2. Num(from)' = Num(from) - 1
    <2>1. Cardinality(Those(from) \ {c}) = Cardinality(Those(from)) - 1
        BY <1>1, NumIsNat, FS_RemoveElement
    <2> QED  BY <1>1, <2>1 DEF Num
<1>3. Num(to)' = Num(to) + 1
    BY <1>1, NumIsNat, FS_AddElement DEF Num
<1>4. \A p \in Places : Num(p) \in Nat /\ Num(p)' \in Nat
    <2>1. \A p \in Places : Num(p) \in Nat
        BY NumIsNat
    <2>2. \A p \in Places : Those(p)' \subseteq Clients
        BY DEF Those
    <2>3. \A p \in Places : Cardinality(Those(p)') \in Nat
        BY <2>2, ClientsAssumption, FS_Subset, FS_CardinalityType
    <2> QED  BY <2>1, <2>3 DEF Num
<1>5. at' \in [Clients -> Places]
    BY DEF Placed, Goto
<1> QED  BY <1>1, <1>2, <1>3, <1>4, <1>5 DEF Num

LEMMA Disjoint ==
    ASSUME NEW S, NEW T, IsFiniteSet(S), IsFiniteSet(T), S \cap T = {}
    PROVE  IsFiniteSet(S \union T) /\ Cardinality(S \union T) = Cardinality(S) + Cardinality(T)
<1>1. /\ IsFiniteSet(S \union T)
      /\ Cardinality(S \union T) = Cardinality(S) + Cardinality(T) - Cardinality(S \cap T)
    BY FS_Union
<1>2. Cardinality(S) \in Nat /\ Cardinality(T) \in Nat /\ Cardinality(S \cap T) = 0
    BY FS_CardinalityType, FS_EmptySet
<1> QED  BY <1>1, <1>2

\* The attempts at different places are different attempts.
LEMMA PlacesAreApart ==
    Num("verify") + Num("count") + Num("lock") + Num("unfail") <= Cardinality(Clients)
<1> DEFINE A == Those("verify") \union Those("count")
           B == Those("lock") \union Those("unfail")
<1>1. /\ IsFiniteSet(Those("verify")) /\ IsFiniteSet(Those("count"))
      /\ IsFiniteSet(Those("lock")) /\ IsFiniteSet(Those("unfail"))
    BY NumIsNat
<1>2. IsFiniteSet(A) /\ IsFiniteSet(B)
    BY <1>1, FS_Union
<1>3. /\ Those("verify") \cap Those("count") = {} /\ Those("lock") \cap Those("unfail") = {}
      /\ A \cap B = {} /\ A \union B \subseteq Clients
    BY DEF Those
<1> HIDE DEF A, B
<1>4. IsFiniteSet(A \union B) /\ Cardinality(A \union B) = Cardinality(A) + Cardinality(B)
    BY <1>2, <1>3, Disjoint
<1>5. /\ Cardinality(A) = Num("verify") + Num("count")
      /\ Cardinality(B) = Num("lock") + Num("unfail")
    BY <1>1, <1>3, Disjoint DEF A, B, Num
<1>6. Cardinality(A \union B) <= Cardinality(Clients)
    BY <1>3, ClientsAssumption, FS_Subset
<1>7. /\ Num("verify") \in Nat /\ Num("count") \in Nat
      /\ Num("lock") \in Nat /\ Num("unfail") \in Nat
    BY NumIsNat
<1> QED  BY <1>4, <1>5, <1>6, <1>7

\* The numbers the arithmetic below is about.
LEMMA Numbers ==
    /\ Threshold \in Nat /\ Threshold > 0 /\ Cardinality(Clients) \in Nat
    /\ Num("verify") \in Nat /\ Num("count") \in Nat
    /\ Num("lock") \in Nat /\ Num("unfail") \in Nat
BY LimitsAssumption, ClientsAssumption, FS_CardinalityType, NumIsNat


\* The start, from which everything is counted again.
LEMMA FreshIsAccounted ==
    ASSUME up, failures = 0, wrong = 0, Placed, \A c \in Clients : at[c] = "unfail" => locked
    PROVE  Accounted
BY Numbers, PlacesAreApart DEF Accounted

\* The attempts that matter for the account stay where they are, but that one
\* may come to verify while the account is open.
LEMMA OpenMovesKeep ==
    ASSUME ThrottleInv, outages = 0, NEW c \in Clients,
           Throttle(c) \/ AssertNotLocked(c) \/ VerifyRight(c) \/ Reset(c)
    PROVE  Accounted' /\ Placed'
<1>1. Placed /\ Accounted /\ UNCHANGED <<failures, locked, up, wrong>>
    BY DEF ThrottleInv, Throttle, AssertNotLocked, VerifyRight, Reset
<1>2. PICK from \in Places, to \in Places :
        /\ at[c] = from /\ Goto(c, to)
        /\ from \notin {"count", "lock", "unfail"} /\ to \notin {"count", "lock", "unfail"}
        /\ to = "verify" => ~locked /\ from # "verify"
    BY <1>1 DEF Throttle, AssertNotLocked, VerifyRight, Reset, Places, Accounted
<1>3. \A d \in Clients : at'[d] = "unfail" => locked'
    BY <1>1, <1>2 DEF Goto, Placed, Accounted
<1>4. CASE from = to
    <2>1. at' = at
        BY <1>1, <1>2, <1>4 DEF Goto, Placed
    <2> QED  BY <1>1, <1>3, <2>1 DEF Placed, Accounted, Num, Those
<1>5. CASE from # to
    <2>1. /\ at' \in [Clients -> Places]
          /\ Num("count")' = Num("count") /\ Num("lock")' = Num("lock")
          /\ Num("unfail")' = Num("unfail") /\ Num("verify")' \in Nat
          /\ Num("verify")' <= Num("verify") \/ ~locked
        BY <1>1, <1>2, <1>5, MoveCounts DEF Places
    <2> QED  BY <1>1, <1>3, <2>1, Numbers DEF Placed, Accounted
<1> QED  BY <1>4, <1>5

LEMMA WrongKeeps ==
    ASSUME ThrottleInv, outages = 0, NEW c \in Clients, VerifyWrong(c)
    PROVE  Accounted' /\ Placed'
<1>1. Placed /\ Accounted /\ UNCHANGED <<failures, locked, up>> /\ wrong' = wrong + 1
    BY DEF ThrottleInv, VerifyWrong
<1>2. /\ at' \in [Clients -> Places]
      /\ Num("verify")' = Num("verify") - 1 /\ Num("count")' = Num("count") + 1
      /\ Num("lock")' = Num("lock") /\ Num("unfail")' = Num("unfail")
    BY <1>1, MoveCounts DEF VerifyWrong, Places
<1>3. \A d \in Clients : at'[d] = "unfail" => locked'
    BY <1>1 DEF VerifyWrong, Goto, Placed, Accounted
<1> QED  BY <1>1, <1>2, <1>3, Numbers DEF Placed, Accounted

LEMMA CountKeeps ==
    ASSUME ThrottleInv, outages = 0, NEW c \in Clients, Count(c)
    PROVE  Accounted' /\ Placed'
<1> DEFINE to == IF failures + 1 >= Threshold THEN "lock" ELSE "idle"
<1>1. Placed /\ Accounted /\ up /\ UNCHANGED <<locked, up, wrong>> /\ failures' = failures + 1
    BY DEF ThrottleInv, Count, Accounted
<1>2. at[c] = "count" /\ Goto(c, to)
    BY <1>1 DEF Count
<1>3. \A d \in Clients : at'[d] = "unfail" => locked'
    BY <1>1, <1>2 DEF Goto, Placed, Accounted
<1>4. CASE failures + 1 >= Threshold
    <2>1. /\ at' \in [Clients -> Places]
          /\ Num("count")' = Num("count") - 1 /\ Num("lock")' = Num("lock") + 1
          /\ Num("verify")' = Num("verify") /\ Num("unfail")' = Num("unfail")
        BY <1>1, <1>2, <1>4, MoveCounts DEF Places
    <2> QED  BY <1>1, <1>3, <2>1, Numbers DEF Placed, Accounted
<1>5. CASE ~(failures + 1 >= Threshold)
    <2>1. /\ at' \in [Clients -> Places] /\ Num("count")' = Num("count") - 1
          /\ Num("lock")' = Num("lock")
          /\ Num("verify")' = Num("verify") /\ Num("unfail")' = Num("unfail")
        BY <1>1, <1>2, <1>5, MoveCounts DEF Places
    <2> QED  BY <1>1, <1>3, <1>5, <2>1, Numbers DEF Placed, Accounted
<1> QED  BY <1>4, <1>5

LEMMA LockKeeps ==
    ASSUME ThrottleInv, outages = 0, NEW c \in Clients, Lock(c)
    PROVE  Accounted' /\ Placed'
<1>1. /\ Placed /\ Accounted /\ UNCHANGED <<failures, up, wrong>> /\ locked' = TRUE
      /\ at[c] = "lock" /\ Goto(c, "unfail")
    BY DEF ThrottleInv, Lock, Accounted
<1>2. /\ at' \in [Clients -> Places]
      /\ Num("lock")' = Num("lock") - 1 /\ Num("unfail")' = Num("unfail") + 1
      /\ Num("verify")' = Num("verify")
    BY <1>1, MoveCounts DEF Places
<1>3. wrong + Num("verify") <= Threshold - 1 + Cardinality(Clients)
    <2>1. CASE locked
        BY <1>1, <2>1 DEF Accounted
    <2>2. CASE ~locked
        <3>1. Num("unfail") = 0
            <4>1. Those("unfail") = {}
                BY <1>1, <2>2 DEF Accounted, Those
            <4> QED  BY <4>1, FS_EmptySet DEF Num
        <3> QED  BY <1>1, <2>2, <3>1, Numbers, PlacesAreApart DEF Accounted, Placed
    <2> QED  BY <2>1, <2>2
<1> QED  BY <1>1, <1>2, <1>3, Numbers DEF Placed, Accounted

LEMMA ForgetKeeps ==
    ASSUME ThrottleInv, outages = 0, NEW c \in Clients, ForgetRun(c)
    PROVE  Accounted' /\ Placed'
<1>1. /\ Placed /\ Accounted /\ UNCHANGED <<locked, up, wrong>> /\ failures' = 0
      /\ at[c] = "unfail" /\ Goto(c, "idle") /\ locked
    BY DEF ThrottleInv, ForgetRun, Accounted
<1>2. /\ at' \in [Clients -> Places] /\ Num("verify")' = Num("verify")
      /\ Num("lock")' \in Nat /\ Num("unfail")' \in Nat
    BY <1>1, MoveCounts DEF Places
<1> QED  BY <1>1, <1>2, Numbers DEF Placed, Accounted

\* A right password forgets the run.
LEMMA ClearKeeps ==
    ASSUME ThrottleInv, outages = 0, NEW c \in Clients, ClearLoginFailures(c)
    PROVE  Accounted' /\ Placed'
<1>1. /\ Placed /\ Accounted /\ UNCHANGED <<locked, up>> /\ failures' = 0 /\ wrong' = 0
      /\ at[c] = "succeed" /\ Goto(c, "reset")
    BY DEF ThrottleInv, ClearLoginFailures, Accounted
<1>2. \A d \in Clients : at'[d] = "unfail" => locked'
    BY <1>1 DEF Placed, Accounted, Goto
<1>3. /\ at' \in [Clients -> Places] /\ Num("verify")' = Num("verify")
      /\ Num("count")' \in Nat /\ Num("lock")' \in Nat /\ Num("unfail")' \in Nat
    BY <1>1, MoveCounts DEF Places
<1>4. Num("verify") <= Cardinality(Clients)
    BY NumIsNat
<1> QED  BY <1>1, <1>2, <1>3, <1>4, Numbers DEF Placed, Accounted

LEMMA RestKeeps ==
    ASSUME ThrottleInv, outages = 0,
           \/ WindowEnds \/ LockExpires \/ MemoryExpires \/ RedisReturns
           \/ UNCHANGED throttleVars
    PROVE  Accounted' /\ Placed'
<1>1. Placed /\ Accounted /\ up
    BY DEF ThrottleInv, Accounted
<1>2. CASE WindowEnds \/ UNCHANGED throttleVars
    <2>1. UNCHANGED <<at, failures, locked, up, wrong>>
        BY <1>2 DEF WindowEnds, throttleVars
    <2> QED  BY <1>1, <2>1 DEF Placed, Accounted, Num, Those
<1>3. CASE RedisReturns
    BY <1>1, <1>3 DEF RedisReturns
<1>4. CASE LockExpires
    <2>1. /\ UNCHANGED <<at, failures, up>> /\ locked' = FALSE /\ wrong' = 0
          /\ \A c \in Clients : at[c] # "unfail"
        BY <1>4 DEF LockExpires
    <2>2. \A p \in Places : Num(p)' = Num(p)
        BY <2>1 DEF Num, Those
    <2> QED  BY <1>1, <2>1, <2>2, Numbers DEF Placed, Accounted, Places
<1>5. CASE MemoryExpires
    <2>1. UNCHANGED <<at, locked, up>> /\ failures' = 0 /\ wrong' = 0
        BY <1>5 DEF MemoryExpires
    <2>2. \A p \in Places : Num(p)' = Num(p)
        BY <2>1 DEF Num, Those
    <2> QED  BY <1>1, <2>1, <2>2, Numbers, PlacesAreApart DEF Placed, Accounted, Places
<1> QED  BY <1>2, <1>3, <1>4, <1>5

\* Once Redis has failed nothing is claimed but the types.
LEMMA PlacedStep ==
    ASSUME Placed, [ThrottleNext]_throttleVars
    PROVE  Placed'
<1> USE DEF Placed, Places, Goto
<1>1. ASSUME NEW c \in Clients,
             \/ Throttle(c) \/ AssertNotLocked(c) \/ VerifyWrong(c) \/ VerifyRight(c)
             \/ Count(c) \/ Lock(c) \/ ForgetRun(c) \/ ClearLoginFailures(c) \/ Reset(c)
      PROVE  Placed'
    BY <1>1 DEF Throttle, AssertNotLocked, VerifyWrong, VerifyRight, Count, Lock,
                ForgetRun, ClearLoginFailures, Reset
<1>2. CASE \/ WindowEnds \/ LockExpires \/ MemoryExpires \/ RedisFails \/ RedisReturns
           \/ UNCHANGED throttleVars
    BY <1>2 DEF WindowEnds, LockExpires, MemoryExpires, RedisFails, RedisReturns,
                throttleVars
<1> QED  BY <1>1, <1>2 DEF ThrottleNext

LEMMA ThrottleStep ==
    ASSUME ThrottleInv, outages \in Nat, [ThrottleNext]_throttleVars
    PROVE  ThrottleInv' /\ outages' \in Nat
<1>1. Placed'
    BY PlacedStep DEF ThrottleInv
<1>2. outages' \in Nat /\ (outages' = 0 => outages = 0 /\ ~RedisFails)
    BY DEF ThrottleNext, throttleVars, Throttle, AssertNotLocked, VerifyWrong,
       VerifyRight, Count, Lock, ForgetRun, ClearLoginFailures, Reset, WindowEnds,
       LockExpires, MemoryExpires, RedisFails, RedisReturns
<1>3. ASSUME outages' = 0 PROVE Accounted'
    BY <1>2, <1>3, OpenMovesKeep, WrongKeeps, CountKeeps, LockKeeps, ForgetKeeps,
       ClearKeeps, RestKeeps DEF ThrottleNext
<1> QED  BY <1>1, <1>2, <1>3 DEF ThrottleInv

\* Concurrency buys a guesser at most one extra guess per attempt in flight:
\* for any number of attempts, from any addresses, and any threshold, as long
\* as Redis answers.
THEOREM GuessesBoundedCorrect == ThrottleSpec => []GuessesBounded
<1>1. ThrottleInit => ThrottleInv /\ outages \in Nat
    <2> SUFFICES ASSUME ThrottleInit PROVE ThrottleInv /\ outages \in Nat
        OBVIOUS
    <2>1. Placed /\ outages = 0
        BY DEF ThrottleInit, Placed, Places
    <2>2. up /\ failures = 0 /\ wrong = 0 /\ \A c \in Clients : at[c] # "unfail"
        BY DEF ThrottleInit
    <2> QED  BY <2>1, <2>2, FreshIsAccounted DEF ThrottleInv
<1>2. ThrottleInv => GuessesBounded
    <2> SUFFICES ASSUME ThrottleInv, outages = 0
                 PROVE  wrong <= Threshold - 1 + Cardinality(Clients)
        BY DEF GuessesBounded
    <2>1. CASE locked
        BY <2>1, Numbers DEF ThrottleInv, Placed, Accounted
    <2>2. CASE ~locked
        BY <2>2, Numbers, PlacesAreApart DEF ThrottleInv, Placed, Accounted
    <2> QED  BY <2>1, <2>2
<1>3. ThrottleInv /\ outages \in Nat /\ [ThrottleNext]_throttleVars => ThrottleInv' /\ (outages \in Nat)'
    BY ThrottleStep
<1> QED  BY <1>1, <1>2, <1>3, PTL DEF ThrottleSpec

-----------------------------------------------------------------------------
(* Types of sessions and of the throttle.                                  *)

LEMMA SessionsStepTyped == SessionsTyped /\ [SessionsNext]_sessionsVars => SessionsTyped'
<1> SUFFICES ASSUME SessionsTyped, [SessionsNext]_sessionsVars PROVE SessionsTyped'
  OBVIOUS
<1>1. /\ AccessTTL \in Nat /\ RefreshTTL \in Nat /\ MaxTime \in Nat
      /\ now \in Nat /\ now <= MaxTime
  BY TimesAssumption DEF SessionsTyped, Time
<1>2. {now + AccessTTL, now + RefreshTTL, 0} \subseteq Cookie /\ now \in Time
  BY <1>1 DEF Cookie, Time
<1>3. ASSUME NEW b \in Browsers,
             Login(b) \/ Logout(b) \/ Request(b) \/ Refresh(b) \/ RefreshWhenIdle(b)
      PROVE  SessionsTyped'
  <2>1. UNCHANGED <<now, active, perms, tokens>> /\ {lastSeen', signedIn'} \subseteq Time
    BY <1>2, <1>3 DEF SessionsTyped, Login, Logout, Request, Refresh, RefreshWhenIdle, sessionsVars, account, cookies
  <2>2. {access', refresh'} \subseteq [Browsers -> Cookie]
    BY <1>2, <1>3 DEF SessionsTyped, Login, Logout, Request, Refresh, RefreshWhenIdle, sessionsVars, account, cookies
  <2>. QED  BY <2>1, <2>2 DEF SessionsTyped
<1>4. ASSUME NEW t \in ApiTokens, CreateToken(t) \/ RevokeToken(t) \/ UseToken(t)
      PROVE  SessionsTyped'
  <2>1. UNCHANGED <<now, active, perms, lastSeen, access, refresh, signedIn>>
    BY <1>4 DEF CreateToken, RevokeToken, UseToken, account, cookies
  <2>2. PICK token : tokens' = [tokens EXCEPT ![t] = token] /\ token \in Token
    <3>1. CASE CreateToken(t)
      <4>1. PICK s \in SUBSET Scopes, e \in {now + RefreshTTL} :
              tokens' = [tokens EXCEPT ![t] = [state |-> "live", scopes |-> s,
                                               expires |-> e, used |-> FALSE]]
        BY <3>1 DEF CreateToken
      <4>2. [state |-> "live", scopes |-> s, expires |-> e, used |-> FALSE] \in Token
        BY <1>2 DEF Token
      <4>. QED  BY <4>1, <4>2
    <3>2. CASE RevokeToken(t)
      <4>1. tokens[t] \in Token /\ tokens' = [tokens EXCEPT ![t] = [@ EXCEPT !.state = "revoked"]]
        BY <3>2 DEF RevokeToken, SessionsTyped
      <4>2. [tokens[t] EXCEPT !.state = "revoked"] \in Token
        BY <4>1 DEF Token
      <4>. QED  BY <4>1, <4>2
    <3>3. CASE UseToken(t)
      <4>1. tokens[t] \in Token /\ tokens' = [tokens EXCEPT ![t] = [@ EXCEPT !.used = TRUE]]
        BY <3>3 DEF UseToken, Resolves, SessionsTyped
      <4>2. [tokens[t] EXCEPT !.used = TRUE] \in Token
        BY <4>1 DEF Token
      <4>. QED  BY <4>1, <4>2
    <3>. QED  BY <1>4, <3>1, <3>2, <3>3
  <2>. QED  BY <2>1, <2>2 DEF SessionsTyped
<1>5. CASE EditUser \/ UNCHANGED sessionsVars
  BY <1>5 DEF EditUser, sessionsVars, cookies, SessionsTyped
<1>6. CASE Tick
  <2>1. now' \in Time /\ UNCHANGED <<active, perms, lastSeen, access, refresh, tokens, signedIn>>
    BY <1>1, <1>6 DEF Tick, account, cookies, Time
  <2>. QED  BY <2>1 DEF SessionsTyped
<1>. QED  BY <1>3, <1>4, <1>5, <1>6 DEF SessionsNext

LEMMA ThrottleStepTyped == ThrottleTyped /\ [ThrottleNext]_throttleVars => ThrottleTyped'
<1> SUFFICES ASSUME ThrottleTyped, [ThrottleNext]_throttleVars PROVE ThrottleTyped'
  OBVIOUS
<1>1. /\ PerIp \in Nat /\ MaxWrong \in Nat /\ MaxOutages \in Nat
      /\ \A c \in Clients : Ip[c] \in Ips
  BY LimitsAssumption DEF Ips
<1>2. ASSUME NEW c \in Clients,
             \/ Throttle(c) \/ AssertNotLocked(c) \/ VerifyWrong(c) \/ VerifyRight(c)
             \/ Count(c) \/ Lock(c) \/ ForgetRun(c) \/ ClearLoginFailures(c) \/ Reset(c)
      PROVE  ThrottleTyped'
  <2>1. at' \in [Clients -> Places]
    BY <1>2 DEF ThrottleTyped, Places, Goto, Throttle, AssertNotLocked, VerifyWrong,
       VerifyRight, Count, Lock, ForgetRun, ClearLoginFailures, Reset
  <2>2. attempts' \in [Ips -> 0 .. PerIp + 1]
    <3>1. CASE Throttle(c)
      <4>1. \A n \in 0 .. PerIp + 1 : (IF n > PerIp THEN n ELSE n + 1) \in 0 .. PerIp + 1
        BY <1>1
      <4>. QED  BY <1>1, <3>1, <4>1 DEF ThrottleTyped, Throttle
    <3>2. CASE Reset(c)
      BY <1>1, <3>2 DEF ThrottleTyped, Reset
    <3>3. CASE ~Throttle(c) /\ ~Reset(c)
      BY <1>2, <3>3 DEF ThrottleTyped, AssertNotLocked, VerifyWrong,
         VerifyRight, Count, Lock, ForgetRun, ClearLoginFailures
    <3>. QED  BY <3>1, <3>2, <3>3
  <2>3. failures' \in Nat /\ wrong' \in 0 .. MaxWrong /\ outages' = outages
    BY <1>1, <1>2 DEF ThrottleTyped, Throttle, AssertNotLocked, VerifyWrong,
       VerifyRight, Count, Lock, ForgetRun, ClearLoginFailures, Reset
  <2>4. {locked', up'} \subseteq BOOLEAN
    <3>1. CASE Lock(c)
      BY <3>1 DEF ThrottleTyped, Lock
    <3>2. CASE ~Lock(c)
      BY <1>2, <3>2 DEF ThrottleTyped, Throttle, AssertNotLocked, VerifyWrong,
         VerifyRight, Count, ForgetRun, ClearLoginFailures, Reset
    <3>. QED  BY <3>1, <3>2
  <2>. QED  BY <2>1, <2>2, <2>3, <2>4 DEF ThrottleTyped
<1>3. CASE \/ WindowEnds \/ LockExpires \/ MemoryExpires \/ RedisFails \/ RedisReturns
           \/ UNCHANGED throttleVars
  <2>1. UNCHANGED at /\ failures' \in Nat /\ wrong' \in 0 .. MaxWrong
        /\ outages' \in 0 .. MaxOutages
    BY <1>1, <1>3 DEF ThrottleTyped, WindowEnds, LockExpires, MemoryExpires, RedisFails,
       RedisReturns, throttleVars
  <2>3. {locked', up'} \subseteq BOOLEAN
    BY <1>3, Zenon DEF ThrottleTyped, WindowEnds, LockExpires, MemoryExpires, RedisFails,
       RedisReturns, throttleVars
  <2>2. attempts' \in [Ips -> 0 .. PerIp + 1]
    <3>1. CASE WindowEnds
      <4>1. PICK i \in Ips : attempts' = [attempts EXCEPT ![i] = 0]
        BY <3>1 DEF WindowEnds
      <4>. QED  BY <1>1, <4>1 DEF ThrottleTyped
    <3>2. CASE ~WindowEnds
      BY <1>3, <3>2 DEF ThrottleTyped, LockExpires, MemoryExpires, RedisFails,
         RedisReturns, throttleVars
    <3>. QED  BY <3>1, <3>2
  <2>. QED  BY <2>1, <2>2, <2>3 DEF ThrottleTyped
<1>. QED  BY <1>2, <1>3 DEF ThrottleNext

-----------------------------------------------------------------------------
(* All parts together: a step of the whole is a step of one and leaves the *)
(* others as they are.                                                     *)

LEMMA WholeStarts == AllInit => Init /\ MembersInit /\ SessionsInit /\ ThrottleInit
  BY DEF AllInit

LEMMA WholeSteps ==
    [AllNext]_<<part, rest>> =>
      /\ [Next]_vars /\ [MembersNext]_membersVars
      /\ [SessionsNext]_sessionsVars /\ [ThrottleNext]_throttleVars
  BY DEF AllNext, rest

LEMMA Parts == AllSpec => Spec /\ MembersSpec /\ SessionsSpec /\ ThrottleSpec
  BY WholeStarts, WholeSteps, PTL DEF AllSpec, Spec, MembersSpec, SessionsSpec, ThrottleSpec

\* The role named "admin" exists, is unrestricted and carries no rule, whatever is
\* renamed, edited, deleted or seeded (core/access_control.py, db/seed.py).
THEOREM AdminUnscopedCorrect == Spec => [](TypeOK /\ AdminUnscoped)
<1>1. Init => TypeOK /\ AdminUnscoped
  BY FirstSeed
<1>. QED  BY <1>1, RulesStepTyped, AdminStaysUnscoped, PTL DEF Spec

\* The membership tables keep what their keys promise, and what a request holds was
\* read at once.
LEMMA MembersAlways == MembersSpec => []MembersInv
<1>1. MembersInit => MembersInv
  BY MembersStart
<1>. QED  BY <1>1, MembersStep, PTL DEF MembersSpec

\* A project loses its last administrator to member requests only when its
\* administrators changed between what a request read and what it wrote
\* (_assert_not_last_admin of core/projects.py).
THEOREM AdminLostOnlyToRaceCorrect == MembersSpec => AdminLostOnlyToRace
<1>1. MembersInv /\ [MembersNext]_membersVars =>
        \A p \in Projects :
          AdminsOf(p) # {} /\ AdminsOf(p)' = {} /\ p \in projects' /\ accounts' = accounts =>
              \E r \in Requests :
                  /\ request[r].kind \in {"update", "remove"}
                  /\ request'[r] = NoRequest
                  /\ request[r].admins # AdminsOf(p)
  BY LostToRace
<1>. QED  BY <1>1, MembersAlways, PTL DEF MembersSpec, AdminLostOnlyToRace

\* What is explained is what is decided, the shortcuts are sound, the projects listed
\* are those that open, and administrators reach every image.
THEOREM DecisionsAgreeCorrect == AllSpec => []DecisionsAgree
<1>1. TypeOK /\ AdminUnscoped /\ MembersInv => DecisionsAgree
  BY DecisionsSound, ListingSound DEF DecisionsAgree, MembersInv
<1>. QED  BY <1>1, Parts, AdminUnscopedCorrect, MembersAlways, PTL

\* Every part keeps its types.
THEOREM AccessTypesCorrect == AllSpec => []TypesOK
<1>1. SessionsSpec => []SessionsTyped
  <2>1. SessionsInit => SessionsTyped
    BY TimesAssumption DEF SessionsInit, SessionsTyped, Time, Cookie
  <2>. QED  BY <2>1, SessionsStepTyped, PTL DEF SessionsSpec
<1>2. ThrottleSpec => []ThrottleTyped
  <2>1. ThrottleInit => ThrottleTyped
    <3>1. 0 \in 0 .. PerIp + 1 /\ 0 \in 0 .. MaxWrong /\ 0 \in 0 .. MaxOutages
      BY LimitsAssumption
    <3>2. ThrottleInit => {locked, up} \subseteq BOOLEAN
      BY Zenon DEF ThrottleInit
    <3>3. ThrottleInit => at \in [Clients -> Places] /\ attempts \in [Ips -> 0 .. PerIp + 1]
      BY <3>1 DEF ThrottleInit, Places
    <3>. QED  BY <3>1, <3>2, <3>3 DEF ThrottleInit, ThrottleTyped
  <2>. QED  BY <2>1, ThrottleStepTyped, PTL DEF ThrottleSpec
<1>3. TypeOK /\ MembersInv /\ SessionsTyped /\ ThrottleTyped => TypesOK
  BY DEF TypesOK, MembersInv
<1>. QED  BY <1>1, <1>2, <1>3, Parts, AdminUnscopedCorrect, MembersAlways, PTL

\* Who keeps guessing is locked out, and who was away signs in again.
THEOREM SignInHoldsCorrect == AllSpec => []SignInHolds
  BY Parts, GuessesBoundedCorrect, IdleMeansSignInCorrect, PTL DEF SignInHolds
=============================================================================
