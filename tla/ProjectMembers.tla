--------------------------- MODULE ProjectMembers ---------------------------
(***************************************************************************)
(* Projects, their members and their integrations: core/projects.py and    *)
(* routers/projects.py behind the decisions of core/project_access.py and  *)
(* core/policy.py.                                                         *)
(*                                                                         *)
(* A request authorises, reads what it needs, and writes in a later        *)
(* statement; requests overlap, and under READ COMMITTED what one has read *)
(* may be gone when it writes.  The unique keys and the foreign keys are   *)
(* what the database itself guarantees.                                    *)
(***************************************************************************)
EXTENDS Naturals, FiniteSets

CONSTANTS
    Users, Projects, Requests,
    Perms,          \* global permission keys, "projects:write" among them
    Keys,           \* integration module keys a body may name
    Registered,     \* the keys some module registered
    MaxMembers      \* bound: membership rows ever inserted

Ranks == [viewer |-> 0, member |-> 1, admin |-> 2]
ProjectRoles == DOMAIN Ranks
Ids == 1 .. MaxMembers
Member == [id : Ids, project : Projects, user : Users, role : ProjectRoles]
NoRequest == [kind |-> "idle"]

ASSUME MaxMembersAssumption == MaxMembers \in Nat
ASSUME RegisteredAssumption == Registered \subseteq Keys

VARIABLES
    accounts,      \* user -> its permissions and whether it is a global admin
    projects,      \* live projects
    members,       \* project_members
    integrations,  \* pairs of project and module key
    nextId,        \* the sequence of membership ids
    request        \* what each request has read, until it commits

membersVars == <<accounts, projects, members, integrations, nextId, request>>

-----------------------------------------------------------------------------
(* The decisions. *)

Meets(role, min) == Ranks[role] >= Ranks[min]

Membership(p, u) == {m \in members : m.project = p /\ m.user = u}

IsGlobalAdmin(u) == accounts[u].admin

\* None is what accessible_project_ids answers for "all".
AccessibleProjectIds(u) ==
    IF IsGlobalAdmin(u) THEN projects ELSE {m.project : m \in {x \in members : x.user = u}}

AssertProjectAccess(u, p, min) ==
    IsGlobalAdmin(u) \/ \E m \in Membership(p, u) : Meets(m.role, min)

RequireProjectAccess(u, p, min) == p \in projects /\ AssertProjectAccess(u, p, min)

AssertProjectPermission(u, p, perm, min) ==
    perm \in accounts[u].perms /\ RequireProjectAccess(u, p, min)

ListProjects(u) == projects \intersect AccessibleProjectIds(u)

AdminsOf(p) == {m \in members : m.project = p /\ m.role = "admin"}

\* A fault: the member itself is counted.
OtherAdminsCountSelf(m) == AdminsOf(m.project)

\* The admins that would be left, as counted by _assert_not_last_admin.
OtherAdmins(m) == AdminsOf(m.project) \ {m}

-----------------------------------------------------------------------------
(* Requests: authorise and read. *)

Start(r, rec) ==
    /\ request[r] = NoRequest
    /\ request' = [request EXCEPT ![r] = rec]
    /\ UNCHANGED <<accounts, projects, members, integrations, nextId>>

AskCreateProject(r) ==
    \E u \in DOMAIN accounts, p \in Projects \ projects :
        /\ "projects:write" \in accounts[u].perms
        /\ Start(r, [kind |-> "create", project |-> p, user |-> u])

AskDeleteProject(r) ==
    \E u \in DOMAIN accounts, p \in projects :
        /\ AssertProjectPermission(u, p, "projects:write", "admin")
        /\ Start(r, [kind |-> "delete", project |-> p])

AskAddMember(r) ==
    \E u \in DOMAIN accounts, p \in projects, v \in DOMAIN accounts, role \in ProjectRoles :
        /\ AssertProjectPermission(u, p, "projects:write", "admin")
        /\ Membership(p, v) = {}
        /\ Start(r, [kind |-> "add", project |-> p, user |-> v, role |-> role])

\* Only taking the role "admin" away asks for the other admins.
AskUpdateMember(r) ==
    \E u \in DOMAIN accounts, m \in members, role \in ProjectRoles :
        /\ AssertProjectPermission(u, m.project, "projects:write", "admin")
        /\ m.role = "admin" /\ role # "admin" => OtherAdmins(m) # {}
        /\ Start(r, [kind |-> "update", was |-> m, role |-> role, admins |-> AdminsOf(m.project)])

AskRemoveMember(r) ==
    \E u \in DOMAIN accounts, m \in members :
        /\ AssertProjectPermission(u, m.project, "projects:write", "admin")
        /\ m.role = "admin" => OtherAdmins(m) # {}
        /\ Start(r, [kind |-> "remove", was |-> m, admins |-> AdminsOf(m.project)])

AskConnect(r) ==
    \E u \in DOMAIN accounts, p \in projects, k \in Keys :
        /\ AssertProjectPermission(u, p, "projects:write", "member")
        /\ k \in Registered
        /\ <<p, k>> \notin integrations
        /\ Start(r, [kind |-> "connect", project |-> p, key |-> k])

-----------------------------------------------------------------------------
(* Requests: write and commit.  A key that is taken, a project or user that *)
(* is gone, or an updated row that is gone fails the request.               *)

\* A fault: no unique key.
InsertUnchecked(p, u, role) ==
    IF p \in projects' /\ u \in DOMAIN accounts
    THEN /\ members' = members \union {[id |-> nextId, project |-> p, user |-> u, role |-> role]}
         /\ nextId' = nextId + 1
    ELSE UNCHANGED <<members, nextId>>

Insert(p, u, role) ==
    IF p \in projects' /\ u \in DOMAIN accounts /\ Membership(p, u) = {}
    THEN /\ members' = members \union {[id |-> nextId, project |-> p, user |-> u, role |-> role]}
         /\ nextId' = nextId + 1
    ELSE UNCHANGED <<members, nextId>>

CreateProject(r) ==
    /\ request[r].kind = "create" /\ nextId <= MaxMembers
    /\ request[r].user \in DOMAIN accounts /\ request[r].project \notin projects
    /\ projects' = projects \union {request[r].project}
    /\ Insert(request[r].project, request[r].user, "admin")
    /\ UNCHANGED integrations

CreateProjectFails(r) ==
    /\ request[r].kind = "create"
    /\ request[r].user \notin DOMAIN accounts \/ request[r].project \in projects
    /\ UNCHANGED <<projects, members, integrations, nextId>>

DeleteProject(r) ==
    /\ request[r].kind = "delete"
    /\ projects' = projects \ {request[r].project}
    /\ members' = {m \in members : m.project # request[r].project}
    /\ integrations' = {i \in integrations : i[1] # request[r].project}
    /\ UNCHANGED nextId

AddMember(r) ==
    /\ request[r].kind = "add" /\ nextId <= MaxMembers
    /\ UNCHANGED projects
    /\ Insert(request[r].project, request[r].user, request[r].role)
    /\ UNCHANGED integrations

\* The row is addressed by its id; only a role that differs is written.
Row(r) == {m \in members : m.id = request[r].was.id}

UpdateMember(r) ==
    /\ request[r].kind = "update"
    /\ members' = IF request[r].role = request[r].was.role THEN members
                  ELSE (members \ Row(r)) \union {[m EXCEPT !.role = request[r].role] : m \in Row(r)}
    /\ UNCHANGED <<projects, integrations, nextId>>

RemoveMember(r) ==
    /\ request[r].kind = "remove"
    /\ members' = members \ Row(r)
    /\ UNCHANGED <<projects, integrations, nextId>>

ConnectIntegration(r) ==
    /\ request[r].kind = "connect"
    /\ integrations' = IF request[r].project \in projects
                       THEN integrations \union {<<request[r].project, request[r].key>>}
                       ELSE integrations
    /\ UNCHANGED <<projects, members, nextId>>

Commit(r) ==
    /\ \/ CreateProject(r) \/ CreateProjectFails(r) \/ DeleteProject(r) \/ AddMember(r)
       \/ UpdateMember(r) \/ RemoveMember(r) \/ ConnectIntegration(r)
    /\ request' = [request EXCEPT ![r] = NoRequest]
    /\ UNCHANGED accounts

-----------------------------------------------------------------------------
(* Accounts are administered elsewhere (AccessRules): a user's permissions  *)
(* and roles change at any time, and memberships go with a deleted user.    *)

ChangeAccount ==
    \E u \in DOMAIN accounts, a \in BOOLEAN, p \in SUBSET Perms :
        /\ accounts' = [accounts EXCEPT ![u] = [admin |-> a, perms |-> p]]
        /\ UNCHANGED <<projects, members, integrations, nextId, request>>

DeleteAccount ==
    \E u \in DOMAIN accounts :
        /\ accounts' = [v \in DOMAIN accounts \ {u} |-> accounts[v]]
        /\ members' = {m \in members : m.user # u}
        /\ UNCHANGED <<projects, integrations, nextId, request>>

MembersInit ==
    /\ accounts = [u \in Users |-> [admin |-> FALSE, perms |-> Perms]]
    /\ projects = {} /\ members = {} /\ integrations = {}
    /\ nextId = 1
    /\ request = [r \in Requests |-> NoRequest]

MembersNext ==
    \/ \E r \in Requests :
          \/ AskCreateProject(r) \/ AskDeleteProject(r) \/ AskAddMember(r)
          \/ AskUpdateMember(r) \/ AskRemoveMember(r) \/ AskConnect(r)
          \/ Commit(r)
    \/ ChangeAccount \/ DeleteAccount

MembersSpec == MembersInit /\ [][MembersNext]_membersVars

-----------------------------------------------------------------------------
(* Types: rows belong to live projects and users, at most one per pair even *)
(* when two requests add the same user at once.                             *)
MembersTyped ==
    /\ accounts \in [DOMAIN accounts -> [admin : BOOLEAN, perms : SUBSET Perms]]
    /\ members \subseteq Member /\ integrations \subseteq projects \X Registered
    /\ \A m \in members : m.project \in projects /\ m.user \in DOMAIN accounts
    /\ \A m, n \in members : m.project = n.project /\ m.user = n.user => m = n

(* A project loses its last administrator to member requests only when its  *)
(* administrators changed between what the request read and what it wrote:  *)
(* one request at a time never does it.  Deleting the user's account or the *)
(* project is the other way.                                                *)
AdminLostOnlyToRace ==
    [][\A p \in Projects :
          AdminsOf(p) # {} /\ AdminsOf(p)' = {} /\ p \in projects' /\ accounts' = accounts =>
              \E r \in Requests :
                  /\ request[r].kind \in {"update", "remove"}
                  /\ request'[r] = NoRequest
                  /\ request[r].admins # AdminsOf(p)]_membersVars

(* The projects a user sees listed are those whose pages open for them.     *)
ListingAgrees ==
    \A u \in DOMAIN accounts :
        ListProjects(u) = {p \in projects : RequireProjectAccess(u, p, "viewer")}
=============================================================================
