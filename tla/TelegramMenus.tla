---------------------------- MODULE TelegramMenus ---------------------------
(***************************************************************************)
(* The bot's screens: modules/telegram/dispatcher.py, keyboards.py and     *)
(* auth.py, and the links of routers/telegram.py.  One chat, the account   *)
(* it is linked to, one project, and one other user that may be a member   *)
(* of it.  A button is named by its callback action; a screen is the       *)
(* buttons it offers and the one its Back stands for.  A tap may come from *)
(* any message of the chat, however old.                                   *)
(***************************************************************************)
EXTENDS Naturals, FiniteSets

CONSTANTS
    MaxTaps,     \* bound: taps
    MaxChanges   \* bound: changes made elsewhere

Permissions == {"projects:read", "projects:write", "system:execute"}
Roles       == {"none", "viewer", "member", "admin"}
Managing    == {"mc", "ma", "mr", "me", "mu_pick", "mu", "md", "mdc"}
Admin       == {"ad", "adl", "adu", "aduc"}
Actions     == {"pl", "p", "mm", "pr", "ra", "mn"} \union Managing \union Admin
Nowhere     == "nowhere"

VARIABLES
    account,   \* [perms, global, role, active] of the linked user
    linked,    \* the chat has a TelegramLink
    other,     \* the other user's role in the project
    analysed,  \* the repository has a Sonar project
    screen,    \* the screen shown last
    seen,      \* the buttons of every message so far
    fresh,     \* nothing has changed since the screen was built
    queued,    \* an analysis was queued by the last tap
    taps, changes

menuVars == <<account, linked, other, analysed, screen, seen, fresh, queued, taps, changes>>

Has(k)    == k \in account.perms
IsMember(roles) == account.global \/ account.role \in roles
Visible   == IsMember(Roles \ {"none"})
\* can_manage_members of the project's screens and can_run of its repositories.
CanManage == Has("projects:write") /\ IsMember({"admin"})
CanRun    == Has("projects:write") /\ IsMember({"member", "admin"})

\* What each handler requires before it answers.
MayRun == analysed /\ Has("projects:write") /\ IsMember({"member", "admin"})

Allowed(a) ==
    \/ a = "pl" /\ Has("projects:read")
    \/ a \in {"p", "mm", "pr"} /\ Has("projects:read") /\ Visible
    \/ a \in Managing /\ Has("projects:write") /\ IsMember({"admin"})
    \/ a = "ra" /\ MayRun
    \/ a \in Admin /\ Has("system:execute")
    \/ a = "mn"

Screen(offers, back) == [offers |-> offers, back |-> back]
If(c, a) == IF c THEN {a} ELSE {}

\* A fault: the button is offered to whoever sees the repositories.
RunOfferedToAll == If(analysed, "ra")

RunOffered == If(analysed /\ CanRun, "ra")

\* What each handler answers with when it does not refuse.
MainMenu      == Screen({"pl"} \union If(Has("system:execute"), "ad"), Nowhere)
ProjectsList  == IF Visible THEN Screen({"p"}, Nowhere) ELSE MainMenu
ProjectDetail == Screen({"pr"} \union If(CanManage, "mm"), "pl")
\* Whoever sees the members is offered each of them.
MembersList   == Screen(If({other, account.role} # {"none"}, "me") \union If(CanManage, "mc"), "p")
Candidates    == Screen({"ma"}, "mm")
RolePicker(a, back) == Screen({a}, back)
MemberActions == Screen({"mu_pick", "md"}, "mm")
ConfirmRemove == Screen({"mdc"}, "me")
ReposList     == Screen(RunOffered, "p")
AdminHome     == Screen({"adl", "ad"}, "mn")
LinksList     == Screen(If(linked, "adu"), "ad")
ConfirmUnlink == Screen({"aduc"}, "adl")
BackOnly(back) == Screen({}, back)

Keyboard(a) ==
    CASE a = "mn"      -> MainMenu
      [] a = "pl"      -> ProjectsList
      [] a = "p"       -> ProjectDetail
      [] a = "mm"      -> MembersList
      [] a = "mc"      -> Candidates
      [] a = "ma"      -> RolePicker("mr", "mc")
      [] a = "me"      -> MemberActions
      [] a = "mu_pick" -> RolePicker("mu", "me")
      [] a = "md"      -> ConfirmRemove
      [] a \in {"mr", "mu", "mdc"} -> BackOnly("mm")
      [] a = "pr"      -> ReposList
      [] a = "ra"      -> BackOnly("pr")
      [] a = "ad"      -> AdminHome
      [] a = "adl"     -> LinksList
      [] a = "adu"     -> ConfirmUnlink
      [] a = "aduc"    -> BackOnly("adl")

\* What an error is answered with, whichever screen it happened on.
Refusal == BackOnly("pl")

Shows(s, new) ==
    /\ screen' = s /\ fresh' = new
    /\ seen' = seen \union s.offers \union ({s.back} \ {Nowhere})

MenuInit ==
    /\ account \in [perms : SUBSET Permissions, global : BOOLEAN, role : Roles, active : {TRUE}]
    /\ linked \in BOOLEAN /\ other = "none" /\ analysed \in BOOLEAN
    /\ screen = Screen({}, Nowhere) /\ seen = {} /\ fresh = FALSE /\ queued = FALSE
    /\ taps = 0 /\ changes = 0

\* linked_user: a deactivated account is as good as none.
LinkedUser == linked /\ account.active

\* Any text: the menu, or the chat's number for an administrator to link.
Start ==
    /\ taps < MaxTaps /\ taps' = taps + 1 /\ queued' = FALSE
    /\ IF LinkedUser THEN Shows(MainMenu, TRUE) ELSE UNCHANGED <<screen, seen, fresh>>
    /\ UNCHANGED <<account, linked, other, analysed, changes>>

TapUnlinked(a) ==
    /\ a \in seen /\ ~LinkedUser
    /\ taps < MaxTaps /\ taps' = taps + 1 /\ queued' = FALSE
    /\ UNCHANGED <<account, linked, other, analysed, screen, seen, fresh, changes>>

\* A screen that changes nothing, or what was asked for is refused or not found.
TapLooks(a) ==
    /\ a \in seen \ {"mr", "mu", "mdc", "ra", "aduc"} /\ LinkedUser
    /\ taps < MaxTaps /\ taps' = taps + 1 /\ queued' = FALSE
    /\ IF Allowed(a) THEN Shows(Keyboard(a), TRUE) ELSE Shows(Refusal, TRUE)
    /\ UNCHANGED <<account, linked, other, analysed, changes>>

TapRefused(a) ==
    /\ a \in seen /\ LinkedUser /\ (~Allowed(a) \/ a \in {"ma", "mr", "mu", "mdc", "ra", "adu"})
    /\ taps < MaxTaps /\ taps' = taps + 1 /\ queued' = FALSE
    /\ Shows(Refusal, TRUE)
    /\ UNCHANGED <<account, linked, other, analysed, changes>>

\* add_member, update_member_role and remove_member: the last admin stays.
LastAdmin(self) == IF self THEN account.role = "admin" /\ other # "admin"
                           ELSE other = "admin" /\ account.role # "admin"

TapMember(a, self, r) ==
    /\ a \in seen /\ LinkedUser /\ Allowed(a)
    /\ taps < MaxTaps /\ taps' = taps + 1 /\ queued' = FALSE
    /\ LET was == IF self THEN account.role ELSE other IN
       \/ a = "mr"  /\ was = "none" /\ r # "none"
       \/ a = "mu"  /\ was # "none" /\ r # "none" /\ (LastAdmin(self) => r = "admin")
       \/ a = "mdc" /\ was # "none" /\ r = "none" /\ ~LastAdmin(self)
    /\ IF self THEN account' = [account EXCEPT !.role = r] /\ UNCHANGED other
               ELSE other' = r /\ UNCHANGED account
    /\ Shows(Keyboard(a), ~self)
    /\ UNCHANGED <<linked, analysed, changes>>

TapRun ==
    /\ "ra" \in seen /\ LinkedUser /\ Allowed("ra")
    /\ taps < MaxTaps /\ taps' = taps + 1 /\ queued' = TRUE
    /\ Shows(Keyboard("ra"), TRUE)
    /\ UNCHANGED <<account, linked, other, analysed, changes>>

\* The link that is removed may be the chat's own.
TapUnlink ==
    /\ "aduc" \in seen /\ LinkedUser /\ Allowed("aduc")
    /\ taps < MaxTaps /\ taps' = taps + 1 /\ queued' = FALSE
    /\ linked' \in {linked, FALSE} /\ Shows(Keyboard("aduc"), linked')
    /\ UNCHANGED <<account, other, analysed, changes>>

\* Links, accounts, members and repositories change elsewhere meanwhile.
Elsewhere ==
    /\ changes < MaxChanges /\ changes' = changes + 1 /\ fresh' = FALSE
    /\ \/ linked' = ~linked /\ UNCHANGED <<account, other, analysed>>
       \/ \E ps \in SUBSET Permissions : account' = [account EXCEPT !.perms = ps] /\ UNCHANGED <<linked, other, analysed>>
       \/ \E r \in Roles : account' = [account EXCEPT !.role = r] /\ UNCHANGED <<linked, other, analysed>>
       \/ account' = [account EXCEPT !.active = ~@] /\ UNCHANGED <<linked, other, analysed>>
       \/ analysed' = ~analysed /\ UNCHANGED <<account, linked, other>>
    /\ UNCHANGED <<screen, seen, queued, taps>>

MenuNext ==
    \/ Start \/ TapRun \/ TapUnlink \/ Elsewhere
    \/ \E a \in Actions : TapUnlinked(a) \/ TapLooks(a) \/ TapRefused(a)
    \/ \E a \in {"mr", "mu", "mdc"}, self \in BOOLEAN, r \in Roles : TapMember(a, self, r)

MenuSpec == MenuInit /\ [][MenuNext]_menuVars

-----------------------------------------------------------------------------
MenuTypeOK ==
    /\ account \in [perms : SUBSET Permissions, global : BOOLEAN, role : Roles, active : BOOLEAN]
    /\ other \in Roles /\ screen.offers \subseteq Actions /\ screen.back \in Actions \union {Nowhere}
    /\ seen \subseteq Actions

(***************************************************************************)
(* What a screen offers is what the account it was built for may do: as    *)
(* long as nothing changes, none of its buttons is refused for want of a   *)
(* permission or a role, but for the list of projects, which the menu      *)
(* offers to everybody, and a member of a project, whom the list of        *)
(* members offers to a viewer who gets there from an old message.          *)
(* keyboards.py is told in can_manage and can_run what the handlers decide *)
(* again on the tap.                                                       *)
(***************************************************************************)
FreshButtonsWork == fresh => \A a \in screen.offers \ {"pl", "me"} : Allowed(a)
=============================================================================
