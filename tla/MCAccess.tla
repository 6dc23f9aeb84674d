------------------------------ MODULE MCAccess ------------------------------
(***************************************************************************)
(* The four parts of who may do what, for TLC: access rules, projects and  *)
(* their members, sessions and the login throttle.  They share no variable *)
(* (what one needs of another is an input of it), so a behaviour of all is *)
(* an interleaving of behaviours of each: a run takes one part at a time,  *)
(* and the others rest.                                                    *)
(***************************************************************************)
EXTENDS AccessRules, GlobPatterns, ProjectMembers, Sessions, LoginThrottle, TLC

VARIABLE part   \* the component that moves

\* team/app, app and the repositories hub and lab.
RepoNames  == {<<"h">>, <<"l">>}
ImageNames == {<<"a">>, <<"t", "/", "a">>}
RulePatterns == {<<"*">>, <<"*", "*">>, <<"h">>}
Match == [p \in RulePatterns, v \in RepoNames \union ImageNames |-> MatchesInFull(p, v)]
MatchOf(p, v) == Match[p, v]
UniversalOf(p) == IsUniversal(p)
SeededRoles == [admin |-> {}, viewer |-> {}]
OneAddress == [c \in Clients |-> "address"]
PermOnly == {"projects:write"}

Symmetry == Permutations(Users) \union Permutations(Requests)

rest == <<vars, membersVars, sessionsVars, throttleVars>>

AllInit == /\ part \in {"rules", "members", "sessions", "throttle"}
           /\ Init /\ DOMAIN roles = {1, 2} /\ roles[1].name = Admin   \* ids are alike
           /\ MembersInit /\ SessionsInit /\ ThrottleInit

AllNext ==
    /\ UNCHANGED part
    /\ \/ part = "rules" /\ Next /\ UNCHANGED <<membersVars, sessionsVars, throttleVars>>
       \/ part = "members" /\ MembersNext /\ UNCHANGED <<vars, sessionsVars, throttleVars>>
       \/ part = "sessions" /\ SessionsNext /\ UNCHANGED <<vars, membersVars, throttleVars>>
       \/ part = "throttle" /\ ThrottleNext /\ UNCHANGED <<vars, membersVars, sessionsVars>>

AllSpec == AllInit /\ [][AllNext]_<<part, rest>>

(* Every part keeps its types; membership rows stay unique per project and  *)
(* user and belong to live projects and users.                              *)
TypesOK == TypeOK /\ MembersTyped /\ SessionsTyped /\ ThrottleTyped

(* The separately written decisions agree: what is explained is what is     *)
(* done, the shortcuts are sound, the projects listed are those that open,  *)
(* and administrators reach every image.                                    *)
DecisionsAgree == ExplanationAgrees /\ ShortcutsSound /\ ListingAgrees /\ AdminUnscoped

(* Who keeps guessing is locked out, and who was away signs in again.       *)
SignInHolds == GuessesBounded /\ IdleMeansSignIn
=============================================================================
