---------------------------- MODULE MCIntegrations ----------------------------
(***************************************************************************)
(* What the program keeps in step with others, for TLC: analyses of pushed *)
(* commits, repositories on GitHub and GitLab and their Sonar projects,    *)
(* webhooks on GitLab, quality gates on SonarQube, the Telegram bot's      *)
(* updates and screens, and what is drawn from the analyses of a project.  *)
(* They share no variable, so a run takes one part at a time, and the      *)
(* others rest.                                                            *)
(***************************************************************************)
EXTENDS MCAnalysisRuns, SourceRepos, GitlabHooks, QualityGates,
        TelegramPoll, TelegramMenus, ProjectHealth, TLC

CONSTANTS a, b, l, project

VARIABLE part   \* the component that moves

\* The names of a and of GitLab's l give one Sonar key, b's another.
Slugs     == [r \in Repos |-> IF r = b THEN "b" ELSE "a"]
BothWays  == {<<a, b>>, <<b, a>>}
Bars      == ("standard" :> [blocker |-> 0, coverage |-> 60]) @@ ("bugs_only" :> [blocker |-> 0])
SonarsOwn == [violations |-> 0, coverage |-> 80]
\* The second bot's updates have lower numbers.
Firsts    == [x \in Bots |-> IF x = 1 THEN 7 ELSE 3]

Found(g, i, bg, vl, cv, dp) ==
    [gate |-> g, issues |-> i, bugs |-> bg, vulnerabilities |-> vl, coverage |-> cv, duplication |-> dp]
Samples == {Found("OK", 0, 0, 0, 90, 3), Found("WARN", 4, 4, 2, 40, 30),
            Found("ERROR", 30, 20, 10, Unmeasured, Unmeasured)}

Symmetry == Permutations(Tracked) \union Permutations(JobIds) \union Permutations(Commits)

(* The parts that rest start in one state only. *)
AllInit ==
    /\ part \in {"runs", "sources", "hooks", "gates", "poll", "menus", "health"}
    /\ Init
    /\ part # "runs" => head = [x \in Branches |-> CHOOSE y \in Commits : TRUE]
    /\ SourceInit
    /\ GitlabInit
    /\ part # "hooks" => number = [h \in Hosts |-> CHOOSE f \in Numbering : TRUE]
    /\ GatesInit
    /\ PollInit
    /\ part # "poll" => bot = Nothing
    /\ MenuInit
    /\ part # "menus" => /\ account = [perms |-> {}, global |-> FALSE, role |-> "none", active |-> TRUE]
                         /\ ~linked /\ ~analysed
    /\ HealthInit

AllNext ==
    /\ UNCHANGED part
    /\ \/ part = "runs" /\ Next
       \/ part # "runs" /\ UNCHANGED vars
    /\ \/ part = "sources" /\ SourceNext
       \/ part # "sources" /\ UNCHANGED srcVars
    /\ \/ part = "hooks" /\ GitlabNext
       \/ part # "hooks" /\ UNCHANGED hookVars
    /\ \/ part = "gates" /\ GatesNext
       \/ part # "gates" /\ UNCHANGED gateVars
    /\ \/ part = "poll" /\ PollNext
       \/ part # "poll" /\ UNCHANGED pollVars
    /\ \/ part = "menus" /\ MenuNext
       \/ part # "menus" /\ UNCHANGED menuVars
    /\ \/ part = "health" /\ HealthNext
       \/ part # "health" /\ UNCHANGED healthVars

AllSpec ==
    AllInit /\ [][AllNext]_<<part, vars, srcVars, hookVars, gateVars, pollVars, menuVars, healthVars>>

(* Every part keeps its types. *)
TypesOK == TypeOK /\ SourceTypeOK /\ GitlabTyped /\ GatesTyped /\ PollTypeOK /\ MenuTypeOK /\ HealthTyped
=============================================================================
