---------------------------- MODULE ProjectHealth ----------------------------
(***************************************************************************)
(* What becomes of the analyses of one project's repositories: the         *)
(* insights drawn from each, against the one before it (core/insights/),   *)
(* and the health score of the project (core/health.py).  The analyses     *)
(* themselves are AnalysisRuns'; here one starts, then succeeds with what  *)
(* SonarQube measured or fails, and its insights are drawn in a            *)
(* transaction of their own, which an exception or a restart may cost it.  *)
(***************************************************************************)
EXTENDS Integers, Sequences, FiniteSets, FiniteSetsExt

CONSTANTS Tracked,     \* the project's repositories
          Measures,    \* what an analysis may measure
          Unmeasured,  \* no coverage or duplication was reported
          MaxAnalyses  \* bound on the analyses, repeated ones included

ASSUME MeasuresAssumption ==
    \A m \in Measures : m.gate \in {"OK", "WARN", "ERROR"} /\ {m.issues, m.bugs, m.vulnerabilities} \subseteq Nat

VARIABLES analysis,  \* the commits' rows of analysis_runs
          insights,  \* the insights, in the order they were stored
          overlaps   \* repositories two of whose analyses overlapped

healthVars == <<analysis, insights, overlaps>>

HealthInit == analysis = <<>> /\ insights = <<>> /\ overlaps = {}

-----------------------------------------------------------------------------
Ids == DOMAIN analysis
Successes(s) == {n \in Ids : analysis[n].source = s /\ analysis[n].status = "success"}
Latest(ids) == CHOOSE n \in ids : \A k \in ids : analysis[k].started <= analysis[n].started
Starts == Max({0} \union {analysis[n].started : n \in Ids})

\* A fault: the analyses of the whole project are one history.
BeforeInProject(n) == UNION {Successes(s) : s \in Tracked} \ {n}

Before(n) == Successes(analysis[n].source) \ {n}

\* _previous_run: the one that started last, even if after this one.
PreviousRun(n) == Latest(Before(n))

Insight(kind, severity) == <<[kind |-> kind, severity |-> severity]>>
When(cond, seq) == IF cond THEN seq ELSE <<>>

QualityGateFailed(now) == When(now.gate # "OK", Insight("quality_gate_failed", "HIGH"))
ScanResultRegressed(now, was) ==
    When(was.gate = "OK" /\ now.gate # "OK", Insight("scan_result_changed_from_pass", "HIGH"))
NewIssuesIntroduced(now, was) ==
    When(now.issues > was.issues,
       Insight("new_issues_introduced", IF now.issues - was.issues >= 5 THEN "HIGH" ELSE "MEDIUM"))
Measured(now, was) == now # Unmeasured /\ was # Unmeasured
CoverageDropped(now, was) ==
    When(Measured(now.coverage, was.coverage) /\ was.coverage - now.coverage > 5, Insight("coverage_dropped", "MEDIUM"))
DuplicationIncreased(now, was) ==
    When(Measured(now.duplication, was.duplication) /\ now.duplication - was.duplication > 3,
       Insight("duplication_increased", "LOW"))

Compared(now, was) ==
    ScanResultRegressed(now, was) \o NewIssuesIntroduced(now, was)
      \o CoverageDropped(now, was) \o DuplicationIncreased(now, was)

Fired(n) ==
    LET now == analysis[n].found
    IN  QualityGateFailed(now)
          \o When(Before(n) # {}, Compared(now, analysis[PreviousRun(n)].found))

-----------------------------------------------------------------------------
Ongoing(s) == \E n \in Ids : analysis[n].source = s /\ analysis[n].status \in {"running", "success"} /\ ~analysis[n].over

\* What is found of s when an analysis of its row n starts; the row's own
\* earlier result is being replaced.
Past(s, n) ==
    IF Successes(s) \ {n} = {} THEN {} ELSE {analysis[Latest(Successes(s) \ {n})].found.gate}

Started(s, n) == [source |-> s, status |-> "running", started |-> Starts + 1, over |-> FALSE, judged |-> FALSE,
                  found |-> CHOOSE m \in Measures : TRUE,
                  past |-> Past(s, n)]

Began(s) == /\ Starts < MaxAnalyses
            /\ overlaps' = IF Ongoing(s) THEN overlaps \union {s} ELSE overlaps
            /\ UNCHANGED insights

BeginAnalysis(s) == Began(s) /\ analysis' = Append(analysis, Started(s, Len(analysis) + 1))

\* A commit is analysed again: the row is used again and moves to the front.
\* (Two analyses of one row at once are AnalysisRuns'.)
AnalyzeAgain(n) ==
    /\ analysis[n].over
    /\ Began(analysis[n].source)
    /\ analysis' = [analysis EXCEPT ![n] = Started(analysis[n].source, n)]

CommitAnalysis(n) ==
    /\ analysis[n].status = "running"
    /\ \E m \in Measures : analysis' = [analysis EXCEPT ![n].status = "success", ![n].found = m]
    /\ UNCHANGED <<insights, overlaps>>

FailAnalysis(n) ==
    /\ analysis[n].status = "running"
    /\ analysis' = [analysis EXCEPT ![n].status = "failed", ![n].over = TRUE]
    /\ UNCHANGED <<insights, overlaps>>

EvaluateAndStore(n) ==
    /\ analysis[n].status = "success" /\ ~analysis[n].over
    /\ insights' = insights \o [i \in DOMAIN Fired(n) |-> [at |-> analysis[n].started, what |-> Fired(n)[i]]]
    /\ analysis' = [analysis EXCEPT ![n].over = TRUE, ![n].judged = TRUE]
    /\ UNCHANGED overlaps

\* An exception or a restart after the commit: the run has its results still,
\* or is reported failed.
InsightsLost(n) ==
    /\ analysis[n].status = "success" /\ ~analysis[n].over
    /\ \E status \in {"success", "failed"} :
         analysis' = [analysis EXCEPT ![n].over = TRUE, ![n].status = status]
    /\ UNCHANGED <<insights, overlaps>>

HealthNext ==
    \/ \E s \in Tracked : BeginAnalysis(s)
    \/ \E n \in Ids : AnalyzeAgain(n) \/ CommitAnalysis(n) \/ FailAnalysis(n) \/ EvaluateAndStore(n) \/ InsightsLost(n)

HealthSpec == HealthInit /\ [][HealthNext]_healthVars

-----------------------------------------------------------------------------
\* compute_health_score, over what each repository's latest success found.
LatestFound == [s \in {t \in Tracked : Successes(t) # {}} |-> analysis[Latest(Successes(s))].found]
Total(measure) == SumFunction([s \in DOMAIN LatestFound |-> LatestFound[s][measure]])
Largest(x, y) == IF x > y THEN x ELSE y

GateDeduction ==
    LET gates == {LatestFound[s].gate : s \in DOMAIN LatestFound}
    IN  IF "ERROR" \in gates THEN -40 ELSE IF "WARN" \in gates THEN -15 ELSE 0
VulnerabilityDeduction == Largest(-5 * Total("vulnerabilities"), -30)
BugDeduction == Largest(-2 * Total("bugs"), -20)

\* The average of what was measured, against its threshold, without dividing.
Excess(measure, limit) ==
    SumFunction([s \in {t \in DOMAIN LatestFound : LatestFound[t][measure] # Unmeasured} |->
                   LatestFound[s][measure] - limit])
CoverageDeduction == IF Excess("coverage", 50) < 0 THEN -10 ELSE 0
DuplicationDeduction == IF Excess("duplication", 20) > 0 THEN -10 ELSE 0

\* The five newest, in every order of those stored by one transaction: these
\* share their created_at.
Newest ==
    IF Len(insights) <= 5 THEN {DOMAIN insights}
    ELSE LET edge  == insights[Len(insights) - 4].at
             tied  == {i \in DOMAIN insights : insights[i].at = edge}
             newer == {i \in DOMAIN insights : i > Max(tied)}
         IN  {newer \union some : some \in kSubset(5 - Cardinality(newer), tied)}
PerSeverity == [CRITICAL |-> -10, HIGH |-> -5, MEDIUM |-> -2, LOW |-> 0]
InsightDeduction(newest) == Largest(SumFunction([i \in newest |-> PerSeverity[insights[i].what.severity]]), -20)

Score(newest) ==
    IF DOMAIN LatestFound = {} THEN 0
    ELSE Largest(0, 100 + GateDeduction + VulnerabilityDeduction + BugDeduction
                        + CoverageDeduction + DuplicationDeduction + InsightDeduction(newest))

-----------------------------------------------------------------------------
HealthTyped ==
    /\ overlaps \subseteq Tracked
    /\ \A n \in Ids : /\ analysis[n].status \in {"running", "success", "failed"}
                      /\ analysis[n].judged => analysis[n].over
    /\ \A i \in DOMAIN insights : insights[i].at \in 1..Starts

Reported(n, kind) == \E i \in DOMAIN insights : insights[i].at = analysis[n].started /\ insights[i].what.kind = kind

(* rules.py's ScanResultRegressed "fires only on the transition, so it      *)
(* reads as 'this got worse'": of a repository whose analyses never         *)
(* overlapped, a regression is reported for exactly the analyses whose gate *)
(* fails where the commit analysed last before them passed, whatever failed *)
(* in between, was analysed again or became of other repositories.          *)
RegressionsReported ==
    \A n \in Ids :
      analysis[n].judged /\ analysis[n].source \notin overlaps =>
        (Reported(n, "scan_result_changed_from_pass") <=>
          analysis[n].found.gate # "OK" /\ "OK" \in analysis[n].past)

(* The score hides nothing (health.py): one repository whose gate fails     *)
(* costs a project its 40 points, whatever the others show, and each        *)
(* vulnerability found costs something until the cap.                       *)
ScoreHidesNothing ==
    \A newest \in Newest :
      /\ Score(newest) \in 0..100
      /\ \A s \in DOMAIN LatestFound :
           /\ LatestFound[s].gate = "ERROR" => Score(newest) <= 60
           /\ LatestFound[s].vulnerabilities > 0 => Score(newest) <= 95
           /\ LatestFound[s].vulnerabilities > 5 => Score(newest) <= 70

(* What a project's page says of its analyses is honest: its insights and   *)
(* its score.                                                               *)
HealthIsHonest == RegressionsReported /\ ScoreHidesNothing
=============================================================================
