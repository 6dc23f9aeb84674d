--------------------------- MODULE SharedAnalysis ---------------------------
(***************************************************************************)
(* The storage analysis of one repository as its callers see it            *)
(* (routers/storage.py): a request looks in the cache, else attaches to    *)
(* the run in flight or starts one; the run sends its events to a queue    *)
(* per caller, keeps its result in the cache and ends.  One event is one   *)
(* dict, put on every queue, and a stream takes it apart as it reads.      *)
(***************************************************************************)
EXTENDS Naturals, Sequences

CONSTANTS Analysts,      \* callers
          Unrestricted,  \* those whose access rules hide nothing
          MaxRuns        \* bound on the runs

ASSUME AnalystsAssumption == Unrestricted \subseteq Analysts /\ MaxRuns \in Nat

VARIABLES cached,    \* whether the cache holds a result
          inflight,  \* the run in _inflight, or 0
          runs,      \* the stage of each run
          dicts,     \* each run's events, as their dicts read by now
          caller

sharedVars == <<cached, inflight, runs, dicts, caller>>

Gone == [stage |-> "away", way |-> "none", run |-> 0, queue |-> <<>>,
         heard |-> <<>>, due |-> FALSE, failed |-> FALSE]
Views == {"none", "full"} \union Analysts
Unread == [phase |-> [type |-> "phase", view |-> "none"],
           result |-> [type |-> "result", view |-> "full"]]

SharedInit ==
    /\ cached = FALSE /\ inflight = 0 /\ runs = <<>> /\ dicts = <<>>
    /\ caller = [c \in Analysts |-> Gone]

-----------------------------------------------------------------------------
ScopeResult(c, view) == IF c \in Unrestricted THEN view ELSE c
Frame(type, view) == [type |-> type, view |-> view]

Subscribers(r) == {c \in Analysts : caller[c].stage = "waiting" /\ caller[c].run = r}

\* _fanout: an unbounded queue takes a payload at once.
Fanout(r, payloads) ==
    [c \in Analysts |-> IF c \in Subscribers(r) THEN [caller[c] EXCEPT !.queue = @ \o payloads] ELSE caller[c]]

(* Both endpoints that analyse come here from their last await, and from    *)
(* here to the queue in the list of subscribers there is none.              *)
JoinOrStart(c, way) ==
    /\ inflight # 0 \/ Len(runs) < MaxRuns
    /\ LET r == IF inflight # 0 THEN inflight ELSE Len(runs) + 1
       IN  /\ inflight' = r
           /\ runs' = IF inflight # 0 THEN runs ELSE Append(runs, "started")
           /\ dicts' = IF inflight # 0 THEN dicts ELSE Append(dicts, Unread)
           /\ caller' = [caller EXCEPT ![c] = [Gone EXCEPT !.stage = "waiting", !.way = way, !.run = r]]
    /\ UNCHANGED cached

Goes(c, stage) == caller' = [caller EXCEPT ![c].stage = stage]

\* The result endpoint only looks in the cache; use_cache=false does not.
Look(c) ==
    /\ caller[c].stage = "away"
    /\ \E way \in {"result", "plain", "stream"} :
         caller' = [caller EXCEPT ![c] = [Gone EXCEPT !.stage = "looking", !.way = way]]
    /\ UNCHANGED <<cached, inflight, runs, dicts>>

AnalyzeAnew(c) ==
    /\ caller[c].stage = "away"
    /\ \E way \in {"plain", "stream"} : JoinOrStart(c, way)

CacheAnswers(c) ==
    /\ caller[c].stage = "looking"
    /\ Goes(c, IF cached THEN "hit" ELSE "missed")
    /\ UNCHANGED <<cached, inflight, runs, dicts>>

GetCachedResult(c) ==
    /\ \/ /\ caller[c].stage = "hit"
          /\ caller' = [caller EXCEPT ![c].stage = "over",
                          ![c].heard = <<Frame(IF caller[c].way = "stream" THEN "cache" ELSE "json",
                                               ScopeResult(c, "full"))>>]
       \/ /\ caller[c].stage = "missed" /\ caller[c].way = "result"
          /\ caller' = [caller EXCEPT ![c].stage = "over", ![c].failed = TRUE]
    /\ UNCHANGED <<cached, inflight, runs, dicts>>

Analyze(c) ==
    /\ caller[c].stage = "missed" /\ caller[c].way # "result"
    /\ JoinOrStart(c, caller[c].way)

-----------------------------------------------------------------------------
RunTo(r, stage) == runs' = [runs EXCEPT ![r] = stage]

\* The phases and the progress of the analysis, as one event.
RunAnnounces(r) ==
    /\ runs[r] = "started" /\ RunTo(r, "analysing")
    /\ caller' = Fanout(r, <<"phase">>)
    /\ UNCHANGED <<cached, inflight, dicts>>

\* The result is announced, then awaits the cache.
AnalysisComplete(r) ==
    /\ runs[r] = "analysing" /\ RunTo(r, "caching")
    /\ caller' = [c \in Analysts |-> IF c \in Subscribers(r)
                    THEN [Fanout(r, <<"result">>)[c] EXCEPT !.due = TRUE] ELSE caller[c]]
    /\ UNCHANGED <<cached, inflight, dicts>>

\* A Docker repository without images: a result, and no event of it.
AnalysisEmpty(r) ==
    /\ runs[r] = "analysing" /\ RunTo(r, "caching")
    /\ UNCHANGED <<cached, inflight, dicts, caller>>

\* A fault: the outcome is sent and the end is not.
LastWordsNone(outcome) == <<outcome>>

\* The outcome, and the end whatever the outcome.
LastWords(outcome) == <<outcome, "__done__">>

RunEnds(r, outcome) ==
    /\ RunTo(r, "over") /\ inflight' = 0
    /\ caller' = Fanout(r, LastWords(outcome))
    /\ UNCHANGED dicts

\* set_json swallows what Redis raises: then nothing is kept.
RunSucceeds(r) ==
    /\ runs[r] = "caching" /\ cached' \in {cached, TRUE}
    /\ RunEnds(r, "__result__")

RunFails(r) ==
    /\ runs[r] \in {"started", "analysing"} /\ UNCHANGED cached
    /\ RunEnds(r, "__error__")

\* The analysis job of the same repository caches a result of its own.
HandleAnalyzeRepo == ~cached /\ cached' = TRUE /\ UNCHANGED <<inflight, runs, dicts, caller>>
ResultExpires == cached /\ cached' = FALSE /\ UNCHANGED <<inflight, runs, dicts, caller>>

-----------------------------------------------------------------------------
FirstOf(c) == Head(caller[c].queue)
Took(c) == [caller[c] EXCEPT !.queue = Tail(@)]
Waiting(c, way) == caller[c].stage = "waiting" /\ caller[c].way = way /\ caller[c].queue # <<>>

\* _await_result drops the events before the outcome.
AwaitResult(c) ==
    /\ Waiting(c, "plain")
    /\ caller' = [caller EXCEPT ![c] =
         CASE FirstOf(c) = "__result__" -> [Took(c) EXCEPT !.stage = "over", !.heard = <<Frame("json", ScopeResult(c, "full"))>>]
           [] FirstOf(c) = "__error__" -> [Took(c) EXCEPT !.stage = "over", !.failed = TRUE]
           [] OTHER -> Took(c)]
    /\ UNCHANGED <<cached, inflight, runs, dicts>>

(* pop("type") takes the type off the dict the other queues hold too, and   *)
(* the scoped result is put into it.                                        *)
TranslateStreamEvent(c) ==
    LET ev == dicts[caller[c].run][FirstOf(c)]
        view == IF ev.type = "result" THEN ScopeResult(c, ev.view) ELSE ev.view
    IN  /\ Waiting(c, "stream") /\ FirstOf(c) \in {"phase", "result"}
        /\ dicts' = [dicts EXCEPT ![caller[c].run][FirstOf(c)] = Frame("progress", view)]
        /\ caller' = [caller EXCEPT ![c] = [Took(c) EXCEPT !.heard = Append(@, Frame(ev.type, view))]]
        /\ UNCHANGED <<cached, inflight, runs>>

StreamAnalysisEvents(c) ==
    /\ Waiting(c, "stream") /\ FirstOf(c) \notin {"phase", "result"}
    /\ caller' = [caller EXCEPT ![c] =
         [Took(c) EXCEPT !.failed = @ \/ FirstOf(c) = "__error__",
                         !.stage = IF FirstOf(c) = "__done__" THEN "over" ELSE @]]
    /\ UNCHANGED <<cached, inflight, runs, dicts>>

\* A stream detaches; the run goes on for the others, and for the cache.
Disconnect(c) ==
    /\ caller[c].stage = "over" \/ (caller[c].stage = "waiting" /\ caller[c].way = "stream")
    /\ caller' = [caller EXCEPT ![c] = Gone]
    /\ UNCHANGED <<cached, inflight, runs, dicts>>

SharedNext ==
    \/ \E c \in Analysts :
         \/ Look(c) \/ AnalyzeAnew(c) \/ CacheAnswers(c) \/ GetCachedResult(c) \/ Analyze(c)
         \/ AwaitResult(c) \/ TranslateStreamEvent(c) \/ StreamAnalysisEvents(c) \/ Disconnect(c)
    \/ \E r \in DOMAIN runs :
         \/ RunAnnounces(r) \/ AnalysisComplete(r) \/ AnalysisEmpty(r) \/ RunSucceeds(r) \/ RunFails(r)
    \/ HandleAnalyzeRepo \/ ResultExpires

SharedSpec == SharedInit /\ [][SharedNext]_sharedVars
-----------------------------------------------------------------------------
SharedTyped ==
    /\ cached \in BOOLEAN /\ inflight \in 0..Len(runs)
    /\ \A r \in DOMAIN runs : runs[r] \in {"started", "analysing", "caching", "over"}
    /\ \A c \in Analysts :
         /\ caller[c].stage \in {"away", "looking", "hit", "missed", "waiting", "over"}
         /\ \A i \in DOMAIN caller[c].heard : caller[c].heard[i].view \in Views

(* storage.py:89-91 -- requests for one repository share one run, and none  *)
(* is left behind by it: at most one run of the repository is going on, a   *)
(* caller that waits is attached to it or has the end of its own run in its *)
(* queue, and a caller answered with JSON got the view of its own access.   *)
WaitersAreServed ==
    /\ \A r \in DOMAIN runs : runs[r] # "over" => r = inflight
    /\ \A c \in Analysts :
         /\ caller[c].stage = "waiting" =>
              caller[c].run = inflight \/ \E i \in DOMAIN caller[c].queue : caller[c].queue[i] = "__done__"
         /\ \A i \in DOMAIN caller[c].heard :
              caller[c].heard[i].type \in {"json", "cache"} => caller[c].heard[i].view = ScopeResult(c, "full")

(* analyze_stream's docstring: a stream that attaches to the run of another *)
(* request "receives the same events": one that was attached when the       *)
(* result was announced, and ends without an error, was sent the result.    *)
SameEvents ==
    \A c \in Analysts :
      caller[c].stage = "over" /\ caller[c].way = "stream" /\ caller[c].due /\ ~caller[c].failed =>
        \E i \in DOMAIN caller[c].heard : caller[c].heard[i].type = "result"
=============================================================================
