------------------------------ MODULE MCReview ------------------------------
EXTENDS ReviewDelivery

(* Policies small enough that one or two trials and controls decide; lax   *)
(* is what a pull request would like to be judged under.                   *)
MCStrict ==
    [requireIndependentOracle |-> TRUE, minReproductionTrials |-> 2, minReproductionRate |-> 67,
     minConfidence |-> 70, minMargin |-> 15, requireIsolatedIntervention |-> TRUE,
     minInterventionTrials |-> 2, minInterventionRate |-> 67, maxSurfaces |-> 1,
     minPositive |-> 1, minPositiveRate |-> 100, minNegative |-> 1, minNegativeRate |-> 100,
     minRegression |-> 1, minRegressionRate |-> 98, allowCriticalRegressions |-> FALSE,
     requireMetrics |-> TRUE, maxCostIncrease |-> 10, maxLatencyIncrease |-> 15,
     blockOnMetricRegression |-> FALSE]
MCLax == [MCStrict EXCEPT !.maxSurfaces = 9, !.minReproductionTrials = 1, !.requireMetrics = FALSE]

MCControl(kind, baseline) ==
    [kind |-> kind, baseline |-> baseline, candidate |-> TRUE, critical |-> FALSE]
MCHypothesis(component, confidence) ==
    [component |-> component, confidence |-> confidence,
     intervention |-> [isolated |-> TRUE, trials |-> 2, resolved |-> 2]]
MCGood ==
    [requirement |-> "clear", oracleIndependent |-> TRUE, trials |-> 2, reproduced |-> 2,
     hypotheses |-> << MCHypothesis("prompt", 20), MCHypothesis("tool", 80) >>,
     component |-> "tool", evidenceAgainstNull |-> 1, surfaces |-> 1,
     controls |-> << MCControl("positive", FALSE), MCControl("negative", TRUE),
                     MCControl("regression", TRUE) >>,
     metrics |-> [cost |-> [baseline |-> 10, candidate |-> 10],
                  latency |-> [baseline |-> 10, candidate |-> 11]]]
MCWide == [MCGood EXCEPT !.surfaces = 3]
MCDearer == [MCGood EXCEPT !.metrics.cost.candidate = 12]

MCFile(path) == [path |-> path, previous |-> None]
MCRenamed(path, previous) == [path |-> path, previous |-> previous]
MCBoth(policy) == [policy |-> policy, release |-> policy]

MCBases == {"b1", "b2"}
MCHeads == {"fix", "widen", "docs", "both", "prompts", "worse"}
(* "widen" also relaxes the policy it would be judged under; the base      *)
(* tightens its policy and improves its case between b1, which "fix" left, *)
(* and b2, which the others left.  A case lies in the folder of its tool.   *)
MCCommit ==
    [b1 |-> [policies |-> MCBoth([MCStrict EXCEPT !.maxCostIncrease = 30]), case |-> MCDearer],
     b2 |-> [policies |-> MCBoth(MCStrict), case |-> MCGood],
     fix |-> [policies |-> MCBoth([MCStrict EXCEPT !.maxCostIncrease = 30]), case |-> MCDearer,
              files |-> << MCRenamed("lib", "tool"), MCFile("guide") >>],
     widen |-> [policies |-> [policy |-> MCLax, release |-> MCStrict], case |-> MCWide,
                files |-> << MCFile("policy"), MCFile("case") >>],
     docs |-> [policies |-> MCBoth(MCStrict), case |-> MCGood,
              files |-> << MCFile("guide") >>],
     both |-> [policies |-> MCBoth(MCStrict), case |-> MCGood,
               files |-> << MCRenamed("prompt", "tool") >>],
     prompts |-> [policies |-> MCBoth(MCStrict), case |-> MCGood,
                  files |-> << MCFile("prompt") >>],
     worse |-> [policies |-> MCBoth(MCStrict), case |-> MCDearer,
                files |-> << MCFile("case") >>]]

MCPatterns == [tools |-> {"tool", "case"}, prompts |-> {"prompt"}]
MCExpected == [tools |-> "tool", prompts |-> "prompt"]

MCSetting ==
    [mode |-> "configured", checkout |-> "head", publish |-> "auto", override |-> None,
     fork |-> FALSE, dependabot |-> FALSE, token |-> TRUE, conditional |-> FALSE, reuse |-> FALSE]
MCSettings ==
    { MCSetting,
      [MCSetting EXCEPT !.checkout = "merge", !.publish = "required"],
      [MCSetting EXCEPT !.fork = TRUE],
      [MCSetting EXCEPT !.fork = TRUE, !.publish = "required"],
      [MCSetting EXCEPT !.override = "release", !.dependabot = TRUE],
      [MCSetting EXCEPT !.token = FALSE],
      [MCSetting EXCEPT !.mode = "explicit", !.override = "release", !.reuse = TRUE,
                        !.conditional = TRUE],
      [MCSetting EXCEPT !.mode = "explicit", !.token = FALSE] }

MCReviews == {[case |-> MCGood, policy |-> MCStrict], [case |-> MCWide, policy |-> MCStrict]}
MCTrustedKey ==
    [k1 |-> [actions |-> {"approve"}, valid_from |-> 0, valid_until |-> 6],
     k2 |-> [actions |-> {"approve", "exception"}, valid_from |-> 1, valid_until |-> 6]]

(* The jobs of a pull request and of a server path: a second attempt, a    *)
(* fork, another pull request's merge ref, a shelveset, another branch.    *)
MCDocumentCase == [good |-> MCGood, wide |-> MCWide]
MCDocumentPolicy == [strict |-> MCStrict]
MCSide(repository, ref) == [repository |-> repository, ref |-> ref, sha |-> ref]
MCGitHubJob ==
    [platform |-> "github", event |-> "pull_request", action |-> "opened", number |-> 7,
     base |-> MCSide("home", "main"), head |-> MCSide("home", "h1"), repository |-> "home",
     base_ref |-> "main", head_ref |-> "h1", merge |-> 7, home |-> "home", run |-> 1, attempt |-> 1]
MCAzureJob ==
    [platform |-> "azure", provider |-> "TfsVersionControl", path |-> "trunk", version |-> 3,
     branch |-> "trunk", shelveset |-> Absent, reason |-> "IndividualCI", build |-> 1]
MCEnvironments ==
    { MCGitHubJob,
      [MCGitHubJob EXCEPT !.attempt = 2],
      [MCGitHubJob EXCEPT !.run = 2, !.head = MCSide("fork", "h2"), !.head_ref = "h2"],
      [MCGitHubJob EXCEPT !.merge = 8],
      MCAzureJob,
      [MCAzureJob EXCEPT !.build = 2, !.branch = "s;o", !.shelveset = "s;o",
                         !.reason = "ValidateShelveset"],
      [MCAzureJob EXCEPT !.branch = "other"] }

(* Steps the Action may be asked for, and the answers of adapters.         *)
MCJob == [selected |-> TRUE, generator |-> TRUE, fork |-> FALSE, base |-> TRUE, head |-> TRUE]
MCJobs ==
    {MCJob} \cup {[MCJob EXCEPT ![field] = ~@] : field \in DOMAIN MCJob}
MCOutcome(id, cost) == [id |-> id, cost |-> cost]
MCOutcomeLists ==
    { <<>>, << MCOutcome("a", 1) >>, << MCOutcome("a", 1), MCOutcome("b", 1) >>,
      << MCOutcome("a", 0), MCOutcome("a", 0) >>, << MCOutcome("a", 2), MCOutcome("b", 1) >>,
      << MCOutcome("a", 0), MCOutcome("b", 0), MCOutcome("c", 0) >> }

(* One plan with two looks and a metric of each direction, one with a      *)
(* single look.  The quantiles are those of a confidence level of 0.90.     *)
MCMetric(direction, degradation) == [direction |-> direction, degradation |-> degradation]
MCPlan ==
    [looks |-> 2, seconds |-> 60, samples |-> 40, sticky |-> TRUE,
     metrics |-> [success |-> MCMetric("higher", 150), failure |-> MCMetric("lower", 150)]]
MCPlans ==
    {MCPlan, [MCPlan EXCEPT !.looks = 1, !.sticky = FALSE,
                            !.metrics = [failure |-> MCMetric("lower", 200)]]}
MCChange == [change |-> "c1", decision |-> "approve", action |-> "patch"]
MCChanges == {MCChange, [MCChange EXCEPT !.change = "c2", !.decision = "reject"]}
MCBatches == {[success |-> 20, failure |-> 0], [success |-> 10, failure |-> 8]}
MCZSquared == 1 :> 3842 @@ 4 :> 6239

(* Exports: two traces with timed and untimed spans, another with one of   *)
(* the same traces, and ones the collector or its reader refuses.          *)
MCTraceHash == [t1 |-> 2, t2 |-> 1]
MCSpanHash == [pair \in {"t1", "t2"} \X {"a", "b"} |->
    CASE pair = <<"t1", "a">> -> 3 [] pair = <<"t1", "b">> -> 1
      [] pair = <<"t2", "a">> -> 2 [] pair = <<"t2", "b">> -> 4]
MCText(key, text) == [key |-> key, value |-> [type |-> "text", is |-> text]]
MCNumber(key, n) == [key |-> key, value |-> [type |-> "number", is |-> n]]
MCSpan(trace, span) ==
    [trace |-> trace, span |-> span, parent |-> Absent, named |-> TRUE, start |-> 1, end |-> 3,
     status |-> 0, attributes |-> << MCText("model", "m1"), MCText("kind", "LLM") >>]
MCChild(trace, span, parent) ==
    [MCSpan(trace, span) EXCEPT !.parent = parent, !.start = Absent, !.status = 2,
        !.attributes = << MCText("model", "free text"), MCNumber("tokens", 5),
                          MCNumber("password", 1), MCText("note", "m1") >>]
MCExport ==
    [e1 |-> << MCSpan("t1", "a"), MCChild("t1", "b", "a"),
               [MCSpan("t2", "a") EXCEPT !.start = 4, !.end = Absent, !.status = Absent] >>,
     e2 |-> << MCSpan("t1", "a"), MCSpan("t2", "b") >>,
     itself |-> << MCChild("t1", "a", "a") >>,
     twice |-> << MCSpan("t1", "a"), MCSpan("t1", "a") >>,
     late |-> << [MCSpan("t1", "a") EXCEPT !.start = 4] >>,
     empty |-> <<>>]

MCAsk(export, id, output) ==
    [export |-> export, artifact |-> "export", id |-> id, maxSpans |-> 3, maxClusters |-> 2,
     select |-> {}, output |-> output]
MCOne == <<"causure-investigation">>
MCTwo == <<"causure-investigation-2">>
MCFirst == MCAsk("e1", "i1", Absent)
MCPart == [MCAsk("e1", "i1", MCTwo) EXCEPT !.select = {[cluster |-> 2], [position |-> 2]}]
MCRenamedAsk == MCAsk("e1", "i2", MCTwo)
MCOther == MCAsk("e2", "i1", Absent)
MCSame == MCAsk("e2", "i1", MCOne)
MCRefused ==
    {MCAsk(e, "i1", Absent) : e \in {"itself", "twice", "late", "empty"}}
      \cup {[MCFirst EXCEPT !.maxSpans = 2], [MCFirst EXCEPT !.maxClusters = 1],
            [MCFirst EXCEPT !.select = {[position |-> 3]}]}
MCRequests == {MCFirst, MCPart, MCRenamedAsk, MCOther, MCSame} \cup MCRefused

MCInvestigate(r) == [do |-> "investigate", request |-> r]
MCCase(from, id, policy) == [do |-> "case", from |-> from, id |-> id, policy |-> policy]
MCComponent(id, path) ==
    [do |-> "component", retention |-> Absent,
     component |-> [id |-> id, paths |-> {path}, case |-> id, generator |-> Absent]]
MCAdapter(kind, binds) ==
    [do |-> "adapter", adapter |-> [id |-> "g", kind |-> kind], binds |-> binds]
MCInit == [do |-> "init"]
MCInside == <<"project", "i1">>
MCAgenda(project, holds, commands) ==
    [project |-> project, holds |-> holds, commands |-> commands]
MCAgendas ==
    { MCAgenda(FALSE, <<>>, << MCInit, MCInvestigate(MCFirst), MCComponent("tool", "src") >>),
      MCAgenda(FALSE, <<>>, << MCInit, MCInit, MCInvestigate(MCOther) >>),
      MCAgenda(FALSE, <<>>, << MCInit, MCInvestigate(MCFirst), MCInvestigate(MCOther) >>),
      MCAgenda(TRUE, MCInside :> MCFirst,
               << MCComponent("tool", "src"), MCAdapter("case_generator", "tool"),
                  MCCase(MCInside, "c1", Absent) >>),
      MCAgenda(TRUE, <<>>, << MCComponent("tool", "src"), MCComponent("prompt", "src"),
                              MCAdapter("replay", Absent) >>),
      MCAgenda(TRUE, MCInside :> MCFirst,
               << MCCase(MCInside, "c1", "lax"), MCInvestigate(MCFirst) >>),
      MCAgenda(FALSE, MCOne :> MCFirst @@ MCTwo :> MCRenamedAsk,
               << MCCase(MCOne, "c1", Absent), MCInvestigate(MCSame) >>),
      MCAgenda(FALSE, MCOne :> MCFirst,
               << MCCase(MCOne, "c1", Absent), MCCase(MCOne, "c1", "lax") >>),
      MCAgenda(FALSE, MCOne :> MCFirst,
               << MCCase(MCOne, "c2", Absent), MCCase(MCOne, "c3", "lax") >>),
      MCAgenda(FALSE, MCOne :> MCFirst, << MCCase(MCOne, "c1", Absent), MCInvestigate(MCPart) >>) }
    \cup {MCAgenda(FALSE, <<>>, << MCInvestigate(r), MCInvestigate(MCOther) >>) : r \in MCRefused}

(* A case that earns an approval under the lax policy only, one that is     *)
(* hardly begun, and one whose metrics do not match.                       *)
MCTrials(isolated) == [isolated |-> isolated, trials |-> << TRUE, TRUE >>]
MCBegun ==
    [requirement |-> "unknown", independent |-> FALSE, reproductions |-> <<>>, hypotheses |-> <<>>,
     component |-> Absent, surfaces |-> 1, against |-> 0, controls |-> <<>>,
     baseline |-> <<>>, candidate |-> <<>>]
MCAnswered ==
    [requirement |-> "clear", independent |-> TRUE, reproductions |-> << TRUE, TRUE >>,
     hypotheses |-> << [component |-> "tool", confidence |-> 80, intervention |-> MCTrials(TRUE)],
                       [component |-> "prompt", confidence |-> 20, intervention |-> Absent] >>,
     component |-> Absent, surfaces |-> 3, against |-> 1, controls |-> MCGood.controls,
     baseline |-> [cost |-> 10], candidate |-> [cost |-> 10]]
MCAnswers ==
    [c1 |-> MCAnswered, c2 |-> MCBegun,
     c3 |-> [MCAnswered EXCEPT !.baseline = [cost |-> 10, tokens |-> 5]]]
MCCasePolicy == [preset |-> MCStrict, lax |-> MCLax]

(* One producer, whose key is replaced under its name; the store that names *)
(* another list holds it twice.                                             *)
MCSigners == {[producer |-> "lab", key |-> "a", public |-> "pub1", list |-> "red"]}
MCTerms == {[lifetime |-> 4, retention |-> 0], [lifetime |-> 0, retention |-> 1],
            [lifetime |-> 2, retention |-> -1]}
MCOffsets == {-1, 0, 1}
MCStoreKey(public, from) ==
    [key |-> "a", producer |-> "lab", public |-> public, valid_from |-> from, valid_until |-> 7]
MCTrustStores ==
    { [list |-> "red", keys |-> << MCStoreKey("pub1", 0) >>],
      [list |-> "red", keys |-> << MCStoreKey("pub2", 1) >>],
      [list |-> "blue", keys |-> << MCStoreKey("pub1", 0), MCStoreKey("pub2", 1) >>] }
=============================================================================
