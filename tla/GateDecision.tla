--------------------------- MODULE GateDecision ---------------------------
(***************************************************************************)
(* The evidence gate: the findings a change case earns under a gate policy *)
(* (engine.review_case) and the decision they lead to.  Pure operators.    *)
(* A finding is kept only when it affects the decision; its message and    *)
(* the reported metrics are left out.                                      *)
(*                                                                         *)
(* Rates, confidences and ratios are whole percents.  The code compares    *)
(* rates rounded to six decimals, which agrees with the exact comparison   *)
(* of Below for whole percents and fewer than 10^4 trials.                 *)
(***************************************************************************)
EXTENDS Integers, Sequences, FiniteSets

CONSTANT Absent   \* the code's None: no intervention, no metrics, no measure

Consequences == {"human_review", "reject", "needs_evidence", "conditional"}

Finding(code, consequence, found) ==
    IF found THEN {[code |-> code, consequence |-> consequence]} ELSE {}

\* A share of hits that falls short of a percentage; a share of nothing never does.
Below(hits, total, percent) == hits * 100 < percent * total

\* Too little evidence asks for more, enough of it that fails rejects.
Graded(code, tooFew, failed) ==
    Finding(code, "needs_evidence", tooFew) \cup Finding(code, "reject", ~tooFew /\ failed)

---------------------------------------------------------------------------
(* The evidence of a case                                                  *)

Requirement(case) ==
    Finding("REQ-001", "human_review", case.requirement \in {"ambiguous", "conflicting"})
      \cup Finding("REQ-001", "needs_evidence", case.requirement = "unknown")

Reproduction(case, policy) ==
    Finding("VER-001", "needs_evidence",
            policy.requireIndependentOracle /\ ~case.oracleIndependent)
      \cup Graded("VER-002", case.trials < policy.minReproductionTrials,
                  Below(case.reproduced, case.trials, policy.minReproductionRate))

\* The stable sort puts the first of the most confident hypotheses in front.
Leading(case) ==
    CHOOSE i \in DOMAIN case.hypotheses :
        \A j \in DOMAIN case.hypotheses :
            /\ case.hypotheses[j].confidence <= case.hypotheses[i].confidence
            /\ case.hypotheses[j].confidence = case.hypotheses[i].confidence => i <= j

\* The leader is ahead of every other hypothesis, and of no hypothesis at all, by the margin.
Separated(case, leader, margin) ==
    /\ case.hypotheses[leader].confidence >= margin
    /\ \A j \in DOMAIN case.hypotheses \ {leader} :
           case.hypotheses[leader].confidence - case.hypotheses[j].confidence >= margin

Intervention(trial, policy) ==
    IF trial = Absent THEN Finding("ATT-004", "needs_evidence", TRUE)
    ELSE Finding("ATT-004", "needs_evidence",
                 policy.requireIsolatedIntervention /\ ~trial.isolated)
           \cup Graded("ATT-005", trial.trials < policy.minInterventionTrials,
                       Below(trial.resolved, trial.trials, policy.minInterventionRate))

Attribution(case, policy) ==
    IF case.hypotheses = <<>> THEN Finding("ATT-001", "needs_evidence", TRUE)
    ELSE LET leader == Leading(case)
             top    == case.hypotheses[leader]
         IN  Finding("ATT-001", "needs_evidence", top.confidence < policy.minConfidence)
               \cup Finding("ATT-002", "needs_evidence",
                            ~Separated(case, leader, policy.minMargin))
               \cup Finding("ATT-003", "reject", top.component # case.component)
               \cup Intervention(top.intervention, policy)

Change(case, policy) ==
    Finding("NULL-001", "needs_evidence", case.evidenceAgainstNull = 0)
      \cup Finding("MIN-001", "reject", case.surfaces > policy.maxSurfaces)

---------------------------------------------------------------------------
(* The controls of a case: a sequence of                                   *)
(* [kind, baseline, candidate, critical], baseline and candidate pass or not *)

Counted(case, Is(_)) == Cardinality({i \in DOMAIN case.controls : Is(case.controls[i])})

PositiveControls(case, policy) ==
    LET total == Counted(case, LAMBDA c : c.kind = "positive")
        good  == Counted(case, LAMBDA c : c.kind = "positive" /\ c.candidate)
        fixed == Counted(case, LAMBDA c : c.kind = "positive" /\ ~c.baseline /\ c.candidate)
    IN  Graded("VAL-001", total < policy.minPositive \/ fixed = 0,
               Below(good, total, policy.minPositiveRate))

\* Negative and regression controls count only when the baseline passed them.
NegativeControls(case, policy) ==
    LET total == Counted(case, LAMBDA c : c.kind = "negative" /\ c.baseline)
        good  == Counted(case, LAMBDA c : c.kind = "negative" /\ c.baseline /\ c.candidate)
    IN  Graded("VAL-002", total < policy.minNegative,
               Below(good, total, policy.minNegativeRate))

RegressionControls(case, policy) ==
    LET total  == Counted(case, LAMBDA c : c.kind = "regression" /\ c.baseline)
        good   == Counted(case, LAMBDA c : c.kind = "regression" /\ c.baseline /\ c.candidate)
        broken == Counted(case, LAMBDA c : /\ c.kind = "regression" /\ c.baseline
                                           /\ ~c.candidate /\ c.critical)
    IN  Graded("VAL-003", total < policy.minRegression,
               \/ (broken # 0 /\ ~policy.allowCriticalRegressions)
               \/ Below(good, total, policy.minRegressionRate))

---------------------------------------------------------------------------
(* Cost and latency                                                        *)

\* No ratio can be formed: a measure is missing, or the baseline was free and
\* the candidate is not.
NoRatio(measure) ==
    \/ measure.baseline = Absent
    \/ measure.candidate = Absent
    \/ (measure.baseline = 0 /\ measure.candidate # 0)

Increased(measure, percent) ==
    measure.candidate * 100 > measure.baseline * (100 + percent)

Metric(code, measure, percent, policy) ==
    IF NoRatio(measure)
    THEN Finding(code, "conditional", policy.requireMetrics)
    ELSE Finding(code, IF policy.blockOnMetricRegression THEN "reject" ELSE "conditional",
                 Increased(measure, percent))

Metrics(case, policy) ==
    IF case.metrics = Absent THEN Finding("MET-001", "conditional", policy.requireMetrics)
    ELSE Metric("MET-001", case.metrics.cost, policy.maxCostIncrease, policy)
           \cup Metric("MET-002", case.metrics.latency, policy.maxLatencyIncrease, policy)

---------------------------------------------------------------------------
(* The decision                                                            *)

Findings(case, policy) ==
    Requirement(case) \cup Reproduction(case, policy) \cup Attribution(case, policy)
      \cup Change(case, policy) \cup PositiveControls(case, policy)
      \cup NegativeControls(case, policy) \cup RegressionControls(case, policy)
      \cup Metrics(case, policy)

DecisionFor(findings) ==
    LET says(consequence) == \E f \in findings : f.consequence = consequence
    IN  IF says("human_review") THEN "human_review"
        ELSE IF says("reject") THEN "reject"
        ELSE IF says("needs_evidence") THEN "needs_evidence"
        ELSE IF says("conditional") THEN "conditional_pass"
        ELSE "approve"

Decide(case, policy) == DecisionFor(Findings(case, policy))

FindingCodes(case, policy) == {f.code : f \in Findings(case, policy)}

---------------------------------------------------------------------------
(* Documents the parsers accept                                            *)

Percent == 0 .. 100

Policies ==
    [requireIndependentOracle : BOOLEAN, minReproductionTrials : Nat \ {0},
     minReproductionRate : Percent, minConfidence : Percent, minMargin : Percent,
     requireIsolatedIntervention : BOOLEAN, minInterventionTrials : Nat \ {0},
     minInterventionRate : Percent, maxSurfaces : Nat \ {0},
     minPositive : Nat \ {0}, minPositiveRate : Percent,
     minNegative : Nat \ {0}, minNegativeRate : Percent,
     minRegression : Nat \ {0}, minRegressionRate : Percent,
     allowCriticalRegressions : BOOLEAN, requireMetrics : BOOLEAN,
     maxCostIncrease : Nat, maxLatencyIncrease : Nat, blockOnMetricRegression : BOOLEAN]

Measures == Nat \cup {Absent}
=============================================================================
