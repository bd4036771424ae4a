---------------------------- MODULE ApprovalProofs ----------------------------
(***************************************************************************)
(* What a decision, an approval and a verification receipt mean: facts      *)
(* about the gate for every case and every policy; an accepted approval is  *)
(* not revoked by any list the verifier could no longer miss, and its       *)
(* review is recent; a verification receipt is about bytes that a trusted   *)
(* producer signed, within their retention, and is not touched by a         *)
(* revocation the verifier could no longer miss.                            *)
(***************************************************************************)
EXTENDS AzureApproval, ArtifactAttestation, FiniteSetTheorems, WellFoundedInduction, TLAPS

-----------------------------------------------------------------------------
(* The gate *)

\* What the case parser accepts of the values the gate compares.
WellFormedMeasure(m) == m.baseline \in Measures /\ m.candidate \in Measures

WellFormed(case) ==
    /\ case.trials \in Nat /\ case.reproduced \in Nat /\ case.surfaces \in Nat
    /\ \E n \in Nat : DOMAIN case.hypotheses = 1 .. n
    /\ case.hypotheses # <<>> => DOMAIN case.hypotheses # {}
    /\ \A i \in DOMAIN case.hypotheses :
         /\ case.hypotheses[i].confidence \in Percent
         /\ LET trial == case.hypotheses[i].intervention
            IN  trial # Absent => trial.trials \in Nat /\ trial.resolved \in Nat
    /\ \E n \in Nat : DOMAIN case.controls = 1 .. n
    /\ case.metrics # Absent =>
         WellFormedMeasure(case.metrics.cost) /\ WellFormedMeasure(case.metrics.latency)

\* No threshold of the one is easier to meet than that of the other.
AtLeastAsStrict(strict, lax) ==
    /\ lax.requireIndependentOracle => strict.requireIndependentOracle
    /\ lax.requireIsolatedIntervention => strict.requireIsolatedIntervention
    /\ lax.requireMetrics => strict.requireMetrics
    /\ strict.allowCriticalRegressions => lax.allowCriticalRegressions
    /\ lax.minReproductionTrials <= strict.minReproductionTrials
    /\ lax.minReproductionRate <= strict.minReproductionRate
    /\ lax.minConfidence <= strict.minConfidence
    /\ lax.minMargin <= strict.minMargin
    /\ lax.minInterventionTrials <= strict.minInterventionTrials
    /\ lax.minInterventionRate <= strict.minInterventionRate
    /\ lax.minPositive <= strict.minPositive
    /\ lax.minPositiveRate <= strict.minPositiveRate
    /\ lax.minNegative <= strict.minNegative
    /\ lax.minNegativeRate <= strict.minNegativeRate
    /\ lax.minRegression <= strict.minRegression
    /\ lax.minRegressionRate <= strict.minRegressionRate
    /\ strict.maxSurfaces <= lax.maxSurfaces
    /\ strict.maxCostIncrease <= lax.maxCostIncrease
    /\ strict.maxLatencyIncrease <= lax.maxLatencyIncrease

---------------------------------------------------------------------------
(* Findings                                                                *)

LEMMA FindingEmpty ==
    ASSUME NEW code, NEW consequence, NEW found \in BOOLEAN
    PROVE  (Finding(code, consequence, found) = {}) <=> ~found
BY DEF Finding

LEMMA GradedEmpty ==
    ASSUME NEW code, NEW tooFew \in BOOLEAN, NEW failed \in BOOLEAN
    PROVE  (Graded(code, tooFew, failed) = {}) <=> ~tooFew /\ ~failed
BY DEF Graded, Finding

(* A share that meets a percentage meets every smaller one.                *)
LEMMA BelowMonotone ==
    ASSUME NEW hits \in Nat, NEW total \in Nat, NEW p \in Nat, NEW q \in Nat,
           q <= p, ~Below(hits, total, p)
    PROVE  ~Below(hits, total, q)
<1>1. q * total <= p * total
  <2>1. PICK d \in Nat : p = q + d
    <3>1. p - q \in Nat /\ p = q + (p - q)
      OBVIOUS
    <3> QED
      BY <3>1
  <2>2. p * total = q * total + d * total /\ d * total \in Nat /\ q * total \in Nat
    BY <2>1
  <2> QED
    BY <2>2
<1>2. hits * 100 \in Nat /\ q * total \in Nat /\ p * total \in Nat
  OBVIOUS
<1> QED
  BY <1>1, <1>2 DEF Below

LEMMA IncreasedMonotone ==
    ASSUME NEW m, m.baseline \in Nat, m.candidate \in Nat, NEW p \in Nat, NEW q \in Nat,
           p <= q, ~Increased(m, p)
    PROVE  ~Increased(m, q)
<1> DEFINE b == m.baseline
<1>1. b * (100 + p) <= b * (100 + q)
  <2>1. PICK d \in Nat : q = p + d
    <3>1. q - p \in Nat /\ q = p + (q - p)
      OBVIOUS
    <3> QED
      BY <3>1
  <2>2. /\ b * (100 + q) = b * (100 + p) + b * d
        /\ b * d \in Nat /\ b * (100 + p) \in Nat
    BY <2>1
  <2> QED
    BY <2>2
<1>2. m.candidate * 100 \in Nat /\ b * (100 + p) \in Nat /\ b * (100 + q) \in Nat
  OBVIOUS
<1> QED
  BY <1>1, <1>2 DEF Increased

(* The number of controls of any kind is a number.                         *)
LEMMA CountedIsNat ==
    ASSUME NEW case, WellFormed(case), NEW S \in SUBSET DOMAIN case.controls
    PROVE  Cardinality(S) \in Nat
<1>1. PICK n \in Nat : DOMAIN case.controls = 1 .. n
  BY DEF WellFormed
<1>2. IsFiniteSet(1 .. n)
  BY FS_Interval
<1> QED
  BY <1>1, <1>2, FS_Subset, FS_CardinalityType

LEMMA LeastNat ==
    ASSUME NEW S \in SUBSET Nat, S # {}
    PROVE  \E x \in S : \A y \in S : x <= y
<1> DEFINE R == {ss \in Nat \X Nat : ss[1] < ss[2]}
<1>1. IsWellFoundedOn(R, Nat)
  BY NatLessThanWellFounded, Zenon DEF OpToRel
<1>2. PICK x \in S : \A y \in S : <<y, x>> \notin R
  <2> HIDE DEF R
  <2> QED
    BY <1>1, WFMin
<1>3. ASSUME NEW y \in S
      PROVE  ~(y < x)
  <2>1. <<y, x>> \in Nat \X Nat
    OBVIOUS
  <2> QED
    BY <1>2, <2>1
<1> QED
  BY <1>3

LEMMA Complement ==
    /\ \A x \in 0 .. 100 : 100 - x \in Nat
    /\ \A x, y \in 0 .. 100 : 100 - x <= 100 - y => y <= x
OBVIOUS

(* The stable sort of a non-empty sequence has a first element.            *)
LEMMA LeaderExists ==
    ASSUME NEW case, WellFormed(case), case.hypotheses # <<>>
    PROVE  Leading(case) \in DOMAIN case.hypotheses
<1> DEFINE D == DOMAIN case.hypotheses
           Conf(i) == case.hypotheses[i].confidence
           Gaps == {100 - Conf(i) : i \in D}
<1>1. D # {} /\ D \subseteq Nat /\ \A i \in D : Conf(i) \in 0 .. 100
  BY DEF WellFormed, Percent
<1>2. PICK gap \in Gaps : \A g \in Gaps : gap <= g
  <2>1. \A i \in D : 100 - Conf(i) \in Nat
    <3> HIDE DEF Conf
    <3> QED
      BY <1>1, Complement, Zenon
  <2>2. Gaps \in SUBSET Nat /\ Gaps # {}
    BY <1>1, <2>1
  <2> HIDE DEF Gaps
  <2> QED
    BY <2>2, LeastNat
<1>3. PICK k \in D : gap = 100 - Conf(k)
  BY <1>2
<1>4. \A j \in D : Conf(j) <= Conf(k)
  <2> SUFFICES ASSUME NEW j \in D PROVE Conf(j) <= Conf(k)
    OBVIOUS
  <2>1. 100 - Conf(j) \in Gaps
    OBVIOUS
  <2>2. 100 - Conf(k) <= 100 - Conf(j)
    BY <1>2, <1>3, <2>1
  <2>3. Conf(j) \in 0 .. 100 /\ Conf(k) \in 0 .. 100
    BY <1>1
  <2> HIDE DEF Conf
  <2> QED
    BY <2>2, <2>3, Complement, Zenon
<1> DEFINE Ties == {i \in D : Conf(i) = Conf(k)}
<1>5. PICK first \in Ties : \A i \in Ties : first <= i
  <2>1. Ties \in SUBSET Nat /\ Ties # {}
    BY <1>1
  <2> HIDE DEF Ties
  <2> QED
    BY <2>1, LeastNat
<1>6. /\ first \in D
      /\ \A j \in D : Conf(j) <= Conf(first) /\ (Conf(j) = Conf(first) => first <= j)
  BY <1>4, <1>5
<1> QED
  BY <1>6 DEF Leading

---------------------------------------------------------------------------
(* Parts of the evidence                                                   *)

LEMMA PolicyNumbers ==
    ASSUME NEW p \in Policies
    PROVE  /\ p.minReproductionTrials \in Nat /\ p.minReproductionRate \in Nat
           /\ p.minConfidence \in Nat /\ p.minMargin \in Nat
           /\ p.minInterventionTrials \in Nat /\ p.minInterventionRate \in Nat
           /\ p.minPositive \in Nat /\ p.minPositiveRate \in Nat
           /\ p.minNegative \in Nat /\ p.minNegativeRate \in Nat
           /\ p.minRegression \in Nat /\ p.minRegressionRate \in Nat
           /\ p.maxSurfaces \in Nat /\ p.maxCostIncrease \in Nat
           /\ p.maxLatencyIncrease \in Nat
<1>1. Percent \subseteq Nat
  BY DEF Percent
<1> QED
  BY <1>1 DEF Policies

LEMMA ReproductionMonotone ==
    ASSUME NEW case, WellFormed(case), NEW strict \in Policies, NEW lax \in Policies,
           AtLeastAsStrict(strict, lax), Reproduction(case, strict) = {},
           case.oracleIndependent \in BOOLEAN
    PROVE  Reproduction(case, lax) = {}
<1>1. /\ ~(strict.requireIndependentOracle /\ ~case.oracleIndependent)
      /\ ~(case.trials < strict.minReproductionTrials)
      /\ ~Below(case.reproduced, case.trials, strict.minReproductionRate)
  BY DEF Reproduction, Graded, Finding
<1>2. /\ strict.minReproductionRate \in Nat /\ lax.minReproductionRate \in Nat
      /\ strict.minReproductionTrials \in Nat /\ lax.minReproductionTrials \in Nat
      /\ case.trials \in Nat /\ case.reproduced \in Nat
  BY PolicyNumbers DEF WellFormed
<1>3. ~Below(case.reproduced, case.trials, lax.minReproductionRate)
  BY <1>1, <1>2, BelowMonotone DEF AtLeastAsStrict
<1>4. ~(case.trials < lax.minReproductionTrials)
  BY <1>1, <1>2 DEF AtLeastAsStrict
<1>5. ~(lax.requireIndependentOracle /\ ~case.oracleIndependent)
  BY <1>1 DEF AtLeastAsStrict
<1> QED
  BY <1>3, <1>4, <1>5 DEF Reproduction, Graded, Finding

LEMMA InterventionMonotone ==
    ASSUME NEW trial, trial # Absent => trial.trials \in Nat /\ trial.resolved \in Nat,
           NEW strict \in Policies, NEW lax \in Policies,
           AtLeastAsStrict(strict, lax), Intervention(trial, strict) = {}
    PROVE  Intervention(trial, lax) = {}
<1>1. /\ trial # Absent
      /\ ~(strict.requireIsolatedIntervention /\ ~trial.isolated)
      /\ ~(trial.trials < strict.minInterventionTrials)
      /\ ~Below(trial.resolved, trial.trials, strict.minInterventionRate)
  BY DEF Intervention, Graded, Finding
<1>2. /\ strict.minInterventionRate \in Nat /\ lax.minInterventionRate \in Nat
      /\ strict.minInterventionTrials \in Nat /\ lax.minInterventionTrials \in Nat
      /\ trial.trials \in Nat /\ trial.resolved \in Nat
  BY <1>1, PolicyNumbers
<1>3. ~Below(trial.resolved, trial.trials, lax.minInterventionRate)
  BY <1>1, <1>2, BelowMonotone DEF AtLeastAsStrict
<1>4. ~(trial.trials < lax.minInterventionTrials)
  BY <1>1, <1>2 DEF AtLeastAsStrict
<1>5. ~(lax.requireIsolatedIntervention /\ ~trial.isolated)
  BY <1>1 DEF AtLeastAsStrict
<1> QED
  BY <1>1, <1>3, <1>4, <1>5 DEF Intervention, Graded, Finding

LEMMA AttributionMonotone ==
    ASSUME NEW case, WellFormed(case), NEW strict \in Policies, NEW lax \in Policies,
           AtLeastAsStrict(strict, lax), Attribution(case, strict) = {}
    PROVE  Attribution(case, lax) = {}
<1> DEFINE leader == Leading(case)
           top == case.hypotheses[leader]
<1>1. case.hypotheses # <<>>
  BY DEF Attribution, Finding
<1>2. leader \in DOMAIN case.hypotheses
  BY <1>1, LeaderExists
<1>3. /\ ~(top.confidence < strict.minConfidence)
      /\ Separated(case, leader, strict.minMargin)
      /\ top.component = case.component
      /\ Intervention(top.intervention, strict) = {}
  BY <1>1 DEF Attribution, Finding
<1>4. \A i \in DOMAIN case.hypotheses : case.hypotheses[i].confidence \in Int
  <2>1. Percent \subseteq Int
    BY DEF Percent
  <2> QED
    BY <2>1 DEF WellFormed
<1>5. Intervention(top.intervention, lax) = {}
  BY <1>2, <1>3, InterventionMonotone DEF WellFormed
<1>6. ~(top.confidence < lax.minConfidence)
  BY <1>2, <1>3, <1>4, PolicyNumbers DEF AtLeastAsStrict
<1>7. Separated(case, leader, lax.minMargin)
  <2>1. strict.minMargin \in Nat /\ lax.minMargin \in Nat /\ lax.minMargin <= strict.minMargin
    BY PolicyNumbers DEF AtLeastAsStrict
  <2> HIDE DEF leader
  <2> QED
    BY <1>2, <1>3, <1>4, <2>1 DEF Separated
<1> QED
  BY <1>1, <1>3, <1>5, <1>6, <1>7 DEF Attribution, Finding

LEMMA ChangeMonotone ==
    ASSUME NEW case, WellFormed(case), NEW strict \in Policies, NEW lax \in Policies,
           AtLeastAsStrict(strict, lax), Change(case, strict) = {}
    PROVE  Change(case, lax) = {}
<1>1. case.surfaces \in Nat /\ strict.maxSurfaces \in Nat /\ lax.maxSurfaces \in Nat
  BY PolicyNumbers DEF WellFormed
<1> QED
  BY <1>1 DEF Change, Finding, AtLeastAsStrict

LEMMA ControlsMonotone ==
    ASSUME NEW case, WellFormed(case), NEW strict \in Policies, NEW lax \in Policies,
           AtLeastAsStrict(strict, lax),
           PositiveControls(case, strict) = {}, NegativeControls(case, strict) = {},
           RegressionControls(case, strict) = {}
    PROVE  /\ PositiveControls(case, lax) = {}
           /\ NegativeControls(case, lax) = {}
           /\ RegressionControls(case, lax) = {}
<1> DEFINE D == DOMAIN case.controls
           Is(i, kind) == case.controls[i].kind = kind
           Ran(kind) == Cardinality({i \in D : Is(i, kind) /\ case.controls[i].baseline})
           Kept(kind) == Cardinality({i \in D : Is(i, kind) /\ case.controls[i].baseline
                                                 /\ case.controls[i].candidate})
           tried == Cardinality({i \in D : Is(i, "positive")})
           good == Cardinality({i \in D : Is(i, "positive") /\ case.controls[i].candidate})
           fixed == Cardinality({i \in D : Is(i, "positive") /\ ~case.controls[i].baseline
                                            /\ case.controls[i].candidate})
           broken == Cardinality({i \in D : /\ Is(i, "regression") /\ case.controls[i].baseline
                                            /\ ~case.controls[i].candidate
                                            /\ case.controls[i].critical})
<1>1. /\ \A kind : Ran(kind) \in Nat /\ Kept(kind) \in Nat
      /\ tried \in Nat /\ good \in Nat
  BY CountedIsNat
<1>2. \A p \in Policies :
        /\ PositiveControls(case, p) =
             Graded("VAL-001", tried < p.minPositive \/ fixed = 0,
                    FALSE \/ Below(good, tried, p.minPositiveRate))
        /\ NegativeControls(case, p) =
             Graded("VAL-002", Ran("negative") < p.minNegative \/ FALSE,
                    FALSE \/ Below(Kept("negative"), Ran("negative"), p.minNegativeRate))
        /\ RegressionControls(case, p) =
             Graded("VAL-003", Ran("regression") < p.minRegression \/ FALSE,
                    (broken # 0 /\ ~p.allowCriticalRegressions)
                      \/ Below(Kept("regression"), Ran("regression"), p.minRegressionRate))
  BY DEF PositiveControls, NegativeControls, RegressionControls, Counted, Graded, Finding
<1> HIDE DEF Ran, Kept, tried, good, fixed, broken
<1>3. PositiveControls(case, lax) = {}
  <2>1. /\ ~(tried < strict.minPositive)
        /\ ~Below(good, tried, strict.minPositiveRate)
        /\ ~(fixed = 0)
    BY <1>2 DEF Graded, Finding
  <2>2. /\ strict.minPositive \in Nat /\ lax.minPositive \in Nat
        /\ strict.minPositiveRate \in Nat /\ lax.minPositiveRate \in Nat
        /\ lax.minPositive <= strict.minPositive /\ lax.minPositiveRate <= strict.minPositiveRate
        /\ tried \in Nat /\ good \in Nat
    BY <1>1, PolicyNumbers DEF AtLeastAsStrict
  <2>3. ~Below(good, tried, lax.minPositiveRate)
    BY <2>1, <2>2, BelowMonotone
  <2>4. ~(tried < lax.minPositive)
    BY <2>1, <2>2
  <2> QED
    BY <1>2, <2>1, <2>3, <2>4 DEF Graded, Finding
<1>4. NegativeControls(case, lax) = {}
  <2>1. /\ ~(Ran("negative") < strict.minNegative)
        /\ ~Below(Kept("negative"), Ran("negative"), strict.minNegativeRate)
    BY <1>2 DEF Graded, Finding
  <2>2. /\ strict.minNegative \in Nat /\ lax.minNegative \in Nat
        /\ strict.minNegativeRate \in Nat /\ lax.minNegativeRate \in Nat
        /\ lax.minNegative <= strict.minNegative /\ lax.minNegativeRate <= strict.minNegativeRate
        /\ Ran("negative") \in Nat /\ Kept("negative") \in Nat
    BY <1>1, PolicyNumbers DEF AtLeastAsStrict
  <2>3. ~Below(Kept("negative"), Ran("negative"), lax.minNegativeRate)
    BY <2>1, <2>2, BelowMonotone
  <2>4. ~(Ran("negative") < lax.minNegative)
    BY <2>1, <2>2
  <2> QED
    BY <1>2, <2>1, <2>3, <2>4 DEF Graded, Finding
<1>5. RegressionControls(case, lax) = {}
  <2>1. /\ ~(Ran("regression") < strict.minRegression)
        /\ ~Below(Kept("regression"), Ran("regression"), strict.minRegressionRate)
        /\ ~(broken # 0 /\ ~strict.allowCriticalRegressions)
    BY <1>2 DEF Graded, Finding
  <2>2. /\ strict.minRegression \in Nat /\ lax.minRegression \in Nat
        /\ strict.minRegressionRate \in Nat /\ lax.minRegressionRate \in Nat
        /\ lax.minRegression <= strict.minRegression /\ lax.minRegressionRate <= strict.minRegressionRate
        /\ Ran("regression") \in Nat /\ Kept("regression") \in Nat
    BY <1>1, PolicyNumbers DEF AtLeastAsStrict
  <2>3. ~Below(Kept("regression"), Ran("regression"), lax.minRegressionRate)
    BY <2>1, <2>2, BelowMonotone
  <2>4. ~(Ran("regression") < lax.minRegression)
    BY <2>1, <2>2
  <2> QED
    BY <1>2, <2>1, <2>3, <2>4 DEF Graded, Finding, AtLeastAsStrict
<1> QED
  BY <1>3, <1>4, <1>5

LEMMA MetricMonotone ==
    ASSUME NEW m, WellFormedMeasure(m), NEW code,
           NEW p \in Nat, NEW q \in Nat, p <= q,
           NEW strict \in Policies, NEW lax \in Policies, AtLeastAsStrict(strict, lax),
           Metric(code, m, p, strict) = {}
    PROVE  Metric(code, m, q, lax) = {}
<1>1. CASE NoRatio(m)
  BY <1>1 DEF Metric, Finding, AtLeastAsStrict
<1>2. CASE ~NoRatio(m)
  <2>1. m.baseline \in Nat /\ m.candidate \in Nat
    BY <1>2 DEF NoRatio, WellFormedMeasure, Measures
  <2>2. ~Increased(m, p)
    BY <1>2 DEF Metric, Finding
  <2>3. ~Increased(m, q)
    BY <2>1, <2>2, IncreasedMonotone
  <2> QED
    BY <1>2, <2>3 DEF Metric, Finding
<1> QED
  BY <1>1, <1>2

LEMMA MetricsMonotone ==
    ASSUME NEW case, WellFormed(case), NEW strict \in Policies, NEW lax \in Policies,
           AtLeastAsStrict(strict, lax), Metrics(case, strict) = {}
    PROVE  Metrics(case, lax) = {}
<1>1. CASE case.metrics = Absent
  BY <1>1 DEF Metrics, Finding, AtLeastAsStrict
<1>2. CASE case.metrics # Absent
  <2>1. /\ Metric("MET-001", case.metrics.cost, strict.maxCostIncrease, strict) = {}
        /\ Metric("MET-002", case.metrics.latency, strict.maxLatencyIncrease, strict) = {}
    BY <1>2 DEF Metrics
  <2>2. /\ WellFormedMeasure(case.metrics.cost)
        /\ WellFormedMeasure(case.metrics.latency)
    BY <1>2 DEF WellFormed
  <2>3. Metric("MET-001", case.metrics.cost, lax.maxCostIncrease, lax) = {}
    BY <2>1, <2>2, MetricMonotone, PolicyNumbers DEF AtLeastAsStrict
  <2>4. Metric("MET-002", case.metrics.latency, lax.maxLatencyIncrease, lax) = {}
    BY <2>1, <2>2, MetricMonotone, PolicyNumbers DEF AtLeastAsStrict
  <2> QED
    BY <1>2, <2>3, <2>4 DEF Metrics
<1> QED
  BY <1>1, <1>2

---------------------------------------------------------------------------
(* The decision                                                            *)

LEMMA FindingsHaveConsequences ==
    ASSUME NEW case, NEW policy \in Policies
    PROVE  \A f \in Findings(case, policy) : f.consequence \in Consequences
BY DEF Findings, Requirement, Reproduction, Attribution, Intervention, Change,
       PositiveControls, NegativeControls, RegressionControls, Metrics, Metric,
       Graded, Finding, Consequences

(* The gate approves a change exactly when no check found anything: the    *)
(* order of the consequences cannot hide a finding behind an approval.     *)
LEMMA ApproveMeansNoFinding ==
    ASSUME NEW case, NEW policy \in Policies
    PROVE  (Decide(case, policy) = "approve") <=> (Findings(case, policy) = {})
<1>1. ASSUME Findings(case, policy) = {} PROVE Decide(case, policy) = "approve"
  BY <1>1 DEF Decide, DecisionFor
<1>2. ASSUME Decide(case, policy) = "approve" PROVE Findings(case, policy) = {}
  BY <1>2, FindingsHaveConsequences DEF Decide, DecisionFor, Consequences
<1> QED
  BY <1>1, <1>2

(* Tightening a gate policy never lets a change through: what a stricter   *)
(* policy approves, every laxer one approves.                              *)
THEOREM StricterPolicyNeverAdmits ==
    ASSUME NEW case, WellFormed(case), case.oracleIndependent \in BOOLEAN,
           NEW strict \in Policies, NEW lax \in Policies, AtLeastAsStrict(strict, lax),
           Decide(case, strict) = "approve"
    PROVE  Decide(case, lax) = "approve"
<1>1. Findings(case, strict) = {}
  BY ApproveMeansNoFinding
<1>2. /\ Requirement(case) = {}
      /\ Reproduction(case, strict) = {} /\ Attribution(case, strict) = {}
      /\ Change(case, strict) = {} /\ PositiveControls(case, strict) = {}
      /\ NegativeControls(case, strict) = {} /\ RegressionControls(case, strict) = {}
      /\ Metrics(case, strict) = {}
  BY <1>1 DEF Findings
<1>3. /\ Reproduction(case, lax) = {} /\ Attribution(case, lax) = {}
      /\ Change(case, lax) = {} /\ Metrics(case, lax) = {}
  BY <1>2, ReproductionMonotone, AttributionMonotone, ChangeMonotone, MetricsMonotone
<1>4. /\ PositiveControls(case, lax) = {} /\ NegativeControls(case, lax) = {}
      /\ RegressionControls(case, lax) = {}
  BY <1>2, ControlsMonotone
<1>5. Findings(case, lax) = {}
  BY <1>2, <1>3, <1>4 DEF Findings
<1> QED
  BY <1>5, ApproveMeansNoFinding

-----------------------------------------------------------------------------
(* Azure DevOps approvals *)

TimesAreInstants ==
    /\ now \in Nat
    /\ \A p \in publications : p.created_at \in Nat
    /\ \A r \in receipts : r.publication.created_at \in Nat /\ r.verified_at \in Nat
    /\ \A a \in assertions : /\ a.receipt.publication.created_at \in Nat
                             /\ a.receipt.verified_at \in Nat
                             /\ a.expires_at \in Nat
    /\ \A x \in accepted : x.at \in Nat /\ x.at <= now

\* The lists are a history: a later one holds the entries of an earlier one.
ListsAccumulate ==
    /\ \A l \in lists : l.updated_at \in Nat /\ l.updated_at <= now
    /\ \A l, m \in lists : l.updated_at <= m.updated_at => l.entries \subseteq m.entries

AzureInv == TimesAreInstants /\ ListsAccumulate /\ AcceptedApprovalsStand

LEMMA AzureInitially == AzureInit => AzureInv
BY DEF AzureInit, AzureInv, TimesAreInstants, ListsAccumulate, AcceptedApprovalsStand

(* What a check sees: its list holds every entry that was out for longer   *)
(* than the verifier tolerates a list to be old.                           *)
LEMMA CheckedListIsRecent ==
    ASSUME AzureInv, AzureAssumption,
           NEW list \in lists, NEW checked \in now - ClockSkew .. now + ClockSkew,
           FreshList(list, checked),
           NEW older \in lists, older.updated_at + MaxRevocationAge + 2 * ClockSkew < now
    PROVE  older.entries \subseteq list.entries
<1>1. now \in Nat /\ ClockSkew \in Nat /\ MaxRevocationAge \in Nat
  BY DEF AzureInv, TimesAreInstants, AzureAssumption
<1>2. list.updated_at \in Nat /\ older.updated_at \in Nat
  BY DEF AzureInv, ListsAccumulate
<1>3. checked \in Int /\ now - ClockSkew <= checked
  BY <1>1
<1>4. checked - list.updated_at <= MaxRevocationAge + ClockSkew
  BY DEF FreshList
<1>5. older.updated_at < list.updated_at
  BY <1>1, <1>2, <1>3, <1>4
<1> QED
  BY <1>5 DEF AzureInv, ListsAccumulate

(* What is approved at a check was published recently.                     *)
LEMMA CheckedReviewIsRecent ==
    ASSUME AzureInv, AzureAssumption,
           NEW a \in assertions, NEW checked \in now - ClockSkew .. now + ClockSkew,
           InItsTime(a, checked), ScopeFits(a),
           CanVerify(a.receipt.publication, a.receipt.verified_at)
    PROVE  now - a.receipt.publication.created_at < MaximumAge + Lifetime + ClockSkew
<1>1. /\ now \in Nat /\ ClockSkew \in Nat /\ MaximumAge \in Nat /\ Lifetime \in Nat
  BY DEF AzureInv, TimesAreInstants, AzureAssumption
<1>2. /\ a.receipt.publication.created_at \in Nat
      /\ a.receipt.verified_at \in Nat
      /\ a.expires_at \in Nat
  BY DEF AzureInv, TimesAreInstants
<1>3. /\ checked \in Int /\ now - ClockSkew <= checked
  BY <1>1
<1>4. /\ checked < a.expires_at
      /\ a.expires_at - a.receipt.verified_at <= Lifetime
      /\ a.receipt.verified_at - a.receipt.publication.created_at <= MaximumAge
  BY DEF InItsTime, ScopeFits, CanVerify
<1> QED
  BY <1>1, <1>2, <1>3, <1>4

LEMMA CheckKeepsInv ==
    ASSUME AzureInv, AzureAssumption,
           NEW a \in assertions, NEW list \in lists,
           NEW checked \in now - ClockSkew .. now + ClockSkew,
           CheckApproval(a, list, checked)
    PROVE  AzureInv'
<1>1. accepted' = {[assertion |-> a, at |-> now]}
  BY DEF CheckApproval
<1>2. UNCHANGED <<now, publications, receipts, assertions, lists>>
  BY DEF CheckApproval
<1>3. TimesAreInstants' /\ ListsAccumulate'
  BY <1>1, <1>2 DEF AzureInv, TimesAreInstants, ListsAccumulate
<1>4. ASSUME NEW older \in lists, older.updated_at + MaxRevocationAge + 2 * ClockSkew < now
      PROVE  \A e \in older.entries : ~RevokedBy(a, e)
  <2>1. older.entries \subseteq list.entries
    BY <1>4, CheckedListIsRecent DEF CheckApproval
  <2> QED
    BY <2>1 DEF CheckApproval
<1>5. now - a.receipt.publication.created_at < MaximumAge + Lifetime + ClockSkew
  BY CheckedReviewIsRecent DEF CheckApproval
<1>6. a.action = "approve" => a.receipt.publication.decision = "approve"
  BY DEF CheckApproval, ScopeFits
<1>7. AcceptedApprovalsStand'
  BY <1>1, <1>2, <1>4, <1>5, <1>6 DEF AcceptedApprovalsStand, RevokedBy
<1> QED
  BY <1>3, <1>7 DEF AzureInv

LEMMA PublishListKeepsInv ==
    ASSUME AzureInv, AzureAssumption, NEW list \in lists, NEW entries,
           PublishList(list, entries)
    PROVE  AzureInv'
<1> DEFINE new == [updated_at |-> now, entries |-> list.entries \cup entries]
<1>1. lists' = lists \cup {new} /\ UNCHANGED <<now, publications, receipts, assertions, accepted>>
  BY DEF PublishList
<1>2. \A l \in lists : l.entries \subseteq new.entries /\ l.updated_at < now
  BY DEF AzureInv, TimesAreInstants, ListsAccumulate, PublishList, Newest
<1>3. now \in Nat /\ MaxRevocationAge \in Nat /\ ClockSkew \in Nat
  BY DEF AzureInv, TimesAreInstants, AzureAssumption
<1>4. TimesAreInstants'
  BY <1>1 DEF AzureInv, TimesAreInstants
<1>5. ListsAccumulate'
  <2>1. \A l \in lists' : l.updated_at \in Nat /\ l.updated_at <= now
    BY <1>1, <1>3 DEF AzureInv, ListsAccumulate
  <2>2. ASSUME NEW l \in lists', NEW m \in lists', l.updated_at <= m.updated_at
        PROVE  l.entries \subseteq m.entries
    <3>1. CASE l \in lists /\ m \in lists
      BY <2>2, <3>1 DEF AzureInv, ListsAccumulate
    <3>2. CASE m = new
      BY <1>1, <1>2, <3>2
    <3>3. CASE l = new /\ m \in lists
      BY <1>2, <1>3, <2>1, <2>2, <3>3
    <3> QED
      BY <1>1, <3>1, <3>2, <3>3
  <2> QED
    BY <1>1, <2>1, <2>2 DEF ListsAccumulate
<1>6. \A x \in accepted : ~(new.updated_at + MaxRevocationAge + 2 * ClockSkew < x.at)
  BY <1>3 DEF AzureInv, TimesAreInstants
<1>7. AcceptedApprovalsStand'
  BY <1>1, <1>6 DEF AzureInv, AcceptedApprovalsStand, RevokedBy
<1> QED
  BY <1>4, <1>5, <1>7 DEF AzureInv

LEMMA AzureStep == AzureInv /\ AzureAssumption /\ [AzureNext]_azureVars => AzureInv'
<1> SUFFICES ASSUME AzureInv, AzureAssumption, [AzureNext]_azureVars
             PROVE  AzureInv'
  OBVIOUS
<1>1. CASE Tick
  <2>1. TimesAreInstants' /\ ListsAccumulate'
    BY <1>1 DEF Tick, AzureInv, TimesAreInstants, ListsAccumulate
  <2>2. AcceptedApprovalsStand'
    BY <1>1 DEF Tick, AzureInv, AcceptedApprovalsStand, RevokedBy
  <2> QED
    BY <2>1, <2>2 DEF AzureInv
<1>2. ASSUME NEW review \in AzureReviews, PublishReview(review)
      PROVE  AzureInv'
  BY <1>2 DEF PublishReview, AzureInv, TimesAreInstants, ListsAccumulate,
              AcceptedApprovalsStand, RevokedBy
<1>3. ASSUME NEW publication \in publications, VerifyPublication(publication)
      PROVE  AzureInv'
  BY <1>3 DEF VerifyPublication, AzureInv, TimesAreInstants, ListsAccumulate,
              AcceptedApprovalsStand, RevokedBy
<1>4. ASSUME NEW receipt \in receipts, NEW key \in Keys, NEW action \in {"approve", "exception"},
             NEW authenticated \in Time, NEW expires \in Time,
             Issue(receipt, key, action, authenticated, expires)
      PROVE  AzureInv'
  <2> DEFINE codes == IF action = "approve" THEN {} ELSE receipt.publication.codes
             a == [receipt |-> receipt, key |-> key, action |-> action, codes |-> codes,
                   authenticated_at |-> authenticated, issued_at |-> now,
                   expires_at |-> expires]
  <2>1. /\ assertions' = assertions \cup {a}
        /\ a.receipt = receipt /\ a.expires_at = expires
    BY <1>4 DEF Issue
  <2>2. UNCHANGED <<now, publications, receipts, lists, accepted>>
    BY <1>4 DEF Issue
  <2>3. expires \in Nat
    BY DEF Time
  <2> HIDE DEF a
  <2>4. TimesAreInstants'
    BY <2>1, <2>2, <2>3 DEF AzureInv, TimesAreInstants
  <2>5. ListsAccumulate' /\ AcceptedApprovalsStand'
    BY <2>2 DEF AzureInv, ListsAccumulate, AcceptedApprovalsStand, RevokedBy
  <2> QED
    BY <2>4, <2>5 DEF AzureInv
<1>5. ASSUME NEW list \in lists, Republish(list)
      PROVE  AzureInv'
  BY <1>5, PublishListKeepsInv DEF Republish
<1>6. ASSUME NEW list \in lists, NEW key, NEW mode, NEW at, Revoke(list, key, mode, at)
      PROVE  AzureInv'
  BY <1>6, PublishListKeepsInv DEF Revoke
<1>7. ASSUME NEW a \in assertions, NEW list \in lists,
             NEW checked \in now - ClockSkew .. now + ClockSkew,
             CheckApproval(a, list, checked)
      PROVE  AzureInv'
  BY <1>7, CheckKeepsInv
<1>8. CASE UNCHANGED azureVars
  BY <1>8 DEF azureVars, AzureInv, TimesAreInstants, ListsAccumulate,
              AcceptedApprovalsStand, RevokedBy
<1> QED
  BY <1>1, <1>2, <1>3, <1>4, <1>5, <1>6, <1>7, <1>8 DEF AzureNext

(* verify_approval_assertion honours a revocation that was out for longer  *)
(* than it tolerates a list to be old, whatever list it was given, and     *)
(* accepts nothing whose review is older than the windows add up to.       *)
THEOREM ApprovalsStand == AzureSpec => []AcceptedApprovalsStand
<1>1. AzureInv => AcceptedApprovalsStand
  BY DEF AzureInv
<1> QED
  BY AzureInitially, AzureStep, AzureAssumption, <1>1, PTL DEF AzureSpec

-----------------------------------------------------------------------------
(* Attestations of evidence *)

Payloads ==
    [bytes : Contents, producer : {s.producer : s \in Signers}, key : {s.key : s \in Signers},
     issued_at : Int, expires_at : Int, retain_until : Int, list : {s.list : s \in Signers}]

\* A document's signature was made, whatever became of its payload since.
SignatureIsReal(document) == document.payload \in Payloads /\ document.signature \in signings

ReadBefore(v) ==
    /\ v.phase \in {"store", "list", "check"} =>
          SignatureIsReal(v.document) /\ AttestationParses(v.document.payload)
    /\ v.phase = "check" => v.list \in revocations

\* The lists of an identifier are a history: a later one holds an earlier one's entries.
RevocationsAccumulate ==
    /\ \A l \in revocations : l.updated_at \in Nat /\ l.updated_at <= today
    /\ \A l, m \in revocations :
          l.id = m.id /\ l.updated_at <= m.updated_at => l.revoked \subseteq m.revoked

ReceiptsAreDated == \A v \in verification : v.at \in Nat /\ v.at <= today

AttestationInv ==
    /\ today \in Nat /\ artifactBytes \in Contents
    /\ \A a \in attested : SignatureIsReal(a)
    /\ ReadBefore(verifier)
    /\ RevocationsAccumulate
    /\ ReceiptsAreDated
    /\ ReceiptsStand

LEMMA AttestationInitially == AttestationAssumption /\ AttestationInit => AttestationInv
<1> SUFFICES ASSUME AttestationAssumption, AttestationInit
             PROVE  AttestationInv
  OBVIOUS
<1>1. today \in Nat /\ artifactBytes \in Contents
  BY DEF AttestationAssumption, AttestationInit
<1>2. attested = {} /\ verification = {} /\ verifier = [phase |-> "start"]
  BY DEF AttestationInit
<1>3. RevocationsAccumulate
  BY DEF AttestationInit, RevocationsAccumulate
<1> QED
  BY <1>1, <1>2, <1>3 DEF AttestationInv, ReadBefore, ReceiptsAreDated, ReceiptsStand

(* The list a verification accepts holds every entry, of its identifier,   *)
(* that was out for longer than the verifier tolerates a list to be old.   *)
LEMMA CheckedRevocationsAreRecent ==
    ASSUME AttestationInv, AttestationAssumption,
           NEW list \in revocations, NEW checked \in today - SkewLimit .. today + SkewLimit,
           Recent(list, checked),
           NEW older \in revocations, older.id = list.id,
           older.updated_at + ListAgeLimit + 2 * SkewLimit < today
    PROVE  older.revoked \subseteq list.revoked
<1>1. today \in Nat /\ SkewLimit \in Nat /\ ListAgeLimit \in Nat
  BY DEF AttestationInv, AttestationAssumption
<1>2. list.updated_at \in Nat /\ older.updated_at \in Nat
  BY DEF AttestationInv, RevocationsAccumulate
<1>3. checked \in Int /\ today - SkewLimit <= checked
  BY <1>1
<1>4. checked - list.updated_at <= ListAgeLimit + SkewLimit
  BY DEF Recent
<1>5. older.updated_at <= list.updated_at
  BY <1>1, <1>2, <1>3, <1>4
<1> QED
  BY <1>5 DEF AttestationInv, RevocationsAccumulate

LEMMA VerifyKeepsInv ==
    ASSUME AttestationInv, AttestationAssumption,
           NEW checked \in today - SkewLimit .. today + SkewLimit, VerifyAttestation(checked)
    PROVE  AttestationInv'
<1> DEFINE v == verifier
           receipt == [payload |-> v.document.payload, bytes |-> v.bytes, store |-> v.store,
                       at |-> today]
<1>1. /\ v.phase = "check" /\ verifier' = [phase |-> "done"]
      /\ verification' = IF Accepts(v, checked) THEN {receipt} ELSE {}
      /\ UNCHANGED <<today, artifactBytes, attested, signings, trust, revocations>>
  BY DEF VerifyAttestation, Over
<1>2. /\ today \in Nat /\ SkewLimit \in Nat
      /\ SignatureIsReal(v.document) /\ AttestationParses(v.document.payload)
      /\ v.list \in revocations
  BY <1>1 DEF AttestationInv, AttestationAssumption, ReadBefore
<1>3. ASSUME Accepts(v, checked)
      PROVE  /\ receipt.bytes = receipt.payload.bytes
             /\ \E i \in DOMAIN receipt.store.keys :
                   LET k == receipt.store.keys[i]
                   IN  /\ k.key = receipt.payload.key /\ k.producer = receipt.payload.producer
                       /\ [public |-> k.public, payload |-> receipt.payload] \in signings
             /\ receipt.at < receipt.payload.retain_until + SkewLimit
             /\ \A list \in revocations :
                   list.id = receipt.store.list
                     /\ list.updated_at + ListAgeLimit + 2 * SkewLimit < receipt.at =>
                   \A e \in list.revoked : ~Revokes(e, receipt.payload)
  <2>1. receipt.bytes = receipt.payload.bytes
    BY <1>3 DEF Accepts
  <2>2. PICK i \in DOMAIN v.store.keys : SignedBy(v.document, v.store.keys[i])
    BY <1>3 DEF Accepts
  <2>3. /\ v.store.keys[i].key = v.document.payload.key
        /\ v.store.keys[i].producer = v.document.payload.producer
        /\ [public |-> v.store.keys[i].public, payload |-> v.document.payload] \in signings
    BY <1>2, <2>2 DEF SignedBy, SignatureIsReal
  <2>4. receipt.at < receipt.payload.retain_until + SkewLimit
    <3>1. /\ v.document.payload.expires_at \in Int /\ v.document.payload.retain_until \in Int
          /\ v.document.payload.expires_at <= v.document.payload.retain_until
      BY <1>2 DEF SignatureIsReal, Payloads, AttestationParses
    <3>2. checked < v.document.payload.expires_at
      BY <1>3 DEF Accepts, Current
    <3> QED
      BY <1>2, <3>1, <3>2
  <2>5. ASSUME NEW list \in revocations, list.id = v.store.list,
               list.updated_at + ListAgeLimit + 2 * SkewLimit < today
        PROVE  \A e \in list.revoked : ~Revokes(e, v.document.payload)
    <3>1. v.list.id = v.store.list /\ Recent(v.list, checked)
          /\ \A e \in v.list.revoked : ~Revokes(e, v.document.payload)
      BY <1>3 DEF Accepts, NamesOneList
    <3>2. list.revoked \subseteq v.list.revoked
      BY <1>2, <2>5, <3>1, CheckedRevocationsAreRecent
    <3> QED
      BY <3>1, <3>2
  <2> QED
    BY <2>1, <2>3, <2>4, <2>5
<1> HIDE DEF receipt
<1>4. ReceiptsStand'
  BY <1>1, <1>3 DEF ReceiptsStand, Revokes
<1>5. ReceiptsAreDated'
  BY <1>1, <1>2 DEF ReceiptsAreDated, receipt
<1>6. ReadBefore(verifier)'
  BY <1>1 DEF ReadBefore
<1> QED
  BY <1>1, <1>4, <1>5, <1>6 DEF AttestationInv, SignatureIsReal, RevocationsAccumulate

(* A new attestation carries its producer's signature of what it says.     *)
LEMMA AttestKeepsInv ==
    ASSUME AttestationInv, AttestationAssumption,
           NEW signer \in Signers, NEW offset \in Offsets, NEW terms \in Terms,
           Attest(signer, today + offset, terms)
    PROVE  AttestationInv'
<1> DEFINE payload == Payload(signer, today + offset, terms)
<1>1. /\ attested' = {[payload |-> payload, signature |-> [public |-> signer.public,
                                                          payload |-> payload]]}
      /\ signings' = signings \cup {[public |-> signer.public, payload |-> payload]}
      /\ UNCHANGED <<today, artifactBytes, trust, revocations, verifier, verification, edits>>
  BY DEF Attest
<1>2. payload \in Payloads
  BY DEF Payload, Payloads, AttestationInv, AttestationAssumption
<1> HIDE DEF payload
<1>3. \A a \in attested' : SignatureIsReal(a)'
  BY <1>1, <1>2 DEF SignatureIsReal
<1>4. ReadBefore(verifier)'
  BY <1>1 DEF AttestationInv, ReadBefore, SignatureIsReal
<1>5. ReceiptsStand'
  BY <1>1 DEF AttestationInv, ReceiptsStand, Revokes
<1> QED
  BY <1>1, <1>3, <1>4, <1>5 DEF AttestationInv, RevocationsAccumulate, ReceiptsAreDated

(* Editing the payload leaves the signature of what was signed.            *)
LEMMA EditKeepsInv ==
    ASSUME AttestationInv, NEW field \in {"expires_at", "retain_until"}, EditAttestation(field)
    PROVE  AttestationInv'
<1>1. PICK a \in attested :
         attested' = {[payload |-> [a.payload EXCEPT ![field] = @ + 1], signature |-> a.signature]}
  BY DEF EditAttestation
<1>2. UNCHANGED <<today, artifactBytes, signings, trust, revocations, verifier, verification>>
  BY DEF EditAttestation
<1>3. [a.payload EXCEPT ![field] = @ + 1] \in Payloads
  BY DEF AttestationInv, SignatureIsReal, Payloads
<1>4. \A b \in attested' : SignatureIsReal(b)'
  BY <1>1, <1>2, <1>3 DEF AttestationInv, SignatureIsReal
<1> QED
  BY <1>2, <1>4 DEF AttestationInv, ReadBefore, SignatureIsReal, RevocationsAccumulate,
                    ReceiptsAreDated, ReceiptsStand, Revokes

(* What is published now is too young for any receipt so far to have missed it. *)
LEMMA PublishRevocationsKeepsInv ==
    ASSUME AttestationInv, AttestationAssumption,
           NEW list \in revocations, NEW entries, PublishRevocations(list, entries)
    PROVE  AttestationInv'
<1> DEFINE newer == [id |-> list.id, updated_at |-> today, revoked |-> list.revoked \cup entries]
<1>1. /\ LatestOf(list) /\ list.updated_at < today
      /\ revocations' = revocations \cup {newer}
      /\ UNCHANGED <<today, artifactBytes, attested, signings, trust, verifier, verification, edits>>
  BY DEF PublishRevocations
<1>2. /\ newer.id = list.id /\ newer.updated_at = today
      /\ list.revoked \subseteq newer.revoked
  OBVIOUS
<1> HIDE DEF newer
<1>3. today \in Nat /\ \A l \in revocations : l.updated_at \in Nat /\ l.updated_at <= today
  BY DEF AttestationInv, RevocationsAccumulate
<1>4. RevocationsAccumulate'
  <2>1. \A l \in revocations' : l.updated_at \in Nat /\ l.updated_at <= today
    BY <1>1, <1>2, <1>3
  <2>2. ASSUME NEW l \in revocations', NEW m \in revocations',
               l.id = m.id, l.updated_at <= m.updated_at
        PROVE  l.revoked \subseteq m.revoked
    <3>1. CASE l \in revocations /\ m \in revocations
      BY <2>2, <3>1 DEF AttestationInv, RevocationsAccumulate
    <3>2. CASE l \in revocations /\ m = newer
      <4>1. l.updated_at <= list.updated_at
        BY <1>1, <1>2, <2>2, <3>2 DEF LatestOf
      <4>2. l.revoked \subseteq list.revoked
        BY <1>2, <2>2, <3>2, <4>1 DEF AttestationInv, RevocationsAccumulate
      <4> QED
        BY <1>2, <3>2, <4>2
    <3>3. CASE l = newer /\ m \in revocations
      BY <1>1, <1>2, <1>3, <2>2, <3>3 DEF LatestOf
    <3>4. CASE l = newer /\ m = newer
      BY <3>4
    <3> QED
      BY <1>1, <3>1, <3>2, <3>3, <3>4
  <2> QED
    BY <1>1, <2>1, <2>2 DEF RevocationsAccumulate
<1>5. ReceiptsStand'
  <2>1. SUFFICES ASSUME NEW v \in verification
                 PROVE  ~(newer.updated_at + ListAgeLimit + 2 * SkewLimit < v.at)
    BY <1>1 DEF AttestationInv, ReceiptsStand, Revokes
  <2>2. v.at \in Nat /\ v.at <= today
    BY DEF AttestationInv, ReceiptsAreDated
  <2> QED
    BY <1>2, <1>3, <2>2 DEF AttestationAssumption
<1>6. ReadBefore(verifier)'
  BY <1>1 DEF AttestationInv, ReadBefore, SignatureIsReal
<1> QED
  BY <1>1, <1>4, <1>5, <1>6 DEF AttestationInv, SignatureIsReal, ReceiptsAreDated

(* Reading a file: what it held then is kept, and only a list that is out. *)
LEMMA ReadKeepsInv ==
    ASSUME AttestationInv,
           \/ ReadArtifact \/ ReadAttestation \/ ReadStore
           \/ \E list \in revocations : ReadRevocations(list)
    PROVE  AttestationInv'
<1>1. UNCHANGED <<today, artifactBytes, attested, signings, trust, revocations, verification>>
  BY DEF ReadArtifact, ReadAttestation, ReadStore, ReadRevocations
<1>2. ReadBefore(verifier')
  <2>1. CASE ReadArtifact
    BY <2>1 DEF ReadArtifact, ReadBefore
  <2>2. CASE ReadAttestation
    BY <2>2 DEF ReadAttestation, ReadBefore, Over, AttestationInv
  <2>3. CASE ReadStore
    BY <2>3 DEF ReadStore, ReadBefore, Over, AttestationInv
  <2>4. ASSUME NEW list \in revocations, ReadRevocations(list)
        PROVE  ReadBefore(verifier')
    BY <2>4 DEF ReadRevocations, ReadBefore, Over, AttestationInv
  <2> QED
    BY <2>1, <2>2, <2>3, <2>4
<1> QED
  BY <1>1, <1>2 DEF AttestationInv, ReadBefore, SignatureIsReal, RevocationsAccumulate,
                    ReceiptsAreDated, ReceiptsStand, Revokes

LEMMA AttestationStep ==
    ASSUME AttestationInv, AttestationAssumption, [AttestationNext]_attestationVars
    PROVE  AttestationInv'
<1>1. CASE Pass
  BY <1>1 DEF Pass, AttestationInv, AttestationAssumption, ReadBefore, SignatureIsReal,
              RevocationsAccumulate, ReceiptsAreDated, ReceiptsStand, Revokes
<1>2. ASSUME NEW signer \in Signers, NEW offset \in Offsets, NEW terms \in Terms,
             Attest(signer, today + offset, terms)
      PROVE  AttestationInv'
  BY <1>2, AttestKeepsInv
<1>3. ASSUME NEW bytes \in Contents, ReplaceArtifact(bytes)
      PROVE  AttestationInv'
  BY <1>3 DEF ReplaceArtifact, AttestationInv, ReadBefore, SignatureIsReal,
              RevocationsAccumulate, ReceiptsAreDated, ReceiptsStand, Revokes
<1>4. ASSUME NEW field \in {"expires_at", "retain_until"}, EditAttestation(field)
      PROVE  AttestationInv'
  BY <1>4, EditKeepsInv
<1>5. ASSUME NEW store \in TrustStores, ReplaceStore(store)
      PROVE  AttestationInv'
  BY <1>5 DEF ReplaceStore, AttestationInv, ReadBefore, SignatureIsReal,
              RevocationsAccumulate, ReceiptsAreDated, ReceiptsStand, Revokes
<1>6. ASSUME NEW list \in revocations, PublishRevocations(list, {})
      PROVE  AttestationInv'
  BY <1>6, PublishRevocationsKeepsInv
<1>7. ASSUME NEW list \in revocations, NEW signer \in Signers,
             NEW mode \in {"all_signatures", "issued_at_or_after"}, NEW offset \in Offsets,
             RevokeKey(list, signer.key, mode, today + offset)
      PROVE  AttestationInv'
  <2>1. PICK entries : PublishRevocations(list, entries)
    BY <1>7 DEF RevokeKey
  <2> QED
    BY <2>1, PublishRevocationsKeepsInv
<1>8. CASE \/ ReadArtifact \/ ReadAttestation \/ ReadStore
           \/ \E list \in revocations : ReadRevocations(list)
  BY <1>8, ReadKeepsInv
<1>9. ASSUME NEW checked \in today - SkewLimit .. today + SkewLimit, VerifyAttestation(checked)
      PROVE  AttestationInv'
  BY <1>9, VerifyKeepsInv
<1>10. CASE UNCHANGED attestationVars
  BY <1>10 DEF attestationVars, AttestationInv, ReadBefore, SignatureIsReal,
               RevocationsAccumulate, ReceiptsAreDated, ReceiptsStand, Revokes
<1> QED
  BY <1>1, <1>2, <1>3, <1>4, <1>5, <1>6, <1>7, <1>8, <1>9, <1>10 DEF AttestationNext

(* Every receipt `verify-attestation` prints stands: the bytes carry the   *)
(* signature of a producer the store it read trusts, their retention runs, *)
(* and every revocation out for longer than the list's age and twice the   *)
(* skew was seen.                                                          *)
THEOREM ReceiptsHold == AttestationSpec => []ReceiptsStand
<1>1. AttestationInit => AttestationInv
  BY AttestationAssumption, AttestationInitially
<1>2. AttestationInv /\ [AttestationNext]_attestationVars => AttestationInv'
  BY AttestationAssumption, AttestationStep
<1>3. AttestationInv => ReceiptsStand
  BY DEF AttestationInv
<1> QED
  BY <1>1, <1>2, <1>3, PTL DEF AttestationSpec

=============================================================================
