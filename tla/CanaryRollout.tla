--------------------------- MODULE CanaryRollout ---------------------------
(***************************************************************************)
(* A canary: a policy is declared, a reviewed change is served beside its  *)
(* baseline, a producer reports what both cohorts did so far as one of the *)
(* planned looks, and the report is compared under the policy.  Policies   *)
(* and reviews may be replaced while the canary runs, and the comparison   *)
(* is given whatever documents lie around.                                 *)
(*                                                                         *)
(* A digest is the document it stands for.  Rates, interval bounds and     *)
(* degradations are thousandths; an interval is rounded outward.  The      *)
(* producer's clock and counts are right; whether assignment was sticky is *)
(* its word.                                                               *)
(***************************************************************************)
EXTENDS Integers, FiniteSets, FiniteSetsExt, Functions

CONSTANTS
    CanaryPlans,     \* policies to declare: [looks, seconds, samples, sticky, metrics], each
                     \* metric with its direction and the degradation it tolerates
    CanaryReviews,   \* reviews to be had: [change, decision, action]
    Metered,         \* the metrics the cohorts count
    Batches,         \* what a batch of requests did: per metric, the samples with its event
    BatchSize,
    ZSquared,        \* per number of comparisons, the squared normal quantile in thousandths
    SecondsPerStep, MaxElapsed, MaxPlans, MaxReviews, MaxBatches, MaxLooks

Directions == {"higher", "lower"}
Comparisons(plan) == Cardinality(DOMAIN plan.metrics) * plan.looks

\* The longest window a policy may ask for and an observation or a result may be of.
MaxSeconds == 2592000

\* What the parser of a policy demands.
PlanParses(plan) ==
    /\ plan.looks \in 1 .. 100 /\ plan.seconds \in 60 .. MaxSeconds /\ plan.samples >= 30
    /\ plan.sticky \in BOOLEAN
    /\ Cardinality(DOMAIN plan.metrics) \in 1 .. 50
    /\ \A m \in DOMAIN plan.metrics : /\ plan.metrics[m].direction \in Directions
                                      /\ plan.metrics[m].degradation \in 0 .. 1000

ASSUME CanaryAssumption ==
    /\ {BatchSize, SecondsPerStep} \subseteq Nat \ {0}
    /\ {MaxElapsed, MaxPlans, MaxReviews, MaxBatches, MaxLooks} \subseteq Nat
    /\ \A plan \in CanaryPlans : PlanParses(plan) /\ ZSquared[Comparisons(plan)] \in Nat \ {0}
    /\ Batches \subseteq [Metered -> 0 .. BatchSize]

VARIABLES
    elapsed,     \* steps of time
    declared,    \* the policies declared so far, [plan, at]
    reviewed,    \* the reviews of the change, [review, at]
    window,      \* the window being served: at most one [change, from]
    served,      \* per cohort, what it did in it so far
    observed,    \* the latest observation, if there is one
    compared     \* the latest result and what it was made from, if there is one

canaryVars == <<elapsed, declared, reviewed, window, served, observed, compared>>

---------------------------------------------------------------------------
(* The comparison of one metric                                            *)

\* The integer part of a square root that is at most bound: its multiple of 128, then
\* the rest.
Root(x, bound) ==
    LET Fits(r, step) == r * r <= x /\ x < (r + step) * (r + step)
        high == CHOOSE h \in 0 .. bound \div 128 : Fits(128 * h, 128)
        low  == CHOOSE l \in 0 .. 127 : Fits(128 * high + l, 1)
    IN  128 * high + low

\* The score interval of k events among n samples, zz being the squared quantile.
WilsonInterval(k, n, zz) ==
    LET denominator == 1000 * n + zz
        center == 1000 * k + zz \div 2
        margin == Root(zz * ((1000 * k * (n - k)) \div n + zz \div 4), denominator) + 1
    IN  [lower |-> Max({0, (1000 * (center - margin)) \div denominator}),
         upper |-> Min({1000, (1000 * (center + margin)) \div denominator + 1})]

\* The bounds of the difference between the candidate's rate and the baseline's.
Difference(m, o) ==
    LET zz == ZSquared[Comparisons(o.policy.plan)]
        of(cohort) == WilsonInterval(o[cohort].events[m], o[cohort].samples, zz)
        candidate == of("candidate")
        baseline == of("baseline")
    IN  [lower |-> candidate.lower - baseline.upper, upper |-> candidate.upper - baseline.lower]

\* Variant: a metric that should be low is judged by its lower bound too.
StatusByLower(metric, d) ==
    LET allowed == metric.degradation
        inferior  == IF metric.direction = "higher" THEN d.upper < -allowed ELSE d.lower > allowed
        tolerable == IF metric.direction = "higher" THEN d.lower >= -allowed ELSE d.lower <= allowed
    IN  IF tolerable THEN "noninferior" ELSE IF inferior THEN "regression" ELSE "inconclusive"

Status(metric, d) ==
    LET allowed == metric.degradation
        inferior  == IF metric.direction = "higher" THEN d.upper < -allowed ELSE d.lower > allowed
        tolerable == IF metric.direction = "higher" THEN d.lower >= -allowed ELSE d.upper <= allowed
    IN  IF tolerable THEN "noninferior" ELSE IF inferior THEN "regression" ELSE "inconclusive"

---------------------------------------------------------------------------
(* The comparison of an observation                                        *)

Cohorts == {"baseline", "candidate"}
Seconds(o) == (o.to - o.from) * SecondsPerStep

CohortParses(cohort) ==
    /\ cohort.samples >= 1
    /\ \A m \in DOMAIN cohort.events : cohort.events[m] \in 0 .. cohort.samples

\* Variant: an empty window passes.
ObservationParsesEmpty(o) ==
    /\ o.look \in 1 .. 100
    /\ CohortParses(o.baseline) /\ CohortParses(o.candidate)
    /\ o.from <= o.to /\ Seconds(o) <= MaxSeconds

\* What the parser of an observation demands.
ObservationParses(o) ==
    /\ o.look \in 1 .. 100
    /\ CohortParses(o.baseline) /\ CohortParses(o.candidate)
    /\ o.from < o.to /\ Seconds(o) <= MaxSeconds

\* An observation is of one change and review and was made under one policy,
\* and these are the documents the comparison is given.
Binds(o, policy, review) ==
    /\ o.policy = policy
    /\ o.review = review
    /\ o.change = review.review.change

\* Only a patch that passed its gate, under a plan that was there first.
Eligible(o, policy, review) ==
    /\ review.review.decision \in {"approve", "conditional_pass"}
    /\ review.review.action = "patch"
    /\ o.look <= policy.plan.looks
    /\ policy.at <= o.from
    /\ review.at <= o.from
    /\ \A c \in Cohorts : DOMAIN o[c].events = DOMAIN policy.plan.metrics

WindowReady(o) == Seconds(o) >= o.policy.plan.seconds
AssignmentReady(o) == (o.policy.plan.sticky => o.sticky) /\ ~o.contaminated
SampleReady(o) == \A c \in Cohorts : o[c].samples >= o.policy.plan.samples
DesignReady(o) == WindowReady(o) /\ AssignmentReady(o) /\ SampleReady(o)

CanaryDecision(o, statuses) ==
    IF ~DesignReady(o) THEN "needs_evidence"
    ELSE IF "regression" \in statuses THEN "rollback"
    ELSE IF "inconclusive" \notin statuses THEN "promote"
    ELSE IF o.look = o.policy.plan.looks THEN "needs_evidence"
    ELSE "continue"

Checks(o, statuses) ==
    LET ready(holds) == IF holds THEN "pass" ELSE "warning"
    IN  [predeclared_policy |-> "pass", planned_look |-> "pass",
         observation_window |-> ready(WindowReady(o)),
         assignment_integrity |-> ready(AssignmentReady(o)),
         cohort_sample_size |-> ready(SampleReady(o)),
         metric_outcomes |-> IF "regression" \in statuses THEN "fail"
                             ELSE ready("inconclusive" \notin statuses)]

\* The result document, with the bounds of every metric's difference.
CanaryResult(o, at) ==
    LET metrics == o.policy.plan.metrics
        differences == [m \in DOMAIN metrics |-> Difference(m, o)]
        statuses == {Status(metrics[m], differences[m]) : m \in DOMAIN metrics}
    IN
    [decision |-> CanaryDecision(o, statuses), policy |-> o.policy, review |-> o.review,
     look |-> o.look, looks |-> o.policy.plan.looks, from |-> o.from, to |-> o.to, at |-> at,
     seconds |-> Seconds(o), samples |-> {o[c].samples : c \in Cohorts}, checks |-> Checks(o, statuses),
     differences |-> differences]

\* What the parser of a result demands, the one a Team case is published with.
LooksParse(r) == r.look \in 1 .. 100 /\ r.looks \in 1 .. 100 /\ r.look <= r.looks

TimesParse(r) ==
    /\ r.from < r.to /\ r.to <= r.at
    /\ r.seconds \in 1 .. MaxSeconds /\ r.seconds = (r.to - r.from) * SecondsPerStep

ChecksParse(r) == Cardinality(DOMAIN r.checks) = 6

DifferencesParse(r) ==
    /\ Cardinality(DOMAIN r.differences) \in 1 .. 50
    /\ \A m \in DOMAIN r.differences :
         LET d == r.differences[m]
         IN  -1000 <= d.lower /\ d.lower <= d.upper /\ d.upper <= 1000

ResultParses(r) ==
    /\ LooksParse(r) /\ TimesParse(r) /\ ChecksParse(r) /\ DifferencesParse(r)
    /\ \A n \in r.samples : n >= 1

---------------------------------------------------------------------------
(* The rollout                                                             *)

\* One observation is followed to one result, as a comparison keeps no state.
\* Once it is made only the documents may still be replaced.
Open == compared = {}
Unobserved == Open /\ observed = {}

CanaryInit ==
    /\ elapsed = 0 /\ declared = {} /\ reviewed = {} /\ window = {}
    /\ served = [c \in Cohorts |-> [samples |-> 0, events |-> [m \in Metered |-> 0]]]
    /\ observed = {} /\ compared = {}

Wait ==
    /\ Unobserved /\ elapsed < MaxElapsed
    /\ elapsed' = elapsed + 1
    /\ UNCHANGED <<declared, reviewed, window, served, observed, compared>>

Declare(plan) ==
    /\ Open /\ Cardinality(declared) < MaxPlans
    /\ declared' = declared \cup {[plan |-> plan, at |-> elapsed]}
    /\ UNCHANGED <<elapsed, reviewed, window, served, observed, compared>>

ReviewChange(review) ==
    /\ Open /\ Cardinality(reviewed) < MaxReviews
    /\ reviewed' = reviewed \cup {[review |-> review, at |-> elapsed]}
    /\ UNCHANGED <<elapsed, declared, window, served, observed, compared>>

\* Nothing keeps a canary from starting before its policy or its review.
StartWindow(change) ==
    /\ Unobserved /\ window = {}
    /\ window' = {[change |-> change, from |-> elapsed]}
    /\ UNCHANGED <<elapsed, declared, reviewed, served, observed, compared>>

Serve(cohort, batch) ==
    /\ Unobserved /\ window # {} /\ served[cohort].samples < MaxBatches * BatchSize
    /\ served' = [served EXCEPT ![cohort] =
                    [samples |-> served[cohort].samples + BatchSize,
                     events |-> [m \in Metered |-> served[cohort].events[m] + batch[m]]]]
    /\ UNCHANGED <<elapsed, declared, reviewed, window, observed, compared>>

Observe(policy, review, look, assignment) ==
    /\ Unobserved
    /\ \E w \in window :
         LET cohort(c) == [samples |-> served[c].samples,
                           events |-> Restrict(served[c].events, DOMAIN policy.plan.metrics)]
         IN  observed' = {[policy |-> policy, review |-> review, look |-> look,
                           sticky |-> assignment # "drifted",
                           contaminated |-> assignment = "contaminated",
                           change |-> w.change, from |-> w.from, to |-> elapsed,
                           baseline |-> cohort("baseline"), candidate |-> cohort("candidate")]}
    /\ UNCHANGED <<elapsed, declared, reviewed, window, served, compared>>

\* Documents that do not fit each other raise and leave no result.
Compare(o, policy, review) ==
    /\ Open /\ ObservationParses(o) /\ Binds(o, policy, review) /\ Eligible(o, policy, review)
    /\ compared' = {CanaryResult(o, elapsed)}
    /\ UNCHANGED <<elapsed, declared, reviewed, window, served, observed>>

CanaryNext ==
    \/ Wait
    \/ \E plan \in CanaryPlans : Declare(plan)
    \/ \E review \in CanaryReviews : ReviewChange(review) \/ StartWindow(review.change)
    \/ \E c \in Cohorts, b \in Batches : Serve(c, b)
    \/ \E p \in declared, r \in reviewed, look \in 1 .. MaxLooks,
          assignment \in {"kept", "drifted", "contaminated"} : Observe(p, r, look, assignment)
    \/ \E o \in observed, p \in declared, r \in reviewed : Compare(o, p, r)

---------------------------------------------------------------------------
(* Properties                                                              *)

\* How much worse the candidate did on a metric than the baseline, in
\* thousandths of the product of the sample counts.
Worse(m, o) ==
    LET rise == 1000 * (o.candidate.events[m] * o.baseline.samples
                        - o.baseline.events[m] * o.candidate.samples)
    IN  IF o.policy.plan.metrics[m].direction = "higher" THEN -rise ELSE rise

Tolerated(m, o) ==
    o.policy.plan.metrics[m].degradation * o.candidate.samples * o.baseline.samples

\* A promotion is earned: on every declared metric the candidate did no worse
\* than the policy tolerates; a rollback has a metric where it did.  Both rest
\* on enough samples and time, and on a policy and a passed review of the served
\* change that were there before the first request, whatever was declared or
\* reviewed in the meantime.
VerdictIsEarned ==
    \A c \in compared, o \in observed, w \in window :
        c.decision \in {"promote", "rollback"} =>
            /\ c.decision = "promote" =>
                 \A m \in DOMAIN c.policy.plan.metrics : Worse(m, o) <= Tolerated(m, o)
            /\ c.decision = "rollback" =>
                 \E m \in DOMAIN c.policy.plan.metrics : Worse(m, o) > Tolerated(m, o)
            /\ \A k \in Cohorts : served[k].samples >= c.policy.plan.samples
            /\ (elapsed - w.from) * SecondsPerStep >= c.policy.plan.seconds
            /\ c.policy.at <= w.from /\ c.review.at <= w.from
            /\ c.review.review.change = w.change
            /\ c.review.review.decision # "reject"

\* A result that was written can be read back when its case is published, also
\* one that asks for more evidence.
ResultsReadBack == \A c \in compared : ResultParses(c)
=============================================================================
