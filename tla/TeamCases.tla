------------------------------ MODULE TeamCases ------------------------------
(***************************************************************************)
(* The joined change-case record of team_cases.py: how one is derived from *)
(* the artifacts a publisher supplies, and which record may follow which.  *)
(*                                                                         *)
(* An artifact stands for its exact bytes.  A base is a change case with   *)
(* the review result that binds it; a delivery is an Azure publication     *)
(* with its verification; an approval is an approval verification; a       *)
(* canary is a canary result.  Each carries what the checks compare.       *)
(***************************************************************************)
EXTENDS TeamContracts

CONSTANTS
    Cases,      \* case ids
    Artifacts   \* what each artifact says: [artifact names -> records]

(* What the parsers of the minimized summaries demand of each artifact.    *)
DeliveryWellFormed(d) == d.published_at <= d.verified_at

ApprovalWellFormed(a) ==
    /\ (a.action = "exception") <=> (a.codes # {})
    /\ a.issued_at <= a.checked_at /\ a.checked_at < a.expires_at
    /\ a.revocations_at <= a.checked_at

CanaryWellFormed(k) ==
    /\ 1 <= k.look_number /\ k.look_number <= k.maximum_looks
    /\ k.started_at < k.ended_at /\ k.ended_at <= k.compared_at

ArtifactWellFormed(a) ==
    /\ "verified_at" \in DOMAIN a => DeliveryWellFormed(a)
    /\ "action" \in DOMAIN a => ApprovalWellFormed(a)
    /\ "look_number" \in DOMAIN a => CanaryWellFormed(a)

ASSUME CaseAssumption == \A name \in DOMAIN Artifacts : ArtifactWellFormed(Artifacts[name])

(* Artifacts a publisher supplies: a base, and optionally the others.      *)
SourceSets == [base : DOMAIN Artifacts, delivery : DOMAIN Artifacts \cup {None},
               approval : DOMAIN Artifacts \cup {None},
               canary : DOMAIN Artifacts \cup {None}]

(* _validate_delivery_chain: publication and verification bind this review.*)
DeliveryBinds(s) == s.delivery # None => Artifacts[s.delivery].base = s.base

(* parse_team_case_record: an approval approves an approval, or excepts    *)
(* exactly the findings with a consequence.                                *)
ApprovalFitsReview(a, review) ==
    IF a.action = "approve"
    THEN review.decision = "approve"
    ELSE review.decision # "approve" /\ a.codes = review.consequential

(* _approval_summary: the approval binds the supplied delivery.            *)
ApprovalBinds(s) ==
    s.approval # None =>
      /\ s.delivery # None /\ Artifacts[s.approval].delivery = s.delivery
      /\ ApprovalFitsReview(Artifacts[s.approval], Artifacts[s.base])

CanaryBinds(s) == s.canary # None => Artifacts[s.canary].base = s.base

(* create_team_case_record raises unless the chain is bound end to end.    *)
SourceChainBound(case, s) ==
    /\ Artifacts[s.base].case_id = case
    /\ DeliveryBinds(s) /\ ApprovalBinds(s) /\ CanaryBinds(s)

CreateCaseRecord(case, s, revision, at) ==
    [ case_id |-> case, revision |-> revision, published_at |-> at, base |-> s.base,
      delivery |-> s.delivery, approval |-> s.approval, canary |-> s.canary ]

-----------------------------------------------------------------------------
(* validate_team_case_successor; `before` holds none or one record.        *)

RecordedStagesKept(old, r) ==
    /\ r.base = old.base
    /\ old.delivery # None => r.delivery = old.delivery
    /\ old.approval # None => r.approval = old.approval

(* One comparison advances look by look while it says continue; another    *)
(* may start only after a rollback or a need for evidence.                 *)
CanaryAdvances(old, r) ==
    old.canary # None =>
      /\ r.canary # None
      /\ r.canary # old.canary =>
           LET was == Artifacts[old.canary]
               now == Artifacts[r.canary]
           IN  IF now.comparison_id = was.comparison_id
               THEN /\ was.decision = "continue"
                    /\ now.look_number > was.look_number
                    /\ now.maximum_looks = was.maximum_looks
                /\ now.deployments = was.deployments
               ELSE was.decision \in {"rollback", "needs_evidence"}

CaseSuccessor(before, r) ==
    IF before = <<>>
    THEN r.revision = 1
    ELSE LET old == before[1]
         IN  /\ r.case_id = old.case_id
             /\ r.revision = old.revision + 1
             /\ RecordedStagesKept(old, r)
             /\ CanaryAdvances(old, r)
             /\ r.published_at > old.published_at
             /\ <<r.delivery, r.approval, r.canary>>
                  # <<old.delivery, old.approval, old.canary>>
=============================================================================
