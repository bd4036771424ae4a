------------------------- MODULE TeamInvestigations -------------------------
(***************************************************************************)
(* The lifecycle contract of team_investigations.py: the consistency of a  *)
(* record, the three ways to derive one (open, attach, transition), and    *)
(* the rule every stored successor must satisfy.  Pure operators.          *)
(*                                                                         *)
(* Title and priority are one field here, "priority": both are free data   *)
(* that a transition may set.  An observation is the trace cluster it      *)
(* cites, with who attached it and when.  The bound on rendered bytes is   *)
(* left to MaxObservations.                                                *)
(***************************************************************************)
EXTENDS TeamContracts, SequencesExt

CONSTANTS
    Investigations,    \* investigation ids
    MaxObservations    \* MAX_TEAM_INVESTIGATION_OBSERVATIONS

ASSUME InvestigationAssumption == MaxObservations \in Nat \ {0} /\ None \notin Investigations

Resolutions == {"change_case_opened", "duplicate", "not_a_failure",
                "no_change_required", "insufficient_evidence"}

(* _validate_resolution: only a closed record is resolved, and a link is   *)
(* there exactly when its resolution calls for one.                        *)
ResolutionConsistent(r) ==
    IF r.status # "closed"
    THEN r.resolution = None /\ r.linked_case_id = None /\ r.duplicate_of = None
    ELSE /\ r.resolution \in Resolutions
         /\ (r.linked_case_id # None) <=> (r.resolution = "change_case_opened")
         /\ (r.duplicate_of # None) <=> (r.resolution = "duplicate")
         /\ r.duplicate_of # r.investigation_id

(* parse_team_investigation_record.                                        *)
RecordConsistent(r) ==
    LET obs == r.observations
    IN  /\ r.created_at <= r.updated_at
        /\ Len(obs) \in 1 .. MaxObservations
        /\ \A i, j \in DOMAIN obs : i < j =>
             obs[i].cluster # obs[j].cluster /\ obs[i].attached_at < obs[j].attached_at
        /\ obs[1].attached_at = r.created_at /\ obs[1].attached_by = r.opened_by
        /\ Last(obs).attached_at <= r.updated_at
        /\ r.revision >= Len(obs)
        /\ ResolutionConsistent(r)

Observation(cluster, at, who) ==
    [cluster |-> cluster, attached_at |-> at, attached_by |-> who]

-----------------------------------------------------------------------------
(* The records the three operations derive.  Each operation raises unless  *)
(* its record is consistent and a valid successor.                         *)

CreateInvestigation(id, cluster, priority, at, who) ==
    [ investigation_id |-> id, revision |-> 1, created_at |-> at, updated_at |-> at,
      status |-> "queued", priority |-> priority, opened_by |-> who,
      observations |-> <<Observation(cluster, at, who)>>, assigned_to |-> None,
      resolution |-> None, linked_case_id |-> None, duplicate_of |-> None ]

AttachObservation(before, cluster, at, who) ==
    [ before EXCEPT !.revision = before.revision + 1,
                    !.updated_at = at,
                    !.observations = Append(before.observations,
                                            Observation(cluster, at, who)) ]

QueueFields == {"status", "priority", "assigned_to", "resolution",
                "linked_case_id", "duplicate_of"}

QueueState(r) == [f \in QueueFields |-> r[f]]

(* `change` gives every queue field its requested value.                   *)
TransitionInvestigation(before, change, at) ==
    [Updated(before, change) EXCEPT !.revision = before.revision + 1, !.updated_at = at]

AllowedStatuses == [ queued        |-> {"queued", "investigating", "blocked", "closed"},
                     investigating |-> {"investigating", "blocked", "closed"},
                     blocked       |-> {"blocked", "investigating", "closed"},
                     closed        |-> {} ]

ImmutableFields == {"investigation_id", "created_at", "opened_by"}

(* validate_team_investigation_successor; `before` is a sequence of none   *)
(* or one record.                                                          *)
FirstRevision(r) ==
    /\ r.revision = 1 /\ r.status = "queued" /\ r.created_at = r.updated_at
    /\ Len(r.observations) = 1 /\ r.assigned_to = None

OneObservationAdded(before, r) ==
    /\ Len(r.observations) = Len(before.observations) + 1
    /\ Front(r.observations) = before.observations
    /\ Last(r.observations).attached_at = r.updated_at
    /\ QueueState(r) = QueueState(before)

InvestigationSuccessor(before, r) ==
    /\ RecordConsistent(r)
    /\ IF before = <<>>
       THEN FirstRevision(r)
       ELSE LET old == before[1]
            IN  /\ old.status # "closed"
                /\ r.revision = old.revision + 1
                /\ r.updated_at > old.updated_at
                /\ \A f \in ImmutableFields : r[f] = old[f]
                /\ \/ OneObservationAdded(old, r)
                   \/ /\ r.observations = old.observations
                      /\ r.status \in AllowedStatuses[old.status]
                      /\ QueueState(r) # QueueState(old)
=============================================================================
