--------------------------- MODULE TeamContracts ---------------------------
(***************************************************************************)
(* The closed contracts of team_service.py: access policies, authorization *)
(* decisions, the chained audit events that carry them, and the complete   *)
(* audit export.  Everything here is pure; TeamStore keeps the state.      *)
(*                                                                         *)
(* One tenant is modelled: every document names its tenant and every table *)
(* is keyed by it.  A policy document stands for its exact bytes, so two   *)
(* documents with the same identifier and revision are different bytes of  *)
(* one revision.  A SHA-256 digest is injective: the digest of an event is *)
(* the sequence of the event ids up to it.  Times are whole seconds.       *)
(***************************************************************************)
EXTENDS Naturals, Sequences, Records

CONSTANTS
    Principals,    \* identity-provider and subject-id pairs
    PolicyDocs,    \* names of the exact policy documents there are
    Policy,        \* the parsed content of each document
    MaxAge,        \* MAX_TEAM_AUTHORIZATION_AGE_SECONDS
    MaxEvents,     \* MAX_TEAM_EXPORT_EVENTS
    None           \* an absent optional field

Roles == {"investigator", "policy_administrator", "approver"}

RoleGrants == [ investigator         |-> {"evidence_read", "investigation_write"},
                policy_administrator |-> {"evidence_read", "policy_write", "audit_export"},
                approver             |-> {"evidence_read", "approval_issue"} ]

ActionResources == [ evidence_read       |-> {"evidence_case", "investigation"},
                     investigation_write |-> {"investigation"},
                     policy_write        |-> {"gate_policy"},
                     approval_issue      |-> {"approval"},
                     audit_export        |-> {"audit_export"} ]

(* parse_team_access_policy: memberships are unique by principal, hence a  *)
(* function, in which a principal without a membership has no role; the    *)
(* default retention class is declared and keeps events a day or more.     *)
PolicyWellFormed(p) ==
    /\ DOMAIN p = {"policy_id", "revision", "effective_at", "minimum_days", "roles"}
    /\ p.revision \in Nat \ {0} /\ p.effective_at \in Nat
    /\ p.minimum_days \in Nat \ {0}
    /\ p.roles \in [Principals -> SUBSET Roles]

ASSUME ContractAssumption ==
    /\ MaxAge \in Nat /\ MaxEvents \in Nat \ {0}
    /\ \A doc \in PolicyDocs : PolicyWellFormed(Policy[doc])

-----------------------------------------------------------------------------
(* Authorization.                                                          *)

GrantingRoles(doc, who, action) ==
    {role \in Policy[doc].roles[who] : action \in RoleGrants[role]}

AuthorizationResult(doc, who, action) ==
    LET granting == GrantingRoles(doc, who, action)
    IN  [ authorized |-> granting # {},
          reason |-> IF granting # {} THEN "role_grant"
                     ELSE IF Policy[doc].roles[who] = {} THEN "principal_not_member"
                     ELSE "role_not_granted" ]

(* parse_team_authorization: the action fits the resource, and a decision  *)
(* is authorized exactly when a role granted it.                           *)
AuthorizationWellFormed(d) ==
    /\ d.resource_type \in ActionResources[d.action]
    /\ d.authorized <=> d.reason = "role_grant"

PolicyEffective(doc, at) == Policy[doc].effective_at <= at

CreateAuthorization(doc, id, who, action, type, resource, at) ==
    LET result == AuthorizationResult(doc, who, action)
    IN  [ decision_id |-> id, principal |-> who, action |-> action,
          resource_type |-> type, resource_id |-> resource,
          authorized |-> result.authorized, reason |-> result.reason,
          decided_at |-> at, policy |-> doc ]

(* verify_team_authorization: the decision is reproduced from the policy.  *)
VerifyAuthorization(doc, d) ==
    /\ AuthorizationWellFormed(d)
    /\ d.policy = doc
    /\ PolicyEffective(doc, d.decided_at)
    /\ [authorized |-> d.authorized, reason |-> d.reason]
         = AuthorizationResult(doc, d.principal, d.action)

-----------------------------------------------------------------------------
(* Audit events: each names its predecessor by digest.                     *)

EventDigest(e) == Append(e.previous, e.event_id)

(* The document create_team_audit_event builds after the event `before`    *)
(* (a sequence of none or one event).                                      *)
CreateAuditEvent(doc, d, payload, id, outcome, at, before) ==
    [ event_id |-> id,
      sequence |-> IF before = <<>> THEN 1 ELSE before[1].sequence + 1,
      occurred_at |-> at, authorization |-> d, outcome |-> outcome,
      payload |-> payload, retain_until |-> at + Policy[doc].minimum_days,
      previous |-> IF before = <<>> THEN <<>> ELSE EventDigest(before[1]) ]

(* _parse_audit_event: outcome agrees with the decision, which is recent.  *)
EventWellFormed(e) ==
    /\ AuthorizationWellFormed(e.authorization)
    /\ e.sequence = 1 <=> e.previous = <<>>
    /\ e.authorization.authorized <=> e.outcome # "denied"
    /\ e.occurred_at >= e.authorization.decided_at
    /\ e.occurred_at - e.authorization.decided_at <= MaxAge
    /\ e.retain_until > e.occurred_at

(* verify_team_audit_event: authorization, retention and predecessor.      *)
VerifyAuditEvent(doc, e, before) ==
    /\ EventWellFormed(e)
    /\ VerifyAuthorization(doc, e.authorization)
    /\ e.retain_until >= e.occurred_at + Policy[doc].minimum_days
    /\ IF before = <<>>
       THEN e.sequence = 1 /\ e.previous = <<>>
       ELSE /\ e.sequence = before[1].sequence + 1
            /\ e.previous = EventDigest(before[1])
            /\ e.occurred_at >= before[1].occurred_at

(* _validate_event_chain over a complete, nonempty list of events.         *)
ChainValid(events) ==
    /\ events # <<>>
    /\ \A i \in DOMAIN events :
         /\ EventWellFormed(events[i])
         /\ events[i].sequence = i
         /\ i > 1 => /\ events[i].previous = EventDigest(events[i - 1])
                     /\ events[i].occurred_at >= events[i - 1].occurred_at
    /\ \A i, j \in DOMAIN events : i # j =>
         /\ events[i].event_id # events[j].event_id
         /\ events[i].authorization.decision_id # events[j].authorization.decision_id

-----------------------------------------------------------------------------
(* The complete audit export.                                              *)

Latest(S) == CHOOSE t \in S : \A u \in S : u <= t

(* create_team_audit_export: kept until the policy's own floor and until   *)
(* the last of the events it contains expires.                             *)
CreateAuditExport(doc, d, id, events, at) ==
    [ export_id |-> id, authorization |-> d, created_at |-> at,
      last_sequence |-> Len(events),
      head |-> EventDigest(events[Len(events)]),
      retain_until |-> Latest({at + Policy[doc].minimum_days}
                              \cup {events[i].retain_until : i \in DOMAIN events}) ]

(* parse_team_audit_export and the checks of create_team_audit_export: a   *)
(* complete chain, authorized for this export by a decision no older than  *)
(* MaxAge and no younger than the last event.                              *)
ExportWellFormed(x, events) ==
    LET d == x.authorization
    IN  /\ Len(events) <= MaxEvents
        /\ ChainValid(events)
        /\ AuthorizationWellFormed(d) /\ d.authorized
        /\ d.action = "audit_export" /\ d.resource_id = x.export_id
        /\ d.decided_at >= events[Len(events)].occurred_at
        /\ x.created_at >= d.decided_at
        /\ x.created_at - d.decided_at <= MaxAge
        /\ x.last_sequence = Len(events)
        /\ x.head = EventDigest(events[Len(events)])
        /\ \A i \in DOMAIN events : x.retain_until >= events[i].retain_until

(* verify_team_audit_export, as of the creation time.                      *)
VerifyAuditExport(x, events) ==
    /\ ExportWellFormed(x, events)
    /\ VerifyAuthorization(x.authorization.policy, x.authorization)
    /\ x.retain_until >= x.created_at + Policy[x.authorization.policy].minimum_days
=============================================================================
