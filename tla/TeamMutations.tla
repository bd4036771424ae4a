--------------------------- MODULE TeamMutations ---------------------------
(***************************************************************************)
(* What each mutation of TeamApplicationService asks for: the decision it  *)
(* is authorized by, the record it derives and the checks it makes before  *)
(* committing.  The operators are pure functions of what the service read, *)
(* so that TeamApplication can evaluate them on a snapshot and AtomicTeam  *)
(* on the current tables.                                                  *)
(***************************************************************************)
EXTENDS TeamInvestigations, TeamCases

(* Intents is the clients' requests by name: who asks, the kind of request,*)
(* its target and, as `change`, what is asked.  A claimed action comes with*)
(* the outcome and the payload the client chose, of any media type and any *)
(* bytes: a member of Payloads may look just like a record.                *)
CONSTANTS Intents, Payloads

Kinds == {"open", "attach", "transition", "publish", "action", "export"}

ClaimedOutcomes == {"succeeded", "failed"}

(* The parsers of the requests: a transition names every queue field, and  *)
(* links are case and investigation ids.                                   *)
TransitionWellFormed(change) ==
    /\ DOMAIN change = QueueFields
    /\ change.linked_case_id \in Cases \cup {None}
    /\ change.duplicate_of \in Investigations \cup {None}

ASSUME MutationAssumption ==
    \A q \in DOMAIN Intents :
      LET n == Intents[q]
      IN  /\ n.kind \in Kinds /\ n.who \in Principals
          /\ n.kind = "publish" => n.target \in Cases
          /\ n.kind \in {"open", "attach", "transition"} => n.target \in Investigations
          /\ n.kind = "transition" => TransitionWellFormed(n.change)
          /\ n.kind = "action" => /\ n.change.outcome \in ClaimedOutcomes
                                  /\ n.change.payload \in Payloads

(* The action and resource a request is authorized for.                    *)
RequestAction(q) ==
    CASE Intents[q].kind = "export" -> [action |-> "audit_export", type |-> "audit_export"]
      [] Intents[q].kind = "action" -> Intents[q].change
      [] OTHER -> [action |-> "investigation_write", type |-> "investigation"]

Authorize(q, doc, id, at) ==
    CreateAuthorization(doc, id, Intents[q].who, RequestAction(q).action,
                        RequestAction(q).type, Intents[q].target, at)

(* _require_investigator_assignee: a current investigator, or nobody.      *)
AssigneeAllowed(doc, who) == who # None => "investigator" \in Policy[doc].roles[who]

(* The record an authorized mutation derives from the latest one.  `item`  *)
(* holds none or one record.                                               *)
DerivedRecord(q, item, at) ==
    LET n == Intents[q]
    IN  CASE n.kind = "open" ->
               CreateInvestigation(n.target, n.change.cluster, n.change.priority, at, n.who)
          [] n.kind = "attach" -> AttachObservation(item[1], n.change.cluster, at, n.who)
          [] n.kind = "transition" -> TransitionInvestigation(item[1], n.change, at)
          [] n.kind = "publish" ->
               CreateCaseRecord(n.target, n.change,
                                IF item = <<>> THEN 1 ELSE item[1].revision + 1, at)

(* A mutant: any existing investigation will do.                           *)
AnyTarget(r, current) == r.duplicate_of # None => current[r.duplicate_of] # <<>>

(* A duplicate must name an existing investigation that is not itself      *)
(* resolved as a duplicate; a linked case must exist.  `current` and       *)
(* `published` are the tables of records as the service reads them.        *)
CanonicalTarget(r, current) ==
    r.duplicate_of # None =>
      /\ current[r.duplicate_of] # <<>>
      /\ Last(current[r.duplicate_of]).record.resolution # "duplicate"

LinkedCaseExists(r, published) ==
    r.linked_case_id # None => published[r.linked_case_id] # <<>>

(* Everything an authorized request must satisfy, beside its authorization *)
OpenAllowed(q, item, at) ==
    /\ item = <<>>
    /\ InvestigationSuccessor(<<>>, DerivedRecord(q, item, at))

AttachAllowed(q, item, at) ==
    /\ item # <<>>
    /\ InvestigationSuccessor(item, DerivedRecord(q, item, at))

TransitionAllowed(q, doc, item, at, published, current) ==
    /\ item # <<>>
    /\ AssigneeAllowed(doc, Intents[q].change.assigned_to)
    /\ LET r == DerivedRecord(q, item, at)
       IN  /\ InvestigationSuccessor(item, r)
           /\ LinkedCaseExists(r, published)
           /\ CanonicalTarget(r, current)

PublishAllowed(q, item, at) ==
    /\ SourceChainBound(Intents[q].target, Intents[q].change)
    /\ CaseSuccessor(item, DerivedRecord(q, item, at))

MutationAllowed(q, doc, item, at, published, current) ==
    CASE Intents[q].kind = "open"       -> OpenAllowed(q, item, at)
      [] Intents[q].kind = "attach"     -> AttachAllowed(q, item, at)
      [] Intents[q].kind = "transition" ->
           TransitionAllowed(q, doc, item, at, published, current)
      [] Intents[q].kind = "publish"    -> PublishAllowed(q, item, at)

(* The payload of the event: an authorized mutation carries its record, a  *)
(* denied one the minimized subject of the request, and a claimed action,  *)
(* authorized or not, what the client sent.                                *)
RecordKind(q) == IF Intents[q].kind = "publish" THEN "case" ELSE "investigation"

Subject == [kind |-> "subject", record |-> None]

Carried(kind, r) == [kind |-> kind, record |-> r]

OwnPayload(q) == IF Intents[q].kind = "action" THEN Intents[q].change.payload ELSE Subject
=============================================================================
