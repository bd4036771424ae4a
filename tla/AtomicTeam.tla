----------------------------- MODULE AtomicTeam -----------------------------
(***************************************************************************)
(* What the Team service promises: every mutation happens at one instant,  *)
(* authorized by the policy active then and derived from the records as    *)
(* they are then, although the service reads in several transactions and   *)
(* commits in another.  No event ids, digests, snapshots or clients here.  *)
(***************************************************************************)
EXTENDS TeamMutations

CONSTANTS
    Times,       \* the instants a mutation may be stamped with
    CliExport,   \* the export id an operator's decision is about
    ExportIds    \* the ids of exports

VARIABLES
    policies,        \* the policies ever activated
    active,          \* the active one
    log,             \* what happened, in order
    cases,           \* the records of each case
    investigations,  \* the records of each investigation
    exports          \* for each export, who exported how much under which policy

atomicVars == <<policies, active, log, cases, investigations, exports>>

AtomicInit ==
    /\ policies = {} /\ active = None
    /\ log = <<>>
    /\ cases = [c \in Cases |-> <<>>]
    /\ investigations = [i \in Investigations |-> <<>>]
    /\ exports = {}

Activate(doc) ==
    /\ doc \notin policies
    /\ active # None => Policy[doc].revision > Policy[active].revision
    /\ policies' = policies \cup {doc}
    /\ active' = doc
    /\ UNCHANGED <<log, cases, investigations, exports>>

(* Time never goes back along the log.                                     *)
NotBefore(at) == log # <<>> => Last(log).at <= at

Entry(who, action, resource, authorized, doc, at, payload) ==
    [ who |-> who, action |-> action, resource |-> resource, authorized |-> authorized,
      policy |-> doc, at |-> at, payload |-> payload ]

Entitled(q, doc) ==
    AuthorizationResult(doc, Intents[q].who, RequestAction(q).action).authorized

(* The latest record of what the request is about, as it is now.           *)
Current(q) ==
    LET rows == IF Intents[q].kind = "publish" THEN cases[Intents[q].target]
                ELSE investigations[Intents[q].target]
    IN  IF rows = <<>> THEN <<>> ELSE <<Last(rows).record>>

Log(q, at, payload) ==
    /\ active # None /\ NotBefore(at) /\ PolicyEffective(active, at)
    /\ log' = Append(log, Entry(Intents[q].who, RequestAction(q).action, Intents[q].target,
                                Entitled(q, active), active, at, payload))
    /\ UNCHANGED <<policies, active, exports>>

(* A refused mutation, or a claimed action, leaves only its entry.         *)
Note(q, at) ==
    /\ Intents[q].kind = "action" \/ (active # None /\ ~Entitled(q, active))
    /\ Log(q, at, OwnPayload(q))
    /\ UNCHANGED <<cases, investigations>>

Stored(r, at) == [record |-> r, sequence |-> Len(log) + 1,
                  retain_until |-> at + Policy[active].minimum_days]

Mutate(q, at) ==
    /\ Intents[q].kind \in {"open", "attach", "transition", "publish"}
    /\ active # None /\ Entitled(q, active)
    /\ MutationAllowed(q, active, Current(q), at, cases, investigations)
    /\ LET r == DerivedRecord(q, Current(q), at)
           id == Intents[q].target
       IN  /\ Log(q, at, Carried(RecordKind(q), r))
           /\ IF RecordKind(q) = "case"
              THEN /\ cases' = [cases EXCEPT ![id] = Append(cases[id], Stored(r, at))]
                   /\ UNCHANGED investigations
              ELSE /\ investigations' = [investigations EXCEPT ![id] =
                                           Append(investigations[id], Stored(r, at))]
                   /\ UNCHANGED cases

(* The operator's command line may append an event under any policy that   *)
(* was once active, since it does not ask for the active one, and with any *)
(* payload.                                                                *)
Record(who, action, resource, doc, at, payload) ==
    /\ doc \in policies /\ NotBefore(at)
    /\ log' = Append(log, Entry(who, action, resource,
                                AuthorizationResult(doc, who, action).authorized,
                                doc, at, payload))
    /\ UNCHANGED <<policies, active, cases, investigations, exports>>

(* An export covers the whole log, for somebody entitled by the policy     *)
(* active now.                                                             *)
Export(who, id) ==
    /\ log # <<>> /\ active # None
    /\ AuthorizationResult(active, who, "audit_export").authorized
    /\ \A x \in exports : x.id # id
    /\ exports' = exports \cup {[id |-> id, who |-> who, policy |-> active,
                                 covers |-> Len(log)]}
    /\ UNCHANGED <<policies, active, log, cases, investigations>>

AtomicNext ==
    \/ \E doc \in PolicyDocs : Activate(doc)
    \/ \E q \in DOMAIN Intents, at \in Times : Note(q, at) \/ Mutate(q, at)
    \/ \E who \in Principals, doc \in PolicyDocs, at \in Times, payload \in Payloads :
         Record(who, "audit_export", CliExport, doc, at, payload)
    \/ \E who \in Principals, id \in ExportIds : Export(who, id)

AtomicSpec == AtomicInit /\ [][AtomicNext]_atomicVars
=============================================================================
