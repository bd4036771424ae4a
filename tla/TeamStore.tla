------------------------------ MODULE TeamStore ------------------------------
(***************************************************************************)
(* SQLiteTeamStore: the tables of one tenant and the transactions on them. *)
(* BEGIN IMMEDIATE admits one writer and a transaction commits whole or    *)
(* not at all, so each transaction is one action; a check that raises      *)
(* rolls back, so it is a guard.  The triggers of the schema repeat the    *)
(* guards (head successor, unused decision, next revision, existing link,  *)
(* forward policy) and the tables' rows are never updated or deleted.      *)
(*                                                                         *)
(* The head column is its digest; the head sequence is the digest's length.*)
(***************************************************************************)
EXTENDS TeamContracts, TeamInvestigations, TeamCases

CONSTANTS
    Initializers,     \* processes that run team-store-init
    BackupOperators   \* processes that run team-store-backup to one path

VARIABLES
    schema,           \* PRAGMA user_version: 0 for an empty file, or 1 .. 3
    saw,              \* what each initializer read before taking the lock
    policies,         \* team_policies
    active,           \* the active policy of team_tenants, None before the tenant
    head,             \* head_event_sha256 of team_tenants
    events,           \* team_events, by sequence
    cases,            \* team_case_records, by case and revision
    investigations,   \* team_investigation_records, by id and revision
    exports,          \* team_exports
    destination,      \* the backup path
    copying           \* where each backup operator is, and what it copied

schemaVars == <<schema, saw>>
policyVars == <<policies, active>>
ledgerVars == <<head, events, cases, investigations>>
backupVars == <<destination, copying>>
storeVars == <<schemaVars, policyVars, ledgerVars, exports, backupVars>>

SchemaVersion == 3

StoreInit ==
    /\ saw = [p \in Initializers |-> None]
    /\ policies = {} /\ active = None
    /\ head = <<>> /\ events = <<>>
    /\ cases = [c \in Cases |-> <<>>]
    /\ investigations = [i \in Investigations |-> <<>>]
    /\ exports = {}
    /\ destination = [state |-> "absent", head |-> <<>>]
    /\ copying = [o \in BackupOperators |-> [phase |-> "idle", head |-> <<>>]]

-----------------------------------------------------------------------------
(* initialize reads the version, then takes the write lock and looks again:*)
(* it creates an empty file, migrates the version it saw, or leaves a      *)
(* store that somebody else brought to version 3.                          *)
ReadVersion(p) ==
    /\ saw[p] = None
    /\ saw' = [saw EXCEPT ![p] = schema]
    /\ UNCHANGED <<schema, policyVars, ledgerVars, exports, backupVars>>

BringToVersion3(p) ==
    /\ saw[p] \in 0 .. 2
    /\ IF schema = saw[p] THEN schema' = SchemaVersion ELSE UNCHANGED schema
    /\ saw' = [saw EXCEPT ![p] = SchemaVersion]
    /\ UNCHANGED <<policyVars, ledgerVars, exports, backupVars>>

(* _require_schema, at the start of every transaction but initialize.      *)
SchemaReady == schema = SchemaVersion

-----------------------------------------------------------------------------
(* put_policy.  Storing bytes already stored changes nothing; a stored     *)
(* revision is never rebound, and the active revision only advances.       *)
SameRevision(doc, other) ==
    /\ Policy[doc].policy_id = Policy[other].policy_id
    /\ Policy[doc].revision = Policy[other].revision

RevisionAdvances(doc) ==
    active # None => Policy[doc].revision > Policy[active].revision

PutPolicy(doc) ==
    /\ SchemaReady
    /\ doc \notin policies
    /\ \A other \in policies : ~SameRevision(doc, other)
    /\ RevisionAdvances(doc)
    /\ policies' = policies \cup {doc}
    /\ active' = doc
    /\ UNCHANGED <<schemaVars, ledgerVars, exports, backupVars>>

-----------------------------------------------------------------------------
(* _append_event: the event extends the head its author expected.          *)

(* A mutant: the active policy compared by identifier, not by its bytes.   *)
SamePolicyId(doc) == active # None /\ Policy[doc].policy_id = Policy[active].policy_id

PolicyIsActive(doc) == doc = active

EventIdUsed(id) == \E i \in DOMAIN events : events[i].event_id = id

(* A mutant: exports do not spend a decision for an event.                 *)
UsedByEvent(id) == \E i \in DOMAIN events : events[i].authorization.decision_id = id

(* A decision is spent by an event or by an export, whichever comes first. *)
DecisionUsed(id) ==
    \/ \E i \in DOMAIN events : events[i].authorization.decision_id = id
    \/ \E x \in exports : x.authorization.decision_id = id

PreviousEvent == IF head = <<>> THEN <<>> ELSE <<events[Len(head)]>>

AppendEvent(e, expected, requireActive) ==
    LET d == e.authorization
    IN  /\ SchemaReady
        /\ active # None
        /\ head = expected
        /\ Len(head) < MaxEvents
        /\ e.sequence = Len(head) + 1 /\ e.previous = head
        /\ requireActive => PolicyIsActive(d.policy)
        /\ ~EventIdUsed(e.event_id)
        /\ ~DecisionUsed(d.decision_id)
        /\ d.policy \in policies
        /\ VerifyAuditEvent(d.policy, e, PreviousEvent)
        /\ events' = Append(events, e)
        /\ head' = EventDigest(e)
        /\ UNCHANGED <<schemaVars, policyVars, exports, backupVars>>

(* The record must be the payload of its own succeeded, authorized event.  *)
RecordBound(e, kind, id, at, r) ==
    /\ e.authorization.authorized /\ e.outcome = "succeeded"
    /\ e.authorization.action = "investigation_write"
    /\ e.authorization.resource_type = "investigation"
    /\ e.authorization.resource_id = id
    /\ e.occurred_at = at
    /\ e.payload = [kind |-> kind, record |-> r]

Row(r, e) == [record |-> r, sequence |-> e.sequence, retain_until |-> e.retain_until]

LatestRecord(rows) == IF rows = <<>> THEN <<>> ELSE <<Last(rows).record>>

AppendCaseRecord(e, r, expected) ==
    /\ RecordBound(e, "case", r.case_id, r.published_at, r)
    /\ AppendEvent(e, expected, TRUE)
    /\ CaseSuccessor(LatestRecord(cases[r.case_id]), r)
    /\ cases' = [cases EXCEPT ![r.case_id] = Append(cases[r.case_id], Row(r, e))]
    /\ UNCHANGED investigations

(* The store checks that a duplicate's target exists, not how it resolved. *)
AppendInvestigationRecord(e, r, expected) ==
    /\ RecordBound(e, "investigation", r.investigation_id, r.updated_at, r)
    /\ AppendEvent(e, expected, TRUE)
    /\ InvestigationSuccessor(LatestRecord(investigations[r.investigation_id]), r)
    /\ r.linked_case_id # None => cases[r.linked_case_id] # <<>>
    /\ r.duplicate_of # None => investigations[r.duplicate_of] # <<>>
    /\ investigations' = [investigations EXCEPT ![r.investigation_id] =
                            Append(investigations[r.investigation_id], Row(r, e))]
    /\ UNCHANGED cases

AppendPlainEvent(e, expected, requireActive) ==
    /\ AppendEvent(e, expected, requireActive)
    /\ UNCHANGED <<cases, investigations>>

-----------------------------------------------------------------------------
(* create_export: the complete verified chain, under the active policy.    *)
CreateExport(d, id, at) ==
    /\ SchemaReady
    /\ active # None
    /\ PolicyIsActive(d.policy)
    /\ head # <<>>
    /\ \A x \in exports : x.export_id # id
    /\ ~DecisionUsed(d.decision_id)
    /\ VerifyAuthorization(d.policy, d)
    /\ LET x == CreateAuditExport(d.policy, d, id, events, at)
       IN  ExportWellFormed(x, events) /\ exports' = exports \cup {x}
    /\ UNCHANGED <<schemaVars, policyVars, ledgerVars, backupVars>>

-----------------------------------------------------------------------------
(* backup: reserve the path exclusively, copy one snapshot aside, replace. *)
(* A mutant: only a finished backup occupies the path.                     *)
PathNotWhole == destination.state # "whole"

PathFree == destination.state = "absent"

Backing(o, phase) == copying[o].phase = phase

ReserveBackup(o) ==
    /\ Backing(o, "idle") /\ PathFree
    /\ destination' = [state |-> "reserved", head |-> <<>>]
    /\ copying' = [copying EXCEPT ![o].phase = "reserved"]
    /\ UNCHANGED <<schemaVars, policyVars, ledgerVars, exports>>

CopySnapshot(o) ==
    /\ Backing(o, "reserved") /\ SchemaReady
    /\ copying' = [copying EXCEPT ![o] = [phase |-> "copied", head |-> head]]
    /\ UNCHANGED <<schemaVars, policyVars, ledgerVars, exports, destination>>

ReplaceDestination(o) ==
    /\ Backing(o, "copied")
    /\ destination' = [state |-> "whole", head |-> copying[o].head]
    /\ copying' = [copying EXCEPT ![o].phase = "done"]
    /\ UNCHANGED <<schemaVars, policyVars, ledgerVars, exports>>

(* An error: the temporary goes, and so does a destination still empty.    *)
FailBackup(o) ==
    /\ Backing(o, "reserved") \/ Backing(o, "copied")
    /\ copying' = [copying EXCEPT ![o] = [phase |-> "done", head |-> <<>>]]
    /\ destination' = IF destination.state = "reserved"
                      THEN [state |-> "absent", head |-> <<>>] ELSE destination
    /\ UNCHANGED <<schemaVars, policyVars, ledgerVars, exports>>

(* The process dies: the empty reservation stays behind.                   *)
CrashBackup(o) ==
    /\ Backing(o, "reserved") \/ Backing(o, "copied")
    /\ copying' = [copying EXCEPT ![o] = [phase |-> "done", head |-> <<>>]]
    /\ UNCHANGED <<schemaVars, policyVars, ledgerVars, exports, destination>>

-----------------------------------------------------------------------------
(* The page reads: at most `limit` rows below the cursor, newest first.    *)
LatestRows(table) == {Last(table[id]) : id \in {k \in DOMAIN table : table[k] # <<>>}}

(* LIMIT ? over ORDER BY event_sequence DESC: the rows with fewer than     *)
(* `limit` matching rows above them.                                       *)
PageOf(rows, before, limit) ==
    LET below == {row \in rows : row.sequence < before}
    IN  {row \in below : Cardinality({other \in below :
                                       other.sequence > row.sequence}) < limit}

(* A mutant: the cursor is already past the first row of the next page.    *)
CursorPastNext(rows, before, limit) ==
    LET page == PageOf(rows, before, limit)
    IN  IF page = {row \in rows : row.sequence < before} THEN 0
        ELSE (CHOOSE s \in {row.sequence : row \in page} :
                \A row \in page : s <= row.sequence) - 1

(* The continuation cursor: the last included sequence, when rows remain.  *)
NextCursor(rows, before, limit) ==
    LET page == PageOf(rows, before, limit)
        below == {row \in rows : row.sequence < before}
    IN  IF page = below THEN 0
        ELSE CHOOSE s \in {row.sequence : row \in page} :
               \A row \in page : s <= row.sequence

-----------------------------------------------------------------------------
(* _verified_case_item and _verified_investigation_item: what every read   *)
(* of a stored row demands of it.                                          *)
VerifiedCaseItem(row) ==
    /\ row.sequence \in DOMAIN events
    /\ LET e == events[row.sequence]
       IN  /\ RecordBound(e, "case", row.record.case_id, row.record.published_at, row.record)
           /\ e.sequence = row.sequence /\ e.retain_until = row.retain_until

VerifiedInvestigationItem(row) ==
    /\ row.sequence \in DOMAIN events
    /\ RecordConsistent(row.record)
    /\ LET e == events[row.sequence]
       IN  /\ RecordBound(e, "investigation", row.record.investigation_id,
                          row.record.updated_at, row.record)
           /\ e.sequence = row.sequence /\ e.retain_until = row.retain_until

(* _validated_head: the head resolves to the last stored event.            *)
ValidatedHead ==
    IF head = <<>> THEN events = <<>>
    ELSE Len(head) = Len(events) /\ EventDigest(events[Len(head)]) = head
=============================================================================
