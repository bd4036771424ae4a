--------------------------- MODULE TeamApplication ---------------------------
(***************************************************************************)
(* TeamApplicationService over SQLiteTeamStore: concurrent workers, each   *)
(* serving one client request in three transactions (a snapshot, the reads *)
(* and checks that prepare an event, the commit), beside the operator's    *)
(* command line, the readers of pages, the clock, and crashes.             *)
(*                                                                         *)
(* A worker may lose its reply after the commit, or die before it; the     *)
(* client then sends the same bytes again.                                 *)
(***************************************************************************)
EXTENDS TeamStore, TeamMutations

CONSTANTS
    Workers,
    Agendas,     \* bound: what the clients and the operator do in a behaviour
    PageSize,    \* the limit a reader asks for
    Reader,      \* the principal that walks the pages
    Operator,    \* the principal of the operator's own authorization
    CliExport    \* the export id that authorization is about

(* An agenda: which requests are sent, each at most `tries` times; which   *)
(* policies are put; whether the operator drafts an event or backs up; the *)
(* pages that are walked, by table and status; the version of the file; the*)
(* last instant of the clock.                                              *)
ASSUME ApplicationAssumption ==
    /\ \A a \in Agendas :
         /\ a.requests \subseteq DOMAIN Intents /\ a.policies \subseteq PolicyDocs
         /\ a.tries \in Nat \ {0} /\ a.time \in Nat /\ a.schema \in 0 .. SchemaVersion
         /\ \A pair \in a.walks : pair[1] \in {"events", "cases", "investigations"}
    /\ None \notin DOMAIN Intents /\ "cli" \notin DOMAIN Intents \cup {None}
    /\ None \notin PolicyDocs
    /\ PageSize \in Nat \ {0}
    /\ Reader \in Principals /\ Operator \in Principals

VARIABLES
    agenda,   \* the agenda of this behaviour
    unsent,   \* requests no client has sent yet
    work,     \* what each worker is doing
    draft,    \* the operator's prepared event, none or one
    walk,     \* the reader's walk over a table's pages
    now       \* the clock

appVars == <<agenda, unsent, work, draft, walk, now>>
vars == <<storeVars, appVars>>

Idle == [ phase |-> "idle", request |-> None, tries |-> 0, base |-> <<>>, revision |-> 0,
          policy |-> None, head |-> <<>>, item |-> <<>>, event |-> <<>> ]

NoWalk == [ table |-> None, status |-> None, start |-> 0, cursor |-> 0, shown |-> <<>> ]

Init ==
    /\ StoreInit
    /\ agenda \in Agendas
    /\ schema = agenda.schema
    /\ unsent = agenda.requests
    /\ work = [w \in Workers |-> Idle]
    /\ draft = <<>>
    /\ walk = NoWalk
    /\ now = 0

InPhase(w, phase) == work[w].phase = phase

Advance(w, changes) == work' = [work EXCEPT ![w] = Updated(work[w], changes)]

Table(q) == IF Intents[q].kind = "publish" THEN cases ELSE investigations

(* The latest record a request is about, as get_..._record_snapshot reads. *)
Item(q) == IF Intents[q].kind \in {"action", "export"} THEN <<>>
           ELSE LatestRecord(Table(q)[Intents[q].target])

Revision(item) == IF item = <<>> THEN 0 ELSE item[1].revision

-----------------------------------------------------------------------------
(* A client loads the head and the item, and bases its request on them.    *)
Send(w, q) ==
    /\ InPhase(w, "idle") /\ q \in unsent /\ active # None
    /\ unsent' = unsent \ {q}
    /\ Advance(w, [phase |-> "received", request |-> q, tries |-> 1,
                   base |-> head, revision |-> Revision(Item(q))])
    /\ UNCHANGED <<storeVars, agenda, draft, walk, now>>

(* A mutant: the service compares the head with itself.                    *)
CurrentHead(w) == head

(* The client's expected head, against which the service compares.         *)
ExpectedHead(w) == work[w].base

IsMutation(q) == Intents[q].kind \notin {"action", "export"}

(* The first read.  A mutation reads policy, head and item in one snapshot *)
(* and refuses a stale expected head; record_action and create_audit_export*)
(* read only the policy.                                                   *)
ReadSnapshot(w) ==
    LET q == work[w].request
    IN  /\ InPhase(w, "received") /\ SchemaReady
        /\ IsMutation(q) => head = ExpectedHead(w)
        /\ Advance(w, [phase |-> "read", policy |-> active, head |-> head, item |-> Item(q)])
        /\ UNCHANGED <<storeVars, agenda, unsent, draft, walk, now>>

DecisionId(w) == <<"decision", work[w].request, work[w].tries>>

EventId(w) == <<"event", work[w].request, work[w].tries>>

(* The outcome a client claims stands if it is authorized.                 *)
Outcome(d, claimed) == IF d.authorized THEN claimed ELSE "denied"

(* The event _commit_investigation_mutation and its siblings build: denied *)
(* with the request's subject, or succeeded with the record.  The event of *)
(* record_action has the payload the client sent.                          *)
PreparedEvent(w, before) ==
    LET q == work[w].request
        d == Authorize(q, work[w].policy, DecisionId(w), now)
        payload == IF d.authorized /\ IsMutation(q)
                   THEN Carried(RecordKind(q), DerivedRecord(q, work[w].item, now))
                   ELSE OwnPayload(q)
        outcome == Outcome(d, IF IsMutation(q) THEN "succeeded" ELSE Intents[q].change.outcome)
    IN  CreateAuditEvent(work[w].policy, d, payload, EventId(w), outcome, now, before)

Before(h) == IF h = <<>> THEN <<>> ELSE <<events[Len(h)]>>

InOrder(before) == before # <<>> => now >= before[1].occurred_at

(* The predecessor event, the clock and the linked records are read here,  *)
(* each in a transaction of its own, after the snapshot.                   *)
PrepareMutation(w, allowed) ==
    LET doc == work[w].policy
        before == Before(work[w].head)
    IN  /\ InPhase(w, "read") /\ SchemaReady
        /\ PolicyEffective(doc, now) /\ InOrder(before)
        /\ Authorize(work[w].request, doc, DecisionId(w), now).authorized => allowed
        /\ Advance(w, [phase |-> "ready", event |-> <<PreparedEvent(w, before)>>])
        /\ UNCHANGED <<storeVars, agenda, unsent, draft, walk, now>>

IsKind(w, kind) == work[w].request # None /\ Intents[work[w].request].kind = kind

(* publish_case takes whatever revision comes next.                        *)
PreparePublish(w) ==
    /\ IsKind(w, "publish")
    /\ PrepareMutation(w, PublishAllowed(work[w].request, work[w].item, now))

(* A mutation of an investigation names the revision it was based on.      *)
RevisionExpected(w) == Revision(work[w].item) = work[w].revision

PrepareOpen(w) ==
    /\ IsKind(w, "open")
    /\ PrepareMutation(w, RevisionExpected(w)
                            /\ OpenAllowed(work[w].request, work[w].item, now))

PrepareAttach(w) ==
    /\ IsKind(w, "attach")
    /\ PrepareMutation(w, RevisionExpected(w)
                            /\ AttachAllowed(work[w].request, work[w].item, now))

PrepareTransition(w) ==
    /\ IsKind(w, "transition")
    /\ PrepareMutation(w, RevisionExpected(w)
                            /\ TransitionAllowed(work[w].request, work[w].policy, work[w].item,
                                                 now, cases, investigations))

(* record_action reads the head after the policy, in another transaction.  *)
PrepareAction(w) ==
    LET q == work[w].request
        before == Before(head)
    IN  /\ InPhase(w, "read") /\ SchemaReady
        /\ Intents[q].kind = "action"
        /\ head = ExpectedHead(w)
        /\ PolicyEffective(work[w].policy, now) /\ InOrder(before)
        /\ Advance(w, [phase |-> "ready", head |-> head,
                       event |-> <<PreparedEvent(w, before)>>])
        /\ UNCHANGED <<storeVars, agenda, unsent, draft, walk, now>>

(* After the commit the reply reaches the client, or is lost and the same  *)
(* request comes again.                                                    *)
Replied(w) ==
    \/ work' = [work EXCEPT ![w] = Idle]
    \/ /\ work[w].tries < agenda.tries
       /\ Advance(w, [Idle EXCEPT !.phase = "received", !.request = work[w].request,
                                  !.tries = work[w].tries + 1,
                                  !.base = work[w].base, !.revision = work[w].revision])

(* A mutant: a row for whatever looks like a record.                       *)
LooksLikeRecord(w) == work[w].event[1].payload.kind # "subject"

(* An authorized mutation commits its record with the event; a denied one  *)
(* and a claimed action commit the event alone, whatever its payload says. *)
StoresRecord(w) == work[w].event[1].authorization.authorized /\ IsMutation(work[w].request)

Commit(w) ==
    LET e == work[w].event[1]
        kind == RecordKind(work[w].request)
    IN  /\ InPhase(w, "ready")
        /\ CASE StoresRecord(w) /\ kind = "case" ->
                  AppendCaseRecord(e, e.payload.record, ExpectedHead(w))
             [] StoresRecord(w) /\ kind = "investigation" ->
                  AppendInvestigationRecord(e, e.payload.record, ExpectedHead(w))
             [] OTHER -> AppendPlainEvent(e, ExpectedHead(w), TRUE)
        /\ Replied(w)
        /\ UNCHANGED <<agenda, unsent, draft, walk, now>>

(* create_audit_export: decide under the policy read, then export.  The    *)
(* export id is generated, hence fresh; a denied decision ends the request.*)
ExportLedger(w) ==
    LET q == work[w].request
        d == CreateAuthorization(work[w].policy, DecisionId(w), Intents[q].who,
                                 "audit_export", "audit_export", EventId(w), now)
    IN  /\ InPhase(w, "read")
        /\ Intents[q].kind = "export"
        /\ PolicyEffective(work[w].policy, now) /\ d.authorized
        /\ CreateExport(d, EventId(w), now)
        /\ Replied(w)
        /\ UNCHANGED <<agenda, unsent, draft, walk, now>>

(* A refused request, or a process that dies: nothing was committed.       *)
Abandon(w) ==
    /\ ~InPhase(w, "idle")
    /\ \/ work' = [work EXCEPT ![w] = Idle]
       \/ /\ work[w].tries < agenda.tries
          /\ Advance(w, [Idle EXCEPT !.phase = "received", !.request = work[w].request,
                                     !.tries = work[w].tries + 1,
                                     !.base = work[w].base,
                                     !.revision = work[w].revision])
    /\ UNCHANGED <<storeVars, agenda, unsent, draft, walk, now>>

-----------------------------------------------------------------------------
(* The operator's command line: team-store-policy-put, -append and -export *)
(* with one authorization document made under any stored policy, and       *)
(* -backup and -init.                                                      *)

CliDecision(doc) ==
    CreateAuthorization(doc, <<"decision", "cli", 1>>, Operator, "audit_export",
                        "audit_export", CliExport, now)

(* team-audit-append against the head the operator read, with a      *)
(* payload and an outcome of the operator's choice.                        *)
DraftEvent(doc) ==
    /\ agenda.cli /\ draft = <<>> /\ doc \in policies
    /\ PolicyEffective(doc, now) /\ InOrder(PreviousEvent)
    /\ \E payload \in Payloads, claimed \in ClaimedOutcomes :
         LET d == CliDecision(doc)
         IN  draft' = <<CreateAuditEvent(doc, d, payload, <<"event", "cli", 1>>,
                                         Outcome(d, claimed), now, PreviousEvent)>>
    /\ UNCHANGED <<storeVars, agenda, unsent, work, walk, now>>

(* team-store-append, which does not ask for the active policy.            *)
AppendDraft ==
    /\ draft # <<>>
    /\ AppendPlainEvent(draft[1], draft[1].previous, FALSE)
    /\ UNCHANGED appVars

(* team-store-export with the decision of the draft, perhaps already spent.*)
ExportWithDraft ==
    /\ draft # <<>>
    /\ CreateExport(draft[1].authorization, CliExport, now)
    /\ UNCHANGED appVars

PolicyPut(doc) == doc \in agenda.policies /\ PutPolicy(doc) /\ UNCHANGED appVars

Backup(o) ==
    /\ agenda.backup
    /\ ReserveBackup(o) \/ CopySnapshot(o) \/ ReplaceDestination(o)
         \/ FailBackup(o) \/ CrashBackup(o)
    /\ UNCHANGED appVars

Initialize(p) ==
    /\ agenda.schema # SchemaVersion
    /\ ReadVersion(p) \/ BringToVersion3(p)
    /\ UNCHANGED appVars

-----------------------------------------------------------------------------
(* A reader walks a table newest first, page after page, by the cursor each*)
(* page returns; it must be a member when each page is read.               *)

RowsOf(table, status) ==
    CASE table = "events" -> {[record |-> events[i], sequence |-> i] : i \in DOMAIN events}
      [] table = "cases" -> LatestRows(cases)
      [] table = "investigations" ->
           {row \in LatestRows(investigations) : status # None => row.record.status = status}

RowId(table, row) ==
    CASE table = "events" -> row.sequence
      [] table = "cases" -> row.record.case_id
      [] table = "investigations" -> row.record.investigation_id

IsMember(who) == Policy[active].roles[who] # {}

(* A page of events has no gap from the cursor down, and ends at the first *)
(* event or with a cursor.                                                 *)
ContiguousPage(page, before, next) ==
    LET top == IF before - 1 < Len(head) THEN before - 1 ELSE Len(head)
        bottom == top - Cardinality(page) + 1
    IN  /\ {row.sequence : row \in page} = bottom .. top
        /\ IF next = 0 THEN bottom <= 1 ELSE next = bottom /\ bottom > 1

(* The reader gives up on a page the service refuses to return.            *)
ReadPage(table, status, start, cursor, shown) ==
    LET rows == RowsOf(table, status)
        page == PageOf(rows, cursor, PageSize)
        next == NextCursor(rows, cursor, PageSize)
        refused == table = "events" /\ ~ContiguousPage(page, cursor, next)
    IN  /\ active # None /\ IsMember(Reader)
        /\ walk' = [ table |-> table, status |-> status, start |-> start,
                     cursor |-> IF refused THEN 0 ELSE next,
                     shown |-> IF refused THEN shown
                               ELSE shown \o SetToSeq({<<RowId(table, row), row.sequence>> :
                                                       row \in page}) ]
        /\ UNCHANGED <<storeVars, agenda, unsent, work, draft, now>>

FirstPage(table, status) ==
    /\ walk.table = None
    /\ ReadPage(table, status, Len(head), Len(head) + 1, <<>>)

NextPage ==
    /\ walk.table # None /\ walk.cursor # 0
    /\ ReadPage(walk.table, walk.status, walk.start, walk.cursor, walk.shown)

Tick ==
    /\ now < agenda.time
    /\ now' = now + 1
    /\ UNCHANGED <<storeVars, agenda, unsent, work, draft, walk>>

Next ==
    \/ \E w \in Workers, q \in unsent : Send(w, q)
    \/ \E w \in Workers : \/ ReadSnapshot(w)
                          \/ PreparePublish(w) \/ PrepareOpen(w)
                          \/ PrepareAttach(w) \/ PrepareTransition(w) \/ PrepareAction(w)
                          \/ Commit(w) \/ ExportLedger(w) \/ Abandon(w)
    \/ \E doc \in PolicyDocs : PolicyPut(doc) \/ DraftEvent(doc)
    \/ AppendDraft \/ ExportWithDraft
    \/ \E o \in BackupOperators : Backup(o)
    \/ \E p \in Initializers : Initialize(p)
    \/ \E pair \in agenda.walks : FirstPage(pair[1], pair[2])
    \/ NextPage
    \/ Tick

Spec == Init /\ [][Next]_vars
-----------------------------------------------------------------------------
(* Properties.                                                             *)

RequestPhases == {"idle", "received", "read", "ready"}

(* The state is well typed, and the stored head is the digest of the last  *)
(* event of an unbroken chain: what _validated_head and every export demand*)
TeamTypeOK ==
    /\ schema \in 0 .. SchemaVersion
    /\ policies \subseteq PolicyDocs /\ active \in policies \cup {None}
    /\ (active = None) <=> (policies = {})
    /\ ValidatedHead /\ (events # <<>> => ChainValid(events))
    /\ unsent \subseteq agenda.requests
    /\ \A w \in Workers : /\ work[w].phase \in RequestPhases
                          /\ work[w].tries \in 0 .. agenda.tries
    /\ now \in 0 .. agenda.time

Logged(e) ==
    [ who |-> e.authorization.principal, action |-> e.authorization.action,
      resource |-> e.authorization.resource_id,
      authorized |-> e.authorization.authorized, policy |-> e.authorization.policy,
      at |-> e.occurred_at, payload |-> e.payload ]

Exported(x) ==
    [ id |-> x.export_id, who |-> x.authorization.principal,
      policy |-> x.authorization.policy, covers |-> x.last_sequence ]

Atomic == INSTANCE AtomicTeam WITH
            log <- [i \in DOMAIN events |-> Logged(events[i])],
            exports <- {Exported(x) : x \in exports},
            Times <- UNION {0 .. a.time : a \in Agendas},
            ExportIds <- {CliExport} \cup ({"event"} \X (DOMAIN Intents)
                                           \X UNION {1 .. a.tries : a \in Agendas})

(* Requests spread over three transactions, interleaved with other workers,*)
(* with policy changes and with the operator, behave as if each mutation   *)
(* were authorized, checked and stored at one instant: a committed mutation*)
(* was allowed by the policy active at its commit and derived from the     *)
(* records current then, including the linked records the service read in  *)
(* transactions of their own.                                              *)
ImplementsAtomicTeam == Atomic!AtomicSpec

DuplicateOf(i) == LatestRecord(investigations[i])[1].duplicate_of

Opened == {i \in Investigations : investigations[i] # <<>>}

(* Every stored link resolves, and following duplicates never goes round:  *)
(* two investigations are never closed as duplicates of each other, though *)
(* the store checks only that a target exists and the service looks at the *)
(* target before it commits.                                               *)
LinksResolve ==
    /\ \A i \in Opened : LET r == Last(investigations[i]).record
                         IN  /\ r.linked_case_id # None => cases[r.linked_case_id] # <<>>
                             /\ r.duplicate_of # None => r.duplicate_of \in Opened
    /\ \A S \in SUBSET Opened : S # {} => \E i \in S : DuplicateOf(i) \notin S

(* An authorization decision is spent at most once in the life of a store, *)
(* be it on an event or on an export, by the service or the command line.  *)
DecisionsUsedOnce ==
    /\ \A x, y \in exports :
         x.authorization.decision_id = y.authorization.decision_id => x = y
    /\ \A i \in DOMAIN events :
         /\ \A j \in DOMAIN events : i # j =>
              events[i].authorization.decision_id # events[j].authorization.decision_id
         /\ \A x \in exports :
              x.authorization.decision_id # events[i].authorization.decision_id

RowsIn(table) == UNION {Range(table[id]) : id \in DOMAIN table}

(* The event of an authorized mutation: the one that was to store a record.*)
FromMutation(e) ==
    /\ e.event_id[2] \in DOMAIN Intents /\ IsMutation(e.event_id[2])
    /\ e.authorization.authorized

(* Every stored row passes the verification each read makes of it, so after*)
(* any history a page read finds no row that disagrees with the ledger; and*)
(* the events with a row are exactly those of the authorized mutations.  A *)
(* claimed action or an operator's event never gets a row, not even when   *)
(* its payload has the media type and the bytes of a record.               *)
RecordsMatchEvents ==
    /\ \A row \in RowsIn(cases) : VerifiedCaseItem(row)
    /\ \A row \in RowsIn(investigations) : VerifiedInvestigationItem(row)
    /\ \A i \in DOMAIN events :
         FromMutation(events[i]) <=>
           \E row \in RowsIn(cases) \cup RowsIn(investigations) : row.sequence = i

(* A request whose reply was lost and that is sent again with the head it  *)
(* was based on leaves at most one event.                                  *)
RetryAppliesOnce ==
    \A i, j \in DOMAIN events : i # j => events[i].event_id[2] # events[j].event_id[2]

(* A finished backup is a state the ledger went through, and no later or   *)
(* concurrent backup to that path touches it, also after failed and crashed*)
(* ones.                                                                   *)
BackupsKept ==
    [][ /\ destination.state = "whole" => UNCHANGED destination
        /\ destination'.state = "whole" => IsPrefix(destination'.head, head') ]_vars

(* A finished walk, of the ledger's events or of the latest records, was   *)
(* refused no page, showed nothing twice, and missed only items revised    *)
(* after its first page: those moved above the cursor.                     *)
WalkMissesOnlyRevised ==
    walk.table # None =>
      /\ \A i, j \in DOMAIN walk.shown : i # j => walk.shown[i][1] # walk.shown[j][1]
      /\ walk.cursor = 0 =>
           \A row \in RowsOf(walk.table, walk.status) :
             row.sequence <= walk.start =>
               <<RowId(walk.table, row), row.sequence>> \in Range(walk.shown)
=============================================================================
