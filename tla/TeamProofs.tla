------------------------------ MODULE TeamProofs ------------------------------
(***************************************************************************)
(* What the Team store keeps and what the service over it promises, for    *)
(* every number of workers, requests, policies, retries and crashes.       *)
(***************************************************************************)
EXTENDS TeamDeployment, FiniteSetTheorems, WellFoundedInduction, TLAPS

-----------------------------------------------------------------------------
(* The inductive invariant                                                 *)

\* A sequence, of whatever elements.
Listed(s) == s \in Seq(Range(s))

RecordFields == {"investigation_id", "revision", "created_at", "updated_at", "status",
                 "priority", "opened_by", "observations"} \cup QueueFields

EventLinked(i) ==
    /\ EventWellFormed(events[i])
    /\ events[i].sequence = i
    /\ Listed(events[i].previous)
    /\ events[i].previous = IF i = 1 THEN <<>> ELSE EventDigest(events[i - 1])
    /\ i > 1 => events[i].occurred_at >= events[i - 1].occurred_at

IdsDiffer ==
    \A i, j \in DOMAIN events : i # j =>
      /\ events[i].event_id # events[j].event_id
      /\ events[i].authorization.decision_id # events[j].authorization.decision_id

\* The ledger is one chain, and the head is the digest of its last event.
ChainInv ==
    /\ Listed(events) /\ Listed(head) /\ Len(head) = Len(events)
    /\ \A i \in DOMAIN events : EventLinked(i)
    /\ head = IF Len(events) = 0 THEN <<>> ELSE EventDigest(events[Len(events)])
    /\ IdsDiffer

PolicyInv ==
    /\ policies \subseteq PolicyDocs /\ active \in policies \cup {None}
    /\ (active = None) <=> (policies = {})
    /\ head # <<>> => active # None

InvestigationRow(id, row) ==
    /\ DOMAIN row.record = RecordFields
    /\ row.record.investigation_id = id /\ row.record.linked_case_id \in Cases \cup {None}
    /\ VerifiedInvestigationItem(row)

CaseRow(id, row) == row.record.case_id = id /\ VerifiedCaseItem(row)

\* Every row is what the event of its sequence says, and lies where it belongs.
TablesInv ==
    /\ DOMAIN cases = Cases /\ DOMAIN investigations = Investigations
    /\ \A c \in Cases : Listed(cases[c]) /\ \A row \in Range(cases[c]) : CaseRow(c, row)
    /\ \A i \in Investigations :
         /\ Listed(investigations[i])
         /\ \A row \in Range(investigations[i]) : InvestigationRow(i, row)

\* c is what a worker is doing, a row of work.  It serves a request from a head
\* the ledger had, and no event answered the request since.
RequestHeld(c) ==
    /\ (c.phase = "idle") <=> (c.request = None)
    /\ c.phase = "idle" => c.tries = 0
    /\ c.phase # "idle" =>
         /\ c.request \in DOMAIN Intents \ unsent
         /\ c.tries \in 1 .. agenda.tries /\ policies # {}
         /\ Listed(c.base) /\ Len(c.base) <= Len(head)
         /\ \A i \in DOMAIN events : events[i].event_id[2] = c.request => Len(c.base) < i

\* What a worker read in its snapshot is current as long as the head stands.
ItemHeld(c) ==
    /\ c.head = c.base
    /\ head = c.base => c.item = Item(c.request)
    /\ RecordKind(c.request) = "investigation" /\ c.item # <<>> =>
         /\ DOMAIN c.item[1] = RecordFields
         /\ c.item[1].investigation_id = Intents[c.request].target

SnapshotHeld(c) ==
    c.phase \in {"read", "ready"} =>
      /\ c.policy \in policies
      /\ IsMutation(c.request) => ItemHeld(c)

Derives(c, e) == e.authorization.authorized /\ IsMutation(c.request)

\* The event is made from the request, the policy and the item read.
EventMade(c, e) ==
    LET q == c.request
        at == e.occurred_at
    IN  /\ Intents[q].kind # "export"
        /\ e.event_id = <<"event", q, c.tries>>
        /\ at \in 0 .. agenda.time
        /\ e.authorization = Authorize(q, c.policy, <<"decision", q, c.tries>>, at)
        /\ e.retain_until = at + Policy[c.policy].minimum_days
        /\ e.payload = IF Derives(c, e)
                       THEN Carried(RecordKind(q), DerivedRecord(q, c.item, at))
                       ELSE OwnPayload(q)

\* What it derives is still allowed as long as the head stands.
StillAllowed(c, e) ==
    LET q == c.request
        r == DerivedRecord(q, c.item, e.occurred_at)
    IN  Derives(c, e) =>
          /\ RecordKind(q) = "investigation" =>
               DOMAIN r = RecordFields /\ r.investigation_id = Intents[q].target
          /\ head = c.base =>
               MutationAllowed(q, c.policy, c.item, e.occurred_at, cases, investigations)

EventPrepared(c) ==
    c.phase = "ready" => EventMade(c, c.event[1]) /\ StillAllowed(c, c.event[1])

Served(c) ==
    /\ DOMAIN c = DOMAIN Idle /\ c.phase \in RequestPhases
    /\ RequestHeld(c) /\ SnapshotHeld(c) /\ EventPrepared(c)

OwnRequests ==
    \A v, w \in Workers : v # w /\ work[v].request = work[w].request => work[v].request = None

WorkInv ==
    /\ DOMAIN work = Workers
    /\ \A w \in Workers : Served(work[w])
    /\ OwnRequests

\* What is not sent yet has left no event, and the operator's event has one id.
IdsInv ==
    /\ unsent \subseteq agenda.requests
    /\ \A i \in DOMAIN events :
         /\ events[i].event_id[2] \notin unsent
         /\ events[i].event_id[2] = "cli" => events[i].event_id = <<"event", "cli", 1>>

DraftInv ==
    draft # <<>> =>
      LET e == draft[1]
      IN  /\ e.occurred_at \in 0 .. agenda.time
          /\ e.event_id = <<"event", "cli", 1>> /\ e.payload \in Payloads
          /\ \E doc \in policies :
               e.authorization = CreateAuthorization(doc, <<"decision", "cli", 1>>, Operator,
                                   "audit_export", "audit_export", CliExport, e.occurred_at)

ClockInv == agenda \in Agendas /\ now \in 0 .. agenda.time

\* At most one operator works on the backup path, which is then reserved.
BackupInv ==
    /\ DOMAIN copying = BackupOperators
    /\ destination.state = "whole" => Listed(destination.head) /\ IsPrefix(destination.head, head)
    /\ \A o \in BackupOperators :
         /\ DOMAIN copying[o] = {"phase", "head"}
         /\ Backing(o, "reserved") \/ Backing(o, "copied") =>
              /\ destination.state = "reserved"
              /\ \A p \in BackupOperators \ {o} : ~Backing(p, "reserved") /\ ~Backing(p, "copied")
         /\ Backing(o, "copied") => Listed(copying[o].head) /\ IsPrefix(copying[o].head, head)

\* The events with a row are those of the authorized mutations.
EventsStored ==
    \A i \in DOMAIN events :
      FromMutation(events[i]) <=>
        \E row \in RowsIn(cases) \cup RowsIn(investigations) : row.sequence = i

StoreInv == ChainInv /\ PolicyInv /\ TablesInv /\ EventsStored /\ DecisionsUsedOnce /\ LinksResolve

TeamInv ==
    /\ ClockInv /\ StoreInv /\ IdsInv /\ WorkInv /\ DraftInv /\ BackupInv /\ RetryAppliesOnce

-----------------------------------------------------------------------------
(* Sequences *)

\* A listed sequence has a length and the domain up to it.
LEMMA ListedLength ==
  ASSUME NEW s, Listed(s)
  PROVE  Len(s) \in Nat /\ DOMAIN s = 1 .. Len(s) /\ (s = <<>> <=> Len(s) = 0)
BY DEF Listed

\* Append keeps what is there and adds its element at the end.
LEMMA AppendListed ==
  ASSUME NEW s, NEW e, Listed(s)
  PROVE  /\ Listed(Append(s, e)) /\ Len(Append(s, e)) = Len(s) + 1
         /\ DOMAIN Append(s, e) = 1 .. Len(s) + 1
         /\ Append(s, e)[Len(s) + 1] = e
         /\ \A i \in 1 .. Len(s) : Append(s, e)[i] = s[i]
<1>1. Len(s) \in Nat /\ DOMAIN s = 1 .. Len(s)
  BY ListedLength
<1>2. s \in Seq(Range(s) \cup {e}) /\ e \in Range(s) \cup {e}
  BY <1>1 DEF Listed
<1>3. Append(s, e) \in Seq(Range(s) \cup {e}) /\ Len(Append(s, e)) = Len(s) + 1
  BY <1>2
<1>4. Append(s, e)[Len(s) + 1] = e /\ \A i \in 1 .. Len(s) : Append(s, e)[i] = s[i]
  BY <1>2, <1>1
<1>5. \A i \in 1 .. Len(s) + 1 : Append(s, e)[i] \in Range(Append(s, e))
  BY <1>3 DEF Range
<1>6. Append(s, e) \in Seq(Range(Append(s, e)))
  BY <1>3, <1>5, <1>1
<1> QED
  BY <1>1, <1>3, <1>4, <1>6 DEF Listed

\* The elements after an append are those before and the new one.
LEMMA AppendRange ==
  ASSUME NEW s, NEW e, Listed(s)
  PROVE  Range(Append(s, e)) = Range(s) \cup {e} /\ Last(Append(s, e)) = e /\ Append(s, e) # <<>>
<1>1. Len(s) \in Nat /\ DOMAIN s = 1 .. Len(s)
  BY ListedLength
<1>2. /\ Listed(Append(s, e)) /\ Len(Append(s, e)) = Len(s) + 1
      /\ DOMAIN Append(s, e) = 1 .. Len(s) + 1
      /\ Append(s, e)[Len(s) + 1] = e
      /\ \A i \in 1 .. Len(s) : Append(s, e)[i] = s[i]
  BY AppendListed
<1>3. Last(Append(s, e)) = e /\ Append(s, e) # <<>>
  BY <1>1, <1>2, ListedLength DEF Last
<1>4. Range(s) \cup {e} \subseteq Range(Append(s, e))
  BY <1>1, <1>2 DEF Range
<1>5. Range(Append(s, e)) \subseteq Range(s) \cup {e}
  <2>1. SUFFICES ASSUME NEW x \in Range(Append(s, e)) PROVE x \in Range(s) \cup {e}
    OBVIOUS
  <2>2. PICK i \in 1 .. Len(s) + 1 : x = Append(s, e)[i]
    BY <1>2 DEF Range
  <2> QED
    BY <1>1, <1>2, <2>2 DEF Range
<1> QED
  BY <1>3, <1>4, <1>5

\* The last element of a nonempty sequence is one of its elements.
LEMMA LastListed ==
  ASSUME NEW s, Listed(s), s # <<>>
  PROVE  Last(s) \in Range(s) /\ Last(s) = s[Len(s)]
BY ListedLength DEF Last, Range

-----------------------------------------------------------------------------
(* The store's steps on the ledger *)

LedgerStands == UNCHANGED ledgerVars

\* The event `e` was appended, and the rows that were there are still there.
Grown(e) ==
    /\ Len(events) \in Nat /\ DOMAIN events = 1 .. Len(events)
    /\ Len(events') = Len(events) + 1 /\ DOMAIN events' = 1 .. Len(events) + 1
    /\ events'[Len(events) + 1] = e /\ \A i \in DOMAIN events : events'[i] = events[i]
    /\ Listed(head') /\ head' = Append(head, e.event_id) /\ Len(head') = Len(head) + 1

LinksFree(r) ==
    /\ r.linked_case_id \in Cases \cup {None}
    /\ r.duplicate_of # None => r.duplicate_of \in Opened /\ DuplicateOf(r.duplicate_of) = None

PlainAppended(e) == AppendPlainEvent(e, head, FALSE) /\ ~FromMutation(e)

CaseAppended(e, r) == AppendCaseRecord(e, r, head) /\ r.case_id \in Cases /\ FromMutation(e)

InvestigationAppended(e, r) ==
    /\ AppendInvestigationRecord(e, r, head) /\ FromMutation(e)
    /\ r.investigation_id \in Investigations /\ DOMAIN r = RecordFields /\ LinksFree(r)

Appended(e) ==
    PlainAppended(e) \/ \E r : CaseAppended(e, r) \/ InvestigationAppended(e, r)

\* An appended event extends both the ledger and its head.
LEMMA AppendGrows ==
  ASSUME ChainInv, NEW e, AppendEvent(e, head, FALSE)
  PROVE  /\ Grown(e) /\ Listed(events') /\ e.sequence = Len(events) + 1
         /\ Len(events) \in Nat /\ Len(head) = Len(events)
         /\ DOMAIN events = 1 .. Len(events)
<1>1. /\ events' = Append(events, e) /\ head' = Append(head, e.event_id)
      /\ e.sequence = Len(head) + 1
  BY DEF AppendEvent, EventDigest
<1>2. Listed(events) /\ Listed(head) /\ Len(head) = Len(events)
  BY DEF ChainInv
<1>3. Len(events) \in Nat /\ DOMAIN events = 1 .. Len(events)
  BY <1>2, ListedLength
<1>4. /\ Listed(events') /\ Len(events') = Len(events) + 1
      /\ DOMAIN events' = 1 .. Len(events) + 1 /\ events'[Len(events) + 1] = e
      /\ \A i \in 1 .. Len(events) : events'[i] = events[i]
  BY <1>1, <1>2, AppendListed
<1>5. Listed(head') /\ Len(head') = Len(head) + 1
  BY <1>1, <1>2, AppendListed
<1> QED
  BY <1>1, <1>2, <1>3, <1>4, <1>5 DEF Grown

\* The chain stays a chain.
LEMMA ChainKept ==
  ASSUME ChainInv, NEW e, AppendEvent(e, head, FALSE)
  PROVE  ChainInv'
<1>1. PICK n : n = Len(events)
  OBVIOUS
<1>2. /\ Grown(e) /\ Listed(events') /\ e.sequence = n + 1 /\ n \in Nat /\ Len(head) = n
      /\ DOMAIN events = 1 .. n
  BY <1>1, AppendGrows
<1>3. /\ e.previous = head /\ EventWellFormed(e)
      /\ ~EventIdUsed(e.event_id) /\ ~DecisionUsed(e.authorization.decision_id)
      /\ VerifyAuditEvent(e.authorization.policy, e, PreviousEvent)
      /\ head' = EventDigest(e)
  BY DEF AppendEvent, VerifyAuditEvent
<1>4. /\ Listed(head) /\ \A i \in 1 .. n : EventLinked(i)
      /\ head = IF n = 0 THEN <<>> ELSE EventDigest(events[n])
      /\ IdsDiffer
  BY <1>1, <1>2 DEF ChainInv
<1>5. ASSUME NEW i \in 1 .. n
      PROVE  EventLinked(i)'
  <2>1. EventLinked(i) /\ events'[i] = events[i] /\ (i > 1 => events'[i - 1] = events[i - 1])
    BY <1>1, <1>2, <1>4 DEF Grown
  <2> QED
    BY <2>1 DEF EventLinked
<1>6. EventLinked(n + 1)'
  <2>1. events'[n + 1] = e /\ (n > 0 => events'[n] = events[n])
    BY <1>1, <1>2 DEF Grown
  <2>2. n = 0 => head = <<>>
    BY <1>4
  <2>3. n > 0 => head = EventDigest(events'[n])
    BY <1>2, <1>4, <2>1
  <2>4. n > 0 => PreviousEvent = <<events[n]>>
    BY <1>2, <1>4, ListedLength DEF PreviousEvent
  <2>5. n > 0 => e.occurred_at >= events'[n].occurred_at
    <3>1. <<events[n]>> # <<>> /\ <<events[n]>>[1] = events[n]
      OBVIOUS
    <3>2. n > 0 => e.occurred_at >= events[n].occurred_at
      BY <1>3, <2>4, <3>1 DEF VerifyAuditEvent
    <3> QED
      BY <2>1, <3>2
  <2>6. e.previous = IF n + 1 = 1 THEN <<>> ELSE EventDigest(events'[(n + 1) - 1])
    BY <1>2, <1>3, <2>2, <2>3
  <2>7. n + 1 > 1 => e.occurred_at >= events'[(n + 1) - 1].occurred_at
    BY <1>2, <2>5
  <2>8. e.sequence = n + 1 /\ Listed(e.previous) /\ EventWellFormed(e)
    BY <1>2, <1>3, <1>4
  <2> QED
    BY <2>1, <2>6, <2>7, <2>8 DEF EventLinked
<1>7. IdsDiffer'
  <2> SUFFICES ASSUME NEW i \in 1 .. n + 1, NEW j \in 1 .. n + 1, i # j
               PROVE  /\ events'[i].event_id # events'[j].event_id
                      /\ events'[i].authorization.decision_id
                           # events'[j].authorization.decision_id
    BY <1>1, <1>2 DEF IdsDiffer, Grown
  <2>1. \A k \in 1 .. n : /\ events[k].event_id # e.event_id
                          /\ events[k].authorization.decision_id # e.authorization.decision_id
    BY <1>2, <1>3 DEF EventIdUsed, DecisionUsed
  <2>2. CASE i \in 1 .. n /\ j \in 1 .. n
    BY <1>2, <1>4, <2>2, <1>1 DEF IdsDiffer, Grown
  <2>3. CASE i = n + 1 /\ j \in 1 .. n
    BY <1>1, <1>2, <2>1, <2>3 DEF Grown
  <2>4. CASE j = n + 1 /\ i \in 1 .. n
    BY <1>1, <1>2, <2>1, <2>4 DEF Grown
  <2> QED
    BY <1>2, <2>2, <2>3, <2>4
<1>8. \A i \in DOMAIN events' : EventLinked(i)'
  <2>1. \A i \in 1 .. n + 1 : i \in 1 .. n \/ i = n + 1
    BY <1>2
  <2> QED
    BY <1>1, <1>2, <1>5, <1>6, <2>1 DEF Grown
<1>9. Len(events') # 0 /\ head' = EventDigest(events'[Len(events')])
  BY <1>1, <1>2, <1>3 DEF Grown
<1> QED
  BY <1>1, <1>2, <1>7, <1>8, <1>9 DEF ChainInv, Grown

\* A row that agreed with its event agrees with it after the ledger grew.
LEMMA RowsStand ==
  ASSUME NEW e, NEW row, NEW id, Grown(e)
  PROVE  /\ CaseRow(id, row) => CaseRow(id, row)'
         /\ InvestigationRow(id, row) => InvestigationRow(id, row)'
<1>1. ASSUME row.sequence \in DOMAIN events
      PROVE  row.sequence \in DOMAIN events' /\ events'[row.sequence] = events[row.sequence]
  <2>1. DOMAIN events \subseteq DOMAIN events' => row.sequence \in DOMAIN events'
    BY <1>1
  <2>2. DOMAIN events \subseteq DOMAIN events'
    BY DEF Grown
  <2> QED
    BY <1>1, <2>1, <2>2 DEF Grown
<1>2. CaseRow(id, row) => CaseRow(id, row)'
  BY <1>1 DEF CaseRow, VerifiedCaseItem
<1>3. InvestigationRow(id, row) => InvestigationRow(id, row)'
  BY <1>1 DEF InvestigationRow, VerifiedInvestigationItem
<1> QED
  BY <1>2, <1>3

\* An appended record becomes a row that agrees with its event.
LEMMA RowAppended ==
  ASSUME ChainInv, NEW e, NEW r
  PROVE  /\ CaseAppended(e, r) => CaseRow(r.case_id, Row(r, e))'
         /\ InvestigationAppended(e, r) => InvestigationRow(r.investigation_id, Row(r, e))'
<1>1. ASSUME CaseAppended(e, r)
      PROVE  CaseRow(r.case_id, Row(r, e))'
  <2>1. AppendEvent(e, head, FALSE) /\ RecordBound(e, "case", r.case_id, r.published_at, r)
    BY <1>1 DEF CaseAppended, AppendCaseRecord, AppendEvent
  <2>2. /\ Grown(e) /\ e.sequence = Len(events) + 1 /\ Len(events) \in Nat
    BY <2>1, AppendGrows
  <2>3. e.sequence \in DOMAIN events' /\ events'[e.sequence] = e
    BY <2>2 DEF Grown
  <2> QED
    BY <2>1, <2>3 DEF CaseRow, VerifiedCaseItem, Row
<1>2. ASSUME InvestigationAppended(e, r)
      PROVE  InvestigationRow(r.investigation_id, Row(r, e))'
  <2>1. /\ AppendEvent(e, head, FALSE) /\ RecordConsistent(r) /\ DOMAIN r = RecordFields
        /\ RecordBound(e, "investigation", r.investigation_id, r.updated_at, r)
        /\ r.linked_case_id \in Cases \cup {None}
    BY <1>2 DEF InvestigationAppended, AppendInvestigationRecord, AppendEvent,
                InvestigationSuccessor, LinksFree
  <2>2. /\ Grown(e) /\ e.sequence = Len(events) + 1 /\ Len(events) \in Nat
    BY <2>1, AppendGrows
  <2>3. e.sequence \in DOMAIN events' /\ events'[e.sequence] = e
    BY <2>2 DEF Grown
  <2> QED
    BY <2>1, <2>3 DEF InvestigationRow, VerifiedInvestigationItem, Row
<1> QED
  BY <1>1, <1>2

\* What an append leaves of the tables.
LEMMA TablesGrow ==
  ASSUME TablesInv, NEW e, Appended(e)
  PROVE  /\ AppendEvent(e, head, FALSE)
         /\ \/ UNCHANGED <<cases, investigations>> /\ PlainAppended(e)
            \/ \E r : /\ CaseAppended(e, r) /\ UNCHANGED investigations
                      /\ cases' = [cases EXCEPT ![r.case_id] =
                                     Append(cases[r.case_id], Row(r, e))]
            \/ \E r : /\ InvestigationAppended(e, r) /\ UNCHANGED cases
                      /\ investigations' = [investigations EXCEPT ![r.investigation_id] =
                                              Append(investigations[r.investigation_id], Row(r, e))]
<1>1. CASE PlainAppended(e)
  BY <1>1 DEF PlainAppended, AppendPlainEvent
<1>2. ASSUME NEW r, CaseAppended(e, r)
      PROVE  /\ AppendEvent(e, head, FALSE) /\ UNCHANGED investigations
             /\ cases' = [cases EXCEPT ![r.case_id] = Append(cases[r.case_id], Row(r, e))]
  BY <1>2 DEF CaseAppended, AppendCaseRecord, AppendEvent
<1>3. ASSUME NEW r, InvestigationAppended(e, r)
      PROVE  /\ AppendEvent(e, head, FALSE) /\ UNCHANGED cases
             /\ investigations' = [investigations EXCEPT ![r.investigation_id] =
                                     Append(investigations[r.investigation_id], Row(r, e))]
  BY <1>3 DEF InvestigationAppended, AppendInvestigationRecord, AppendEvent
<1> QED
  BY <1>1, <1>2, <1>3 DEF Appended

\* Every row still is what its event says.
LEMMA TablesKept ==
  ASSUME ChainInv, TablesInv, NEW e, Appended(e)
  PROVE  TablesInv'
<1>1. AppendEvent(e, head, FALSE) /\ Grown(e)
  BY TablesGrow, AppendGrows
<1>2. /\ DOMAIN cases = Cases /\ DOMAIN investigations = Investigations
      /\ \A c \in Cases : Listed(cases[c]) /\ \A row \in Range(cases[c]) : CaseRow(c, row)'
      /\ \A i \in Investigations :
           /\ Listed(investigations[i])
           /\ \A row \in Range(investigations[i]) : InvestigationRow(i, row)'
  BY <1>1, RowsStand DEF TablesInv
<1>3. CASE UNCHANGED <<cases, investigations>>
  BY <1>2, <1>3 DEF TablesInv
<1>4. ASSUME NEW r, CaseAppended(e, r), UNCHANGED investigations,
             cases' = [cases EXCEPT ![r.case_id] = Append(cases[r.case_id], Row(r, e))]
      PROVE  TablesInv'
  <2>1. PICK id \in Cases : id = r.case_id
    BY <1>4 DEF CaseAppended
  <2>2. PICK new : new = Row(r, e)
    OBVIOUS
  <2>3. DOMAIN cases' = Cases /\ \A c \in Cases : cases'[c] = IF c = id THEN Append(cases[id], new)
                                                             ELSE cases[c]
    BY <1>2, <1>4, <2>1, <2>2
  <2>4. Listed(Append(cases[id], new)) /\ Range(Append(cases[id], new)) = Range(cases[id]) \cup {new}
    BY <1>2, AppendListed, AppendRange
  <2>5. CaseRow(id, new)'
    BY <1>4, <2>1, <2>2, RowAppended
  <2>6. ASSUME NEW c \in Cases
        PROVE  Listed(cases'[c]) /\ \A row \in Range(cases'[c]) : CaseRow(c, row)'
    <3>1. CASE c = id
      BY <1>2, <2>3, <2>4, <2>5, <3>1
    <3>2. CASE c # id
      BY <1>2, <2>3, <3>2
    <3> QED
      BY <3>1, <3>2
  <2> QED
    BY <1>2, <1>4, <2>3, <2>6 DEF TablesInv
<1>5. ASSUME NEW r, InvestigationAppended(e, r), UNCHANGED cases,
             investigations' = [investigations EXCEPT ![r.investigation_id] =
                                  Append(investigations[r.investigation_id], Row(r, e))]
      PROVE  TablesInv'
  <2>1. PICK id \in Investigations : id = r.investigation_id
    BY <1>5 DEF InvestigationAppended
  <2>2. PICK new : new = Row(r, e)
    OBVIOUS
  <2>3. /\ DOMAIN investigations' = Investigations
        /\ \A i \in Investigations :
             investigations'[i] = IF i = id THEN Append(investigations[id], new) ELSE investigations[i]
    BY <1>2, <1>5, <2>1, <2>2
  <2>4. /\ Listed(Append(investigations[id], new))
        /\ Range(Append(investigations[id], new)) = Range(investigations[id]) \cup {new}
    BY <1>2, AppendListed, AppendRange
  <2>5. InvestigationRow(id, new)'
    BY <1>5, <2>1, <2>2, RowAppended
  <2>6. ASSUME NEW i \in Investigations
        PROVE  /\ Listed(investigations'[i])
               /\ \A row \in Range(investigations'[i]) : InvestigationRow(i, row)'
    <3>1. CASE i = id
      BY <1>2, <2>3, <2>4, <2>5, <3>1
    <3>2. CASE i # id
      BY <1>2, <2>3, <3>2
    <3> QED
      BY <3>1, <3>2
  <2> QED
    BY <1>2, <1>5, <2>3, <2>6 DEF TablesInv
<1> QED
  BY <1>3, <1>4, <1>5, TablesGrow

\* The ledger grew by an event that none of its decisions or exports made.
LEMMA DecisionsKept ==
  ASSUME ChainInv, DecisionsUsedOnce, NEW e, AppendEvent(e, head, FALSE)
  PROVE  DecisionsUsedOnce'
<1>1. ChainInv' /\ Grown(e) /\ UNCHANGED exports
  BY ChainKept, AppendGrows DEF AppendEvent
<1>2. /\ \A x, y \in exports : x.authorization.decision_id = y.authorization.decision_id => x = y
      /\ \A i \in DOMAIN events : \A x \in exports :
           x.authorization.decision_id # events[i].authorization.decision_id
      /\ \A x \in exports : x.authorization.decision_id # e.authorization.decision_id
  BY DEF DecisionsUsedOnce, AppendEvent, DecisionUsed
<1>3. \A i, j \in DOMAIN events' : i # j =>
        events'[i].authorization.decision_id # events'[j].authorization.decision_id
  BY <1>1 DEF ChainInv, IdsDiffer
<1>4. ASSUME NEW i \in DOMAIN events', NEW x \in exports
      PROVE  x.authorization.decision_id # events'[i].authorization.decision_id
  <2>1. i \in DOMAIN events \/ i = Len(events) + 1
    BY <1>1 DEF Grown
  <2> QED
    BY <1>1, <1>2, <2>1 DEF Grown
<1> QED
  BY <1>1, <1>2, <1>3, <1>4 DEF DecisionsUsedOnce

\* An export spends a decision that nothing used.
LEMMA ExportKeepsDecisions ==
  ASSUME DecisionsUsedOnce, NEW d, NEW id, NEW at, CreateExport(d, id, at)
  PROVE  DecisionsUsedOnce'
<1>1. UNCHANGED ledgerVars /\ ~DecisionUsed(d.decision_id)
  BY DEF CreateExport
<1>2. PICK x : exports' = exports \cup {x} /\ x.authorization = d
  BY DEF CreateExport, CreateAuditExport
<1> QED
  BY <1>1, <1>2 DEF DecisionsUsedOnce, DecisionUsed, ledgerVars

\* A row is of an event of the ledger.
LEMMA RowsBehind ==
  ASSUME TablesInv, NEW row \in RowsIn(cases) \cup RowsIn(investigations)
  PROVE  row.sequence \in DOMAIN events
<1>1. CASE row \in RowsIn(cases)
  BY <1>1 DEF RowsIn, TablesInv, CaseRow, VerifiedCaseItem
<1>2. CASE row \in RowsIn(investigations)
  BY <1>2 DEF RowsIn, TablesInv, InvestigationRow, VerifiedInvestigationItem
<1> QED
  BY <1>1, <1>2

\* Growing one entry of a table adds one row to it.
LEMMA OneRowMore ==
  ASSUME NEW table, NEW more, NEW id \in DOMAIN table, NEW row,
         \A k \in DOMAIN table : Listed(table[k]),
         more = [table EXCEPT ![id] = Append(table[id], row)]
  PROVE  RowsIn(more) = RowsIn(table) \cup {row}
<1>1. /\ DOMAIN more = DOMAIN table /\ Range(more[id]) = Range(table[id]) \cup {row}
      /\ \A k \in DOMAIN table : k # id => more[k] = table[k]
  BY AppendRange
<1>2. \A k \in DOMAIN table : Range(table[k]) \subseteq Range(more[k])
  BY <1>1
<1>3. RowsIn(table) \cup {row} \subseteq RowsIn(more)
  BY <1>1, <1>2 DEF RowsIn
<1>4. \A k \in DOMAIN table : Range(more[k]) \subseteq Range(table[k]) \cup {row}
  BY <1>1
<1>5. RowsIn(more) \subseteq RowsIn(table) \cup {row}
  BY <1>1, <1>4 DEF RowsIn
<1> QED
  BY <1>3, <1>5

\* An append adds a row exactly if it is of an authorized mutation.
LEMMA RowOfMutation ==
  ASSUME TablesInv, NEW e, Appended(e)
  PROVE  \E news : /\ RowsIn(cases') \cup RowsIn(investigations')
                        = (RowsIn(cases) \cup RowsIn(investigations)) \cup news
                   /\ \A row \in news : row.sequence = e.sequence
                   /\ FromMutation(e) <=> news # {}
<1>1. /\ DOMAIN cases = Cases /\ DOMAIN investigations = Investigations
      /\ \A c \in Cases : Listed(cases[c])
      /\ \A i \in Investigations : Listed(investigations[i])
  BY DEF TablesInv
<1>2. CASE UNCHANGED <<cases, investigations>> /\ PlainAppended(e)
  <2>1. ~FromMutation(e) /\ cases' = cases /\ investigations' = investigations
    BY <1>2 DEF PlainAppended
  <2> WITNESS {}
  <2> QED
    BY <2>1
<1>3. ASSUME NEW r, CaseAppended(e, r), UNCHANGED investigations,
             cases' = [cases EXCEPT ![r.case_id] = Append(cases[r.case_id], Row(r, e))]
      PROVE  \E news : /\ RowsIn(cases') \cup RowsIn(investigations')
                            = (RowsIn(cases) \cup RowsIn(investigations)) \cup news
                       /\ \A row \in news : row.sequence = e.sequence
                       /\ FromMutation(e) <=> news # {}
  <2>1. FromMutation(e) /\ r.case_id \in Cases
    BY <1>3 DEF CaseAppended
  <2>2. Row(r, e).sequence = e.sequence
    BY DEF Row
  <2>3. RowsIn(cases') = RowsIn(cases) \cup {Row(r, e)}
    BY <1>1, <1>3, <2>1, OneRowMore
  <2>4. investigations' = investigations
    BY <1>3
  <2> WITNESS {Row(r, e)}
  <2> QED
    BY <2>1, <2>2, <2>3, <2>4
<1>4. ASSUME NEW r, InvestigationAppended(e, r), UNCHANGED cases,
             investigations' = [investigations EXCEPT ![r.investigation_id] =
                                  Append(investigations[r.investigation_id], Row(r, e))]
      PROVE  \E news : /\ RowsIn(cases') \cup RowsIn(investigations')
                            = (RowsIn(cases) \cup RowsIn(investigations)) \cup news
                       /\ \A row \in news : row.sequence = e.sequence
                       /\ FromMutation(e) <=> news # {}
  <2>1. FromMutation(e) /\ r.investigation_id \in Investigations
    BY <1>4 DEF InvestigationAppended
  <2>2. Row(r, e).sequence = e.sequence
    BY DEF Row
  <2>3. RowsIn(investigations') = RowsIn(investigations) \cup {Row(r, e)}
    BY <1>1, <1>4, <2>1, OneRowMore
  <2>4. cases' = cases
    BY <1>4
  <2> WITNESS {Row(r, e)}
  <2> QED
    BY <2>1, <2>2, <2>3, <2>4
<1> QED
  BY <1>2, <1>3, <1>4, TablesGrow

\* The events with a row stay those of the authorized mutations.
LEMMA StoredKept ==
  ASSUME ChainInv, TablesInv, EventsStored, NEW e, Appended(e)
  PROVE  EventsStored'
<1>1. AppendEvent(e, head, FALSE) /\ Grown(e) /\ e.sequence = Len(events) + 1
  BY TablesGrow, AppendGrows
<1>2. PICK n : n = Len(events)
  OBVIOUS
<1>3. /\ n \in Nat /\ DOMAIN events = 1 .. n /\ DOMAIN events' = 1 .. n + 1
      /\ events'[n + 1] = e /\ \A i \in 1 .. n : events'[i] = events[i]
      /\ e.sequence = n + 1
  BY <1>1, <1>2 DEF Grown
<1>4. PICK old : old = RowsIn(cases) \cup RowsIn(investigations)
  OBVIOUS
<1>5. PICK news : /\ RowsIn(cases') \cup RowsIn(investigations') = old \cup news
                  /\ \A row \in news : row.sequence = n + 1
                  /\ FromMutation(e) <=> news # {}
  <2>1. PICK new : /\ RowsIn(cases') \cup RowsIn(investigations')
                        = (RowsIn(cases) \cup RowsIn(investigations)) \cup new
                   /\ \A row \in new : row.sequence = e.sequence
                   /\ FromMutation(e) <=> new # {}
    BY RowOfMutation, Zenon
  <2>2. RowsIn(cases') \cup RowsIn(investigations') = old \cup new
    BY <1>4, <2>1, Zenon
  <2>3. \A row \in new : row.sequence = n + 1
    BY <1>3, <2>1, Zenon
  <2> QED
    BY <2>1, <2>2, <2>3, Zenon
<1>6. \A row \in old : row.sequence \in 1 .. n
  BY <1>3, <1>4, RowsBehind
<1>7. ASSUME NEW i \in DOMAIN events'
      PROVE  FromMutation(events'[i]) <=> \E row \in old \cup news : row.sequence = i
  <2>1. CASE i \in 1 .. n
    <3>1. events'[i] = events[i] /\ i # n + 1
      BY <1>3, <2>1
    <3>2. FromMutation(events[i]) <=> \E row \in old : row.sequence = i
      BY <1>3, <1>4, <2>1 DEF EventsStored
    <3> QED
      BY <1>5, <3>1, <3>2
  <2>2. CASE i = n + 1
    <3>1. \A row \in old : row.sequence # i
      BY <1>3, <1>6, <2>2
    <3> QED
      BY <1>3, <1>5, <2>2, <3>1
  <2> QED
    BY <1>3, <1>7, <2>1, <2>2
<1> QED
  BY <1>5, <1>7 DEF EventsStored

\* Closing an investigation never makes a cycle of duplicates.
LEMMA LinksKept ==
  ASSUME TablesInv, LinksResolve, NEW e, Appended(e), InvestigationAssumption
  PROVE  LinksResolve'
<1>1. /\ DOMAIN cases = Cases /\ DOMAIN investigations = Investigations
      /\ \A c \in Cases : Listed(cases[c])
      /\ \A i \in Investigations : Listed(investigations[i])
  BY DEF TablesInv
<1>2. CASE UNCHANGED <<cases, investigations>>
  BY <1>2 DEF LinksResolve, Opened, DuplicateOf, LatestRecord
<1>3. ASSUME NEW r, CaseAppended(e, r), UNCHANGED investigations,
             cases' = [cases EXCEPT ![r.case_id] = Append(cases[r.case_id], Row(r, e))]
      PROVE  LinksResolve'
  <2>1. Opened' = Opened /\ \A i \in Opened : DuplicateOf(i)' = DuplicateOf(i)
    BY <1>3 DEF Opened, DuplicateOf, LatestRecord
  <2>2. ASSUME NEW c \in Cases, cases[c] # <<>>
        PROVE  cases'[c] # <<>>
    <3>1. CASE c = r.case_id
      BY <1>1, <1>3, <3>1, AppendRange DEF CaseAppended
    <3>2. CASE c # r.case_id
      BY <1>1, <1>3, <2>2, <3>2 DEF CaseAppended
    <3> QED
      BY <3>1, <3>2
  <2>3. ASSUME NEW i \in Opened
        PROVE  Last(investigations[i]).record.linked_case_id \in Cases \cup {None}
    <3>1. i \in Investigations /\ Last(investigations[i]) \in Range(investigations[i])
      BY <1>1, LastListed DEF Opened
    <3> QED
      BY <3>1 DEF TablesInv, InvestigationRow
  <2> QED
    BY <1>3, <2>1, <2>2, <2>3 DEF LinksResolve
<1>4. ASSUME NEW r, InvestigationAppended(e, r), UNCHANGED cases,
             investigations' = [investigations EXCEPT ![r.investigation_id] =
                                  Append(investigations[r.investigation_id], Row(r, e))]
      PROVE  LinksResolve'
  <2>1. PICK id \in Investigations : id = r.investigation_id
    BY <1>4 DEF InvestigationAppended
  <2>2. /\ DOMAIN investigations' = Investigations
        /\ investigations'[id] = Append(investigations[id], Row(r, e))
        /\ \A i \in Investigations : i # id => investigations'[i] = investigations[i]
    BY <1>1, <1>4, <2>1
  <2>3. investigations'[id] # <<>> /\ Last(investigations'[id]).record = r
    BY <1>1, <2>2, AppendRange DEF Row
  <2>4. Opened' = Opened \cup {id} /\ Opened \subseteq Investigations /\ None \notin Opened'
    BY <1>1, <2>2, <2>3 DEF Opened, InvestigationAssumption
  <2>5. /\ \A i \in Opened : i # id => DuplicateOf(i)' = DuplicateOf(i)
        /\ DuplicateOf(id)' = r.duplicate_of
    BY <2>2, <2>3, <2>4 DEF DuplicateOf, LatestRecord
  <2>6. /\ r.linked_case_id # None => cases[r.linked_case_id] # <<>>
        /\ r.duplicate_of # None =>
             r.duplicate_of \in Opened /\ r.duplicate_of # id /\ DuplicateOf(r.duplicate_of) = None
    BY <1>4, <2>1 DEF InvestigationAppended, AppendInvestigationRecord, LinksFree,
                      InvestigationSuccessor, RecordConsistent, ResolutionConsistent
  <2>7. ASSUME NEW i \in Opened'
        PROVE  LET x == Last(investigations'[i]).record
               IN  /\ x.linked_case_id # None => cases'[x.linked_case_id] # <<>>
                   /\ x.duplicate_of # None => x.duplicate_of \in Opened'
    <3>1. CASE i = id
      BY <1>4, <2>3, <2>4, <2>6, <3>1
    <3>2. CASE i # id
      BY <1>4, <2>2, <2>4, <3>2 DEF LinksResolve
    <3> QED
      BY <3>1, <3>2
  <2>8. ASSUME NEW S \in SUBSET Opened', S # {}
        PROVE  \E i \in S : DuplicateOf(i)' \notin S
    <3>1. CASE id \notin S
      <4>1. PICK i \in S : DuplicateOf(i) \notin S
        BY <2>4, <2>8, <3>1 DEF LinksResolve
      <4> QED
        BY <2>4, <2>5, <3>1, <4>1
    <3>2. CASE id \in S /\ r.duplicate_of \notin S
      BY <2>5, <3>2
    <3>3. CASE id \in S /\ r.duplicate_of \in S
      BY <2>4, <2>5, <2>6, <3>3
    <3> QED
      BY <3>1, <3>2, <3>3
  <2> QED
    BY <2>7, <2>8 DEF LinksResolve
<1> QED
  BY <1>2, <1>3, <1>4, TablesGrow

-----------------------------------------------------------------------------
(* What a worker holds *)

\* A mutation is one of four kinds, and asks for what its parser lets through.
LEMMA MutationKinds ==
  ASSUME MutationAssumption, NEW q \in DOMAIN Intents, IsMutation(q)
  PROVE  /\ Intents[q].kind \in {"open", "attach", "transition", "publish"}
         /\ Intents[q].kind = "publish" => Intents[q].target \in Cases
         /\ Intents[q].kind # "publish" => Intents[q].target \in Investigations
         /\ RecordKind(q) = IF Intents[q].kind = "publish" THEN "case" ELSE "investigation"
BY DEF MutationAssumption, IsMutation, Kinds, RecordKind

\* The record of an investigation has its fields and is the one asked for.
LEMMA DerivedFields ==
  ASSUME MutationAssumption, NEW q \in DOMAIN Intents, NEW item, NEW at,
         Intents[q].kind \in {"open", "attach", "transition"},
         Intents[q].kind # "open" => /\ DOMAIN item[1] = RecordFields
                                     /\ item[1].investigation_id = Intents[q].target
  PROVE  /\ DOMAIN DerivedRecord(q, item, at) = RecordFields
         /\ DerivedRecord(q, item, at).investigation_id = Intents[q].target
<1>1. CASE Intents[q].kind = "open"
  BY <1>1 DEF DerivedRecord, CreateInvestigation, RecordFields, QueueFields
<1>2. CASE Intents[q].kind = "attach"
  BY <1>2 DEF DerivedRecord, AttachObservation, RecordFields
<1>3. CASE Intents[q].kind = "transition"
  <2>1. DOMAIN Intents[q].change = QueueFields
    BY <1>3 DEF MutationAssumption, TransitionWellFormed
  <2>2. "investigation_id" \in RecordFields \ QueueFields
    BY DEF RecordFields, QueueFields
  <2> QED
    BY <1>3, <2>1, <2>2 DEF DerivedRecord, TransitionInvestigation, Updated
<1> QED
  BY <1>1, <1>2, <1>3

\* A record that was not closed as a duplicate names none.
LEMMA NotDuplicate ==
  ASSUME NEW r, RecordConsistent(r), r.status # "closed" \/ r.resolution # "duplicate"
  PROVE  r.duplicate_of = None
BY DEF RecordConsistent, ResolutionConsistent

\* What a mutation allowed on the present tables links to is there, and is the
\* end of its chain of duplicates.
LEMMA DerivedLinks ==
  ASSUME MutationAssumption, TablesInv, NEW q \in DOMAIN Intents, NEW item, NEW at, NEW doc,
         Intents[q].kind \in {"open", "attach", "transition"},
         Intents[q].kind # "open" => DOMAIN item[1] = RecordFields,
         MutationAllowed(q, doc, item, at, cases, investigations)
  PROVE  LinksFree(DerivedRecord(q, item, at))
<1>1. PICK r : r = DerivedRecord(q, item, at)
  OBVIOUS
<1>2. RecordConsistent(r)
  BY <1>1 DEF MutationAllowed, OpenAllowed, AttachAllowed, TransitionAllowed, InvestigationSuccessor
<1>3. CASE Intents[q].kind = "open"
  BY <1>1, <1>3 DEF DerivedRecord, CreateInvestigation, LinksFree
<1>4. CASE Intents[q].kind = "attach"
  <2>1. item[1].status # "closed"
    BY <1>4 DEF MutationAllowed, AttachAllowed, InvestigationSuccessor
  <2>2. r.status = item[1].status
    BY <1>1, <1>4 DEF DerivedRecord, AttachObservation, RecordFields, QueueFields
  <2>3. r.linked_case_id = None /\ r.duplicate_of = None
    BY <1>2, <2>1, <2>2 DEF RecordConsistent, ResolutionConsistent
  <2> QED
    BY <1>1, <2>3 DEF LinksFree
<1>5. CASE Intents[q].kind = "transition"
  <2>1. CanonicalTarget(r, investigations)
    BY <1>1, <1>5 DEF MutationAllowed, TransitionAllowed
  <2>2. /\ r.linked_case_id = Intents[q].change.linked_case_id
        /\ r.duplicate_of = Intents[q].change.duplicate_of
        /\ TransitionWellFormed(Intents[q].change)
    BY <1>1, <1>5 DEF DerivedRecord, TransitionInvestigation, Updated, RecordFields, QueueFields,
                      MutationAssumption, TransitionWellFormed
  <2>3. ASSUME r.duplicate_of # None
        PROVE  r.duplicate_of \in Opened /\ DuplicateOf(r.duplicate_of) = None
    <3>1. PICK i \in Investigations : i = r.duplicate_of
      BY <2>2, <2>3 DEF TransitionWellFormed
    <3>2. investigations[i] # <<>> /\ Last(investigations[i]).record.resolution # "duplicate"
      BY <2>1, <2>3, <3>1 DEF CanonicalTarget
    <3>3. Listed(investigations[i])
      BY DEF TablesInv
    <3>4. Last(investigations[i]) \in Range(investigations[i])
      BY <3>2, <3>3, LastListed
    <3>5. RecordConsistent(Last(investigations[i]).record)
      BY <3>4 DEF TablesInv, InvestigationRow, VerifiedInvestigationItem
    <3>6. Last(investigations[i]).record.duplicate_of = None
      BY <3>2, <3>5, NotDuplicate
    <3> QED
      BY <3>1, <3>2, <3>6 DEF Opened, DuplicateOf, LatestRecord
  <2> QED
    BY <1>1, <2>2, <2>3 DEF LinksFree, TransitionWellFormed
<1> QED
  BY <1>3, <1>4, <1>5

\* What others do leaves a worker what it holds.
LEMMA ServedStands ==
  ASSUME ChainInv, TablesInv, NEW c, Served(c),
         policies \subseteq policies', agenda' = agenda, unsent' \subseteq unsent,
         \/ LedgerStands
         \/ \E e : Appended(e) /\ e.event_id[2] # c.request
  PROVE  Served(c)'
<1>1. CASE LedgerStands
  <2>1. RequestHeld(c)'
    BY <1>1 DEF Served, RequestHeld, LedgerStands, ledgerVars
  <2>2. SnapshotHeld(c)'
    BY <1>1 DEF Served, SnapshotHeld, ItemHeld, Item, Table, LatestRecord, LedgerStands, ledgerVars
  <2>3. EventPrepared(c)'
    BY <1>1 DEF Served, EventPrepared, EventMade, StillAllowed, LedgerStands, ledgerVars
  <2> QED
    BY <2>1, <2>2, <2>3 DEF Served
<1>2. ASSUME NEW e, Appended(e), e.event_id[2] # c.request
      PROVE  Served(c)'
  <2>1. AppendEvent(e, head, FALSE) /\ Grown(e) /\ Len(head) = Len(events)
    BY <1>2, TablesGrow, AppendGrows
  <2>2. RequestHeld(c)'
    <3>1. ASSUME c.phase # "idle"
          PROVE  /\ Listed(c.base) /\ Len(c.base) <= Len(head')
                 /\ \A i \in DOMAIN events' : events'[i].event_id[2] = c.request => Len(c.base) < i
      <4>1. Listed(c.base) /\ Len(c.base) <= Len(head)
        BY <3>1 DEF Served, RequestHeld
      <4>2. ASSUME NEW i \in DOMAIN events', events'[i].event_id[2] = c.request
            PROVE  Len(c.base) < i
        <5>1. i \in DOMAIN events /\ events'[i] = events[i]
          BY <1>2, <2>1, <4>2 DEF Grown
        <5> QED
          BY <3>1, <4>2, <5>1 DEF Served, RequestHeld
      <4>3. Len(c.base) \in Nat /\ Len(head) \in Nat
        BY <2>1, <4>1, ListedLength DEF Grown
      <4> QED
        BY <2>1, <4>1, <4>2, <4>3 DEF Grown
    <3> QED
      BY <3>1 DEF Served, RequestHeld
  <2>3. c.phase # "idle" => head' # c.base
    BY <2>1, ListedLength DEF Served, RequestHeld, Grown
  <2>4. SnapshotHeld(c)'
    BY <2>3 DEF Served, SnapshotHeld, ItemHeld
  <2>5. EventPrepared(c)'
    BY <2>3 DEF Served, EventPrepared, EventMade, StillAllowed
  <2> QED
    BY <2>2, <2>4, <2>5 DEF Served
<1> QED
  BY <1>1, <1>2

-----------------------------------------------------------------------------
(* The steps of a worker *)

\* One worker's row changes, field by field.
LEMMA RowAdvances ==
  ASSUME WorkInv, NEW w \in Workers, NEW changes, Advance(w, changes)
  PROVE  /\ DOMAIN work' = Workers /\ DOMAIN work'[w] = DOMAIN Idle
         /\ \A v \in Workers : v # w => work'[v] = work[v]
         /\ \A f \in DOMAIN Idle :
              work'[w][f] = IF f \in DOMAIN changes THEN changes[f] ELSE work[w][f]
<1>1. DOMAIN work[w] = DOMAIN Idle /\ DOMAIN work = Workers
  BY DEF WorkInv, Served
<1>2. /\ DOMAIN work' = Workers /\ work'[w] = Updated(work[w], changes)
      /\ \A v \in Workers : v # w => work'[v] = work[v]
  BY <1>1 DEF Advance
<1> QED
  BY <1>1, <1>2 DEF Updated

\* A worker that serves its new row, alone with its request, serves as before.
LEMMA WorkKept ==
  ASSUME ChainInv, TablesInv, WorkInv, NEW w \in Workers, NEW d,
         DOMAIN work' = Workers, work'[w] = d, \A v \in Workers : v # w => work'[v] = work[v],
         Served(d)', \A v \in Workers : v # w => d.request = None \/ d.request # work[v].request,
         policies \subseteq policies', agenda' = agenda, unsent' \subseteq unsent,
         \/ LedgerStands
         \/ \E e : Appended(e) /\ \A v \in Workers : v # w => e.event_id[2] # work[v].request
  PROVE  WorkInv'
<1>1. ASSUME NEW v \in Workers
      PROVE  Served(work[v])'
  <2>1. CASE v = w
    BY <2>1
  <2>2. CASE v # w
    <3>1. PICK c : c = work[v]
      OBVIOUS
    <3>2. Served(c)
      BY <3>1 DEF WorkInv
    <3>3. Served(c)'
      BY <2>2, <3>1, <3>2, ServedStands
    <3> QED
      BY <2>2, <3>1, <3>3
  <2> QED
    BY <2>1, <2>2
<1>2. OwnRequests'
  BY DEF WorkInv, OwnRequests
<1> QED
  BY <1>1, <1>2 DEF WorkInv

\* An idle worker holds nothing.
LEMMA IdleServed ==
  ASSUME TRUE
  PROVE  Served(Idle)' /\ Idle.request = None
<1>1. PICK d : d = Idle
  OBVIOUS
<1>2. DOMAIN d = DOMAIN Idle /\ d.phase = "idle" /\ d.request = None /\ d.tries = 0
  BY <1>1 DEF Idle
<1>3. Served(d)'
  BY <1>2 DEF Served, RequestPhases, RequestHeld, SnapshotHeld, EventPrepared
<1> QED
  BY <1>1, <1>2, <1>3 DEF Idle

\* A request that is answered, given up or sent again with the head it had.
LEMMA ReplyKeeps ==
  ASSUME ApplicationAssumption, ClockInv, ChainInv, TablesInv, WorkInv,
         NEW w \in Workers, ~InPhase(w, "idle"),
         \/ work' = [work EXCEPT ![w] = Idle]
         \/ /\ work[w].tries < agenda.tries
            /\ Advance(w, [Idle EXCEPT !.phase = "received", !.request = work[w].request,
                                       !.tries = work[w].tries + 1,
                                       !.base = work[w].base, !.revision = work[w].revision]),
         policies \subseteq policies', agenda' = agenda, unsent' \subseteq unsent,
         \/ LedgerStands
         \/ head = work[w].base /\ \E e : Appended(e) /\ e.event_id[2] = work[w].request
  PROVE  WorkInv'
<1>1. PICK c : c = work[w]
  OBVIOUS
<1>2. Served(c) /\ DOMAIN work = Workers /\ OwnRequests
  BY <1>1 DEF WorkInv
<1>3. /\ c.phase # "idle" /\ c.request # None /\ c.request \in DOMAIN Intents \ unsent
      /\ c.tries \in 1 .. agenda.tries /\ Listed(c.base) /\ Len(c.base) <= Len(head)
      /\ policies # {}
      /\ \A i \in DOMAIN events : events[i].event_id[2] = c.request => Len(c.base) < i
  BY <1>1, <1>2 DEF Served, RequestHeld, InPhase
<1>4. agenda.tries \in Nat \ {0}
  BY DEF ClockInv, ApplicationAssumption
<1>5. \A v \in Workers : v # w => c.request # work[v].request
  BY <1>1, <1>2, <1>3 DEF OwnRequests
<1>6. \/ LedgerStands
      \/ \E e : Appended(e) /\ \A v \in Workers : v # w => e.event_id[2] # work[v].request
  BY <1>1, <1>5
<1>7. /\ Len(c.base) <= Len(head')
      /\ \A i \in DOMAIN events' : events'[i].event_id[2] = c.request => Len(c.base) < i
  <2>1. CASE LedgerStands
    BY <1>3, <2>1 DEF LedgerStands, ledgerVars
  <2>2. ASSUME NEW e, Appended(e), head = c.base
        PROVE  <1>7!1 /\ <1>7!2
    <3>1. /\ Grown(e) /\ Len(head) = Len(events) /\ Len(events) \in Nat
      BY <2>2, TablesGrow, AppendGrows
    <3>2. ASSUME NEW i \in DOMAIN events', events'[i].event_id[2] = c.request
          PROVE  Len(c.base) < i
      <4>1. (i \in DOMAIN events /\ events'[i] = events[i]) \/ i = Len(events) + 1
        BY <3>1 DEF Grown
      <4> QED
        BY <1>3, <2>2, <3>1, <3>2, <4>1
    <3> QED
      BY <2>2, <3>1, <3>2 DEF Grown
  <2> QED
    BY <1>1, <2>1, <2>2
<1>8. CASE work' = [work EXCEPT ![w] = Idle]
  <2>1. DOMAIN work' = Workers /\ work'[w] = Idle /\ \A v \in Workers : v # w => work'[v] = work[v]
    BY <1>2, <1>8
  <2> QED
    BY <1>6, <2>1, WorkKept, IdleServed
<1>9. CASE /\ work[w].tries < agenda.tries
           /\ Advance(w, [Idle EXCEPT !.phase = "received", !.request = work[w].request,
                                      !.tries = work[w].tries + 1,
                                      !.base = work[w].base, !.revision = work[w].revision])
  <2>1. PICK ch : /\ Advance(w, ch) /\ DOMAIN ch = DOMAIN Idle
                  /\ ch.phase = "received" /\ ch.request = c.request /\ ch.tries = c.tries + 1
                  /\ ch.base = c.base
    <3>1. PICK ch : ch = [Idle EXCEPT !.phase = "received", !.request = work[w].request,
                                      !.tries = work[w].tries + 1,
                                      !.base = work[w].base, !.revision = work[w].revision]
      OBVIOUS
    <3>2. /\ DOMAIN ch = DOMAIN Idle
          /\ ch.phase = "received" /\ ch.request = c.request /\ ch.tries = c.tries + 1
          /\ ch.base = c.base
      BY <1>1, <3>1 DEF Idle
    <3>3. Advance(w, ch)
      BY <1>9, <3>1
    <3> QED
      BY <3>2, <3>3
  <2>2. PICK d : d = work'[w]
    OBVIOUS
  <2>3. /\ DOMAIN work' = Workers /\ DOMAIN d = DOMAIN Idle
        /\ \A v \in Workers : v # w => work'[v] = work[v]
        /\ \A f \in DOMAIN Idle : d[f] = ch[f]
    BY <2>1, <2>2, RowAdvances
  <2>4. /\ d.phase = "received" /\ d.request = c.request /\ d.tries = c.tries + 1
        /\ d.base = c.base
    BY <2>1, <2>3 DEF Idle
  <2>5. RequestHeld(d)'
    BY <1>1, <1>3, <1>4, <1>7, <1>9, <2>4 DEF RequestHeld
  <2>6. Served(d)'
    BY <2>3, <2>4, <2>5 DEF Served, SnapshotHeld, EventPrepared, RequestPhases
  <2> QED
    BY <1>5, <1>6, <2>2, <2>3, <2>4, <2>6, WorkKept
<1> QED
  BY <1>8, <1>9

\* A client's request is new, and based on the present head.
LEMMA SendKeeps ==
  ASSUME ApplicationAssumption, ClockInv, ChainInv, PolicyInv, TablesInv, IdsInv, WorkInv,
         NEW w \in Workers, NEW q \in unsent, Send(w, q)
  PROVE  WorkInv'
<1>1. PICK rev : Advance(w, [phase |-> "received", request |-> q, tries |-> 1,
                             base |-> head, revision |-> rev])
  BY DEF Send
<1>2. PICK ch : /\ Advance(w, ch) /\ DOMAIN ch = {"phase", "request", "tries", "base", "revision"}
                /\ ch.phase = "received" /\ ch.request = q /\ ch.tries = 1 /\ ch.base = head
  <2>1. PICK ch : ch = [phase |-> "received", request |-> q, tries |-> 1,
                        base |-> head, revision |-> rev]
    OBVIOUS
  <2> QED
    BY <1>1, <2>1
<1>3. PICK d : d = work'[w]
  OBVIOUS
<1>4. /\ DOMAIN work' = Workers /\ DOMAIN d = DOMAIN Idle
      /\ \A v \in Workers : v # w => work'[v] = work[v]
      /\ d.phase = "received" /\ d.request = q /\ d.tries = 1 /\ d.base = head
  BY <1>2, <1>3, RowAdvances DEF Idle
<1>5. /\ q \in DOMAIN Intents /\ q # None /\ agenda.tries \in Nat \ {0} /\ policies # {}
      /\ Listed(head) /\ Len(head) \in Nat
      /\ \A i \in DOMAIN events : events[i].event_id[2] # q
  BY ListedLength DEF ClockInv, ApplicationAssumption, IdsInv, PolicyInv, ChainInv, Send
<1>6. LedgerStands /\ policies' = policies /\ agenda' = agenda /\ unsent' = unsent \ {q}
  BY DEF Send, storeVars, policyVars, LedgerStands
<1>7. RequestHeld(d)'
  BY <1>4, <1>5, <1>6 DEF RequestHeld, LedgerStands, ledgerVars
<1>8. Served(d)'
  BY <1>4, <1>7 DEF Served, SnapshotHeld, EventPrepared, RequestPhases
<1>9. \A v \in Workers : v # w => d.request # work[v].request
  BY <1>4, <1>5 DEF WorkInv, Served, RequestHeld
<1> QED
  BY <1>3, <1>4, <1>6, <1>8, <1>9, WorkKept

\* The snapshot reads the policy, the head and the item together.
LEMMA ReadKeeps ==
  ASSUME MutationAssumption, ChainInv, PolicyInv, TablesInv, WorkInv, NEW w \in Workers, ReadSnapshot(w)
  PROVE  WorkInv'
<1>1. PICK c : c = work[w]
  OBVIOUS
<1>2. Served(c) /\ c.phase = "received" /\ OwnRequests
  BY <1>1 DEF WorkInv, ReadSnapshot, InPhase
<1>3. PICK ch : /\ Advance(w, ch) /\ DOMAIN ch = {"phase", "policy", "head", "item"}
                /\ ch.phase = "read" /\ ch.policy = active /\ ch.head = head
                /\ ch.item = Item(c.request)
  <2>1. PICK ch : ch = [phase |-> "read", policy |-> active, head |-> head, item |-> Item(c.request)]
    OBVIOUS
  <2> QED
    BY <1>1, <2>1 DEF ReadSnapshot
<1>4. PICK d : d = work'[w]
  OBVIOUS
<1>5. /\ DOMAIN work' = Workers /\ DOMAIN d = DOMAIN Idle
      /\ \A v \in Workers : v # w => work'[v] = work[v]
      /\ d.phase = "read" /\ d.policy = active /\ d.head = head /\ d.item = Item(c.request)
      /\ d.request = c.request /\ d.tries = c.tries /\ d.base = c.base
  BY <1>1, <1>3, <1>4, RowAdvances DEF Idle
<1>6. LedgerStands /\ policies' = policies /\ agenda' = agenda /\ unsent' = unsent
  BY DEF ReadSnapshot, storeVars, policyVars, LedgerStands
<1>7. c.request # None /\ c.request \in DOMAIN Intents /\ policies # {} /\ active \in policies
  BY <1>2 DEF Served, RequestHeld, PolicyInv
<1>8. RequestHeld(d)'
  BY <1>2, <1>5, <1>6 DEF Served, RequestHeld, LedgerStands, ledgerVars
<1>9. ASSUME IsMutation(c.request)
      PROVE  ItemHeld(d)'
  <2>1. head = c.base
    BY <1>1, <1>9 DEF ReadSnapshot, ExpectedHead
  <2>2. Item(c.request)' = Item(c.request)
    BY <1>6 DEF Item, Table, LatestRecord, LedgerStands, ledgerVars
  <2>3. ASSUME RecordKind(c.request) = "investigation", Item(c.request) # <<>>
        PROVE  /\ DOMAIN Item(c.request)[1] = RecordFields
               /\ Item(c.request)[1].investigation_id = Intents[c.request].target
    <3>1. PICK id \in Investigations : id = Intents[c.request].target
      BY <1>7, <1>9, <2>3, MutationKinds
    <3>2. Intents[c.request].kind # "publish" /\ Item(c.request) = LatestRecord(investigations[id])
      BY <1>9, <2>3, <3>1 DEF Item, IsMutation, Table, RecordKind
    <3>3. investigations[id] # <<>> /\ Item(c.request)[1] = Last(investigations[id]).record
      BY <2>3, <3>2 DEF LatestRecord
    <3>4. Last(investigations[id]) \in Range(investigations[id])
      BY <3>3, LastListed DEF TablesInv
    <3>5. InvestigationRow(id, Last(investigations[id]))
      BY <3>4 DEF TablesInv
    <3> QED
      BY <3>1, <3>3, <3>5 DEF InvestigationRow
  <2> QED
    BY <1>5, <1>6, <2>1, <2>2, <2>3 DEF ItemHeld, LedgerStands, ledgerVars
<1>10. Served(d)'
  BY <1>5, <1>6, <1>7, <1>8, <1>9 DEF Served, SnapshotHeld, EventPrepared, RequestPhases
<1>11. \A v \in Workers : v # w => d.request # work[v].request
  BY <1>1, <1>2, <1>5, <1>7 DEF OwnRequests
<1> QED
  BY <1>4, <1>5, <1>6, <1>10, <1>11, WorkKept

\* The event that is prepared, and what it derives, fit what was read.
LEMMA PrepareKeeps ==
  ASSUME MutationAssumption, ClockInv, ChainInv, PolicyInv, TablesInv, WorkInv, NEW w \in Workers,
         NEW before, NEW ch, Advance(w, ch), InPhase(w, "read"),
         Intents[work[w].request].kind # "export",
         DOMAIN ch \in {{"phase", "event"}, {"phase", "event", "head"}},
         ch.phase = "ready", ch.event = <<PreparedEvent(w, before)>>,
         IsMutation(work[w].request) =>
           /\ DOMAIN ch = {"phase", "event"}
           /\ Authorize(work[w].request, work[w].policy, DecisionId(w), now).authorized =>
                MutationAllowed(work[w].request, work[w].policy, work[w].item, now,
                                cases, investigations),
         LedgerStands, UNCHANGED <<policies, agenda, unsent>>
  PROVE  WorkInv'
<1>1. PICK c : c = work[w]
  OBVIOUS
<1>2. Served(c) /\ c.phase = "read" /\ OwnRequests
  BY <1>1 DEF WorkInv, InPhase
<1>3. PICK d : d = work'[w]
  OBVIOUS
<1>4. /\ DOMAIN work' = Workers /\ DOMAIN d = DOMAIN Idle
      /\ \A v \in Workers : v # w => work'[v] = work[v]
      /\ d.phase = "ready" /\ d.event = <<PreparedEvent(w, before)>>
      /\ d.request = c.request /\ d.tries = c.tries /\ d.base = c.base
      /\ d.policy = c.policy /\ d.item = c.item
      /\ IsMutation(c.request) => d.head = c.head
  BY <1>1, <1>3, RowAdvances DEF Idle
<1>5. c.request # None /\ c.request \in DOMAIN Intents /\ c.policy \in policies
  BY <1>2 DEF Served, RequestHeld, SnapshotHeld
<1>6. RequestHeld(d)'
  BY <1>2, <1>4 DEF Served, RequestHeld, LedgerStands, ledgerVars
<1>7. IsMutation(c.request) => ItemHeld(c) /\ ItemHeld(d)'
  BY <1>2, <1>4 DEF Served, SnapshotHeld, ItemHeld, Item, Table, LatestRecord, LedgerStands, ledgerVars
<1>8. PICK e : e = PreparedEvent(w, before)
  OBVIOUS
<1>9. d.event[1] = e
  BY <1>4, <1>8
<1>10. /\ e.event_id = <<"event", c.request, c.tries>> /\ e.occurred_at = now
       /\ e.authorization = Authorize(c.request, c.policy, <<"decision", c.request, c.tries>>, now)
       /\ e.retain_until = now + Policy[c.policy].minimum_days
       /\ e.payload = IF e.authorization.authorized /\ IsMutation(c.request)
                      THEN Carried(RecordKind(c.request), DerivedRecord(c.request, c.item, now))
                      ELSE OwnPayload(c.request)
  BY <1>1, <1>8 DEF PreparedEvent, CreateAuditEvent, DecisionId, EventId
<1>11. EventMade(d, e)'
  BY <1>1, <1>4, <1>10 DEF EventMade, Derives, ClockInv
<1>12. ASSUME Derives(d, e)
       PROVE  /\ RecordKind(c.request) = "investigation" =>
                   /\ DOMAIN DerivedRecord(c.request, c.item, e.occurred_at) = RecordFields
                   /\ DerivedRecord(c.request, c.item, e.occurred_at).investigation_id
                        = Intents[c.request].target
              /\ MutationAllowed(c.request, c.policy, c.item, e.occurred_at, cases, investigations)
  <2>1. IsMutation(c.request) /\ e.authorization.authorized
    BY <1>4, <1>12 DEF Derives
  <2>2. MutationAllowed(c.request, c.policy, c.item, e.occurred_at, cases, investigations)
    BY <1>1, <1>10, <2>1 DEF DecisionId
  <2>3. ASSUME RecordKind(c.request) = "investigation"
        PROVE  Intents[c.request].kind \in {"open", "attach", "transition"}
    BY <1>5, <2>1, <2>3, MutationKinds
  <2>4. Intents[c.request].kind \in {"attach", "transition"} => c.item # <<>>
    BY <2>2 DEF MutationAllowed, AttachAllowed, TransitionAllowed
  <2>5. ASSUME RecordKind(c.request) = "investigation", Intents[c.request].kind # "open"
        PROVE  /\ DOMAIN c.item[1] = RecordFields
               /\ c.item[1].investigation_id = Intents[c.request].target
    BY <1>7, <2>1, <2>3, <2>4, <2>5 DEF ItemHeld
  <2> QED
    BY <1>5, <2>2, <2>3, <2>5, DerivedFields
<1>13. StillAllowed(d, e)'
  BY <1>4, <1>12 DEF StillAllowed, Derives, LedgerStands, ledgerVars
<1>14. Served(d)'
  BY <1>4, <1>5, <1>6, <1>7, <1>9, <1>11, <1>13 DEF Served, SnapshotHeld, EventPrepared, RequestPhases
<1>15. \A v \in Workers : v # w => d.request # work[v].request
  BY <1>1, <1>2, <1>4, <1>5 DEF OwnRequests
<1> QED
  BY <1>3, <1>4, <1>14, <1>15, WorkKept

PrepareSteps(w) ==
    PreparePublish(w) \/ PrepareOpen(w) \/ PrepareAttach(w) \/ PrepareTransition(w) \/ PrepareAction(w)

\* What each way to prepare an event checked is what its mutation must satisfy.
LEMMA PrepareFacts ==
  ASSUME NEW w, PrepareSteps(w), work[w].request \in DOMAIN Intents
  PROVE  /\ InPhase(w, "read") /\ Intents[work[w].request].kind # "export"
         /\ UNCHANGED <<storeVars, agenda, unsent, draft, walk, now>>
         /\ \/ /\ IsMutation(work[w].request)
               /\ \E before : Advance(w, [phase |-> "ready", event |-> <<PreparedEvent(w, before)>>])
               /\ Authorize(work[w].request, work[w].policy, DecisionId(w), now).authorized =>
                    MutationAllowed(work[w].request, work[w].policy, work[w].item, now,
                                    cases, investigations)
            \/ /\ ~IsMutation(work[w].request)
               /\ \E before : Advance(w, [phase |-> "ready", head |-> head,
                                          event |-> <<PreparedEvent(w, before)>>])
<1>1. CASE PreparePublish(w)
  BY <1>1 DEF PreparePublish, PrepareMutation, IsKind, MutationAllowed, IsMutation
<1>2. CASE PrepareOpen(w)
  BY <1>2 DEF PrepareOpen, PrepareMutation, IsKind, MutationAllowed, IsMutation
<1>3. CASE PrepareAttach(w)
  BY <1>3 DEF PrepareAttach, PrepareMutation, IsKind, MutationAllowed, IsMutation
<1>4. CASE PrepareTransition(w)
  BY <1>4 DEF PrepareTransition, PrepareMutation, IsKind, MutationAllowed, IsMutation
<1>5. CASE PrepareAction(w)
  BY <1>5 DEF PrepareAction, IsMutation
<1> QED
  BY <1>1, <1>2, <1>3, <1>4, <1>5 DEF PrepareSteps

\* Each of the preparations.
LEMMA PrepareStepsKeep ==
  ASSUME MutationAssumption, ClockInv, ChainInv, PolicyInv, TablesInv, WorkInv, NEW w \in Workers,
         PrepareSteps(w)
  PROVE  WorkInv'
<1>1. work[w].request \in DOMAIN Intents
  <2>1. InPhase(w, "read")
    BY DEF PrepareSteps, PreparePublish, PrepareOpen, PrepareAttach, PrepareTransition,
           PrepareAction, PrepareMutation
  <2> QED
    BY <2>1 DEF WorkInv, Served, RequestHeld, InPhase
<1>2. LedgerStands /\ UNCHANGED <<policies, agenda, unsent>>
  BY <1>1, PrepareFacts DEF storeVars, policyVars, LedgerStands
<1>3. CASE /\ IsMutation(work[w].request)
           /\ \E before : Advance(w, [phase |-> "ready", event |-> <<PreparedEvent(w, before)>>])
  <2>1. PICK before : Advance(w, [phase |-> "ready", event |-> <<PreparedEvent(w, before)>>])
    BY <1>3
  <2>2. PICK ch : ch = [phase |-> "ready", event |-> <<PreparedEvent(w, before)>>]
    OBVIOUS
  <2>3. DOMAIN ch = {"phase", "event"} /\ ch.phase = "ready" /\ ch.event = <<PreparedEvent(w, before)>>
    BY <2>2
  <2>4. Advance(w, ch)
    BY <2>1, <2>2
  <2> QED
    BY <1>1, <1>2, <1>3, <2>3, <2>4, PrepareFacts, PrepareKeeps
<1>4. CASE /\ ~IsMutation(work[w].request)
           /\ \E before : Advance(w, [phase |-> "ready", head |-> head,
                                      event |-> <<PreparedEvent(w, before)>>])
  <2>1. PICK before : Advance(w, [phase |-> "ready", head |-> head,
                                  event |-> <<PreparedEvent(w, before)>>])
    BY <1>4
  <2>2. PICK ch : ch = [phase |-> "ready", head |-> head, event |-> <<PreparedEvent(w, before)>>]
    OBVIOUS
  <2>3. /\ DOMAIN ch = {"phase", "event", "head"} /\ ch.phase = "ready"
        /\ ch.event = <<PreparedEvent(w, before)>>
    BY <2>2
  <2>4. Advance(w, ch)
    BY <2>1, <2>2
  <2> QED
    BY <1>1, <1>2, <1>4, <2>3, <2>4, PrepareFacts, PrepareKeeps
<1> QED
  BY <1>1, <1>3, <1>4, PrepareFacts

\* A commit appends what the worker prepared, to the head it started from, under
\* the policy it read, which is the active one.
LEMMA CommitAppends ==
  ASSUME MutationAssumption, TablesInv, WorkInv, NEW w \in Workers, Commit(w),
         NEW c, c = work[w], NEW e, e = c.event[1]
  PROVE  /\ c.phase = "ready" /\ c.request \in DOMAIN Intents /\ Served(c)
         /\ head = c.base /\ c.policy = active /\ active # None
         /\ Appended(e) /\ e.event_id[2] = c.request
         /\ Replied(w) /\ UNCHANGED <<agenda, unsent, draft, walk, now>>
         /\ \/ /\ Derives(c, e) /\ RecordKind(c.request) = "case"
               /\ CaseAppended(e, DerivedRecord(c.request, c.item, e.occurred_at))
            \/ /\ Derives(c, e) /\ RecordKind(c.request) = "investigation"
               /\ InvestigationAppended(e, DerivedRecord(c.request, c.item, e.occurred_at))
            \/ ~Derives(c, e) /\ PlainAppended(e)
<1>1. /\ c.phase = "ready" /\ Served(c) /\ Replied(w)
      /\ UNCHANGED <<agenda, unsent, draft, walk, now>>
  BY DEF WorkInv, Commit, InPhase
<1>2. c.request \in DOMAIN Intents /\ EventMade(c, e) /\ StillAllowed(c, e)
  BY <1>1 DEF Served, RequestHeld, EventPrepared
<1>3. e.authorization.policy = c.policy /\ e.event_id = <<"event", c.request, c.tries>>
  BY <1>2 DEF EventMade, Authorize, CreateAuthorization
<1>9. e.event_id[2] = c.request /\ (FromMutation(e) <=> Derives(c, e))
  BY <1>2, <1>3 DEF FromMutation, Derives
<1>4. ASSUME Derives(c, e), RecordKind(c.request) = "case"
      PROVE  /\ AppendEvent(e, c.base, TRUE)
             /\ CaseAppended(e, DerivedRecord(c.request, c.item, e.occurred_at))
  <2>1. PICK r : r = DerivedRecord(c.request, c.item, e.occurred_at)
    OBVIOUS
  <2>2. e.payload.record = r /\ StoresRecord(w) /\ RecordKind(work[w].request) = "case"
    BY <1>2, <1>4, <2>1 DEF EventMade, Carried, StoresRecord, Derives
  <2>3. AppendCaseRecord(e, r, c.base)
    BY <2>2 DEF Commit, ExpectedHead
  <2>4. head = c.base
    BY <2>3 DEF AppendCaseRecord, AppendEvent
  <2>5. Intents[c.request].kind = "publish" /\ Intents[c.request].target \in Cases
    BY <1>2, <1>4, MutationKinds DEF Derives
  <2>6. r.case_id \in Cases
    BY <2>1, <2>5 DEF DerivedRecord, CreateCaseRecord
  <2> QED
    BY <1>4, <1>9, <2>1, <2>3, <2>4, <2>6 DEF CaseAppended, AppendCaseRecord
<1>5. ASSUME Derives(c, e), RecordKind(c.request) # "case"
      PROVE  /\ AppendEvent(e, c.base, TRUE) /\ RecordKind(c.request) = "investigation"
             /\ InvestigationAppended(e, DerivedRecord(c.request, c.item, e.occurred_at))
  <2>1. RecordKind(c.request) = "investigation"
    BY <1>5 DEF RecordKind
  <2>2. PICK r : r = DerivedRecord(c.request, c.item, e.occurred_at)
    OBVIOUS
  <2>3. /\ e.payload.record = r /\ StoresRecord(w)
        /\ RecordKind(work[w].request) = "investigation"
    BY <1>2, <1>5, <2>1, <2>2 DEF EventMade, Carried, StoresRecord, Derives
  <2>4. AppendInvestigationRecord(e, r, c.base)
    BY <2>3 DEF Commit, ExpectedHead
  <2>5. head = c.base
    BY <2>4 DEF AppendInvestigationRecord, AppendEvent
  <2>6. /\ Intents[c.request].kind \in {"open", "attach", "transition"}
        /\ Intents[c.request].target \in Investigations
    BY <1>2, <1>5, <2>1, MutationKinds DEF Derives
  <2>7. DOMAIN r = RecordFields /\ r.investigation_id \in Investigations
    BY <1>2, <1>5, <2>1, <2>2, <2>6 DEF StillAllowed
  <2>8. MutationAllowed(c.request, c.policy, c.item, e.occurred_at, cases, investigations)
    BY <1>2, <1>5, <2>5 DEF StillAllowed
  <2>9. Intents[c.request].kind # "open" => c.item # <<>>
    BY <2>6, <2>8 DEF MutationAllowed, AttachAllowed, TransitionAllowed
  <2>10. Intents[c.request].kind # "open" => DOMAIN c.item[1] = RecordFields
    BY <1>1, <1>5, <2>1, <2>9 DEF Served, SnapshotHeld, ItemHeld, Derives
  <2>11. LinksFree(r)
    BY <1>2, <2>2, <2>6, <2>8, <2>10, DerivedLinks
  <2> QED
    BY <1>5, <1>9, <2>1, <2>2, <2>4, <2>5, <2>7, <2>11
       DEF InvestigationAppended, AppendInvestigationRecord
<1>6. ASSUME ~Derives(c, e)
      PROVE  AppendEvent(e, c.base, TRUE) /\ PlainAppended(e)
  <2>1. ~StoresRecord(w)
    BY <1>6 DEF StoresRecord, Derives
  <2>2. AppendPlainEvent(e, c.base, TRUE)
    BY <2>1 DEF Commit, ExpectedHead
  <2> QED
    BY <1>6, <1>9, <2>2 DEF PlainAppended, AppendPlainEvent, AppendEvent
<1>7. AppendEvent(e, c.base, TRUE)
  BY <1>4, <1>5, <1>6
<1>8. head = c.base /\ c.policy = active /\ active # None
  BY <1>3, <1>7 DEF AppendEvent, PolicyIsActive
<1>10. Appended(e)
  BY <1>4, <1>5, <1>6 DEF Appended
<1>11. \/ /\ Derives(c, e) /\ RecordKind(c.request) = "case"
          /\ CaseAppended(e, DerivedRecord(c.request, c.item, e.occurred_at))
       \/ /\ Derives(c, e) /\ RecordKind(c.request) = "investigation"
          /\ InvestigationAppended(e, DerivedRecord(c.request, c.item, e.occurred_at))
       \/ ~Derives(c, e) /\ PlainAppended(e)
  BY <1>4, <1>5, <1>6
<1> QED
  BY <1>1, <1>2, <1>8, <1>9, <1>10, <1>11

-----------------------------------------------------------------------------
(* The operator's backups *)

\* A prefix of the head is a prefix of the head that an event extends.
LEMMA PrefixGrows ==
  ASSUME NEW s, NEW t, NEW x, Listed(s), Listed(t), IsPrefix(s, t)
  PROVE  IsPrefix(s, Append(t, x))
<1>1. Len(s) \in Nat /\ Len(t) \in Nat /\ Len(s) <= Len(t)
  BY ListedLength DEF IsPrefix
<1>2. PICK S : t \in Seq(S) /\ x \in S /\ s \in Seq(S)
  <2>1. t \in Seq(Range(t) \cup Range(s) \cup {x}) /\ s \in Seq(Range(t) \cup Range(s) \cup {x})
    BY DEF Listed
  <2> QED
    BY <2>1
<1>3. Append(t, x) \in Seq(S) /\ Len(Append(t, x)) = Len(t) + 1
  BY <1>2
<1>4. SubSeq(Append(t, x), 1, Len(s)) = SubSeq(t, 1, Len(s))
  BY <1>1, <1>2, <1>3
<1> QED
  BY <1>1, <1>3, <1>4 DEF IsPrefix

\* A sequence is a prefix of itself.
LEMMA PrefixOfItself ==
  ASSUME NEW s, Listed(s)
  PROVE  IsPrefix(s, s)
BY ListedLength DEF IsPrefix

\* What is backed up stays a prefix of a head that stands or grows.
LEMMA BackupStands ==
  ASSUME ChainInv, BackupInv, UNCHANGED backupVars,
         head' = head \/ \E x : head' = Append(head, x)
  PROVE  BackupInv'
<1>1. Listed(head) /\ UNCHANGED <<destination, copying>>
  BY DEF ChainInv, backupVars
<1>2. \A s : Listed(s) /\ IsPrefix(s, head) => IsPrefix(s, head')
  BY <1>1, PrefixGrows
<1> QED
  BY <1>1, <1>2 DEF BackupInv, Backing

BackupStep(o) ==
    ReserveBackup(o) \/ CopySnapshot(o) \/ ReplaceDestination(o) \/ FailBackup(o) \/ CrashBackup(o)

Working(o) == Backing(o, "reserved") \/ Backing(o, "copied")

\* A backup works alone on its path, and what is finished is not touched again.
LEMMA BackupStepKeeps ==
  ASSUME ChainInv, BackupInv, NEW o \in BackupOperators, BackupStep(o)
  PROVE  /\ BackupInv' /\ UNCHANGED <<schemaVars, policyVars, ledgerVars, exports>>
         /\ destination.state = "whole" => UNCHANGED destination
<1>1. UNCHANGED <<schemaVars, policyVars, ledgerVars, exports>>
  BY DEF BackupStep, ReserveBackup, CopySnapshot, ReplaceDestination, FailBackup, CrashBackup
<1>2. /\ DOMAIN copying = BackupOperators
      /\ \A p \in BackupOperators :
           /\ DOMAIN copying[p] = {"phase", "head"}
           /\ Working(p) => /\ destination.state = "reserved"
                            /\ \A x \in BackupOperators \ {p} : ~Working(x)
           /\ copying[p].phase = "copied" =>
                Listed(copying[p].head) /\ IsPrefix(copying[p].head, head)
  BY DEF BackupInv, Working, Backing
<1>3. Listed(head) /\ head' = head /\ IsPrefix(head, head)
  BY <1>1, PrefixOfItself DEF ChainInv, ledgerVars
<1>4. PICK row : /\ copying' = [copying EXCEPT ![o] = row] /\ DOMAIN row = {"phase", "head"}
                 /\ \/ row.phase = "reserved" /\ ReserveBackup(o)
                    \/ row.phase = "copied" /\ row.head = head /\ CopySnapshot(o)
                    \/ row.phase = "done" /\ ReplaceDestination(o)
                    \/ row.phase = "done" /\ FailBackup(o)
                    \/ row.phase = "done" /\ CrashBackup(o)
  <2>1. CASE ReserveBackup(o)
    <3>1. PICK row : row = [copying[o] EXCEPT !.phase = "reserved"]
      OBVIOUS
    <3>2. copying' = [copying EXCEPT ![o] = row] /\ DOMAIN row = {"phase", "head"}
          /\ row.phase = "reserved"
      BY <1>2, <2>1, <3>1 DEF ReserveBackup
    <3> QED
      BY <2>1, <3>2
  <2>2. CASE CopySnapshot(o)
    <3>1. PICK row : row = [phase |-> "copied", head |-> head]
      OBVIOUS
    <3>2. DOMAIN row = {"phase", "head"} /\ row.phase = "copied" /\ row.head = head
      BY <3>1
    <3>3. copying' = [copying EXCEPT ![o] = row]
      BY <2>2, <3>1 DEF CopySnapshot
    <3> QED
      BY <2>2, <3>2, <3>3
  <2>3. CASE ReplaceDestination(o)
    <3>1. PICK row : row = [copying[o] EXCEPT !.phase = "done"]
      OBVIOUS
    <3>2. copying' = [copying EXCEPT ![o] = row] /\ DOMAIN row = {"phase", "head"}
          /\ row.phase = "done"
      BY <1>2, <2>3, <3>1 DEF ReplaceDestination
    <3> QED
      BY <2>3, <3>2
  <2>4. CASE FailBackup(o)
    <3>1. PICK row : row = [phase |-> "done", head |-> <<>>]
      OBVIOUS
    <3>2. DOMAIN row = {"phase", "head"} /\ row.phase = "done"
      BY <3>1
    <3>3. copying' = [copying EXCEPT ![o] = row]
      BY <2>4, <3>1 DEF FailBackup
    <3> QED
      BY <2>4, <3>2, <3>3
  <2>5. CASE CrashBackup(o)
    <3>1. PICK row : row = [phase |-> "done", head |-> <<>>]
      OBVIOUS
    <3>2. DOMAIN row = {"phase", "head"} /\ row.phase = "done"
      BY <3>1
    <3>3. copying' = [copying EXCEPT ![o] = row]
      BY <2>5, <3>1 DEF CrashBackup
    <3> QED
      BY <2>5, <3>2, <3>3
  <2> QED
    BY <2>1, <2>2, <2>3, <2>4, <2>5 DEF BackupStep
<1>5. /\ DOMAIN copying' = BackupOperators /\ copying'[o] = row
      /\ \A p \in BackupOperators : p # o => copying'[p] = copying[p]
  BY <1>2, <1>4
<1>6. CASE ReserveBackup(o)
  <2>1. /\ \A p \in BackupOperators : ~Working(p)
        /\ destination'.state = "reserved" /\ destination.state = "absent"
        /\ row.phase = "reserved"
    BY <1>2, <1>4, <1>6 DEF ReserveBackup, PathFree, Backing, CopySnapshot, ReplaceDestination,
                            FailBackup, CrashBackup
  <2> QED
    BY <1>1, <1>2, <1>3, <1>4, <1>5, <2>1 DEF BackupInv, Backing, Working
<1>7. CASE CopySnapshot(o)
  <2>1. /\ Working(o) /\ destination' = destination
    BY <1>7 DEF CopySnapshot, Backing, Working
  <2>2. row.phase = "copied" /\ row.head = head
    BY <1>2, <1>5, <1>7 DEF CopySnapshot
  <2> QED
    BY <1>1, <1>2, <1>3, <1>4, <1>5, <2>1, <2>2 DEF BackupInv, Backing, Working
<1>8. CASE ReplaceDestination(o)
  <2>1. /\ Working(o) /\ copying[o].phase = "copied" /\ row.phase = "done"
        /\ destination'.state = "whole" /\ destination'.head = copying[o].head
    BY <1>2, <1>5, <1>8 DEF ReplaceDestination, Backing, Working
  <2> QED
    BY <1>1, <1>2, <1>3, <1>4, <1>5, <2>1 DEF BackupInv, Backing, Working
<1>9. CASE FailBackup(o) \/ CrashBackup(o)
  <2>1. /\ Working(o) /\ row.phase = "done"
        /\ destination'.state \in {"absent", "reserved"}
    BY <1>2, <1>5, <1>9 DEF FailBackup, CrashBackup, Backing, Working
  <2> QED
    BY <1>1, <1>2, <1>3, <1>4, <1>5, <2>1 DEF BackupInv, Backing, Working
<1> QED
  BY <1>6, <1>7, <1>8, <1>9 DEF BackupStep

-----------------------------------------------------------------------------
(* Every step keeps the inductive invariant *)

\* The store as it was.
LEMMA StoreStands ==
  ASSUME StoreInv, LedgerStands, UNCHANGED <<policyVars, exports>>
  PROVE  StoreInv'
<1>1. UNCHANGED <<head, events, cases, investigations, policies, active, exports>>
  BY DEF LedgerStands, ledgerVars, policyVars
<1>2. ChainInv' /\ PolicyInv'
  BY <1>1 DEF StoreInv, ChainInv, EventLinked, IdsDiffer, PolicyInv
<1>3. TablesInv'
  BY <1>1 DEF StoreInv, TablesInv, CaseRow, InvestigationRow, VerifiedCaseItem, VerifiedInvestigationItem
<1>4. EventsStored' /\ DecisionsUsedOnce'
  BY <1>1 DEF StoreInv, EventsStored, DecisionsUsedOnce, RowsIn
<1>5. LinksResolve'
  BY <1>1 DEF StoreInv, LinksResolve, Opened, DuplicateOf, LatestRecord
<1> QED
  BY <1>2, <1>3, <1>4, <1>5 DEF StoreInv

\* The store after an event, with or without its record.
LEMMA StoreGrows ==
  ASSUME InvestigationAssumption, StoreInv, NEW e, Appended(e)
  PROVE  StoreInv' /\ Grown(e) /\ Len(head) = Len(events)
         /\ UNCHANGED <<schemaVars, policyVars, exports, backupVars>>
<1>1. AppendEvent(e, head, FALSE) /\ Grown(e) /\ Len(head) = Len(events)
  BY TablesGrow, AppendGrows DEF StoreInv
<1>2. UNCHANGED <<schemaVars, policyVars, exports, backupVars>> /\ active # None
  BY <1>1 DEF AppendEvent
<1>3. PolicyInv'
  BY <1>2 DEF StoreInv, PolicyInv, policyVars
<1> QED
  BY <1>1, <1>2, <1>3, ChainKept, TablesKept, StoredKept, DecisionsKept, LinksKept DEF StoreInv

\* A new event answers a request that no event answered, and that was sent.
LEMMA IdsKept ==
  ASSUME IdsInv, RetryAppliesOnce, NEW e, Grown(e), agenda' = agenda, unsent' = unsent,
         e.event_id[2] \notin unsent, e.event_id[2] = "cli" => e.event_id = <<"event", "cli", 1>>,
         \A i \in DOMAIN events : events[i].event_id[2] # e.event_id[2]
  PROVE  IdsInv' /\ RetryAppliesOnce'
<1>1. ASSUME NEW i \in DOMAIN events'
      PROVE  \/ i \in DOMAIN events /\ events'[i] = events[i]
             \/ i = Len(events) + 1 /\ events'[i] = e
  BY DEF Grown
<1>2. IdsInv'
  <2>1. ASSUME NEW i \in DOMAIN events'
        PROVE  /\ events'[i].event_id[2] \notin unsent
               /\ events'[i].event_id[2] = "cli" => events'[i].event_id = <<"event", "cli", 1>>
    BY <1>1 DEF IdsInv
  <2> QED
    BY <2>1 DEF IdsInv
<1>3. ASSUME NEW i \in DOMAIN events', NEW j \in DOMAIN events', i # j
      PROVE  events'[i].event_id[2] # events'[j].event_id[2]
  BY <1>1, <1>3 DEF RetryAppliesOnce
<1> QED
  BY <1>2, <1>3 DEF RetryAppliesOnce

\* What the operator drafted stands while policies only come.
LEMMA DraftStands ==
  ASSUME DraftInv, policies \subseteq policies', agenda' = agenda, draft' = draft
  PROVE  DraftInv'
BY DEF DraftInv

\* A step that leaves the ledger, the policies and the backups alone.
LEMMA QuietKeeps ==
  ASSUME TeamInv, LedgerStands, UNCHANGED <<policyVars, exports, backupVars, agenda, now>>,
         unsent' \subseteq unsent
  PROVE  ClockInv' /\ StoreInv' /\ IdsInv' /\ BackupInv' /\ RetryAppliesOnce'
<1>1. UNCHANGED <<head, events>>
  BY DEF LedgerStands, ledgerVars
<1>2. StoreInv'
  BY StoreStands DEF TeamInv
<1>3. BackupInv'
  BY <1>1, BackupStands DEF TeamInv, StoreInv
<1>4. ClockInv' /\ IdsInv' /\ RetryAppliesOnce'
  BY <1>1 DEF TeamInv, ClockInv, IdsInv, RetryAppliesOnce
<1> QED
  BY <1>2, <1>3, <1>4

\* Workers that do nothing hold what they held.
LEMMA WorkStands ==
  ASSUME ChainInv, TablesInv, WorkInv, work' = work,
         policies \subseteq policies', agenda' = agenda, unsent' \subseteq unsent,
         \/ LedgerStands
         \/ \E e : Appended(e) /\ \A w \in Workers : e.event_id[2] # work[w].request
  PROVE  WorkInv'
<1>1. ASSUME NEW w \in Workers
      PROVE  Served(work[w])'
  <2>1. PICK c : c = work[w]
    OBVIOUS
  <2>2. Served(c)
    BY <2>1 DEF WorkInv
  <2>3. Served(c)'
    BY <2>1, <2>2, ServedStands
  <2> QED
    BY <2>1, <2>3
<1> QED
  BY <1>1 DEF WorkInv, OwnRequests

TeamAssumptions ==
    InvestigationAssumption /\ MutationAssumption /\ ApplicationAssumption

\* A worker's step that commits nothing.
LEMMA WorkerKeeps ==
  ASSUME TeamAssumptions, TeamInv, NEW w \in Workers,
         \/ \E q \in unsent : Send(w, q)
         \/ ReadSnapshot(w) \/ PrepareSteps(w) \/ Abandon(w)
  PROVE  TeamInv'
<1>1. WorkInv' /\ unsent' \subseteq unsent /\ UNCHANGED <<storeVars, agenda, draft, walk, now>>
  <2>1. ASSUME NEW q \in unsent, Send(w, q)
        PROVE  <1>1
    BY <2>1, SendKeeps DEF TeamAssumptions, TeamInv, StoreInv, Send
  <2>2. CASE ReadSnapshot(w)
    BY <2>2, ReadKeeps DEF TeamAssumptions, TeamInv, StoreInv, ReadSnapshot
  <2>3. CASE PrepareSteps(w)
    <3>1. WorkInv'
      BY <2>3, PrepareStepsKeep DEF TeamAssumptions, TeamInv, StoreInv
    <3>2. UNCHANGED <<storeVars, agenda, unsent, draft, walk, now>>
      BY <2>3 DEF PrepareSteps, PreparePublish, PrepareOpen, PrepareAttach, PrepareTransition,
                  PrepareAction, PrepareMutation
    <3> QED
      BY <3>1, <3>2
  <2>4. CASE Abandon(w)
    <3>1. UNCHANGED <<storeVars, agenda, unsent, draft, walk, now>> /\ ~InPhase(w, "idle")
      BY <2>4 DEF Abandon
    <3>2. LedgerStands /\ policies' = policies
      BY <3>1 DEF storeVars, policyVars, LedgerStands
    <3>3. \/ work' = [work EXCEPT ![w] = Idle]
          \/ /\ work[w].tries < agenda.tries
             /\ Advance(w, [Idle EXCEPT !.phase = "received", !.request = work[w].request,
                                        !.tries = work[w].tries + 1,
                                        !.base = work[w].base, !.revision = work[w].revision])
      BY <2>4 DEF Abandon
    <3>4. WorkInv'
      BY <3>1, <3>2, <3>3, ReplyKeeps DEF TeamAssumptions, TeamInv, StoreInv
    <3> QED
      BY <3>1, <3>4
  <2> QED
    BY <2>1, <2>2, <2>3, <2>4
<1>2. LedgerStands /\ UNCHANGED <<policyVars, exports, backupVars>> /\ policies' = policies
  BY <1>1 DEF storeVars, policyVars, LedgerStands
<1>3. DraftInv'
  BY <1>1, <1>2, DraftStands DEF TeamInv
<1> QED
  BY <1>1, <1>2, <1>3, QuietKeeps DEF TeamInv

\* A commit, whose reply may be lost.
LEMMA CommitKeeps ==
  ASSUME TeamAssumptions, TeamInv, NEW w \in Workers, Commit(w)
  PROVE  TeamInv'
<1>1. PICK c : c = work[w]
  OBVIOUS
<1>2. PICK e : e = c.event[1]
  OBVIOUS
<1>3. /\ c.phase = "ready" /\ c.request \in DOMAIN Intents /\ Served(c)
      /\ head = c.base /\ Appended(e) /\ e.event_id[2] = c.request
      /\ Replied(w) /\ UNCHANGED <<agenda, unsent, draft, walk, now>>
  BY <1>1, <1>2, CommitAppends DEF TeamAssumptions, TeamInv, StoreInv
<1>4. /\ StoreInv' /\ Grown(e) /\ Len(head) = Len(events)
      /\ UNCHANGED <<schemaVars, policyVars, exports, backupVars>>
  BY <1>3, StoreGrows DEF TeamAssumptions, TeamInv
<1>5. WorkInv'
  <2>1. ~InPhase(w, "idle") /\ policies' = policies
    BY <1>1, <1>3, <1>4 DEF InPhase, policyVars
  <2>2. \/ work' = [work EXCEPT ![w] = Idle]
        \/ /\ work[w].tries < agenda.tries
           /\ Advance(w, [Idle EXCEPT !.phase = "received", !.request = work[w].request,
                                      !.tries = work[w].tries + 1,
                                      !.base = work[w].base, !.revision = work[w].revision])
    BY <1>3 DEF Replied
  <2>3. head = work[w].base /\ \E x : Appended(x) /\ x.event_id[2] = work[w].request
    BY <1>1, <1>3
  <2> QED
    BY <1>3, <2>1, <2>2, <2>3, ReplyKeeps DEF TeamAssumptions, TeamInv, StoreInv
<1>6. IdsInv' /\ RetryAppliesOnce'
  <2>1. ASSUME NEW i \in DOMAIN events, events[i].event_id[2] = c.request
        PROVE  FALSE
    <3>1. Len(c.base) < i /\ Len(c.base) = Len(events)
      BY <1>3, <1>4, <2>1 DEF Served, RequestHeld
    <3> QED
      BY <1>4, <2>1, <3>1 DEF Grown
  <2>2. c.request \notin unsent /\ c.request # "cli"
    BY <1>3 DEF Served, RequestHeld, TeamAssumptions, ApplicationAssumption
  <2> QED
    BY <1>3, <1>4, <2>1, <2>2, IdsKept DEF TeamInv
<1>7. DraftInv'
  BY <1>3, <1>4, DraftStands DEF TeamInv, policyVars
<1>8. BackupInv'
  BY <1>4, BackupStands DEF TeamInv, StoreInv, Grown
<1> QED
  BY <1>3, <1>4, <1>5, <1>6, <1>7, <1>8 DEF TeamInv, ClockInv

\* An export spends a decision, and its worker, if it has one, replies.
LEMMA ExportKeeps ==
  ASSUME TeamAssumptions, TeamInv,
         (\E w \in Workers : ExportLedger(w)) \/ ExportWithDraft
  PROVE  TeamInv'
<1>1. PICK d, id : CreateExport(d, id, now)
  BY DEF ExportLedger, ExportWithDraft
<1>2. /\ UNCHANGED <<schemaVars, policyVars, ledgerVars, backupVars>>
      /\ UNCHANGED <<agenda, unsent, draft, walk, now>>
  BY <1>1 DEF CreateExport, ExportLedger, ExportWithDraft, appVars
<1>3. UNCHANGED <<head, events, cases, investigations, policies, active>> /\ LedgerStands
  BY <1>2 DEF ledgerVars, policyVars, LedgerStands
<1>4. StoreInv'
  <2>1. DecisionsUsedOnce'
    BY <1>1, ExportKeepsDecisions DEF TeamInv, StoreInv
  <2>2. ChainInv' /\ PolicyInv'
    BY <1>3 DEF TeamInv, StoreInv, ChainInv, EventLinked, IdsDiffer, PolicyInv
  <2>3. TablesInv'
    BY <1>3 DEF TeamInv, StoreInv, TablesInv, CaseRow, InvestigationRow, VerifiedCaseItem,
                VerifiedInvestigationItem
  <2>4. EventsStored' /\ LinksResolve'
    <3>1. UNCHANGED <<events, cases, investigations>> /\ EventsStored /\ LinksResolve
      BY <1>3 DEF TeamInv, StoreInv, ledgerVars
    <3>2. EventsStored'
      BY <3>1 DEF EventsStored, RowsIn
    <3>3. LinksResolve'
      BY <3>1 DEF LinksResolve, Opened, DuplicateOf, LatestRecord
    <3> QED
      BY <3>2, <3>3
  <2> QED
    BY <2>1, <2>2, <2>3, <2>4 DEF StoreInv
<1>5. WorkInv'
  <2>1. CASE ExportWithDraft
    <3>1. work' = work
      BY <2>1 DEF ExportWithDraft, appVars
    <3> QED
      BY <1>2, <1>3, <3>1, WorkStands DEF TeamInv, StoreInv
  <2>2. ASSUME NEW w \in Workers, ExportLedger(w)
        PROVE  WorkInv'
    <3>1. ~InPhase(w, "idle") /\ Replied(w)
      BY <2>2 DEF ExportLedger, InPhase
    <3>2. \/ work' = [work EXCEPT ![w] = Idle]
          \/ /\ work[w].tries < agenda.tries
             /\ Advance(w, [Idle EXCEPT !.phase = "received", !.request = work[w].request,
                                        !.tries = work[w].tries + 1,
                                        !.base = work[w].base, !.revision = work[w].revision])
      BY <3>1 DEF Replied
    <3> QED
      BY <1>2, <1>3, <3>1, <3>2, ReplyKeeps DEF TeamAssumptions, TeamInv, StoreInv
  <2> QED
    BY <2>1, <2>2
<1>6. IdsInv' /\ RetryAppliesOnce' /\ ClockInv' /\ DraftInv'
  BY <1>2, <1>3 DEF TeamInv, IdsInv, RetryAppliesOnce, ClockInv, DraftInv
<1>7. BackupInv'
  BY <1>2, <1>3, BackupStands DEF TeamInv, StoreInv
<1> QED
  BY <1>4, <1>5, <1>6, <1>7 DEF TeamInv

\* The operator's event is no mutation's.
LEMMA OperatorsOwn ==
  ASSUME TeamAssumptions, NEW e, e.event_id = <<"event", "cli", 1>>
  PROVE  ~FromMutation(e)
BY DEF TeamAssumptions, ApplicationAssumption, FromMutation

\* The operator's event, drafted and appended; its id is used once.
LEMMA DraftKeeps ==
  ASSUME TeamAssumptions, TeamInv, (\E doc \in PolicyDocs : DraftEvent(doc)) \/ AppendDraft
  PROVE  TeamInv'
<1>1. ASSUME NEW doc \in PolicyDocs, DraftEvent(doc)
      PROVE  TeamInv'
  <2>1. /\ UNCHANGED <<storeVars, agenda, unsent, work, walk, now>> /\ doc \in policies
    BY <1>1 DEF DraftEvent
  <2>2. LedgerStands /\ UNCHANGED <<policyVars, exports, backupVars, policies>>
    BY <2>1 DEF storeVars, policyVars, LedgerStands
  <2>3. DraftInv'
    <3>1. PICK e : /\ draft' = <<e>> /\ e.event_id = <<"event", "cli", 1>>
                   /\ e.payload \in Payloads
                   /\ e.occurred_at = now /\ e.authorization = CliDecision(doc)
      <4>1. PICK payload \in Payloads :
              \E outcome : draft' = <<CreateAuditEvent(doc, CliDecision(doc), payload,
                                          <<"event", "cli", 1>>, outcome, now, PreviousEvent)>>
        BY <1>1 DEF DraftEvent
      <4> QED
        BY <4>1 DEF CreateAuditEvent
    <3>2. now \in 0 .. agenda.time
      BY DEF TeamInv, ClockInv
    <3> QED
      BY <2>1, <2>2, <3>1, <3>2 DEF DraftInv, CliDecision
  <2>4. WorkInv'
    BY <2>1, <2>2, WorkStands DEF TeamInv, StoreInv
  <2> QED
    BY <2>1, <2>2, <2>3, <2>4, QuietKeeps DEF TeamInv
<1>2. ASSUME AppendDraft
      PROVE  TeamInv'
  <2>1. PICK e : e = draft[1]
    OBVIOUS
  <2>2. /\ AppendPlainEvent(e, e.previous, FALSE) /\ UNCHANGED appVars /\ draft # <<>>
    BY <1>2, <2>1 DEF AppendDraft
  <2>3. e.event_id = <<"event", "cli", 1>>
    BY <2>1, <2>2 DEF TeamInv, DraftInv
  <2>4. AppendPlainEvent(e, head, FALSE) /\ ~EventIdUsed(e.event_id)
    BY <2>2 DEF AppendPlainEvent, AppendEvent
  <2>5. Appended(e)
    <3>1. ~FromMutation(e)
      BY <2>3, OperatorsOwn
    <3>2. PlainAppended(e)
      BY <2>4, <3>1, Zenon DEF PlainAppended
    <3> QED
      BY <3>2 DEF Appended
  <2>6. /\ StoreInv' /\ Grown(e)
        /\ UNCHANGED <<schemaVars, policyVars, exports, backupVars>>
    BY <2>5, StoreGrows DEF TeamAssumptions, TeamInv
  <2>7. e.event_id[2] = "cli" /\ "cli" \notin DOMAIN Intents /\ None # "cli"
    <3>1. "cli" # None /\ "cli" \notin DOMAIN Intents
      BY DEF TeamAssumptions, ApplicationAssumption
    <3> QED
      BY <2>3, <3>1
  <2>8. ASSUME NEW w \in Workers
        PROVE  e.event_id[2] # work[w].request
    BY <2>7 DEF TeamInv, WorkInv, Served, RequestHeld
  <2>9. WorkInv'
    BY <2>2, <2>5, <2>6, <2>8, WorkStands DEF TeamInv, StoreInv, appVars, policyVars
  <2>10. \A i \in DOMAIN events : events[i].event_id[2] # e.event_id[2]
    BY <2>3, <2>4, <2>7 DEF TeamInv, IdsInv, EventIdUsed
  <2>11. "cli" \notin unsent
    BY <2>7 DEF TeamInv, IdsInv, ClockInv, TeamAssumptions, ApplicationAssumption
  <2>12. IdsInv' /\ RetryAppliesOnce'
    BY <2>2, <2>3, <2>6, <2>7, <2>10, <2>11, IdsKept DEF TeamInv, appVars
  <2>13. DraftInv' /\ ClockInv'
    BY <2>2, <2>6, DraftStands DEF TeamInv, ClockInv, appVars, policyVars
  <2>14. BackupInv'
    BY <2>6, BackupStands DEF TeamInv, StoreInv, Grown
  <2> QED
    BY <2>6, <2>9, <2>12, <2>13, <2>14 DEF TeamInv
<1> QED
  BY <1>1, <1>2

\* A policy becomes the active one.
LEMMA PolicyKeeps ==
  ASSUME TeamAssumptions, TeamInv, NEW doc \in PolicyDocs, PolicyPut(doc)
  PROVE  TeamInv'
<1>1. /\ UNCHANGED <<schemaVars, ledgerVars, exports, backupVars>> /\ UNCHANGED appVars
      /\ policies' = policies \cup {doc} /\ active' = doc
  BY DEF PolicyPut, PutPolicy
<1>2. UNCHANGED <<head, events, cases, investigations>> /\ LedgerStands
  BY <1>1 DEF ledgerVars, LedgerStands
<1>3. StoreInv'
  <2>1. PolicyInv'
    BY <1>1, <1>2 DEF TeamInv, StoreInv, PolicyInv, TeamAssumptions, ApplicationAssumption
  <2>2. ChainInv' /\ DecisionsUsedOnce'
    BY <1>1, <1>2 DEF TeamInv, StoreInv, ChainInv, EventLinked, IdsDiffer, DecisionsUsedOnce
  <2>3. TablesInv'
    BY <1>2 DEF TeamInv, StoreInv, TablesInv, CaseRow, InvestigationRow, VerifiedCaseItem,
                VerifiedInvestigationItem
  <2>4. EventsStored' /\ LinksResolve'
    <3>1. UNCHANGED <<events, cases, investigations>> /\ EventsStored /\ LinksResolve
      BY <1>2 DEF TeamInv, StoreInv, ledgerVars
    <3>2. EventsStored'
      BY <3>1 DEF EventsStored, RowsIn
    <3>3. LinksResolve'
      BY <3>1 DEF LinksResolve, Opened, DuplicateOf, LatestRecord
    <3> QED
      BY <3>2, <3>3
  <2> QED
    BY <2>1, <2>2, <2>3, <2>4 DEF StoreInv
<1>4. WorkInv'
  BY <1>1, <1>2, WorkStands DEF TeamInv, StoreInv, appVars
<1>5. IdsInv' /\ RetryAppliesOnce' /\ ClockInv'
  BY <1>1, <1>2 DEF TeamInv, IdsInv, RetryAppliesOnce, ClockInv, appVars
<1>6. DraftInv'
  BY <1>1, DraftStands DEF TeamInv, appVars
<1>7. BackupInv'
  BY <1>1, <1>2, BackupStands DEF TeamInv, StoreInv
<1> QED
  BY <1>3, <1>4, <1>5, <1>6, <1>7 DEF TeamInv

\* The steps of backups, of the schema, of the readers and of the clock.
LEMMA OthersKeep ==
  ASSUME TeamAssumptions, TeamInv,
         \/ \E o \in BackupOperators : Backup(o)
         \/ \E p \in Initializers : Initialize(p)
         \/ \E pair \in agenda.walks : FirstPage(pair[1], pair[2])
         \/ NextPage \/ Tick
  PROVE  TeamInv'
<1>1. ASSUME NEW o \in BackupOperators, Backup(o)
      PROVE  TeamInv'
  <2>1. BackupStep(o) /\ UNCHANGED appVars
    BY <1>1 DEF Backup, BackupStep
  <2>2. BackupInv' /\ UNCHANGED <<schemaVars, policyVars, ledgerVars, exports>>
    BY <2>1, BackupStepKeeps DEF TeamInv, StoreInv
  <2>3. UNCHANGED <<head, events, policies>> /\ LedgerStands
    BY <2>2 DEF ledgerVars, policyVars, LedgerStands
  <2>4. StoreInv'
    BY <2>2, <2>3, StoreStands DEF TeamInv
  <2>5. WorkInv' /\ DraftInv'
    BY <2>1, <2>2, <2>3, WorkStands, DraftStands DEF TeamInv, StoreInv, appVars
  <2>6. IdsInv' /\ RetryAppliesOnce' /\ ClockInv'
    BY <2>1, <2>3 DEF TeamInv, IdsInv, RetryAppliesOnce, ClockInv, appVars
  <2> QED
    BY <2>2, <2>4, <2>5, <2>6 DEF TeamInv
<1>2. ASSUME UNCHANGED <<policyVars, ledgerVars, exports, backupVars>>,
             UNCHANGED <<agenda, unsent, work, draft>>, now' \in 0 .. agenda.time
      PROVE  TeamInv'
  <2>1. LedgerStands /\ UNCHANGED <<head, events, policies>>
    BY <1>2 DEF LedgerStands, ledgerVars, policyVars
  <2>2. StoreInv' /\ WorkInv' /\ DraftInv' /\ BackupInv'
    BY <1>2, <2>1, StoreStands, WorkStands, DraftStands, BackupStands DEF TeamInv, StoreInv
  <2>3. IdsInv' /\ RetryAppliesOnce' /\ ClockInv'
    BY <1>2, <2>1 DEF TeamInv, IdsInv, RetryAppliesOnce, ClockInv
  <2> QED
    BY <2>2, <2>3 DEF TeamInv
<1>3. now \in 0 .. agenda.time /\ agenda.time \in Nat
  BY DEF TeamInv, ClockInv, TeamAssumptions, ApplicationAssumption
<1>4. CASE \E p \in Initializers : Initialize(p)
  <2>1. UNCHANGED <<policyVars, ledgerVars, exports, backupVars>> /\ UNCHANGED appVars
    BY <1>4 DEF Initialize, ReadVersion, BringToVersion3
  <2> QED
    BY <1>2, <1>3, <2>1 DEF appVars
<1>5. CASE NextPage \/ \E pair \in agenda.walks : FirstPage(pair[1], pair[2])
  <2>1. UNCHANGED <<storeVars, agenda, unsent, work, draft, now>>
    BY <1>5 DEF NextPage, FirstPage, ReadPage
  <2> QED
    BY <1>2, <1>3, <2>1 DEF storeVars
<1>6. CASE Tick
  <2>1. UNCHANGED <<storeVars, agenda, unsent, work, draft, walk>> /\ now' \in 0 .. agenda.time
    BY <1>3, <1>6 DEF Tick
  <2> QED
    BY <1>2, <2>1 DEF storeVars
<1> QED
  BY <1>1, <1>4, <1>5, <1>6

\* The first state.
LEMMA TeamInitially ==
  ASSUME TeamAssumptions, Init
  PROVE  TeamInv
<1>1. events = <<>> /\ head = <<>> /\ Listed(events) /\ Listed(head) /\ DOMAIN events = {}
  BY DEF Init, StoreInit, Listed, Range
<1>2. ClockInv
  BY DEF Init, ClockInv, TeamAssumptions, ApplicationAssumption
<1>3. ChainInv /\ PolicyInv /\ EventsStored /\ RetryAppliesOnce
  BY <1>1 DEF Init, StoreInit, ChainInv, IdsDiffer, PolicyInv, EventsStored, RetryAppliesOnce
<1>4. /\ DOMAIN cases = Cases /\ \A c \in Cases : Listed(cases[c]) /\ Range(cases[c]) = {}
      /\ DOMAIN investigations = Investigations
      /\ \A i \in Investigations : /\ Listed(investigations[i]) /\ Range(investigations[i]) = {}
                                   /\ investigations[i] = <<>>
  BY <1>1 DEF Init, StoreInit, Range
<1>5. TablesInv
  BY <1>4 DEF TablesInv
<1>6. DecisionsUsedOnce /\ LinksResolve
  BY <1>1, <1>4 DEF Init, StoreInit, DecisionsUsedOnce, LinksResolve, Opened
<1>7. IdsInv /\ DraftInv
  BY <1>1 DEF Init, IdsInv, DraftInv
<1>8. WorkInv
  <2>1. PICK c : c = Idle
    OBVIOUS
  <2>2. DOMAIN c = DOMAIN Idle /\ c.phase = "idle" /\ c.request = None /\ c.tries = 0
    BY <2>1 DEF Idle
  <2>3. Served(c)
    BY <2>2 DEF Served, RequestPhases, RequestHeld, SnapshotHeld, EventPrepared
  <2>4. DOMAIN work = Workers /\ \A w \in Workers : work[w] = c
    BY <2>1 DEF Init
  <2> QED
    BY <2>2, <2>3, <2>4 DEF WorkInv, OwnRequests
<1>9. BackupInv
  BY DEF Init, StoreInit, BackupInv, Backing
<1> QED
  BY <1>2, <1>3, <1>5, <1>6, <1>7, <1>8, <1>9 DEF TeamInv, StoreInv

\* The inductive step.
LEMMA TeamStep ==
  ASSUME TeamAssumptions, TeamInv, [Next]_vars
  PROVE  TeamInv'
<1>1. CASE UNCHANGED vars
  <2>1. UNCHANGED <<storeVars, agenda, unsent, work, draft, walk, now>>
    BY <1>1 DEF vars, appVars
  <2>2. LedgerStands /\ UNCHANGED <<policyVars, exports, backupVars, policies>>
    BY <2>1 DEF storeVars, policyVars, LedgerStands
  <2>3. WorkInv' /\ DraftInv'
    BY <2>1, <2>2, WorkStands, DraftStands DEF TeamInv, StoreInv
  <2> QED
    BY <2>1, <2>2, <2>3, QuietKeeps DEF TeamInv
<1>2. CASE Next
  <2>1. \/ \E w \in Workers : \/ \E q \in unsent : Send(w, q)
                              \/ ReadSnapshot(w) \/ PrepareSteps(w) \/ Abandon(w)
        \/ \E w \in Workers : Commit(w)
        \/ (\E w \in Workers : ExportLedger(w)) \/ ExportWithDraft
        \/ (\E doc \in PolicyDocs : DraftEvent(doc)) \/ AppendDraft
        \/ \E doc \in PolicyDocs : PolicyPut(doc)
        \/ \E o \in BackupOperators : Backup(o)
        \/ \E p \in Initializers : Initialize(p)
        \/ \E pair \in agenda.walks : FirstPage(pair[1], pair[2])
        \/ NextPage \/ Tick
    BY <1>2 DEF Next, PrepareSteps
  <2> QED
    BY <2>1, WorkerKeeps, CommitKeeps, ExportKeeps, DraftKeeps, PolicyKeeps, OthersKeep
<1> QED
  BY <1>1, <1>2

\* The invariant of the Team service.
LEMMA TeamInvariant == Spec => []TeamInv
<1>1. TeamAssumptions
  BY InvestigationAssumption, MutationAssumption, ApplicationAssumption DEF TeamAssumptions
<1>2. Init => TeamInv
  BY <1>1, TeamInitially
<1>3. TeamInv /\ [Next]_vars => TeamInv'
  BY <1>1, TeamStep
<1> QED
  BY <1>2, <1>3, PTL DEF Spec

-----------------------------------------------------------------------------
(* What follows *)

\* DecisionsUsedOnce: no authorization decision is spent twice, by events or exports.
THEOREM DecisionsSpentOnce == Spec => []DecisionsUsedOnce
<1>1. TeamInv => DecisionsUsedOnce
  BY DEF TeamInv, StoreInv
<1> QED
  BY <1>1, TeamInvariant, PTL

\* RetryAppliesOnce: a request that was sent again left at most one event.
THEOREM RetriesApplyOnce == Spec => []RetryAppliesOnce
<1>1. TeamInv => RetryAppliesOnce
  BY DEF TeamInv
<1> QED
  BY <1>1, TeamInvariant, PTL

\* LinksResolve: stored links resolve, and duplicates never form a cycle.
THEOREM EveryLinkResolves == Spec => []LinksResolve
<1>1. TeamInv => LinksResolve
  BY DEF TeamInv, StoreInv
<1> QED
  BY <1>1, TeamInvariant, PTL

\* RecordsMatchEvents: every stored row passes the verification its reads make,
\* and the events with a row are exactly those of authorized mutations, whatever
\* payloads clients and operators give to other events.
THEOREM RowsMatchLedger == Spec => []RecordsMatchEvents
<1>1. ASSUME TeamInv
      PROVE  RecordsMatchEvents
  <2>1. \A row \in RowsIn(cases) : VerifiedCaseItem(row)
    BY <1>1 DEF TeamInv, StoreInv, TablesInv, RowsIn, CaseRow
  <2>2. \A row \in RowsIn(investigations) : VerifiedInvestigationItem(row)
    BY <1>1 DEF TeamInv, StoreInv, TablesInv, RowsIn, InvestigationRow
  <2> QED
    BY <1>1, <2>1, <2>2 DEF TeamInv, StoreInv, EventsStored, RecordsMatchEvents
<1> QED
  BY <1>1, TeamInvariant, PTL

\* BackupsKept: a finished backup holds a state the ledger went through, and no
\* later, concurrent, failed or crashed backup to its path touches it.
THEOREM BackupsStand == Spec => BackupsKept
<1>1. ASSUME TeamInv, TeamInv', [Next]_vars
      PROVE  /\ destination.state = "whole" => UNCHANGED destination
             /\ destination'.state = "whole" => IsPrefix(destination'.head, head')
  <2>1. destination'.state = "whole" => IsPrefix(destination'.head, head')
    BY <1>1 DEF TeamInv, BackupInv
  <2>2. UNCHANGED destination \/ \E o \in BackupOperators : BackupStep(o)
    <3>1. CASE \E o \in BackupOperators : Backup(o)
      BY <3>1 DEF Backup, BackupStep
    <3>2. CASE ~ \E o \in BackupOperators : Backup(o)
      BY ZenonT(40), <1>1, <3>2 DEF Next, vars, appVars, storeVars, backupVars, Send, ReadSnapshot,
         PreparePublish, PrepareOpen, PrepareAttach, PrepareTransition, PrepareAction,
         PrepareMutation, Commit, AppendCaseRecord, AppendInvestigationRecord, AppendPlainEvent,
         AppendEvent, ExportLedger, CreateExport, Abandon, PolicyPut, PutPolicy, DraftEvent,
         AppendDraft, ExportWithDraft, Initialize, ReadVersion, BringToVersion3, FirstPage,
         NextPage, ReadPage, Tick
    <3> QED
      BY <3>1, <3>2
  <2>3. destination.state = "whole" => UNCHANGED destination
    BY <1>1, <2>2, BackupStepKeeps DEF TeamInv, StoreInv
  <2> QED
    BY <2>1, <2>3
<1>2. TeamInv /\ TeamInv' /\ [Next]_vars =>
        [ /\ destination.state = "whole" => UNCHANGED destination
          /\ destination'.state = "whole" => IsPrefix(destination'.head, head') ]_vars
  BY <1>1
<1> QED
  BY <1>2, TeamInvariant, PTL DEF Spec, BackupsKept

SchemaInv == schema \in 0 .. SchemaVersion

\* TeamTypeOK: the state is well typed, the head is the last event's digest, and
\* the ledger is one unbroken chain.
THEOREM LedgerIsChained == Spec => []TeamTypeOK
<1>1. Init => SchemaInv
  BY ApplicationAssumption DEF Init, SchemaInv, ApplicationAssumption
<1>2. SchemaInv /\ [Next]_vars => SchemaInv'
  <2>1. ASSUME [Next]_vars
        PROVE  UNCHANGED schema \/ schema' = SchemaVersion
    <3>1. CASE \E p \in Initializers : Initialize(p)
      BY <3>1 DEF Initialize, ReadVersion, BringToVersion3
    <3>2. CASE \E o \in BackupOperators : Backup(o)
      BY <3>2 DEF Backup, ReserveBackup, CopySnapshot, ReplaceDestination, FailBackup, CrashBackup,
                  schemaVars
    <3>3. CASE /\ ~ \E p \in Initializers : Initialize(p)
               /\ ~ \E o \in BackupOperators : Backup(o)
      BY ZenonT(40), <2>1, <3>3 DEF Next, vars, appVars, storeVars, schemaVars, Send, ReadSnapshot,
         PreparePublish, PrepareOpen, PrepareAttach, PrepareTransition, PrepareAction,
         PrepareMutation, Commit, AppendCaseRecord, AppendInvestigationRecord, AppendPlainEvent,
         AppendEvent, ExportLedger, CreateExport, Abandon, PolicyPut, PutPolicy, DraftEvent,
         AppendDraft, ExportWithDraft, FirstPage, NextPage, ReadPage, Tick
    <3> QED
      BY <3>1, <3>2, <3>3
  <2> QED
    BY <2>1 DEF SchemaInv, SchemaVersion
<1>3. ASSUME SchemaInv, TeamInv
      PROVE  TeamTypeOK
  <2>1. ValidatedHead /\ (events # <<>> => ChainValid(events))
    <3>1. /\ Listed(events) /\ Listed(head) /\ Len(head) = Len(events) /\ IdsDiffer
          /\ \A i \in DOMAIN events : EventLinked(i)
          /\ head = IF Len(events) = 0 THEN <<>> ELSE EventDigest(events[Len(events)])
      BY <1>3 DEF TeamInv, StoreInv, ChainInv
    <3>2. ValidatedHead
      BY <3>1, ListedLength DEF ValidatedHead
    <3>3. events # <<>> => ChainValid(events)
      BY <3>1 DEF ChainValid, EventLinked, IdsDiffer
    <3> QED
      BY <3>2, <3>3
  <2>2. ASSUME NEW w \in Workers
        PROVE  work[w].phase \in RequestPhases /\ work[w].tries \in 0 .. agenda.tries
    <3>1. /\ work[w].phase \in RequestPhases
          /\ work[w].phase = "idle" => work[w].tries = 0
          /\ work[w].phase # "idle" => work[w].tries \in 1 .. agenda.tries
      BY <1>3 DEF TeamInv, WorkInv, Served, RequestHeld
    <3>2. agenda.tries \in Nat
      BY <1>3, ApplicationAssumption DEF TeamInv, ClockInv, ApplicationAssumption
    <3> QED
      BY <3>1, <3>2
  <2> QED
    BY <1>3, <2>1, <2>2 DEF TeamTypeOK, TeamInv, StoreInv, PolicyInv, IdsInv, ClockInv, SchemaInv
<1>4. Spec => []SchemaInv
  BY <1>1, <1>2, PTL DEF Spec
<1> QED
  BY <1>3, <1>4, TeamInvariant, PTL

-----------------------------------------------------------------------------
(* The service behaves as if each mutation happened at one instant: the    *)
(* contracts that AtomicTeam uses are those of the service                 *)

\* The pure operators agree, from the ground up.
LEMMA SameContracts ==
  /\ \A r, changes : Atomic!Updated(r, changes) = Updated(r, changes)
  /\ \A doc, who, action : Atomic!AuthorizationResult(doc, who, action)
                             = AuthorizationResult(doc, who, action)
  /\ \A doc, at : Atomic!PolicyEffective(doc, at) <=> PolicyEffective(doc, at)
  /\ \A q : Atomic!RequestAction(q) = RequestAction(q)
  /\ \A q : Atomic!RecordKind(q) = RecordKind(q)
  /\ Atomic!Subject = Subject
  /\ \A kind, r : Atomic!Carried(kind, r) = Carried(kind, r)
  /\ \A q : Atomic!OwnPayload(q) = OwnPayload(q)
<1>1. \A r, changes : Atomic!Updated(r, changes) = Updated(r, changes)
  BY DEF Atomic!Updated, Updated
<1>2. \A doc, who, action : Atomic!AuthorizationResult(doc, who, action)
                              = AuthorizationResult(doc, who, action)
  BY DEF Atomic!AuthorizationResult, AuthorizationResult, Atomic!GrantingRoles, GrantingRoles,
         Atomic!RoleGrants, RoleGrants
<1>3. \A doc, at : Atomic!PolicyEffective(doc, at) <=> PolicyEffective(doc, at)
  BY DEF Atomic!PolicyEffective, PolicyEffective
<1>4. \A q : Atomic!RequestAction(q) = RequestAction(q)
  BY DEF Atomic!RequestAction, RequestAction
<1>5. \A q : Atomic!RecordKind(q) = RecordKind(q)
  BY DEF Atomic!RecordKind, RecordKind
<1>6. Atomic!Subject = Subject /\ \A kind, r : Atomic!Carried(kind, r) = Carried(kind, r)
  BY DEF Atomic!Subject, Subject, Atomic!Carried, Carried
<1>7. \A q : Atomic!OwnPayload(q) = OwnPayload(q)
  BY <1>6 DEF Atomic!OwnPayload, OwnPayload
<1> QED
  BY <1>1, <1>2, <1>3, <1>4, <1>5, <1>6, <1>7

\* A record is derived alike.
LEMMA SameDerivations ==
  ASSUME NEW q, NEW item, NEW at
  PROVE  Atomic!DerivedRecord(q, item, at) = DerivedRecord(q, item, at)
BY SameContracts
   DEF Atomic!DerivedRecord, DerivedRecord, Atomic!CreateInvestigation, CreateInvestigation,
       Atomic!Observation, Observation, Atomic!AttachObservation, AttachObservation,
       Atomic!TransitionInvestigation, TransitionInvestigation,
       Atomic!CreateCaseRecord, CreateCaseRecord

\* And follows alike on the one before it.
LEMMA SameSuccessors ==
  ASSUME NEW before, NEW r
  PROVE  /\ Atomic!InvestigationSuccessor(before, r) <=> InvestigationSuccessor(before, r)
         /\ Atomic!CaseSuccessor(before, r) <=> CaseSuccessor(before, r)
<1>1. Atomic!RecordConsistent(r) <=> RecordConsistent(r)
  <2>1. Atomic!ResolutionConsistent(r) <=> ResolutionConsistent(r)
    BY DEF Atomic!ResolutionConsistent, ResolutionConsistent, Atomic!Resolutions, Resolutions
  <2> QED
    BY <2>1 DEF Atomic!RecordConsistent, RecordConsistent, Atomic!Last, Last
<1>2. Atomic!FirstRevision(r) <=> FirstRevision(r)
  BY DEF Atomic!FirstRevision, FirstRevision
<1>3. ASSUME NEW old
      PROVE  Atomic!OneObservationAdded(old, r) <=> OneObservationAdded(old, r)
  BY DEF Atomic!OneObservationAdded, OneObservationAdded, Atomic!QueueState, QueueState,
         Atomic!QueueFields, QueueFields, Atomic!Last, Last, Atomic!Front, Front
<1>4. \A x : Atomic!QueueState(x) = QueueState(x)
  BY DEF Atomic!QueueState, QueueState, Atomic!QueueFields, QueueFields
<1>5. Atomic!AllowedStatuses = AllowedStatuses /\ Atomic!ImmutableFields = ImmutableFields
  BY DEF Atomic!AllowedStatuses, AllowedStatuses, Atomic!ImmutableFields, ImmutableFields
<1>6. Atomic!InvestigationSuccessor(before, r) <=> InvestigationSuccessor(before, r)
  BY <1>1, <1>2, <1>3, <1>4, <1>5 DEF Atomic!InvestigationSuccessor, InvestigationSuccessor
<1>7. ASSUME NEW old
      PROVE  /\ Atomic!RecordedStagesKept(old, r) <=> RecordedStagesKept(old, r)
             /\ Atomic!CanaryAdvances(old, r) <=> CanaryAdvances(old, r)
  BY DEF Atomic!RecordedStagesKept, RecordedStagesKept, Atomic!CanaryAdvances, CanaryAdvances
<1>8. Atomic!CaseSuccessor(before, r) <=> CaseSuccessor(before, r)
  BY <1>7 DEF Atomic!CaseSuccessor, CaseSuccessor
<1> QED
  BY <1>6, <1>8

\* What is allowed is allowed alike.
LEMMA SameAllowed ==
  ASSUME NEW q, NEW doc, NEW item, NEW at, NEW published, NEW current,
         MutationAllowed(q, doc, item, at, published, current),
         Intents[q].kind \in {"open", "attach", "transition", "publish"}
  PROVE  Atomic!MutationAllowed(q, doc, item, at, published, current)
<1>1. PICK r : r = DerivedRecord(q, item, at) /\ r = Atomic!DerivedRecord(q, item, at)
  BY SameDerivations
<1>2. CASE Intents[q].kind = "open"
  BY <1>1, <1>2, SameSuccessors DEF MutationAllowed, Atomic!MutationAllowed, OpenAllowed, Atomic!OpenAllowed
<1>3. CASE Intents[q].kind = "attach"
  BY <1>1, <1>3, SameSuccessors DEF MutationAllowed, Atomic!MutationAllowed, AttachAllowed,
     Atomic!AttachAllowed
<1>4. CASE Intents[q].kind = "transition"
  <2>1. TransitionAllowed(q, doc, item, at, published, current)
    BY <1>4 DEF MutationAllowed
  <2>2. Atomic!AssigneeAllowed(doc, Intents[q].change.assigned_to)
    BY <2>1 DEF TransitionAllowed, AssigneeAllowed, Atomic!AssigneeAllowed
  <2>3. /\ Atomic!InvestigationSuccessor(item, r) /\ item # <<>>
        /\ Atomic!LinkedCaseExists(r, published) /\ Atomic!CanonicalTarget(r, current)
    BY <1>1, <2>1, SameSuccessors DEF TransitionAllowed, LinkedCaseExists, Atomic!LinkedCaseExists,
       CanonicalTarget, Atomic!CanonicalTarget, Last, Atomic!Last
  <2> QED
    BY <1>1, <1>4, <2>2, <2>3 DEF Atomic!MutationAllowed, Atomic!TransitionAllowed
<1>5. CASE Intents[q].kind = "publish"
  <2>1. SourceChainBound(Intents[q].target, Intents[q].change) /\ CaseSuccessor(item, r)
    BY <1>1, <1>5 DEF MutationAllowed, PublishAllowed
  <2>2. Atomic!SourceChainBound(Intents[q].target, Intents[q].change)
    BY <2>1 DEF SourceChainBound, Atomic!SourceChainBound, DeliveryBinds, Atomic!DeliveryBinds,
       ApprovalBinds, Atomic!ApprovalBinds, ApprovalFitsReview, Atomic!ApprovalFitsReview,
       CanaryBinds, Atomic!CanaryBinds
  <2>3. Atomic!CaseSuccessor(item, r)
    BY <2>1, SameSuccessors
  <2> QED
    BY <1>1, <1>5, <2>2, <2>3 DEF Atomic!MutationAllowed, Atomic!PublishAllowed
<1> QED
  BY <1>2, <1>3, <1>4, <1>5

AtomicLog == [i \in DOMAIN events |-> Logged(events[i])]
AtomicExports == {Exported(x) : x \in exports}

\* A function on the first n numbers is a list of length n.
LEMMA ListingOf ==
  ASSUME NEW n \in Nat, NEW f, f = [i \in 1 .. n |-> f[i]]
  PROVE  Listed(f) /\ Len(f) = n
<1>1. \A i \in 1 .. n : f[i] \in Range(f)
  BY DEF Range
<1>2. f \in [1 .. n -> Range(f)]
  BY <1>1
<1> QED
  BY <1>2 DEF Listed

\* A list is a function on its positions.
LEMMA ListedFunction ==
  ASSUME NEW s, Listed(s)
  PROVE  s = [i \in 1 .. Len(s) |-> s[i]]
BY ListedLength DEF Listed

\* A list that keeps another's elements and has one more is an append to it.
LEMMA AppendOf ==
  ASSUME NEW f, NEW g, NEW x, Listed(f), Listed(g), Len(g) = Len(f) + 1,
         \A i \in 1 .. Len(f) : g[i] = f[i], g[Len(f) + 1] = x
  PROVE  g = Append(f, x) /\ (f # <<>> => Len(f) > 0 /\ Last(f) = f[Len(f)])
<1>1. PICK n \in Nat : n = Len(f)
  BY ListedLength
<1>2. /\ Listed(Append(f, x)) /\ DOMAIN Append(f, x) = 1 .. n + 1
      /\ Append(f, x)[n + 1] = x /\ \A i \in 1 .. n : Append(f, x)[i] = f[i]
      /\ Len(Append(f, x)) = n + 1
  BY <1>1, AppendListed
<1>3. \A i \in 1 .. n + 1 : Append(f, x)[i] = g[i]
  <2>1. \A i \in 1 .. n + 1 : i \in 1 .. n \/ i = n + 1
    OBVIOUS
  <2> QED
    BY <1>1, <1>2, <2>1
<1>4. g = Append(f, x)
  <2>1. PICK h : h = Append(f, x) /\ Listed(h) /\ Len(h) = n + 1
    BY <1>2
  <2>2. h = [i \in 1 .. n + 1 |-> h[i]]
    BY <1>1, <2>1, ListedFunction
  <2>3. g = [i \in 1 .. n + 1 |-> g[i]]
    BY <1>1, ListedFunction
  <2> QED
    BY <1>3, <2>1, <2>2, <2>3
<1>5. f # <<>> => n > 0 /\ Last(f) = f[n]
  BY <1>1, ListedLength DEF Last
<1> QED
  BY <1>1, <1>4, <1>5

\* The abstract log grows by what the new event says.
LEMMA LogGrows ==
  ASSUME ChainInv, NEW e, AppendEvent(e, head, FALSE)
  PROVE  /\ AtomicLog' = Append(AtomicLog, Logged(e)) /\ Len(AtomicLog) = Len(events)
         /\ AtomicLog # <<>> => Last(AtomicLog).at <= e.occurred_at
<1>1. /\ Grown(e) /\ Len(events) \in Nat /\ DOMAIN events = 1 .. Len(events) /\ ChainInv'
  BY AppendGrows, ChainKept
<1>2. PICK n \in Nat : n = Len(events)
  BY <1>1
<1>3. PICK f, g : f = AtomicLog /\ g = AtomicLog'
  OBVIOUS
<1>4. /\ f = [i \in 1 .. n |-> f[i]] /\ g = [i \in 1 .. n + 1 |-> g[i]]
      /\ \A i \in 1 .. n : g[i] = f[i] /\ f[i] = Logged(events[i])
      /\ g[n + 1] = Logged(e)
  <2>1. f = [i \in 1 .. n |-> Logged(events[i])]
    BY <1>1, <1>2, <1>3 DEF AtomicLog
  <2>2. g = [i \in 1 .. n + 1 |-> Logged(events'[i])]
    BY <1>1, <1>2, <1>3 DEF AtomicLog, Grown, Logged
  <2>3. events'[n + 1] = e /\ \A i \in 1 .. n : events'[i] = events[i]
    BY <1>1, <1>2 DEF Grown
  <2> QED
    BY <2>1, <2>2, <2>3
<1>5. g = Append(f, Logged(e)) /\ Len(f) = n /\ (f # <<>> => n > 0 /\ Last(f) = f[n])
  <2>1. PICK x : x = Logged(e)
    OBVIOUS
  <2>2. Listed(f) /\ Len(f) = n /\ Listed(g) /\ Len(g) = n + 1
    BY <1>4, ListingOf
  <2>3. Len(g) = Len(f) + 1 /\ g[Len(f) + 1] = x /\ \A i \in 1 .. Len(f) : g[i] = f[i]
    BY <1>4, <2>1, <2>2
  <2>4. g = Append(f, x) /\ (f # <<>> => Len(f) > 0 /\ Last(f) = f[Len(f)])
    BY <2>2, <2>3, AppendOf
  <2> QED
    BY <2>1, <2>2, <2>4
<1>6. ASSUME n > 0
      PROVE  events[n].occurred_at <= e.occurred_at
  <2>1. EventLinked(n + 1)'
    BY <1>1, <1>2 DEF ChainInv, Grown
  <2>2. events'[n + 1].occurred_at >= events'[(n + 1) - 1].occurred_at
    BY <1>6, <2>1 DEF EventLinked
  <2>3. events'[n + 1] = e /\ events'[(n + 1) - 1] = events[n]
    BY <1>1, <1>2, <1>6 DEF Grown
  <2> QED
    BY <2>2, <2>3
<1>7. n > 0 => f[n].at = events[n].occurred_at
  <2>1. n > 0 => f[n] = Logged(events[n])
    BY SMTT(40), <1>4
  <2> QED
    BY <2>1 DEF Logged
<1> QED
  BY <1>2, <1>3, <1>5, <1>6, <1>7

AtomicNextStep == Atomic!AtomicNext \/ UNCHANGED Atomic!atomicVars

\* An event by the policy active now is logged at its instant.
LEMMA EventIsLogged ==
  ASSUME MutationAssumption, ChainInv, NEW e, AppendEvent(e, head, FALSE), NEW c,
         c.request \in DOMAIN Intents, c.policy = active, active # None, EventMade(c, e),
         NEW payload, payload = e.payload
  PROVE  Atomic!Log(c.request, e.occurred_at, payload)
<1>1. /\ AtomicLog' = Append(AtomicLog, Logged(e))
      /\ AtomicLog # <<>> => Last(AtomicLog).at <= e.occurred_at
  BY LogGrows
<1>2. UNCHANGED <<policies, active, exports>>
  BY DEF AppendEvent, policyVars
<1>3. e.authorization = Authorize(c.request, active, <<"decision", c.request, c.tries>>, e.occurred_at)
  BY DEF EventMade
<1>4. /\ e.authorization.principal = Intents[c.request].who
      /\ e.authorization.action = RequestAction(c.request).action
      /\ e.authorization.resource_id = Intents[c.request].target
      /\ e.authorization.policy = active /\ e.authorization.decided_at = e.occurred_at
      /\ e.authorization.authorized
           = AuthorizationResult(active, Intents[c.request].who,
                                 RequestAction(c.request).action).authorized
  BY <1>3 DEF Authorize, CreateAuthorization
<1>5. PolicyEffective(active, e.occurred_at)
  <2>1. VerifyAuditEvent(e.authorization.policy, e, PreviousEvent)
    BY DEF AppendEvent
  <2> QED
    BY <1>4, <2>1 DEF VerifyAuditEvent, VerifyAuthorization
<1>6. Logged(e) = Atomic!Entry(Intents[c.request].who, Atomic!RequestAction(c.request).action,
                               Intents[c.request].target, Atomic!Entitled(c.request, active),
                               active, e.occurred_at, payload)
  BY <1>4, SameContracts DEF Logged, Atomic!Entry, Atomic!Entitled
<1>7. Atomic!NotBefore(e.occurred_at)
  BY <1>1 DEF Atomic!NotBefore, AtomicLog, Last, Atomic!Last
<1> QED
  BY <1>1, <1>2, <1>5, <1>6, <1>7, SameContracts DEF Atomic!Log, AtomicLog

\* The instants are those of the abstract specification.
LEMMA InstantsKnown ==
  ASSUME ClockInv, NEW at \in 0 .. agenda.time
  PROVE  at \in UNION {0 .. a.time : a \in Agendas}
BY DEF ClockInv

\* A commit is a note or a mutation.
LEMMA CommitIsAtomic ==
  ASSUME TeamAssumptions, TeamInv, NEW w \in Workers, Commit(w)
  PROVE  Atomic!AtomicNext
<1>1. PICK c : c = work[w]
  OBVIOUS
<1>2. PICK e : e = c.event[1]
  OBVIOUS
<1>3. PICK q \in DOMAIN Intents : q = c.request
  BY <1>1, <1>2, CommitAppends DEF TeamAssumptions, TeamInv, StoreInv
<1>4. PICK at : at = e.occurred_at
  OBVIOUS
<1>5. PICK r : r = DerivedRecord(q, c.item, at)
  OBVIOUS
<1>6. /\ Served(c) /\ c.phase = "ready" /\ head = c.base /\ c.policy = active /\ active # None
      /\ Appended(e)
      /\ \/ Derives(c, e) /\ RecordKind(q) = "case" /\ CaseAppended(e, r)
         \/ Derives(c, e) /\ RecordKind(q) = "investigation" /\ InvestigationAppended(e, r)
         \/ ~Derives(c, e) /\ PlainAppended(e)
  BY <1>1, <1>2, <1>3, <1>4, <1>5, CommitAppends DEF TeamAssumptions, TeamInv, StoreInv
<1>7. EventMade(c, e) /\ StillAllowed(c, e)
  BY <1>2, <1>6 DEF Served, EventPrepared
<1>8. AppendEvent(e, head, FALSE)
  BY <1>6, TablesGrow DEF TeamInv, StoreInv
<1>9. Atomic!Log(q, at, e.payload)
  BY <1>3, <1>4, <1>6, <1>7, <1>8, EventIsLogged DEF TeamAssumptions, TeamInv, StoreInv
<1>10. at \in UNION {0 .. a.time : a \in Agendas}
  BY <1>4, <1>7, InstantsKnown DEF EventMade, TeamInv
<1>11. e.authorization.authorized <=> Atomic!Entitled(q, active)
  BY <1>3, <1>6, <1>7, SameContracts DEF EventMade, Authorize, CreateAuthorization, Atomic!Entitled
<1>12. CASE ~Derives(c, e) /\ PlainAppended(e)
  <2>1. UNCHANGED <<cases, investigations>>
    BY <1>12 DEF PlainAppended, AppendPlainEvent
  <2>2. e.payload = Atomic!OwnPayload(q)
    BY <1>3, <1>7, <1>12, SameContracts DEF EventMade
  <2>3. Intents[q].kind = "action" \/ ~Atomic!Entitled(q, active)
    BY <1>3, <1>7, <1>11, <1>12 DEF Derives, IsMutation, EventMade
  <2>4. Atomic!Note(q, at)
    BY <1>6, <1>9, <2>1, <2>2, <2>3 DEF Atomic!Note
  <2> QED
    BY <1>10, <2>4 DEF Atomic!AtomicNext
<1>13. CASE Derives(c, e)
  <2>1. IsMutation(q) /\ Atomic!Entitled(q, active)
    BY <1>3, <1>11, <1>13 DEF Derives
  <2>2. Intents[q].kind \in {"open", "attach", "transition", "publish"}
    BY <2>1, MutationKinds DEF TeamAssumptions
  <2>3. c.item = Item(q)
    BY <1>3, <1>6, <2>1 DEF Served, SnapshotHeld, ItemHeld
  <2>4. Atomic!Current(q) = c.item
    BY <2>2, <2>3 DEF Atomic!Current, Item, Table, LatestRecord, Last, Atomic!Last
  <2>5. MutationAllowed(q, active, c.item, at, cases, investigations)
    BY <1>3, <1>4, <1>6, <1>7, <1>13 DEF StillAllowed
  <2>6. Atomic!MutationAllowed(q, active, Atomic!Current(q), at, cases, investigations)
    BY <2>2, <2>4, <2>5, SameAllowed
  <2>7. r = Atomic!DerivedRecord(q, Atomic!Current(q), at)
    BY <1>5, <2>4, SameDerivations
  <2>8. e.payload = Atomic!Carried(Atomic!RecordKind(q), r)
    BY <1>3, <1>4, <1>5, <1>7, <1>13, SameContracts DEF EventMade
  <2>9. Atomic!Stored(r, at) = Row(r, e)
    <3>1. e.sequence = Len(AtomicLog) + 1
      BY <1>8, AppendGrows, LogGrows DEF TeamInv, StoreInv
    <3>2. e.retain_until = at + Policy[active].minimum_days
      BY <1>4, <1>6, <1>7 DEF EventMade
    <3> QED
      BY <3>1, <3>2 DEF Atomic!Stored, Row, AtomicLog
  <2>10. CASE RecordKind(q) = "case" /\ CaseAppended(e, r)
    <3>1. Intents[q].kind = "publish" /\ r.case_id = Intents[q].target
      BY <1>5, <2>2, <2>10 DEF RecordKind, DerivedRecord, CreateCaseRecord
    <3>2. /\ cases' = [cases EXCEPT ![r.case_id] = Append(cases[r.case_id], Row(r, e))]
          /\ UNCHANGED investigations
      BY <2>10 DEF CaseAppended, AppendCaseRecord
    <3>3. Atomic!Mutate(q, at)
      BY <1>6, <1>9, <2>1, <2>2, <2>6, <2>7, <2>8, <2>9, <2>10, <3>1, <3>2, SameContracts
         DEF Atomic!Mutate
    <3> QED
      BY <1>10, <3>3 DEF Atomic!AtomicNext
  <2>11. CASE RecordKind(q) = "investigation" /\ InvestigationAppended(e, r)
    <3>1. r.investigation_id = Intents[q].target
      BY <1>3, <1>4, <1>5, <1>7, <1>13, <2>11 DEF StillAllowed
    <3>2. /\ investigations' = [investigations EXCEPT ![r.investigation_id] =
                                  Append(investigations[r.investigation_id], Row(r, e))]
          /\ UNCHANGED cases
      BY <2>11 DEF InvestigationAppended, AppendInvestigationRecord
    <3>3. Atomic!Mutate(q, at)
      BY <1>6, <1>9, <2>1, <2>2, <2>6, <2>7, <2>8, <2>9, <2>11, <3>1, <3>2, SameContracts
         DEF Atomic!Mutate
    <3> QED
      BY <1>10, <3>3 DEF Atomic!AtomicNext
  <2> QED
    BY <1>6, <1>13, <2>10, <2>11
<1> QED
  BY <1>6, <1>12, <1>13

\* The abstract log is as long as the ledger.
LEMMA LogLength ==
  ASSUME ChainInv
  PROVE  Len(AtomicLog) = Len(events) /\ (events # <<>> => AtomicLog # <<>>)
<1>1. PICK n \in Nat : n = Len(events) /\ DOMAIN events = 1 .. n /\ (events = <<>> <=> n = 0)
  BY ListedLength DEF ChainInv
<1>2. PICK f : f = AtomicLog
  OBVIOUS
<1>3. f = [i \in 1 .. n |-> f[i]]
  BY <1>1, <1>2 DEF AtomicLog
<1>4. Listed(f) /\ Len(f) = n
  BY <1>3, ListingOf
<1> QED
  BY <1>1, <1>2, <1>4, ListedLength

\* A step that touches neither ledger, policies nor exports is a stutter.
LEMMA QuietIsAtomic ==
  ASSUME LedgerStands, UNCHANGED <<policyVars, exports>>
  PROVE  UNCHANGED Atomic!atomicVars
BY DEF Atomic!atomicVars, LedgerStands, ledgerVars, policyVars, Logged, Exported

\* A new policy is activated.
LEMMA PolicyIsAtomic ==
  ASSUME NEW doc \in PolicyDocs, PolicyPut(doc)
  PROVE  Atomic!AtomicNext
<1>1. /\ doc \notin policies /\ RevisionAdvances(doc)
      /\ policies' = policies \cup {doc} /\ active' = doc
      /\ UNCHANGED <<schemaVars, ledgerVars, exports, backupVars>>
  BY DEF PolicyPut, PutPolicy
<1>2. UNCHANGED <<events, cases, investigations, exports>>
  BY <1>1 DEF ledgerVars
<1>3. Atomic!Activate(doc)
  BY <1>1, <1>2 DEF Atomic!Activate, RevisionAdvances, Logged, Exported
<1> QED
  BY <1>3 DEF Atomic!AtomicNext

\* The operator's event is recorded under the policy it was drafted for.
LEMMA DraftIsAtomic ==
  ASSUME TeamAssumptions, TeamInv, AppendDraft
  PROVE  Atomic!AtomicNext
<1>1. PICK e : e = draft[1]
  OBVIOUS
<1>2. AppendPlainEvent(e, e.previous, FALSE) /\ draft # <<>>
  BY <1>1 DEF AppendDraft
<1>3. AppendEvent(e, head, FALSE) /\ UNCHANGED <<cases, investigations>>
  BY <1>2 DEF AppendPlainEvent, AppendEvent
<1>4. PICK at : at = e.occurred_at
  OBVIOUS
<1>5. at \in 0 .. agenda.time /\ e.payload \in Payloads
  BY <1>1, <1>2, <1>4 DEF TeamInv, DraftInv
<1>6. PICK doc \in policies :
        e.authorization = CreateAuthorization(doc, <<"decision", "cli", 1>>, Operator,
                            "audit_export", "audit_export", CliExport, at)
  BY <1>1, <1>2, <1>4 DEF TeamInv, DraftInv
<1>7. doc \in PolicyDocs /\ Operator \in Principals
  BY <1>6 DEF TeamInv, StoreInv, PolicyInv, TeamAssumptions, ApplicationAssumption
<1>8. /\ AtomicLog' = Append(AtomicLog, Logged(e))
      /\ AtomicLog # <<>> => Last(AtomicLog).at <= at
  BY <1>3, <1>4, LogGrows DEF TeamInv, StoreInv
<1>9. UNCHANGED <<policies, active, exports>>
  BY <1>3 DEF AppendEvent, policyVars
<1>10. Logged(e) = Atomic!Entry(Operator, "audit_export", CliExport,
                     Atomic!AuthorizationResult(doc, Operator, "audit_export").authorized,
                     doc, at, e.payload)
  BY <1>4, <1>5, <1>6, SameContracts DEF Logged, Atomic!Entry, CreateAuthorization
<1>11. Atomic!NotBefore(at)
  BY <1>8 DEF Atomic!NotBefore, AtomicLog, Last, Atomic!Last
<1>12. Atomic!Record(Operator, "audit_export", CliExport, doc, at, e.payload)
  BY <1>3, <1>6, <1>8, <1>9, <1>10, <1>11 DEF Atomic!Record, AtomicLog, Exported
<1>13. at \in UNION {0 .. a.time : a \in Agendas}
  BY <1>5, InstantsKnown DEF TeamInv
<1> QED
  BY <1>5, <1>7, <1>12, <1>13 DEF Atomic!AtomicNext

ExportIds == {CliExport} \cup ({"event"} \X (DOMAIN Intents) \X UNION {1 .. a.tries : a \in Agendas})

\* An export of the store is one of the abstract specification.
LEMMA CreateIsAtomic ==
  ASSUME StoreInv, NEW d, NEW id \in ExportIds, CreateExport(d, id, now), d.principal \in Principals
  PROVE  Atomic!AtomicNext
<1>1. /\ active # None /\ d.policy = active /\ head # <<>>
      /\ \A x \in exports : x.export_id # id
      /\ VerifyAuthorization(d.policy, d)
      /\ UNCHANGED <<schemaVars, policyVars, ledgerVars, backupVars>>
  BY DEF CreateExport, PolicyIsActive
<1>2. PICK x : /\ x = CreateAuditExport(d.policy, d, id, events, now)
               /\ ExportWellFormed(x, events) /\ exports' = exports \cup {x}
  BY DEF CreateExport
<1>3. /\ x.export_id = id /\ x.authorization = d /\ x.last_sequence = Len(events)
      /\ d.authorized /\ d.action = "audit_export"
  BY <1>2 DEF CreateAuditExport, ExportWellFormed
<1>4. UNCHANGED <<policies, active, events, cases, investigations>>
  BY <1>1 DEF policyVars, ledgerVars
<1>5. AtomicLog # <<>> /\ Len(AtomicLog) = Len(events)
  <2>1. events # <<>>
    BY <1>1, ListedLength DEF StoreInv, ChainInv
  <2> QED
    BY <2>1, LogLength DEF StoreInv
<1>6. Atomic!AuthorizationResult(active, d.principal, "audit_export").authorized
  <2>1. [authorized |-> d.authorized, reason |-> d.reason]
          = AuthorizationResult(active, d.principal, "audit_export")
    BY <1>1, <1>3 DEF VerifyAuthorization
  <2>2. AuthorizationResult(active, d.principal, "audit_export").authorized = d.authorized
    BY <2>1
  <2> QED
    BY <1>3, <2>2, SameContracts
<1>7. Exported(x) = [id |-> id, who |-> d.principal, policy |-> active, covers |-> Len(AtomicLog)]
  BY <1>1, <1>3, <1>5 DEF Exported
<1>8. AtomicExports' = AtomicExports \cup {Exported(x)}
  BY <1>2 DEF AtomicExports, Exported
<1>9. \A y \in AtomicExports : y.id # id
  BY <1>1 DEF AtomicExports, Exported
<1>10. AtomicLog' = AtomicLog
  BY <1>4 DEF AtomicLog, Logged
<1>11. Atomic!Export(d.principal, id)
  BY <1>1, <1>4, <1>5, <1>6, <1>7, <1>8, <1>9, <1>10
     DEF Atomic!Export, AtomicLog, AtomicExports
<1> QED
  BY <1>11 DEF Atomic!AtomicNext, ExportIds

\* The service's exports and the operator's.
LEMMA ExportIsAtomic ==
  ASSUME TeamAssumptions, TeamInv,
         (\E w \in Workers : ExportLedger(w)) \/ ExportWithDraft
  PROVE  Atomic!AtomicNext
<1>1. ASSUME NEW w \in Workers, ExportLedger(w)
      PROVE  Atomic!AtomicNext
  <2>1. PICK q, tries : q = work[w].request /\ tries = work[w].tries
    OBVIOUS
  <2>2. PICK d : /\ CreateExport(d, EventId(w), now)
                 /\ d = CreateAuthorization(work[w].policy, DecisionId(w), Intents[q].who,
                                            "audit_export", "audit_export", EventId(w), now)
    BY <1>1, <2>1 DEF ExportLedger
  <2>3. q \in DOMAIN Intents /\ tries \in 1 .. agenda.tries /\ agenda \in Agendas
    BY <1>1, <2>1 DEF ExportLedger, InPhase, TeamInv, ClockInv, WorkInv, Served, RequestHeld
  <2>4. EventId(w) \in ExportIds
    BY <2>1, <2>3 DEF EventId, ExportIds
  <2>5. d.principal \in Principals
    BY <2>2, <2>3 DEF CreateAuthorization, TeamAssumptions, MutationAssumption
  <2> QED
    BY <2>2, <2>4, <2>5, CreateIsAtomic DEF TeamInv
<1>2. ASSUME ExportWithDraft
      PROVE  Atomic!AtomicNext
  <2>1. PICK d : d = draft[1].authorization
    OBVIOUS
  <2>2. CreateExport(d, CliExport, now) /\ draft # <<>>
    BY <1>2, <2>1 DEF ExportWithDraft
  <2>3. d.principal = Operator
    <3>1. PICK doc, at : d = CreateAuthorization(doc, <<"decision", "cli", 1>>, Operator,
                               "audit_export", "audit_export", CliExport, at)
      BY <2>1, <2>2 DEF TeamInv, DraftInv
    <3> QED
      BY <3>1 DEF CreateAuthorization
  <2>4. d.principal \in Principals /\ CliExport \in ExportIds
    BY <2>3 DEF ExportIds, TeamAssumptions, ApplicationAssumption
  <2> QED
    BY <2>2, <2>4, CreateIsAtomic DEF TeamInv
<1> QED
  BY <1>1, <1>2

\* The first states agree.
LEMMA InitIsAtomic ==
  ASSUME Init
  PROVE  Atomic!AtomicInit
BY DEF Init, StoreInit, Atomic!AtomicInit

\* Every step of the service is a step of the abstract specification, or none.
LEMMA StepIsAtomic ==
  ASSUME TeamAssumptions, TeamInv, [Next]_vars
  PROVE  AtomicNextStep
<1>1. \/ \E w \in Workers : Commit(w)
      \/ (\E w \in Workers : ExportLedger(w)) \/ ExportWithDraft
      \/ AppendDraft
      \/ \E doc \in PolicyDocs : PolicyPut(doc)
      \/ UNCHANGED <<policyVars, ledgerVars, exports>>
  <2> DEFINE Quiet == UNCHANGED <<policyVars, ledgerVars, exports>>
  <2>1. UNCHANGED storeVars => Quiet
    BY DEF storeVars
  <2>2. \A w, q : Send(w, q) => UNCHANGED storeVars
    BY DEF Send
  <2>3. \A w : ReadSnapshot(w) \/ PrepareSteps(w) \/ Abandon(w) => UNCHANGED storeVars
    BY DEF ReadSnapshot, PrepareSteps, PreparePublish, PrepareOpen, PrepareAttach,
           PrepareTransition, PrepareAction, PrepareMutation, Abandon
  <2>4. \A doc : DraftEvent(doc) => UNCHANGED storeVars
    BY DEF DraftEvent
  <2>5. \A o : Backup(o) => Quiet
    BY DEF Backup, ReserveBackup, CopySnapshot, ReplaceDestination, FailBackup, CrashBackup
  <2>6. \A p : Initialize(p) => Quiet
    BY DEF Initialize, ReadVersion, BringToVersion3
  <2>7. /\ \A table, status : FirstPage(table, status) => UNCHANGED storeVars
        /\ NextPage \/ Tick => UNCHANGED storeVars
    BY DEF FirstPage, NextPage, ReadPage, Tick
  <2>8. UNCHANGED vars => UNCHANGED storeVars
    BY DEF vars
  <2> HIDE DEF Quiet
  <2>9. \/ \E w \in Workers : Commit(w)
        \/ (\E w \in Workers : ExportLedger(w)) \/ ExportWithDraft
        \/ AppendDraft
        \/ \E doc \in PolicyDocs : PolicyPut(doc)
        \/ Quiet
    BY <2>1, <2>2, <2>3, <2>4, <2>5, <2>6, <2>7, <2>8 DEF Next, PrepareSteps
  <2> QED
    BY <2>9 DEF Quiet
<1>2. UNCHANGED <<policyVars, ledgerVars, exports>> => UNCHANGED Atomic!atomicVars
  BY QuietIsAtomic DEF LedgerStands
<1> QED
  BY <1>1, <1>2, CommitIsAtomic, ExportIsAtomic, DraftIsAtomic, PolicyIsAtomic DEF AtomicNextStep

\* ImplementsAtomicTeam: a request spread over several transactions acts as if
\* it were authorized, checked and stored at the one instant of its commit.
THEOREM TeamIsAtomic == Spec => ImplementsAtomicTeam
<1>1. TeamAssumptions
  BY InvestigationAssumption, MutationAssumption, ApplicationAssumption DEF TeamAssumptions
<1>2. Init => Atomic!AtomicInit
  BY InitIsAtomic
<1>3. TeamInv /\ [Next]_vars => [Atomic!AtomicNext]_(Atomic!atomicVars)
  BY <1>1, StepIsAtomic DEF AtomicNextStep
<1> QED
  BY <1>2, <1>3, TeamInvariant, PTL DEF Spec, ImplementsAtomicTeam, Atomic!AtomicSpec

-----------------------------------------------------------------------------
(* Walks over pages                                                        *)

\* A nonempty set of natural numbers has a least one.
LEMMA LeastNumber ==
  ASSUME NEW S \in SUBSET Nat, S # {}
  PROVE  \E x \in S : \A y \in S : x <= y
<1> DEFINE R == {ss \in Nat \X Nat : ss[1] < ss[2]}
<1>1. IsWellFoundedOn(R, Nat)
  BY NatLessThanWellFounded, Zenon DEF OpToRel
<1>2. PICK x \in S : \A y \in S : <<y, x>> \notin R
  <2> HIDE DEF R
  <2> QED
    BY <1>1, WFMin
<1>3. ASSUME NEW y \in S
      PROVE  ~(y < x)
  <2>1. <<y, x>> \in Nat \X Nat
    OBVIOUS
  <2> QED
    BY <1>2, <2>1
<1> QED
  BY <1>3

\* A finite set written as a sequence: every element, once.
LEMMA SetAsSequence ==
  ASSUME NEW S, IsFiniteSet(S)
  PROVE  LET s == SetToSeq(S)
         IN  Listed(s) /\ Range(s) = S /\ \A i, j \in DOMAIN s : i # j => s[i] # s[j]
<1>1. PICK n : n = Cardinality(S)
  OBVIOUS
<1>2. n \in Nat /\ ExistsBijection(1 .. n, S)
  BY <1>1, FS_CardinalityType
<1>3. \E f \in [1 .. n -> S] : IsInjective(f)
  BY <1>2 DEF ExistsBijection, Bijection, Injection
<1>4. PICK s : s = SetToSeq(S)
  OBVIOUS
<1>5. s \in [1 .. n -> S] /\ IsInjective(s)
  BY <1>1, <1>3, <1>4 DEF SetToSeq
<1>6. s \in Injection(1 .. n, S)
  BY <1>5 DEF Injection
<1>7. IsFiniteSet(1 .. n) /\ Cardinality(1 .. n) = n
  <2>1. IsFiniteSet(1 .. n) /\ Cardinality(1 .. n) = IF 1 > n THEN 0 ELSE n - 1 + 1
    BY <1>2, FS_Interval
  <2> QED
    BY <1>2, <2>1
<1>8. s \in Surjection(1 .. n, S)
  BY <1>1, <1>6, <1>7, FS_Injection
<1>9. Range(s) = S
  BY <1>5, <1>8 DEF Range, Surjection
<1>10. Listed(s)
  BY <1>2, <1>5, <1>9 DEF Listed
<1>11. \A i, j \in DOMAIN s : i # j => s[i] # s[j]
  BY <1>5 DEF IsInjective
<1> QED
  BY <1>4, <1>9, <1>10, <1>11

\* One sequence after another: the elements of both, each at a position of its own.
LEMMA Joined ==
  ASSUME NEW s, NEW t, Listed(s), Listed(t)
  PROVE  /\ Listed(s \o t) /\ Range(s \o t) = Range(s) \cup Range(t)
         /\ Len(s) \in Nat /\ DOMAIN s = 1 .. Len(s) /\ DOMAIN t = 1 .. Len(t) /\ Len(t) \in Nat
         /\ DOMAIN (s \o t) = 1 .. Len(s) + Len(t)
         /\ \A i \in 1 .. Len(s) : (s \o t)[i] = s[i]
         /\ \A i \in 1 .. Len(t) : (s \o t)[Len(s) + i] = t[i]
<1>1. PICK m, n : m = Len(s) /\ n = Len(t)
  OBVIOUS
<1>2. m \in Nat /\ n \in Nat /\ DOMAIN s = 1 .. m /\ DOMAIN t = 1 .. n
  BY <1>1, ListedLength
<1>3. PICK S : S = Range(s) \cup Range(t)
  OBVIOUS
<1>4. s \in Seq(S) /\ t \in Seq(S)
  BY <1>3, <1>2, <1>1 DEF Listed, Range
<1>5. PICK u : u = s \o t
  OBVIOUS
<1>6. /\ u \in Seq(S) /\ Len(u) = m + n
      /\ \A i \in 1 .. m : u[i] = s[i]
      /\ \A i \in 1 .. n : u[m + i] = t[i]
  BY <1>1, <1>2, <1>4, <1>5
<1>7. DOMAIN u = 1 .. m + n
  BY <1>2, <1>6
<1>8. ASSUME NEW i \in 1 .. m + n
      PROVE  i \in 1 .. m \/ \E j \in 1 .. n : i = m + j
  <2>1. CASE i > m
    <3>1. i - m \in 1 .. n /\ i = m + (i - m)
      BY <1>2, <2>1
    <3> QED
      BY <3>1
  <2> QED
    BY <1>2, <2>1
<1>9. Range(s) = {s[i] : i \in 1 .. m} /\ Range(t) = {t[i] : i \in 1 .. n}
  BY <1>2 DEF Range
<1>10. Range(u) \subseteq S
  BY <1>3, <1>6, <1>7, <1>8, <1>9 DEF Range
<1>11. S \subseteq Range(u)
  <2>1. ASSUME NEW i \in 1 .. m
        PROVE  s[i] \in Range(u)
    <3>1. i \in 1 .. m + n /\ u[i] = s[i]
      BY <1>2, <1>6
    <3> QED
      BY <1>7, <3>1 DEF Range
  <2>2. ASSUME NEW i \in 1 .. n
        PROVE  t[i] \in Range(u)
    <3>1. m + i \in 1 .. m + n /\ u[m + i] = t[i]
      BY <1>2, <1>6
    <3> QED
      BY <1>7, <3>1 DEF Range
  <2> QED
    BY <1>3, <1>9, <2>1, <2>2
<1>12. Range(u) = S
  BY <1>10, <1>11
<1> QED
  BY <1>1, <1>2, <1>3, <1>5, <1>6, <1>7, <1>12 DEF Listed

\* Rows of a ledger of n events, each known by the event it belongs to.
Numbered(rows, n) ==
    /\ \A row \in rows : row.sequence \in 1 .. n
    /\ \A row, other \in rows : row.sequence = other.sequence => row = other

LEMMA NumberedFinite ==
  ASSUME NEW rows, NEW n \in Nat, Numbered(rows, n)
  PROVE  IsFiniteSet(rows)
<1>1. PICK f : f = [row \in rows |-> row.sequence]
  OBVIOUS
<1>2. f \in Injection(rows, 1 .. n)
  BY <1>1 DEF Numbered, Injection, IsInjective
<1>3. IsFiniteSet(1 .. n)
  BY FS_Interval
<1> QED
  BY <1>2, <1>3, FS_Injection

BelowOf(rows, before) == {row \in rows : row.sequence < before}

\* What a page and its cursor promise: the page is every row from the cursor up to
\* where it was read, the lowest row is at the cursor, and without a cursor there
\* is nothing left below, as there is with one.
PagePromise(rows, before, page, next) ==
    /\ page \subseteq BelowOf(rows, before) /\ next \in Nat
    /\ \A row \in page : next <= row.sequence
    /\ \A row \in BelowOf(rows, before) : next <= row.sequence => row \in page
    /\ next # 0 => page # BelowOf(rows, before) /\ \E row \in page : row.sequence = next

LEMMA PageKeepsPromise ==
  ASSUME NEW rows, NEW n \in Nat, Numbered(rows, n), NEW before \in Nat, NEW limit \in Nat \ {0}
  PROVE  PagePromise(rows, before, PageOf(rows, before, limit), NextCursor(rows, before, limit))
<1>1. PICK below : below = BelowOf(rows, before)
  OBVIOUS
<1>2. /\ below \subseteq rows /\ IsFiniteSet(below)
      /\ \A row \in below : row.sequence \in 1 .. n /\ row.sequence < before
  BY <1>1, NumberedFinite, FS_Subset DEF BelowOf, Numbered
<1>3. PICK page : page = PageOf(rows, before, limit)
  OBVIOUS
<1> DEFINE Above(row) == {other \in below : other.sequence > row.sequence}
<1>4. page = {row \in below : Cardinality(Above(row)) < limit}
  BY <1>1, <1>3 DEF PageOf, BelowOf
<1>5. ASSUME NEW low \in page, NEW row \in below, low.sequence <= row.sequence
      PROVE  row \in page
  <2>1. Above(row) \in SUBSET Above(low)
    BY <1>2, <1>4, <1>5
  <2>2. Above(low) \in SUBSET below
    OBVIOUS
  <2>3. PICK A, B : A = Above(row) /\ B = Above(low)
    OBVIOUS
  <2>4. IsFiniteSet(B) /\ IsFiniteSet(A) /\ Cardinality(A) <= Cardinality(B)
    BY <1>2, <2>1, <2>2, <2>3, FS_Subset
  <2>5. Cardinality(A) \in Nat /\ Cardinality(B) \in Nat
    BY <2>4, FS_CardinalityType
  <2>6. Cardinality(B) < limit
    BY <1>4, <2>3
  <2> QED
    BY <1>4, <2>3, <2>4, <2>5, <2>6
<1>6. ASSUME below # {}
      PROVE  page # {}
  <2>1. PICK gaps : gaps = {before - row.sequence : row \in below}
    OBVIOUS
  <2>2. gaps \in SUBSET Nat /\ gaps # {}
    BY <1>2, <1>6, <2>1
  <2>3. PICK least \in gaps : \A gap \in gaps : least <= gap
    BY <2>2, LeastNumber
  <2>4. PICK top \in below : least = before - top.sequence
    BY <2>1, <2>3
  <2>5. ASSUME NEW other \in below
        PROVE  ~(other.sequence > top.sequence)
    BY <1>2, <2>1, <2>3, <2>4
  <2>6. Above(top) = {}
    BY <2>5
  <2>7. Cardinality(Above(top)) = 0
    BY <2>6, FS_EmptySet
  <2> QED
    BY <1>4, <2>7
<1>7. PICK next : next = NextCursor(rows, before, limit)
  OBVIOUS
<1>8. CASE page = below
  <2>1. next = 0
    BY <1>1, <1>3, <1>7, <1>8 DEF NextCursor, BelowOf
  <2>2. \A row \in page : 0 <= row.sequence
    BY <1>2, <1>4
  <2> QED
    BY <1>1, <1>3, <1>7, <1>8, <2>1, <2>2 DEF PagePromise
<1>9. CASE page # below
  <2>1. page \subseteq below
    BY <1>4
  <2>2. PICK numbers : numbers = {row.sequence : row \in page}
    OBVIOUS
  <2>3. numbers \in SUBSET Nat /\ numbers # {}
    BY <1>2, <1>6, <1>9, <2>1, <2>2
  <2>4. next = CHOOSE s \in numbers : \A row \in page : s <= row.sequence
    BY <1>1, <1>3, <1>7, <1>9, <2>2 DEF NextCursor, BelowOf
  <2>5. \E s \in numbers : \A row \in page : s <= row.sequence
    BY <2>2, <2>3, LeastNumber
  <2>6. next \in numbers /\ \A row \in page : next <= row.sequence
    BY <2>4, <2>5
  <2>7. PICK low \in page : low.sequence = next
    BY <2>2, <2>6
  <2>8. \A row \in below : next <= row.sequence => row \in page
    BY <1>5, <2>7
  <2> QED
    BY <1>1, <1>3, <1>7, <1>9, <2>1, <2>3, <2>6, <2>7, <2>8 DEF PagePromise
<1> QED
  BY <1>8, <1>9

\* A page of events has no gap, so the service never refuses one.
LEMMA EventPagesContiguous ==
  ASSUME ChainInv, NEW status, NEW before \in 1 .. Len(events) + 1, NEW page, NEW next,
         PagePromise(RowsOf("events", status), before, page, next)
  PROVE  ContiguousPage(page, before, next)
<1>1. PICK n : n = Len(events)
  OBVIOUS
<1>2. n \in Nat /\ DOMAIN events = 1 .. n /\ Len(head) = n
  BY <1>1, ListedLength DEF ChainInv
<1>3. PICK rows : rows = RowsOf("events", status)
  OBVIOUS
<1>4. rows = {[record |-> events[i], sequence |-> i] : i \in 1 .. n}
  BY <1>2, <1>3 DEF RowsOf
<1>5. PICK top : top = before - 1
  OBVIOUS
<1>6. top \in 0 .. n /\ before = top + 1
  BY <1>1, <1>2, <1>5
<1>7. next \in Nat /\ \A row \in page : row \in rows /\ row.sequence \in 1 .. top /\ next <= row.sequence
  BY <1>2, <1>3, <1>4, <1>6 DEF PagePromise, BelowOf
<1>8. ASSUME NEW i \in 1 .. top, next <= i
      PROVE  \E row \in page : row.sequence = i
  <2>1. PICK row : row = [record |-> events[i], sequence |-> i]
    OBVIOUS
  <2>2. i \in 1 .. n /\ i < before
    BY <1>2, <1>6, <1>8
  <2>3. row \in rows /\ row.sequence = i
    BY <1>4, <2>1, <2>2
  <2>4. row \in BelowOf(rows, before)
    BY <2>2, <2>3 DEF BelowOf
  <2> QED
    BY <1>3, <1>8, <2>3, <2>4 DEF PagePromise
<1>9. PICK bottom : bottom = IF next = 0 THEN 1 ELSE next
  OBVIOUS
<1>10. bottom \in Nat \ {0} /\ bottom <= top + 1
  <2>1. CASE next # 0
    <3>1. \E row \in page : row.sequence = next
      BY <2>1 DEF PagePromise
    <3> QED
      BY <1>6, <1>7, <1>9, <2>1, <3>1
  <2>2. CASE next = 0
    <3>1. bottom = 1 /\ top \in Nat
      BY <1>2, <1>6, <1>9, <2>2
    <3> QED
      BY <3>1
  <2> QED
    BY <2>1, <2>2
<1>11. {row.sequence : row \in page} = bottom .. top
  <2>1. ASSUME NEW row \in page
        PROVE  row.sequence \in bottom .. top
    BY <1>6, <1>7, <1>9, <1>10
  <2>2. ASSUME NEW i \in bottom .. top
        PROVE  i \in {row.sequence : row \in page}
    <3>1. i \in 1 .. top /\ next <= i
      BY <1>6, <1>7, <1>9, <1>10
    <3> QED
      BY <1>8, <3>1
  <2> QED
    BY <2>1, <2>2
<1>12. Cardinality(page) = top - bottom + 1
  <2>1. PICK f : f = [row \in page |-> row.sequence]
    OBVIOUS
  <2>2. PICK span : span = bottom .. top
    OBVIOUS
  <2>3. \A row, other \in page : row.sequence = other.sequence => row = other
    BY <1>4, <1>7
  <2>4. f \in [page -> span] /\ IsInjective(f) /\ \A i \in span : \E row \in page : f[row] = i
    BY <1>11, <2>1, <2>2, <2>3 DEF IsInjective
  <2>5. f \in Injection(page, span) /\ f \in Surjection(page, span)
    BY <2>4 DEF Injection, Surjection
  <2>6. IsFiniteSet(span) /\ Cardinality(span) = IF bottom > top THEN 0 ELSE top - bottom + 1
    BY <1>6, <1>10, <2>2, FS_Interval
  <2>7. IsFiniteSet(page) /\ Cardinality(page) = Cardinality(span)
    BY <2>5, <2>6, FS_Injection
  <2> QED
    BY <1>6, <1>10, <2>6, <2>7
<1>13. ASSUME next # 0
       PROVE  next > 1
  <2>1. ASSUME next = 1
        PROVE  BelowOf(rows, before) \subseteq page
    <3>1. \A row \in BelowOf(rows, before) : next <= row.sequence
      BY <1>4, <2>1 DEF BelowOf
    <3> QED
      BY <1>3, <3>1 DEF PagePromise
  <2>2. next # 1
    BY <1>3, <1>13, <2>1 DEF PagePromise
  <2> QED
    BY <1>7, <1>13, <2>2
<1>14. (IF before - 1 < Len(head) THEN before - 1 ELSE Len(head)) = top
  BY <1>2, <1>5, <1>6
<1>15. top - Cardinality(page) + 1 = bottom
  BY <1>6, <1>10, <1>12
<1>16. IF next = 0 THEN bottom <= 1 ELSE next = bottom /\ bottom > 1
  BY <1>9, <1>13
<1> QED
  BY <1>11, <1>14, <1>15, <1>16 DEF ContiguousPage

PagedTables == {"events", "cases", "investigations"}

\* The pair p was shown of a table: its item is still there, now at the same event or
\* at a later one.
ShownOf(table, p) ==
    /\ p[2] \in Nat
    /\ table = "events" => p[1] = p[2]
    /\ table = "cases" =>
         p[1] \in Cases /\ cases[p[1]] # <<>> /\ p[2] <= Last(cases[p[1]]).sequence
    /\ table = "investigations" =>
         /\ p[1] \in Investigations /\ investigations[p[1]] # <<>>
         /\ p[2] <= Last(investigations[p[1]]).sequence

\* What a walk knows at its cursor: items shown once, each at an event from the
\* cursor up, and every row of the table from the cursor up to where the walk
\* started was shown.
WalkAt(table, status, start, cursor, shown) ==
    /\ table \in PagedTables /\ Listed(shown)
    /\ start \in Nat /\ start <= Len(events)
    /\ cursor \in Nat /\ cursor <= start + 1
    /\ \A i, j \in DOMAIN shown : i # j => shown[i][1] # shown[j][1]
    /\ \A p \in Range(shown) : ShownOf(table, p) /\ cursor <= p[2]
    /\ \A row \in RowsOf(table, status) :
         cursor <= row.sequence /\ row.sequence <= start =>
           <<RowId(table, row), row.sequence>> \in Range(shown)

WalkInv ==
    walk.table # None => WalkAt(walk.table, walk.status, walk.start, walk.cursor, walk.shown)

\* The latest row of each case, and of each investigation, under its own name.
LEMMA LatestOf ==
  ASSUME ChainInv, TablesInv
  PROVE  /\ \A row \in LatestRows(cases) : \E c \in Cases :
              /\ cases[c] # <<>> /\ row = Last(cases[c]) /\ row.record.case_id = c
              /\ CaseRow(c, row)
         /\ \A row \in LatestRows(investigations) : \E i \in Investigations :
              /\ investigations[i] # <<>> /\ row = Last(investigations[i])
              /\ row.record.investigation_id = i /\ InvestigationRow(i, row)
<1>1. ASSUME NEW row \in LatestRows(cases)
      PROVE  \E c \in Cases : /\ cases[c] # <<>> /\ row = Last(cases[c])
                              /\ row.record.case_id = c /\ CaseRow(c, row)
  <2>1. PICK c \in Cases : cases[c] # <<>> /\ row = Last(cases[c])
    BY <1>1 DEF LatestRows, TablesInv
  <2>2. row \in Range(cases[c])
    BY <2>1, LastListed DEF TablesInv
  <2>3. CaseRow(c, row)
    BY <2>2 DEF TablesInv
  <2> QED
    BY <2>1, <2>3 DEF CaseRow
<1>2. ASSUME NEW row \in LatestRows(investigations)
      PROVE  \E i \in Investigations :
               /\ investigations[i] # <<>> /\ row = Last(investigations[i])
               /\ row.record.investigation_id = i /\ InvestigationRow(i, row)
  <2>1. PICK i \in Investigations : investigations[i] # <<>> /\ row = Last(investigations[i])
    BY <1>2 DEF LatestRows, TablesInv
  <2>2. row \in Range(investigations[i])
    BY <2>1, LastListed DEF TablesInv
  <2>3. InvestigationRow(i, row)
    BY <2>2 DEF TablesInv
  <2> QED
    BY <2>1, <2>3 DEF InvestigationRow
<1> QED
  BY <1>1, <1>2

\* Each row of a table is known by its event and by its id, and showing it now says
\* that its item is there.
RowsKnown(table, rows) ==
    /\ Numbered(rows, Len(events))
    /\ \A row, other \in rows : RowId(table, row) = RowId(table, other) => row = other
    /\ \A row \in rows : ShownOf(table, <<RowId(table, row), row.sequence>>)
    /\ \A row \in rows : \A p : ShownOf(table, p) /\ p[1] = RowId(table, row) => p[2] <= row.sequence

LEMMA TableRowsKnown ==
  ASSUME ChainInv, TablesInv, NEW table \in PagedTables, NEW status
  PROVE  RowsKnown(table, RowsOf(table, status))
<1>1. PICK n : n = Len(events)
  OBVIOUS
<1>2. n \in Nat /\ DOMAIN events = 1 .. n
  BY <1>1, ListedLength DEF ChainInv
<1>3. PICK rows : rows = RowsOf(table, status)
  OBVIOUS
<1>4. CASE table = "events"
  <2>1. rows = {[record |-> events[i], sequence |-> i] : i \in 1 .. n}
    BY <1>2, <1>3, <1>4 DEF RowsOf
  <2>2. /\ \A row \in rows : row.sequence \in 1 .. n /\ RowId(table, row) = row.sequence
        /\ \A row, other \in rows : row.sequence = other.sequence => row = other
    BY <1>4, <2>1 DEF RowId
  <2>3. ASSUME NEW row \in rows
        PROVE  /\ ShownOf(table, <<RowId(table, row), row.sequence>>)
               /\ \A p : ShownOf(table, p) /\ p[1] = RowId(table, row) => p[2] <= row.sequence
    BY <1>2, <1>4, <2>2 DEF ShownOf
  <2> QED
    BY <1>1, <1>3, <2>2, <2>3 DEF RowsKnown, Numbered
<1>5. CASE table = "cases"
  <2>1. rows = LatestRows(cases)
    BY <1>3, <1>5 DEF RowsOf
  <2>2. ASSUME NEW row \in rows
        PROVE  /\ row.record.case_id \in Cases /\ cases[row.record.case_id] # <<>>
               /\ row = Last(cases[row.record.case_id])
               /\ row.sequence \in 1 .. n /\ events[row.sequence].payload.record = row.record
               /\ RowId(table, row) = row.record.case_id
    <3>1. PICK c \in Cases : /\ cases[c] # <<>> /\ row = Last(cases[c])
                             /\ row.record.case_id = c /\ CaseRow(c, row)
      BY <2>1, LatestOf
    <3>2. row.sequence \in 1 .. n /\ events[row.sequence].payload.record = row.record
      BY <1>2, <3>1 DEF CaseRow, VerifiedCaseItem, RecordBound
    <3>3. RowId(table, row) = row.record.case_id
      BY <1>5 DEF RowId
    <3> QED
      BY <3>1, <3>2, <3>3
  <2>3. \A row, other \in rows : row.sequence = other.sequence => row = other
    BY <2>2
  <2>4. \A row, other \in rows : RowId(table, row) = RowId(table, other) => row = other
    BY <2>2
  <2>5. ASSUME NEW row \in rows
        PROVE  /\ ShownOf(table, <<RowId(table, row), row.sequence>>)
               /\ \A p : ShownOf(table, p) /\ p[1] = RowId(table, row) => p[2] <= row.sequence
    <3>1. row.sequence \in Nat /\ row.sequence <= row.sequence
      BY <1>2, <2>2
    <3> QED
      BY <1>5, <2>2, <3>1 DEF ShownOf
  <2> QED
    BY <1>1, <1>3, <2>2, <2>3, <2>4, <2>5 DEF RowsKnown, Numbered
<1>6. CASE table = "investigations"
  <2>1. rows \subseteq LatestRows(investigations)
    BY <1>3, <1>6 DEF RowsOf
  <2>2. ASSUME NEW row \in rows
        PROVE  /\ row.record.investigation_id \in Investigations
               /\ investigations[row.record.investigation_id] # <<>>
               /\ row = Last(investigations[row.record.investigation_id])
               /\ row.sequence \in 1 .. n /\ events[row.sequence].payload.record = row.record
               /\ RowId(table, row) = row.record.investigation_id
    <3>1. PICK i \in Investigations : /\ investigations[i] # <<>> /\ row = Last(investigations[i])
                                      /\ row.record.investigation_id = i /\ InvestigationRow(i, row)
      BY <2>1, LatestOf
    <3>2. row.sequence \in 1 .. n /\ events[row.sequence].payload.record = row.record
      BY <1>2, <3>1 DEF InvestigationRow, VerifiedInvestigationItem, RecordBound
    <3>3. RowId(table, row) = row.record.investigation_id
      BY <1>6 DEF RowId
    <3> QED
      BY <3>1, <3>2, <3>3
  <2>3. \A row, other \in rows : row.sequence = other.sequence => row = other
    BY <2>2
  <2>4. \A row, other \in rows : RowId(table, row) = RowId(table, other) => row = other
    BY <2>2
  <2>5. ASSUME NEW row \in rows
        PROVE  /\ ShownOf(table, <<RowId(table, row), row.sequence>>)
               /\ \A p : ShownOf(table, p) /\ p[1] = RowId(table, row) => p[2] <= row.sequence
    <3>1. row.sequence \in Nat /\ row.sequence <= row.sequence
      BY <1>2, <2>2
    <3> QED
      BY <1>6, <2>2, <3>1 DEF ShownOf
  <2> QED
    BY <1>1, <1>3, <2>2, <2>3, <2>4, <2>5 DEF RowsKnown, Numbered
<1> QED
  BY <1>4, <1>5, <1>6 DEF PagedTables

\* A walk over tables that rest is where it was.
LEMMA TablesRest ==
  ASSUME NEW table, NEW status, NEW start, NEW cursor, NEW shown,
         WalkAt(table, status, start, cursor, shown), UNCHANGED <<events, cases, investigations>>
  PROVE  WalkAt(table, status, start, cursor, shown)'
<1>1. RowsOf(table, status)' = RowsOf(table, status)
  BY DEF RowsOf, LatestRows
<1>2. \A p : ShownOf(table, p) => ShownOf(table, p)'
  BY DEF ShownOf
<1> QED
  BY <1>1, <1>2 DEF WalkAt, RowId

\* A walk reads on: the page has what was next, and nothing that was shown.
LEMMA WalkReadsOn ==
  ASSUME ApplicationAssumption, ChainInv, TablesInv,
         NEW table, NEW status, NEW start, NEW cursor, NEW shown,
         WalkAt(table, status, start, cursor, shown), cursor # 0,
         ReadPage(table, status, start, cursor, shown)
  PROVE  WalkInv'
<1>1. PICK rows : rows = RowsOf(table, status)
  OBVIOUS
<1>2. PICK page, next : page = PageOf(rows, cursor, PageSize) /\ next = NextCursor(rows, cursor, PageSize)
  OBVIOUS
<1>3. /\ table \in PagedTables /\ Listed(shown) /\ cursor \in Nat \ {0}
      /\ start \in Nat /\ start <= Len(events) /\ cursor <= start + 1
  BY DEF WalkAt
<1>4. Len(events) \in Nat
  BY ListedLength DEF ChainInv
<1>5. RowsKnown(table, rows)
  BY <1>1, <1>3, TableRowsKnown
<1>6. Numbered(rows, Len(events)) /\ \A row \in rows : row.sequence \in Nat
  BY <1>4, <1>5 DEF RowsKnown, Numbered
<1>7. PagePromise(rows, cursor, page, next)
  <2>1. PageSize \in Nat \ {0}
    BY DEF ApplicationAssumption
  <2> QED
    BY <1>2, <1>3, <1>4, <1>6, <2>1, PageKeepsPromise
<1>8. /\ page \subseteq rows /\ \A row \in page : row.sequence < cursor /\ next <= row.sequence
      /\ next \in Nat /\ next < cursor
      /\ \A row \in rows : row.sequence < cursor /\ next <= row.sequence => row \in page
  <2>1. /\ page \subseteq BelowOf(rows, cursor) /\ next \in Nat
        /\ \A row \in page : next <= row.sequence
        /\ \A row \in BelowOf(rows, cursor) : next <= row.sequence => row \in page
        /\ next # 0 => \E row \in page : row.sequence = next
    BY <1>7 DEF PagePromise
  <2>2. \A row \in page : row \in rows /\ row.sequence < cursor
    BY <2>1 DEF BelowOf
  <2>3. next < cursor
    BY <1>3, <2>1, <2>2
  <2> QED
    BY <2>1, <2>2, <2>3 DEF BelowOf
<1>9. ~(table = "events" /\ ~ContiguousPage(page, cursor, next))
  <2>1. cursor \in 1 .. Len(events) + 1
    BY <1>3, <1>4
  <2> QED
    BY <1>1, <1>7, <2>1, EventPagesContiguous
<1>10. PICK pairs : pairs = {<<RowId(table, row), row.sequence>> : row \in page}
  OBVIOUS
<1>11. PICK new : new = SetToSeq(pairs)
  OBVIOUS
<1>12. IsFiniteSet(pairs)
  <2>1. IsFiniteSet(page)
    BY <1>4, <1>6, <1>8, NumberedFinite, FS_Subset
  <2>2. PICK f : f = [row \in page |-> <<RowId(table, row), row.sequence>>]
    OBVIOUS
  <2>3. f \in Surjection(page, pairs)
    BY <1>10, <2>2 DEF Surjection
  <2> QED
    BY <2>1, <2>3, FS_Surjection
<1>13. Listed(new) /\ Range(new) = pairs /\ \A i, j \in DOMAIN new : i # j => new[i] # new[j]
  BY <1>11, <1>12, SetAsSequence
<1>14. PICK all : all = shown \o new
  OBVIOUS
<1>15. /\ Listed(all) /\ Range(all) = Range(shown) \cup pairs
       /\ \A i, j \in DOMAIN all : i # j => all[i][1] # all[j][1]
  <2>1. PICK m, k : m = Len(shown) /\ k = Len(new)
    OBVIOUS
  <2>2. /\ Listed(all) /\ Range(all) = Range(shown) \cup pairs /\ m \in Nat /\ k \in Nat
        /\ DOMAIN shown = 1 .. m /\ DOMAIN new = 1 .. k /\ DOMAIN all = 1 .. m + k
        /\ \A i \in 1 .. m : all[i] = shown[i]
        /\ \A i \in 1 .. k : all[m + i] = new[i]
    BY <1>3, <1>13, <1>14, <2>1, Joined
  <2>3. ASSUME NEW i \in 1 .. m, NEW j \in 1 .. k
        PROVE  shown[i][1] # new[j][1]
    <3>0. new[j] \in pairs
      BY <1>13, <2>2 DEF Range
    <3>1. PICK row \in page : new[j] = <<RowId(table, row), row.sequence>>
      BY <1>10, <3>0
    <3>2. PICK p : p = shown[i]
      OBVIOUS
    <3>3. p \in Range(shown)
      BY <2>2, <3>2 DEF Range
    <3>4. ShownOf(table, p) /\ cursor <= p[2] /\ p[2] \in Nat
      BY <3>3 DEF WalkAt, ShownOf
    <3>5. p[1] # RowId(table, row)
      BY <1>3, <1>5, <1>6, <1>8, <3>4 DEF RowsKnown
    <3> QED
      BY <3>1, <3>2, <3>5
  <2>4. ASSUME NEW i \in 1 .. k, NEW j \in 1 .. k, i # j
        PROVE  new[i][1] # new[j][1]
    <3>0. new[i] \in pairs /\ new[j] \in pairs
      BY <1>13, <2>2 DEF Range
    <3>1. PICK row \in page : new[i] = <<RowId(table, row), row.sequence>>
      BY <1>10, <3>0
    <3>2. PICK other \in page : new[j] = <<RowId(table, other), other.sequence>>
      BY <1>10, <3>0
    <3>3. row # other
      <4>1. i \in DOMAIN new /\ j \in DOMAIN new
        BY <2>2
      <4>2. new[i] # new[j]
        BY <1>13, <2>4, <4>1
      <4> QED
        BY <3>1, <3>2, <4>2
    <3>4. RowId(table, row) # RowId(table, other)
      BY <1>5, <1>8, <3>3 DEF RowsKnown
    <3> QED
      BY <3>1, <3>2, <3>4
  <2>5. \A i, j \in 1 .. m : i # j => shown[i][1] # shown[j][1]
    BY <2>2 DEF WalkAt
  <2>6. ASSUME NEW i \in 1 .. m + k
        PROVE  i \in 1 .. m \/ \E j \in 1 .. k : i = m + j
    <3>1. CASE i > m
      <4>1. i - m \in 1 .. k /\ i = m + (i - m)
        BY <2>2, <3>1
      <4> QED
        BY <4>1
    <3> QED
      BY <2>2, <3>1
  <2>7. ASSUME NEW i \in 1 .. m + k, NEW j \in 1 .. m + k, i # j
        PROVE  all[i][1] # all[j][1]
    <3>1. CASE i \in 1 .. m /\ j \in 1 .. m
      BY <2>2, <2>5, <2>7, <3>1
    <3>2. ASSUME i \in 1 .. m, NEW y \in 1 .. k, j = m + y
          PROVE  all[i][1] # all[j][1]
      <4>1. all[i] = shown[i] /\ all[j] = new[y] /\ shown[i][1] # new[y][1]
        BY <2>2, <2>3, <3>2
      <4> QED
        BY <4>1
    <3>3. ASSUME NEW x \in 1 .. k, i = m + x, j \in 1 .. m
          PROVE  all[i][1] # all[j][1]
      <4>1. all[i] = new[x] /\ all[j] = shown[j] /\ shown[j][1] # new[x][1]
        BY <2>2, <2>3, <3>3
      <4> QED
        BY <4>1
    <3>4. ASSUME NEW x \in 1 .. k, i = m + x, NEW y \in 1 .. k, j = m + y
          PROVE  all[i][1] # all[j][1]
      BY <2>2, <2>4, <2>7, <3>4
    <3> QED
      BY <2>6, <3>1, <3>2, <3>3, <3>4
  <2> QED
    BY <2>2, <2>7
<1>16. \A p \in Range(all) : ShownOf(table, p) /\ next <= p[2]
  <2>1. ASSUME NEW p \in Range(shown)
        PROVE  ShownOf(table, p) /\ next <= p[2]
    <3>1. ShownOf(table, p) /\ cursor <= p[2] /\ p[2] \in Nat
      BY DEF WalkAt, ShownOf
    <3> QED
      BY <1>3, <1>8, <3>1
  <2>2. ASSUME NEW p \in pairs
        PROVE  ShownOf(table, p) /\ next <= p[2]
    BY <1>5, <1>8, <1>10 DEF RowsKnown
  <2> QED
    BY <1>15, <2>1, <2>2
<1>17. ASSUME NEW row \in rows, next <= row.sequence, row.sequence <= start
       PROVE  <<RowId(table, row), row.sequence>> \in Range(all)
  <2>1. CASE cursor <= row.sequence
    BY <1>1, <1>15, <1>17, <2>1 DEF WalkAt
  <2>2. CASE ~(cursor <= row.sequence)
    <3>1. row.sequence < cursor
      BY <1>3, <1>6, <2>2
    <3>2. row \in page
      BY <1>8, <1>17, <3>1
    <3> QED
      BY <1>10, <1>15, <3>2
  <2> QED
    BY <2>1, <2>2
<1>18. WalkAt(table, status, start, next, all)
  <2>1. next <= start + 1
    BY <1>3, <1>8
  <2> QED
    BY <1>1, <1>3, <1>8, <1>15, <1>16, <1>17, <2>1 DEF WalkAt
<1>19. /\ walk'.table = table /\ walk'.status = status /\ walk'.start = start
       /\ walk'.cursor = next /\ walk'.shown = all
       /\ UNCHANGED <<events, cases, investigations>>
  BY <1>1, <1>2, <1>9, <1>10, <1>11, <1>14 DEF ReadPage, storeVars, ledgerVars
<1>20. WalkAt(table, status, start, next, all)'
  BY <1>18, <1>19, TablesRest
<1> QED
  BY <1>19, <1>20 DEF WalkInv

\* An event leaves the rows up to it as they are, but for the one it takes the place of.
LEMMA RowsGrow ==
  ASSUME ChainInv, TablesInv, NEW e, Appended(e), NEW table \in PagedTables, NEW status
  PROVE  /\ \A row \in RowsOf(table, status)' :
              row.sequence \in Nat /\ (row.sequence <= Len(events) => row \in RowsOf(table, status))
         /\ \A p : ShownOf(table, p) => ShownOf(table, p)'
<1>1. AppendEvent(e, head, FALSE) /\ Grown(e) /\ e.sequence = Len(events) + 1
  BY TablesGrow, AppendGrows
<1>2. PICK n : n = Len(events)
  OBVIOUS
<1>3. /\ n \in Nat /\ DOMAIN events = 1 .. n /\ DOMAIN events' = 1 .. n + 1
      /\ \A i \in 1 .. n : events'[i] = events[i]
  BY <1>1, <1>2 DEF Grown
<1> DEFINE Kept(rows, after) ==
      /\ DOMAIN after = DOMAIN rows
      /\ \A id \in DOMAIN rows : rows[id] # <<>> => after[id] # <<>>
      /\ \A id \in DOMAIN rows : after[id] # rows[id] => Last(after[id]).sequence = n + 1
      /\ \A id \in DOMAIN rows : after[id] # rows[id] => after[id] # <<>>
<1>4. Kept(cases, cases') /\ Kept(investigations, investigations')
  <2>1. CASE UNCHANGED <<cases, investigations>>
    BY <2>1
  <2>2. ASSUME NEW r, CaseAppended(e, r), UNCHANGED investigations,
               cases' = [cases EXCEPT ![r.case_id] = Append(cases[r.case_id], Row(r, e))]
        PROVE  Kept(cases, cases') /\ Kept(investigations, investigations')
    <3>1. PICK id \in Cases : id = r.case_id
      BY <2>2 DEF CaseAppended
    <3>2. PICK new : new = Row(r, e)
      OBVIOUS
    <3>3. new.sequence = n + 1
      BY <1>1, <1>2, <3>2 DEF Row
    <3>4. DOMAIN cases = Cases /\ Listed(cases[id])
      BY <3>1 DEF TablesInv
    <3>5. Append(cases[id], new) # <<>> /\ Last(Append(cases[id], new)) = new
      BY <3>4, AppendRange
    <3>6. /\ DOMAIN cases' = DOMAIN cases /\ cases'[id] = Append(cases[id], new)
          /\ \A c \in DOMAIN cases : c # id => cases'[c] = cases[c]
      BY <2>2, <3>1, <3>2, <3>4
    <3> QED
      BY <2>2, <3>3, <3>5, <3>6
  <2>3. ASSUME NEW r, InvestigationAppended(e, r), UNCHANGED cases,
               investigations' = [investigations EXCEPT ![r.investigation_id] =
                                    Append(investigations[r.investigation_id], Row(r, e))]
        PROVE  Kept(cases, cases') /\ Kept(investigations, investigations')
    <3>1. PICK id \in Investigations : id = r.investigation_id
      BY <2>3 DEF InvestigationAppended
    <3>2. PICK new : new = Row(r, e)
      OBVIOUS
    <3>3. new.sequence = n + 1
      BY <1>1, <1>2, <3>2 DEF Row
    <3>4. DOMAIN investigations = Investigations /\ Listed(investigations[id])
      BY <3>1 DEF TablesInv
    <3>5. Append(investigations[id], new) # <<>> /\ Last(Append(investigations[id], new)) = new
      BY <3>4, AppendRange
    <3>6. /\ DOMAIN investigations' = DOMAIN investigations
          /\ investigations'[id] = Append(investigations[id], new)
          /\ \A i \in DOMAIN investigations : i # id => investigations'[i] = investigations[i]
      BY <2>3, <3>1, <3>2, <3>4
    <3> QED
      BY <2>3, <3>3, <3>5, <3>6
  <2> QED
    BY <2>1, <2>2, <2>3, TablesGrow
<1> DEFINE Placed(rows) == \A id \in DOMAIN rows : rows[id] # <<>> => Last(rows[id]).sequence \in 1 .. n
<1>5. Placed(cases) /\ Placed(investigations)
  <2>1. ASSUME NEW id \in DOMAIN cases, cases[id] # <<>>
        PROVE  Last(cases[id]).sequence \in 1 .. n
    <3>1. id \in Cases /\ Last(cases[id]) \in Range(cases[id])
      BY <2>1, LastListed DEF TablesInv
    <3>2. CaseRow(id, Last(cases[id]))
      BY <3>1 DEF TablesInv
    <3> QED
      BY <1>3, <3>2 DEF CaseRow, VerifiedCaseItem
  <2>2. ASSUME NEW id \in DOMAIN investigations, investigations[id] # <<>>
        PROVE  Last(investigations[id]).sequence \in 1 .. n
    <3>1. id \in Investigations /\ Last(investigations[id]) \in Range(investigations[id])
      BY <2>2, LastListed DEF TablesInv
    <3>2. InvestigationRow(id, Last(investigations[id]))
      BY <3>1 DEF TablesInv
    <3> QED
      BY <1>3, <3>2 DEF InvestigationRow, VerifiedInvestigationItem
  <2> QED
    BY <2>1, <2>2
<1>6. ASSUME NEW rows, NEW after, Kept(rows, after), Placed(rows), NEW row \in LatestRows(after)
      PROVE  row.sequence \in Nat /\ (row.sequence <= n => row \in LatestRows(rows))
  <2>1. PICK id \in DOMAIN after : after[id] # <<>> /\ row = Last(after[id])
    BY <1>6 DEF LatestRows
  <2>2. CASE after[id] = rows[id]
    <3>1. row \in LatestRows(rows)
      BY <1>6, <2>1, <2>2 DEF LatestRows
    <3>2. row.sequence \in 1 .. n
      BY <1>6, <2>1, <2>2
    <3> QED
      BY <3>1, <3>2
  <2>3. CASE after[id] # rows[id]
    <3>1. row.sequence = n + 1
      BY <1>6, <2>1, <2>3
    <3> QED
      BY <1>3, <3>1
  <2> QED
    BY <2>2, <2>3
<1>7. ASSUME NEW row \in RowsOf(table, status)'
      PROVE  row.sequence \in Nat /\ (row.sequence <= n => row \in RowsOf(table, status))
  <2>1. CASE table = "events"
    <3>1. PICK i \in 1 .. n + 1 : row = [record |-> events'[i], sequence |-> i]
      BY <1>3, <1>7, <2>1 DEF RowsOf
    <3>2. ASSUME i <= n
          PROVE  row \in RowsOf(table, status)
      <4>1. i \in 1 .. n
        BY <1>3, <3>2
      <4> QED
        BY <1>3, <2>1, <3>1, <4>1 DEF RowsOf
    <3>3. row.sequence = i /\ i \in Nat
      BY <1>3, <3>1
    <3> QED
      BY <3>2, <3>3
  <2>2. CASE table = "cases"
    <3>1. row \in LatestRows(cases')
      BY <1>7, <2>2 DEF RowsOf, LatestRows
    <3>2. row.sequence \in Nat /\ (row.sequence <= n => row \in LatestRows(cases))
      BY <1>4, <1>5, <1>6, <3>1
    <3> QED
      BY <2>2, <3>2 DEF RowsOf
  <2>3. CASE table = "investigations"
    <3>1. row \in LatestRows(investigations') /\ (status # None => row.record.status = status)
      BY <1>7, <2>3 DEF RowsOf, LatestRows
    <3>2. row.sequence \in Nat /\ (row.sequence <= n => row \in LatestRows(investigations))
      BY <1>4, <1>5, <1>6, <3>1
    <3> QED
      BY <2>3, <3>1, <3>2 DEF RowsOf
  <2> QED
    BY <2>1, <2>2, <2>3 DEF PagedTables
<1>8. ASSUME NEW rows, NEW after, Kept(rows, after), Placed(rows),
             NEW id \in DOMAIN rows, rows[id] # <<>>, NEW s \in Nat, s <= Last(rows[id]).sequence
      PROVE  after[id] # <<>> /\ s <= Last(after[id]).sequence
  <2>1. CASE after[id] = rows[id]
    BY <1>8, <2>1
  <2>2. CASE after[id] # rows[id]
    <3>1. Last(after[id]).sequence = n + 1 /\ after[id] # <<>>
      BY <1>8, <2>2
    <3>2. Last(rows[id]).sequence \in 1 .. n
      BY <1>8
    <3> QED
      BY <1>3, <1>8, <3>1, <3>2
  <2> QED
    BY <2>1, <2>2
<1>9. ASSUME NEW p, ShownOf(table, p)
      PROVE  ShownOf(table, p)'
  <2>1. CASE table = "events"
    BY <1>9, <2>1 DEF ShownOf
  <2>2. CASE table = "cases"
    <3>1. PICK id : id = p[1]
      OBVIOUS
    <3>2. id \in Cases /\ cases[id] # <<>> /\ p[2] \in Nat /\ p[2] <= Last(cases[id]).sequence
      BY <1>9, <2>2, <3>1 DEF ShownOf
    <3>3. id \in DOMAIN cases
      BY <3>2 DEF TablesInv
    <3>4. cases'[id] # <<>> /\ p[2] <= Last(cases'[id]).sequence
      BY <1>4, <1>5, <1>8, <3>2, <3>3
    <3> QED
      BY <2>2, <3>1, <3>2, <3>4 DEF ShownOf
  <2>3. CASE table = "investigations"
    <3>1. PICK id : id = p[1]
      OBVIOUS
    <3>2. /\ id \in Investigations /\ investigations[id] # <<>> /\ p[2] \in Nat
          /\ p[2] <= Last(investigations[id]).sequence
      BY <1>9, <2>3, <3>1 DEF ShownOf
    <3>3. id \in DOMAIN investigations
      BY <3>2 DEF TablesInv
    <3>4. investigations'[id] # <<>> /\ p[2] <= Last(investigations'[id]).sequence
      BY <1>4, <1>5, <1>8, <3>2, <3>3
    <3> QED
      BY <2>3, <3>1, <3>2, <3>4 DEF ShownOf
  <2> QED
    BY <2>1, <2>2, <2>3 DEF PagedTables
<1> QED
  BY <1>2, <1>7, <1>9

\* A walk that does not move while the ledger stands or grows.
LEMMA WalkStands ==
  ASSUME ChainInv, TablesInv, WalkInv, UNCHANGED walk, LedgerStands \/ \E e : Appended(e)
  PROVE  WalkInv'
<1>1. CASE walk.table = None
  BY <1>1 DEF WalkInv
<1>2. CASE walk.table # None
  <2>1. PICK table, status, start, cursor, shown :
          /\ table = walk.table /\ status = walk.status /\ start = walk.start
          /\ cursor = walk.cursor /\ shown = walk.shown
    OBVIOUS
  <2>2. WalkAt(table, status, start, cursor, shown)
    BY <1>2, <2>1 DEF WalkInv
  <2>3. CASE LedgerStands
    <3>1. UNCHANGED <<events, cases, investigations>>
      BY <2>3 DEF LedgerStands, ledgerVars
    <3>2. WalkAt(table, status, start, cursor, shown)'
      BY <2>2, <3>1, TablesRest
    <3> QED
      BY <2>1, <3>2 DEF WalkInv
  <2>4. ASSUME NEW e, Appended(e)
        PROVE  WalkInv'
    <3>1. Grown(e) /\ Len(events) \in Nat
      BY <2>4, TablesGrow, AppendGrows
    <3>2. table \in PagedTables /\ start \in Nat /\ start <= Len(events)
      BY <2>2 DEF WalkAt
    <3>3. /\ \A row \in RowsOf(table, status)' :
               row.sequence \in Nat /\ (row.sequence <= Len(events) => row \in RowsOf(table, status))
          /\ \A p : ShownOf(table, p) => ShownOf(table, p)'
      BY <2>4, <3>2, RowsGrow
    <3>4. start <= Len(events)'
      BY <3>1, <3>2 DEF Grown
    <3>5. ASSUME NEW row \in RowsOf(table, status)', cursor <= row.sequence, row.sequence <= start
          PROVE  <<RowId(table, row), row.sequence>> \in Range(shown)
      <4>1. row.sequence <= Len(events)
        BY <3>1, <3>2, <3>3, <3>5
      <4> QED
        BY <2>2, <3>3, <3>5, <4>1 DEF WalkAt
    <3>6. WalkAt(table, status, start, cursor, shown)'
      BY <2>2, <3>2, <3>3, <3>4, <3>5 DEF WalkAt, RowId
    <3> QED
      BY <2>1, <3>6 DEF WalkInv
  <2> QED
    BY <2>3, <2>4
<1> QED
  BY <1>1, <1>2

\* The steps of the service, the operator and the readers on a walk.
LEMMA WalkStep ==
  ASSUME TeamAssumptions, TeamInv, WalkInv, [Next]_vars
  PROVE  WalkInv'
<1>1. ChainInv /\ TablesInv
  BY DEF TeamInv, StoreInv
<1>2. ASSUME UNCHANGED <<ledgerVars, walk>>
      PROVE  WalkInv'
  BY <1>1, <1>2, WalkStands DEF LedgerStands
<1>3. ASSUME NEW w \in Workers, Commit(w)
      PROVE  WalkInv'
  <2>1. PICK c, e : c = work[w] /\ e = c.event[1]
    OBVIOUS
  <2>2. Appended(e) /\ UNCHANGED walk
    BY <1>3, <2>1, CommitAppends DEF TeamAssumptions, TeamInv, StoreInv
  <2> QED
    BY <1>1, <2>2, WalkStands
<1>4. ASSUME AppendDraft
      PROVE  WalkInv'
  <2>1. PICK e : e = draft[1]
    OBVIOUS
  <2>2. /\ AppendPlainEvent(e, e.previous, FALSE) /\ UNCHANGED appVars /\ draft # <<>>
    BY <1>4, <2>1 DEF AppendDraft
  <2>3. e.event_id = <<"event", "cli", 1>>
    BY <2>1, <2>2 DEF TeamInv, DraftInv
  <2>4. AppendPlainEvent(e, head, FALSE)
    BY <2>2 DEF AppendPlainEvent, AppendEvent
  <2>5. ~FromMutation(e)
    BY <2>3, OperatorsOwn
  <2>6. Appended(e)
    BY <2>4, <2>5, Zenon DEF PlainAppended, Appended
  <2> QED
    BY <1>1, <2>2, <2>6, WalkStands DEF appVars
<1>5. ASSUME NextPage
      PROVE  WalkInv'
  <2>1. PICK table, status, start, cursor, shown :
          /\ table = walk.table /\ status = walk.status /\ start = walk.start
          /\ cursor = walk.cursor /\ shown = walk.shown
    OBVIOUS
  <2>2. table # None /\ cursor # 0 /\ ReadPage(table, status, start, cursor, shown)
    BY <1>5, <2>1 DEF NextPage
  <2>3. WalkAt(table, status, start, cursor, shown)
    BY <2>1, <2>2 DEF WalkInv
  <2> QED
    BY <1>1, <2>2, <2>3, WalkReadsOn DEF TeamAssumptions
<1>6. ASSUME NEW pair \in agenda.walks, FirstPage(pair[1], pair[2])
      PROVE  WalkInv'
  <2>1. PICK table, status, start, cursor :
          table = pair[1] /\ status = pair[2] /\ start = Len(head) /\ cursor = Len(head) + 1
    OBVIOUS
  <2>2. ReadPage(table, status, start, cursor, <<>>)
    BY <1>6, <2>1 DEF FirstPage
  <2>3. table \in PagedTables
    BY <1>6, <2>1 DEF TeamAssumptions, ApplicationAssumption, TeamInv, ClockInv, PagedTables
  <2>4. start \in Nat /\ start = Len(events) /\ cursor = start + 1
    BY <1>1, <2>1, ListedLength DEF ChainInv
  <2>5. Listed(<<>>) /\ DOMAIN <<>> = {} /\ Range(<<>>) = {}
    BY DEF Listed, Range
  <2>6. ASSUME NEW row \in RowsOf(table, status)
        PROVE  ~(cursor <= row.sequence /\ row.sequence <= start)
    <3>1. row.sequence \in 1 .. start
      BY <1>1, <2>3, <2>4, TableRowsKnown DEF RowsKnown, Numbered
    <3> QED
      BY <2>4, <3>1
  <2>7. WalkAt(table, status, start, cursor, <<>>)
    BY <2>3, <2>4, <2>5, <2>6 DEF WalkAt
  <2>8. cursor # 0
    BY <2>4
  <2> QED
    BY <1>1, <2>2, <2>7, <2>8, WalkReadsOn DEF TeamAssumptions
<1>7. CASE UNCHANGED vars
  BY <1>2, <1>7 DEF vars, appVars, storeVars
<1>8. CASE Next
  <2>1. ASSUME NEW w \in Workers, \/ \E q \in unsent : Send(w, q)
                                  \/ ReadSnapshot(w) \/ PrepareSteps(w) \/ Abandon(w)
        PROVE  UNCHANGED <<ledgerVars, walk>>
    BY <2>1 DEF Send, ReadSnapshot, Abandon, PrepareSteps, PreparePublish, PrepareOpen,
                PrepareAttach, PrepareTransition, PrepareAction, PrepareMutation, storeVars
  <2>2. ASSUME (\E w \in Workers : ExportLedger(w)) \/ ExportWithDraft
        PROVE  UNCHANGED <<ledgerVars, walk>>
    BY <2>2 DEF ExportLedger, ExportWithDraft, CreateExport, appVars
  <2>3. ASSUME NEW doc \in PolicyDocs, PolicyPut(doc) \/ DraftEvent(doc)
        PROVE  UNCHANGED <<ledgerVars, walk>>
    BY <2>3 DEF PolicyPut, PutPolicy, DraftEvent, appVars, storeVars
  <2>4. ASSUME NEW o \in BackupOperators, Backup(o)
        PROVE  UNCHANGED <<ledgerVars, walk>>
    BY <2>4 DEF Backup, ReserveBackup, CopySnapshot, ReplaceDestination, FailBackup, CrashBackup, appVars
  <2>5. ASSUME NEW p \in Initializers, Initialize(p)
        PROVE  UNCHANGED <<ledgerVars, walk>>
    BY <2>5 DEF Initialize, ReadVersion, BringToVersion3, appVars
  <2>6. ASSUME Tick
        PROVE  UNCHANGED <<ledgerVars, walk>>
    BY <2>6 DEF Tick, storeVars
  <2>7. \/ \E w \in Workers : \/ \E q \in unsent : Send(w, q)
                              \/ ReadSnapshot(w) \/ PrepareSteps(w) \/ Abandon(w)
        \/ \E w \in Workers : Commit(w)
        \/ (\E w \in Workers : ExportLedger(w)) \/ ExportWithDraft
        \/ (\E doc \in PolicyDocs : PolicyPut(doc) \/ DraftEvent(doc)) \/ AppendDraft
        \/ \E o \in BackupOperators : Backup(o)
        \/ \E p \in Initializers : Initialize(p)
        \/ \E pair \in agenda.walks : FirstPage(pair[1], pair[2])
        \/ NextPage \/ Tick
    BY <1>8 DEF Next, PrepareSteps
  <2> QED
    BY <1>2, <1>3, <1>4, <1>5, <1>6, <2>1, <2>2, <2>3, <2>4, <2>5, <2>6, <2>7
<1> QED
  BY <1>7, <1>8

\* WalkMissesOnlyRevised: a finished walk was refused no page, showed nothing twice
\* and missed only what was revised after its first page, however many records and
\* events there are, whatever the page size and whatever is committed between pages.
THEOREM WalksMissOnlyRevised == Spec => []WalkMissesOnlyRevised
<1>1. TeamAssumptions
  BY InvestigationAssumption, MutationAssumption, ApplicationAssumption DEF TeamAssumptions
<1>2. Init => WalkInv
  BY DEF Init, NoWalk, WalkInv
<1>3. TeamInv /\ WalkInv /\ [Next]_vars => WalkInv'
  BY <1>1, WalkStep
<1>4. ASSUME TeamInv, WalkInv
      PROVE  WalkMissesOnlyRevised
  <2>1. CASE walk.table = None
    BY <2>1 DEF WalkMissesOnlyRevised
  <2>2. CASE walk.table # None
    <3>1. WalkAt(walk.table, walk.status, walk.start, walk.cursor, walk.shown)
      BY <1>4, <2>2 DEF WalkInv
    <3>2. ASSUME walk.cursor = 0, NEW row \in RowsOf(walk.table, walk.status)
          PROVE  walk.cursor <= row.sequence
      <4>1. ChainInv /\ TablesInv /\ walk.table \in PagedTables
        BY <1>4, <3>1 DEF TeamInv, StoreInv, WalkAt
      <4>2. row.sequence \in 1 .. Len(events) /\ Len(events) \in Nat
        BY <3>2, <4>1, TableRowsKnown, ListedLength DEF RowsKnown, Numbered, ChainInv
      <4> QED
        BY <3>2, <4>2
    <3> QED
      BY <3>1, <3>2 DEF WalkAt, WalkMissesOnlyRevised
  <2> QED
    BY <2>1, <2>2
<1> QED
  BY <1>2, <1>3, <1>4, TeamInvariant, PTL DEF Spec

-----------------------------------------------------------------------------
(* The Windows service's commands and its host process                     *)

EntryFields == {"marked", "start", "sid", "actions", "flag", "subject"}

\* SCM has at most one entry.
Entry(S) == S = {} \/ \E s : S = {s} /\ s = [f \in EntryFields |-> s[f]]

Phases(kind) ==
    CASE kind = "none" -> {"idle"}
      [] kind = "install" -> {"prepare", "create", "sid", "query", "actions", "flag", "verify",
                              "register", "undo_actions", "undo_flag", "undo_install", "reported"}
      [] kind = "configure" -> {"status", "prepare", "register", "reported"}
      [] kind = "recovery" -> {"status", "query", "actions", "flag", "verify", "undo_actions",
                               "undo_flag", "reported"}
      [] kind = "start" -> {"status", "start", "reported"}
      [] kind = "stop" -> {"status", "stop", "stopping", "reported"}
      [] kind = "remove" -> {"status", "disable", "delete", "undo_disable", "reported"}

\* The entry an installation has made so far.
Made(sid, actions, flag) ==
    /\ service # {}
    /\ \A s \in service :
         /\ s.marked = FALSE /\ s.start = command.start /\ s.subject = {}
         /\ s.sid = sid /\ s.actions = actions /\ s.flag = flag

InstallHeld ==
    LET p == command.phase
    IN  /\ p \in {"prepare", "create"} => service = command.found
        /\ p = "sid" => Made(FALSE, "none", FALSE)
        /\ p \in {"query", "actions"} => Made(TRUE, "none", FALSE)
        /\ p = "flag" => Made(TRUE, "bounded", FALSE)
        /\ p \in {"verify", "register"} => Made(TRUE, "bounded", TRUE)
        /\ p \notin {"prepare", "create", "reported"} => command.found = {}

\* The service is what the command found, but for some fields.
FoundBut(fields) ==
    /\ (service = {}) <=> (command.found = {})
    /\ \A s \in service, t \in command.found : \A f \in EntryFields \ fields : s[f] = t[f]

\* Between its first change and the end of the undoing, a command knows what it found.
RecoveryHeld ==
    LET p == command.phase
    IN  /\ p \in {"status", "query", "actions"} => service = command.found
        /\ p \in {"actions", "flag", "verify", "undo_actions", "undo_flag"} =>
             command.previous = {[actions |-> s.actions, flag |-> s.flag] : s \in command.found}
        /\ p \in {"flag", "verify"} => \A s \in service : s.actions = "bounded" /\ ~s.marked
        /\ p = "verify" => \A s \in service : s.flag = TRUE
        /\ p = "flag" => FoundBut({"actions"})
        /\ p \in {"verify", "undo_actions"} => FoundBut({"actions", "flag"})
        /\ p = "undo_flag" => FoundBut({"flag"})
        /\ p = "reported" /\ command.result = "ok" => \A s \in service : ~s.marked

RemoveHeld ==
    LET p == command.phase
    IN  /\ p \in {"status", "disable"} => service = command.found
        /\ p \in {"delete", "undo_disable"} =>
             FoundBut({"start"}) /\ command.previous = {s.start : s \in command.found}

CommandHeld ==
    /\ DOMAIN command = DOMAIN NoCommand
    /\ command.kind \in CommandKinds \cup {"none"} /\ command.phase \in Phases(command.kind)
    /\ command.kind = "install" => InstallHeld
    /\ command.kind = "recovery" => RecoveryHeld
    /\ command.kind = "remove" => RemoveHeld
    /\ command.kind \in {"configure", "start", "stop"} /\ command.phase # "reported" =>
         service = command.found
    /\ Undoing => command.result # "ok"
    /\ command.phase = "reported" => ReportIsTrue

\* A finished stop closed the server, or comes before there is one.
StopHeld ==
    /\ DOMAIN process = DOMAIN Down
    /\ process.stop = "done" /\ process.phase \in {"published", "serving"} => process.closed

WindowsInv == Entry(service) /\ Entry(command.found) /\ CommandHeld /\ StopHeld

\* A changed command is a command.
LEMMA CommandGoes ==
  ASSUME DOMAIN command = DOMAIN NoCommand, NEW changes, Goto(changes)
  PROVE  /\ DOMAIN command' = DOMAIN NoCommand
         /\ \A f \in DOMAIN NoCommand :
              command'[f] = IF f \in DOMAIN changes THEN changes[f] ELSE command[f]
BY DEF Goto

\* The next phase of a command that goes on without a result.
LEMMA PhaseGoes ==
  ASSUME DOMAIN command = DOMAIN NoCommand, NEW phase, Goto([phase |-> phase])
  PROVE  /\ DOMAIN command' = DOMAIN NoCommand /\ command'.phase = phase
         /\ command'.kind = command.kind /\ command'.start = command.start
         /\ command'.subject = command.subject /\ command'.found = command.found
         /\ command'.previous = command.previous /\ command'.result = command.result
BY DEF Goto, NoCommand

\* A report ends the command.
LEMMA ReportGoes ==
  ASSUME DOMAIN command = DOMAIN NoCommand, NEW result, Report(result)
  PROVE  /\ DOMAIN command' = DOMAIN NoCommand /\ command'.phase = "reported"
         /\ command'.kind = command.kind /\ command'.start = command.start
         /\ command'.subject = command.subject /\ command'.found = command.found
         /\ command'.previous = command.previous /\ command'.result = result
BY DEF Report, Goto, NoCommand

\* Changing the one entry there is.
LEMMA ConfiguredOne ==
  ASSUME NEW s, service = {s}, NEW changes
  PROVE  Configured(changes) = {[f \in DOMAIN s |-> IF f \in DOMAIN changes THEN changes[f] ELSE s[f]]}
BY DEF Configured

\* A changed entry is an entry.
LEMMA ConfiguredEntry ==
  ASSUME Entry(service), NEW changes
  PROVE  Entry(Configured(changes)) /\ (service = {} => Configured(changes) = {})
<1>1. CASE service = {}
  BY <1>1 DEF Entry, Configured
<1>2. CASE service # {}
  <2>1. PICK s : service = {s} /\ s = [f \in EntryFields |-> s[f]]
    BY <1>2 DEF Entry
  <2>2. PICK t : t = [f \in DOMAIN s |-> IF f \in DOMAIN changes THEN changes[f] ELSE s[f]]
    OBVIOUS
  <2>3. Configured(changes) = {t}
    BY <2>1, <2>2, ConfiguredOne
  <2>4. DOMAIN s = EntryFields
    BY <2>1
  <2>5. t = [f \in EntryFields |-> t[f]]
    BY <2>2, <2>4
  <2> QED
    BY <1>2, <2>3, <2>5 DEF Entry
<1> QED
  BY <1>1, <1>2

\* The process's part.
LEMMA StopKept ==
  ASSUME StopHeld, [WindowsNext]_windowsVars
  PROVE  StopHeld'
<1>1. CASE UNCHANGED process
  BY <1>1 DEF StopHeld
<1>2. CASE process' = Down \/ process' = [Down EXCEPT !.phase = "starting"]
  BY <1>2 DEF StopHeld, Down
<1>3. CASE \E phase \in {"bound", "loaded", "created", "ending"} :
             DOMAIN process' = DOMAIN process /\ process'.phase = phase
  BY <1>3 DEF StopHeld
<1>4. CASE RequestStop
  BY <1>4 DEF RequestStop, StopHeld
<1>5. CASE AnnounceHost \/ RunHost
  BY <1>5 DEF AnnounceHost, PublishController, RunHost, Fails, StopHeld, Down
<1>6. CASE CloseFromControl
  BY <1>6 DEF CloseFromControl, StopHeld, Down
<1>7. ASSUME ReadRegistration \/ LoadConfiguration \/ CreateHost \/ ServerReturns
      PROVE  \E phase \in {"bound", "loaded", "created", "ending"} :
               DOMAIN process' = DOMAIN process /\ process'.phase = phase
  BY <1>7 DEF ReadRegistration, LoadConfiguration, CreateHost, ServerReturns, Fails, StopHeld, Down
<1>8. ASSUME CommandNext
      PROVE  UNCHANGED process \/ RequestStop \/ process' = [Down EXCEPT !.phase = "starting"]
  BY <1>8 DEF CommandNext, BeginCommand, CheckStatus, OnlyCommand, PrepareRegistration,
     CreateService, EnableServiceSid, Change, QueryRecovery, SetActions, SetFlag, VerifyRecovery,
     WriteRegistration, StartService, StartProcess, StopService, AwaitStop, DisableService,
     RemoveService, StepFails, Interrupted, CommandDies, UndoActions, UndoFlag, UndoInstall,
     UndoDisable, UndoFails
<1>9. ASSUME EndProcess \/ ProcessDies \/ RestartFailed \/ Boot
      PROVE  UNCHANGED process \/ process' = Down \/ process' = [Down EXCEPT !.phase = "starting"]
  BY <1>9 DEF EndProcess, ProcessDies, RestartFailed, StartProcess, Boot
<1>10. ASSUME ForgetFailures \/ MarkedServiceGoes \/ ChangedByHand \/ EditConfiguration
       PROVE  UNCHANGED process
  BY <1>10 DEF ForgetFailures, MarkedServiceGoes, ChangedByHand, EditConfiguration
<1> QED
  BY <1>1, <1>2, <1>3, <1>4, <1>5, <1>6, <1>7, <1>8, <1>9, <1>10
     DEF WindowsNext, ProcessNext, StopRequested, windowsVars

\* A command that is not disturbed.
LEMMA CommandStands ==
  ASSUME CommandHeld, UNCHANGED <<service, command>>
  PROVE  CommandHeld'
<1>1. ReportIsTrue => ReportIsTrue'
  BY ZenonT(40) DEF ReportIsTrue, Lasting, InstalledAs
<1>2. InstallHeld => InstallHeld'
  BY DEF InstallHeld, Made
<1>3. RecoveryHeld => RecoveryHeld'
  BY DEF RecoveryHeld, FoundBut
<1>4. RemoveHeld => RemoveHeld'
  BY DEF RemoveHeld, FoundBut
<1> QED
  BY <1>1, <1>2, <1>3, <1>4 DEF CommandHeld, Undoing

\* Whoever goes leaves no command behind.
LEMMA CommandGone ==
  ASSUME command' = NoCommand
  PROVE  CommandHeld' /\ Entry(command.found)'
<1>1. PICK c : c = NoCommand
  OBVIOUS
<1>2. /\ c.kind = "none" /\ c.phase = "idle" /\ DOMAIN c = DOMAIN NoCommand /\ c.found = {}
  BY <1>1 DEF NoCommand
<1>3. command' = c
  BY <1>1
<1> QED
  BY <1>2, <1>3 DEF CommandHeld, Phases, CommandKinds, Undoing, Entry

\* A command that has reported.
LEMMA WhenReported ==
  ASSUME CommandHeld, DOMAIN command' = DOMAIN NoCommand, command'.kind = command.kind,
         command.kind \in CommandKinds, command'.phase = "reported", ReportIsTrue',
         command'.kind = "recovery" /\ command'.result = "ok" => \A s \in service' : ~s.marked
  PROVE  CommandHeld'
<1>1. "reported" \in Phases(command.kind)
  BY DEF Phases, CommandKinds
<1>2. command'.kind = "install" => InstallHeld'
  BY DEF InstallHeld
<1>3. command'.kind = "recovery" => RecoveryHeld'
  BY DEF RecoveryHeld
<1>4. command'.kind = "remove" => RemoveHeld'
  BY DEF RemoveHeld
<1>5. ~Undoing'
  BY DEF Undoing
<1> QED
  BY <1>1, <1>2, <1>3, <1>4, <1>5 DEF CommandHeld

\* One that failed is true when what it found lasts.
LEMMA WhenFailed ==
  ASSUME CommandHeld, NEW result, Report(result), result # "ok", command.kind \in CommandKinds,
         Lasting(service') = Lasting(command.found)
  PROVE  CommandHeld' /\ command'.found = command.found
<1>1. /\ DOMAIN command' = DOMAIN NoCommand /\ command'.kind = command.kind
      /\ command'.phase = "reported" /\ command'.result = result /\ command'.found = command.found
  BY ReportGoes DEF CommandHeld
<1>2. ReportIsTrue'
  BY <1>1 DEF ReportIsTrue, Lasting
<1> QED
  BY <1>1, <1>2, WhenReported

\* A phase before which nothing was changed.
LEMMA KindOfPhase ==
  ASSUME CommandHeld
  PROVE  /\ command.phase # "idle" => command.kind \in CommandKinds
         /\ command.phase \in {"status", "start", "stop", "stopping"} => command.kind # "install"
         /\ command.phase \in {"status", "start", "stop", "stopping", "prepare", "create",
                               "disable"} => service = command.found
BY DEF CommandHeld, Phases, CommandKinds, InstallHeld, RecoveryHeld, RemoveHeld

\* No command runs.
LEMMA KindIdle ==
  ASSUME CommandHeld, command.phase = "idle"
  PROVE  command.kind = "none"
BY DEF CommandHeld, Phases, CommandKinds

\* A command begins with the service as it finds it.
LEMMA BeginKeeps ==
  ASSUME CommandHeld, NEW kind \in CommandKinds, NEW start, BeginCommand(kind, start)
  PROVE  CommandHeld' /\ command'.found = service /\ UNCHANGED service
<1>1. PICK c : c = command'
  OBVIOUS
<1>2. /\ DOMAIN c = DOMAIN NoCommand /\ c.kind = kind /\ c.found = service
      /\ c.phase = (IF kind = "install" THEN "prepare" ELSE "status") /\ service' = service
  BY <1>1 DEF BeginCommand, NoCommand
<1>3. c.phase \in Phases(kind)
  BY <1>2 DEF Phases, CommandKinds
<1> QED
  BY <1>1, <1>2, <1>3 DEF CommandHeld, InstallHeld, RecoveryHeld, RemoveHeld, Undoing, Phases

\* The status decides whether there is anything to do.
LEMMA StatusKeeps ==
  ASSUME CommandHeld, CheckStatus
  PROVE  CommandHeld' /\ command'.found = command.found /\ UNCHANGED service
<1>1. /\ command.phase = "status" /\ command.kind \in CommandKinds /\ service' = service
      /\ service = command.found /\ command.kind # "install" /\ DOMAIN command = DOMAIN NoCommand
  BY KindOfPhase DEF CheckStatus, At, OnlyCommand, CommandHeld
<1>2. \/ \E result \in {"failed", "ok"} : Report(result) /\ (result = "ok" => command.kind \in {"start", "stop"})
      \/ Goto([phase |-> CASE command.kind = "configure" -> "prepare"
                           [] command.kind = "recovery" -> "query"
                           [] command.kind = "remove" -> "disable"
                           [] OTHER -> command.kind])
  BY DEF CheckStatus
<1>3. CASE Report("failed")
  BY <1>1, <1>3, WhenFailed
<1>4. CASE Report("ok") /\ command.kind \in {"start", "stop"}
  <2>1. /\ DOMAIN command' = DOMAIN NoCommand /\ command'.kind = command.kind
        /\ command'.phase = "reported" /\ command'.found = command.found /\ command'.result = "ok"
    BY <1>1, <1>4, ReportGoes
  <2>2. ReportIsTrue'
    BY <1>1, <1>4, <2>1 DEF ReportIsTrue, Lasting
  <2> QED
    BY <1>1, <1>4, <2>1, <2>2, WhenReported
<1>5. CASE Goto([phase |-> CASE command.kind = "configure" -> "prepare"
                           [] command.kind = "recovery" -> "query"
                           [] command.kind = "remove" -> "disable"
                           [] OTHER -> command.kind])
  <2>1. PICK p : p = CASE command.kind = "configure" -> "prepare"
                       [] command.kind = "recovery" -> "query"
                       [] command.kind = "remove" -> "disable"
                       [] OTHER -> command.kind
    OBVIOUS
  <2>2. /\ p \in {"prepare", "query", "disable", "start", "stop"} /\ p \in Phases(command.kind)
        /\ command.kind = "recovery" => p = "query"
        /\ command.kind = "remove" => p = "disable"
    BY <1>1, <2>1 DEF Phases, CommandKinds
  <2>3. /\ DOMAIN command' = DOMAIN NoCommand /\ command'.kind = command.kind
        /\ command'.phase = p /\ command'.found = command.found
    BY <1>1, <1>5, <2>1, PhaseGoes
  <2>4. command.kind = "recovery" => RecoveryHeld'
    BY <1>1, <2>2, <2>3 DEF RecoveryHeld
  <2>5. command.kind = "remove" => RemoveHeld'
    BY <1>1, <2>2, <2>3 DEF RemoveHeld
  <2> QED
    BY <1>1, <2>2, <2>3, <2>4, <2>5 DEF CommandHeld, Undoing
<1> QED
  BY <1>2, <1>3, <1>4, <1>5

\* The registration is prepared before anything is changed.
LEMMA PrepareRegistrationKeeps ==
  ASSUME CommandHeld, PrepareRegistration
  PROVE  CommandHeld' /\ command'.found = command.found /\ UNCHANGED service
<1>1. /\ command.phase = "prepare" /\ command.kind \in {"install", "configure"}
      /\ service' = service /\ service = command.found /\ DOMAIN command = DOMAIN NoCommand
  BY KindOfPhase DEF PrepareRegistration, At, OnlyCommand, CommandHeld
<1>2. CASE Report("failed")
  BY <1>1, <1>2, WhenFailed DEF CommandKinds
<1>3. CASE Goto([subject |-> {configFile},
                 phase |-> IF command.kind = "install" THEN "create" ELSE "register"])
  <2>1. PICK p : p = IF command.kind = "install" THEN "create" ELSE "register"
    OBVIOUS
  <2>2. /\ DOMAIN command' = DOMAIN NoCommand /\ command'.kind = command.kind
        /\ command'.phase = p /\ command'.found = command.found
    BY <1>1, <1>3, <2>1 DEF Goto, NoCommand
  <2>3. p \in Phases(command.kind)
    BY <1>1, <2>1 DEF Phases
  <2>4. command.kind = "install" => InstallHeld'
    BY <1>1, <2>1, <2>2 DEF InstallHeld
  <2> QED
    BY <1>1, <2>1, <2>2, <2>3, <2>4 DEF CommandHeld, Undoing, CommandKinds
<1> QED
  BY <1>2, <1>3 DEF PrepareRegistration

\* The entry is made where there was none.
LEMMA CreateKeeps ==
  ASSUME CommandHeld, Entry(service), CreateService
  PROVE  CommandHeld' /\ command'.found = command.found /\ Entry(service)'
<1>1. /\ command.phase = "create" /\ command.kind = "install"
      /\ service = command.found /\ DOMAIN command = DOMAIN NoCommand
  BY KindOfPhase DEF CreateService, At, CommandHeld
<1>2. CASE Report("failed") /\ UNCHANGED service
  BY <1>1, <1>2, WhenFailed DEF CommandKinds, Entry
<1>3. CASE /\ service = {} /\ Goto([phase |-> "sid"])
           /\ service' = {[marked |-> FALSE, start |-> command.start, sid |-> FALSE,
                           actions |-> "none", flag |-> FALSE, subject |-> {}]}
  <2>1. /\ DOMAIN command' = DOMAIN NoCommand /\ command'.kind = "install"
        /\ command'.phase = "sid" /\ command'.found = {} /\ command'.start = command.start
    BY <1>1, <1>3, PhaseGoes
  <2>2. InstallHeld'
    BY <1>3, <2>1 DEF InstallHeld, Made
  <2>3. Entry(service')
    BY <1>3 DEF Entry, EntryFields
  <2> QED
    BY <1>1, <1>3, <2>1, <2>2, <2>3 DEF CommandHeld, Undoing, CommandKinds, Phases, Entry
<1> QED
  BY <1>2, <1>3 DEF CreateService

\* What a change of a service that can be changed does to the command.
LEMMA ChangeGoes ==
  ASSUME Entry(service), DOMAIN command = DOMAIN NoCommand, NEW changes, NEW phase,
         Change(changes, phase)
  PROVE  /\ DOMAIN command' = DOMAIN NoCommand /\ command'.phase = phase
         /\ command'.kind = command.kind /\ command'.start = command.start
         /\ command'.subject = command.subject /\ command'.found = command.found
         /\ command'.previous = command.previous /\ command'.result = command.result
         /\ Entry(service)' /\ Writable /\ service' = Configured(changes)
<1>1. Writable /\ service' = Configured(changes) /\ Goto([phase |-> phase])
  BY DEF Change
<1>2. Entry(service)'
  BY <1>1, ConfiguredEntry DEF Entry
<1> QED
  BY <1>1, <1>2, PhaseGoes

\* A change of one field, to the service's one entry.
LEMMA FieldGoes ==
  ASSUME Entry(service), NEW field, NEW value, NEW changes,
         DOMAIN changes = {field}, changes[field] = value, field \in EntryFields,
         Writable, service' = Configured(changes)
  PROVE  \E s, t : /\ service = {s} /\ ~s.marked /\ service' = {t} /\ t[field] = value
                   /\ \A f \in EntryFields \ {field} : t[f] = s[f]
<1>1. PICK s : service = {s} /\ ~s.marked /\ s = [f \in EntryFields |-> s[f]]
  BY DEF Entry, Writable
<1>2. PICK t : t = [f \in DOMAIN s |-> IF f \in DOMAIN changes THEN changes[f] ELSE s[f]]
  OBVIOUS
<1>3. service' = {t}
  BY <1>1, <1>2, ConfiguredOne
<1>4. DOMAIN s = EntryFields
  BY <1>1
<1>5. t[field] = value /\ \A f \in EntryFields \ {field} : t[f] = s[f]
  BY <1>2, <1>4
<1> QED
  BY <1>1, <1>3, <1>5

\* A recovery goes from phase to phase with what it found.
LEMMA WhenRecovering ==
  ASSUME CommandHeld, command.kind = "recovery", DOMAIN command' = DOMAIN NoCommand,
         command'.kind = "recovery", NEW p, command'.phase = p,
         p \in Phases("recovery") \ {"reported"},
         p \in {"undo_actions", "undo_flag"} => command'.result # "ok", RecoveryHeld'
  PROVE  CommandHeld'
<1>1. p \in Phases(command'.kind)
  OBVIOUS
<1>2. p # "undo_install" /\ p # "undo_disable" /\ p # "reported"
  BY DEF Phases
<1> QED
  BY <1>1, <1>2 DEF CommandHeld, Undoing, CommandKinds

\* An installation that goes on found nothing.
LEMMA WhenInstalling ==
  ASSUME CommandHeld, command.kind = "install", DOMAIN command' = DOMAIN NoCommand,
         command'.kind = "install", NEW p, command'.phase = p,
         p \in Phases("install") \ {"reported"},
         p \in {"undo_actions", "undo_flag", "undo_install"} => command'.result # "ok", InstallHeld'
  PROVE  CommandHeld'
<1>1. p # "undo_disable" /\ p # "reported"
  BY DEF Phases
<1> QED
  BY <1>1 DEF CommandHeld, Undoing, CommandKinds

\* The made entry gets its service SID.
LEMMA SidKeeps ==
  ASSUME CommandHeld, Entry(service), EnableServiceSid
  PROVE  CommandHeld' /\ command'.found = command.found /\ Entry(service)'
<1>1. /\ command.phase = "sid" /\ command.kind = "install" /\ DOMAIN command = DOMAIN NoCommand
      /\ Change([sid |-> TRUE], "query")
      /\ Made(FALSE, "none", FALSE) /\ command.found = {}
  BY DEF EnableServiceSid, At, CommandHeld, InstallHeld
<1>2. /\ DOMAIN command' = DOMAIN NoCommand /\ command'.phase = "query"
      /\ command'.kind = command.kind /\ command'.start = command.start
      /\ command'.found = command.found /\ Entry(service)'
  BY <1>1, ChangeGoes
<1>3. PICK v, changes, fl : v = TRUE /\ changes = [sid |-> TRUE] /\ fl = "sid"
  OBVIOUS
<1>4. /\ DOMAIN changes = {fl} /\ changes[fl] = v /\ fl \in EntryFields
      /\ Writable /\ service' = Configured(changes)
  BY <1>1, <1>3 DEF Change, EntryFields
<1>5. PICK s, t : /\ service = {s} /\ ~s.marked /\ service' = {t} /\ t[fl] = v
                  /\ \A f \in EntryFields \ {fl} : t[f] = s[f]
  BY <1>4, FieldGoes
<1>6. /\ t.marked = FALSE /\ t.start = command.start /\ t.subject = {}
      /\ t.sid = TRUE /\ t.actions = "none" /\ t.flag = FALSE
  BY <1>1, <1>3, <1>5 DEF Made, EntryFields
<1>7. Made(TRUE, "none", FALSE)'
  BY <1>2, <1>5, <1>6 DEF Made
<1>8. InstallHeld'
  BY <1>1, <1>2, <1>7 DEF InstallHeld
<1> QED
  BY <1>1, <1>2, <1>8, WhenInstalling DEF Phases

\* The recovery settings found are remembered.
LEMMA QueryKeeps ==
  ASSUME CommandHeld, QueryRecovery
  PROVE  CommandHeld' /\ command'.found = command.found /\ UNCHANGED service
<1>1. /\ command.phase = "query" /\ command.kind \in {"install", "recovery"}
      /\ DOMAIN command = DOMAIN NoCommand /\ service' = service
  BY DEF QueryRecovery, At, OnlyCommand, CommandHeld
<1>2. /\ DOMAIN command' = DOMAIN NoCommand /\ command'.phase = "actions"
      /\ command'.kind = command.kind /\ command'.start = command.start
      /\ command'.found = command.found
      /\ command'.previous = {[actions |-> s.actions, flag |-> s.flag] : s \in service}
  BY <1>1 DEF QueryRecovery, Goto, NoCommand
<1>3. CASE command.kind = "install"
  <2>1. InstallHeld'
    BY <1>1, <1>2, <1>3 DEF CommandHeld, InstallHeld, Made
  <2> QED
    BY <1>1, <1>2, <1>3, <2>1, WhenInstalling DEF Phases
<1>4. CASE command.kind = "recovery"
  <2>1. RecoveryHeld'
    BY <1>1, <1>2, <1>4 DEF CommandHeld, RecoveryHeld
  <2> QED
    BY <1>1, <1>2, <1>4, <2>1, WhenRecovering DEF Phases
<1> QED
  BY <1>1, <1>2, <1>3, <1>4

\* Entries that agree on every field are the same.
LEMMA EntriesAgree ==
  ASSUME NEW S, NEW T, Entry(S), Entry(T), (S = {}) <=> (T = {}),
         \A s \in S, t \in T : \A f \in EntryFields : s[f] = t[f]
  PROVE  S = T
<1>1. CASE S = {}
  BY <1>1
<1>2. CASE S # {}
  <2>1. PICK s : S = {s} /\ s = [f \in EntryFields |-> s[f]]
    BY <1>2 DEF Entry
  <2>2. PICK t : T = {t} /\ t = [f \in EntryFields |-> t[f]]
    BY <1>2 DEF Entry
  <2>3. \A f \in EntryFields : s[f] = t[f]
    BY <2>1, <2>2
  <2> QED
    BY <2>1, <2>2, <2>3
<1> QED
  BY <1>1, <1>2

\* The first of the two recovery settings.
LEMMA SetActionsKeeps ==
  ASSUME CommandHeld, Entry(service), SetActions
  PROVE  CommandHeld' /\ command'.found = command.found /\ Entry(service)'
<1>1. /\ command.phase = "actions" /\ command.kind \in {"install", "recovery"}
      /\ DOMAIN command = DOMAIN NoCommand /\ Change([actions |-> "bounded"], "flag")
      /\ command.kind = "install" => InstallHeld
      /\ command.kind = "recovery" => RecoveryHeld
  BY DEF SetActions, At, CommandHeld
<1>2. /\ DOMAIN command' = DOMAIN NoCommand /\ command'.phase = "flag"
      /\ command'.kind = command.kind /\ command'.start = command.start
      /\ command'.found = command.found /\ command'.previous = command.previous
      /\ Entry(service)'
  BY <1>1, ChangeGoes
<1>3. PICK v, changes, fl : v = "bounded" /\ changes = [actions |-> "bounded"] /\ fl = "actions"
  OBVIOUS
<1>4. /\ DOMAIN changes = {fl} /\ changes[fl] = v /\ fl \in EntryFields
      /\ Writable /\ service' = Configured(changes)
  BY <1>1, <1>3 DEF Change, EntryFields
<1>5. PICK s, t : /\ service = {s} /\ ~s.marked /\ service' = {t} /\ t[fl] = v
                  /\ \A f \in EntryFields \ {fl} : t[f] = s[f]
  BY <1>4, FieldGoes
<1>6. CASE command.kind = "install"
  <2>1. Made(TRUE, "none", FALSE) /\ command.found = {}
    BY <1>1, <1>6 DEF InstallHeld
  <2>2. Made(TRUE, "bounded", FALSE)'
    BY <1>2, <1>3, <1>5, <2>1 DEF Made, EntryFields
  <2>3. InstallHeld'
    BY <1>2, <2>1, <2>2 DEF InstallHeld
  <2> QED
    BY <1>1, <1>2, <1>6, <2>3, WhenInstalling DEF Phases
<1>7. CASE command.kind = "recovery"
  <2>1. /\ service = command.found
        /\ command.previous = {[actions |-> x.actions, flag |-> x.flag] : x \in command.found}
    BY <1>1, <1>7 DEF RecoveryHeld
  <2>2. FoundBut({"actions"})'
    BY <1>2, <1>3, <1>5, <2>1 DEF FoundBut
  <2>3. \A x \in service' : x.actions = "bounded" /\ ~x.marked
    BY <1>3, <1>5 DEF EntryFields
  <2>4. RecoveryHeld'
    BY <1>2, <2>1, <2>2, <2>3 DEF RecoveryHeld
  <2> QED
    BY <1>1, <1>2, <1>7, <2>4, WhenRecovering DEF Phases
<1> QED
  BY <1>1, <1>2, <1>6, <1>7

\* The second one.
LEMMA SetFlagKeeps ==
  ASSUME CommandHeld, Entry(service), SetFlag
  PROVE  CommandHeld' /\ command'.found = command.found /\ Entry(service)'
<1>1. /\ command.phase = "flag" /\ command.kind \in {"install", "recovery"}
      /\ DOMAIN command = DOMAIN NoCommand /\ Change([flag |-> TRUE], "verify")
      /\ command.kind = "install" => InstallHeld
      /\ command.kind = "recovery" => RecoveryHeld
  BY DEF SetFlag, At, CommandHeld
<1>2. /\ DOMAIN command' = DOMAIN NoCommand /\ command'.phase = "verify"
      /\ command'.kind = command.kind /\ command'.start = command.start
      /\ command'.found = command.found /\ command'.previous = command.previous
      /\ Entry(service)'
  BY <1>1, ChangeGoes
<1>3. PICK v, changes, fl : v = TRUE /\ changes = [flag |-> TRUE] /\ fl = "flag"
  OBVIOUS
<1>4. /\ DOMAIN changes = {fl} /\ changes[fl] = v /\ fl \in EntryFields
      /\ Writable /\ service' = Configured(changes)
  BY <1>1, <1>3 DEF Change, EntryFields
<1>5. PICK s, t : /\ service = {s} /\ ~s.marked /\ service' = {t} /\ t[fl] = v
                  /\ \A f \in EntryFields \ {fl} : t[f] = s[f]
  BY <1>4, FieldGoes
<1>6. CASE command.kind = "install"
  <2>1. Made(TRUE, "bounded", FALSE) /\ command.found = {}
    BY <1>1, <1>6 DEF InstallHeld
  <2>2. Made(TRUE, "bounded", TRUE)'
    <3>1. /\ t.marked = FALSE /\ t.start = command.start /\ t.subject = {}
          /\ t.sid = TRUE /\ t.actions = "bounded" /\ t.flag = TRUE
      BY <1>3, <1>5, <2>1 DEF Made, EntryFields
    <3> QED
      BY <1>2, <1>5, <3>1 DEF Made
  <2>3. InstallHeld'
    BY <1>2, <2>1, <2>2 DEF InstallHeld
  <2> QED
    BY <1>1, <1>2, <1>6, <2>3, WhenInstalling DEF Phases
<1>7. CASE command.kind = "recovery"
  <2>1. /\ FoundBut({"actions"}) /\ \A x \in service : x.actions = "bounded"
        /\ command.previous = {[actions |-> x.actions, flag |-> x.flag] : x \in command.found}
    BY <1>1, <1>7 DEF RecoveryHeld
  <2>2. FoundBut({"actions", "flag"})'
    BY <1>2, <1>3, <1>5, <2>1 DEF FoundBut
  <2>3. \A x \in service' : x.actions = "bounded" /\ ~x.marked /\ x.flag = TRUE
    BY <1>3, <1>5, <2>1 DEF EntryFields
  <2>4. RecoveryHeld'
    BY <1>2, <2>1, <2>2, <2>3 DEF RecoveryHeld
  <2> QED
    BY <1>1, <1>2, <1>7, <2>4, WhenRecovering DEF Phases
<1> QED
  BY <1>1, <1>2, <1>6, <1>7

\* What the recovery command reports is so.
LEMMA VerifyKeeps ==
  ASSUME CommandHeld, Entry(service), Entry(command.found), VerifyRecovery
  PROVE  CommandHeld' /\ command'.found = command.found /\ UNCHANGED service
<1>1. /\ command.phase = "verify" /\ command.kind \in {"install", "recovery"}
      /\ DOMAIN command = DOMAIN NoCommand /\ service' = service
      /\ command.kind = "install" => InstallHeld
      /\ command.kind = "recovery" => RecoveryHeld
      /\ IF command.kind = "install" THEN Goto([phase |-> "register"]) ELSE Report("ok")
  BY DEF VerifyRecovery, At, CommandHeld, OnlyCommand
<1>2. CASE command.kind = "install"
  <2>1. /\ DOMAIN command' = DOMAIN NoCommand /\ command'.phase = "register"
        /\ command'.kind = command.kind /\ command'.start = command.start
        /\ command'.found = command.found
    BY <1>1, <1>2, PhaseGoes
  <2>2. Made(TRUE, "bounded", TRUE) /\ command.found = {}
    BY <1>1, <1>2 DEF InstallHeld
  <2>3. Made(TRUE, "bounded", TRUE)'
    BY <1>1, <2>1, <2>2 DEF Made
  <2>4. InstallHeld'
    BY <2>1, <2>2, <2>3 DEF InstallHeld
  <2> QED
    BY <1>1, <1>2, <2>1, <2>4, WhenInstalling DEF Phases
<1>3. CASE command.kind = "recovery"
  <2>1. /\ DOMAIN command' = DOMAIN NoCommand /\ command'.phase = "reported"
        /\ command'.kind = "recovery" /\ command'.found = command.found /\ command'.result = "ok"
    BY <1>1, <1>3, ReportGoes
  <2>2. /\ FoundBut({"actions", "flag"})
        /\ \A x \in service : x.actions = "bounded" /\ ~x.marked /\ x.flag = TRUE
    BY <1>1, <1>3 DEF RecoveryHeld
  <2>3. service = {[s EXCEPT !.actions = "bounded", !.flag = TRUE] : s \in command.found}
    <3>1. CASE service = {}
      BY <2>2, <3>1 DEF FoundBut
    <3>2. CASE service # {}
      <4>1. PICK s : service = {s} /\ s = [f \in EntryFields |-> s[f]]
        BY <3>2 DEF Entry
      <4>2. PICK t : command.found = {t} /\ t = [f \in EntryFields |-> t[f]]
        BY <2>2, <3>2 DEF Entry, FoundBut
      <4>3. PICK u : u = [t EXCEPT !.actions = "bounded", !.flag = TRUE]
        OBVIOUS
      <4>4. /\ u = [f \in EntryFields |-> u[f]] /\ u["actions"] = "bounded"
            /\ \A f \in EntryFields \ {"actions", "flag"} : u[f] = t[f]
        BY <4>2, <4>3 DEF EntryFields
      <4>5. u["flag"] = TRUE /\ s["flag"] = TRUE /\ s["actions"] = "bounded"
        BY <2>2, <4>1, <4>2, <4>3 DEF EntryFields
      <4>6. \A f \in EntryFields \ {"actions", "flag"} : s[f] = t[f]
        BY <2>2, <4>1, <4>2 DEF FoundBut
      <4>7. \A f \in EntryFields : s[f] = u[f]
        BY <4>4, <4>5, <4>6
      <4>8. s = u
        BY <4>1, <4>4, <4>7
      <4>9. {[x EXCEPT !.actions = "bounded", !.flag = TRUE] : x \in {t}} = {u}
        BY <4>3
      <4> QED
        BY <4>1, <4>2, <4>8, <4>9
    <3> QED
      BY <3>1, <3>2
  <2>4. ReportIsTrue'
    BY <1>1, <2>1, <2>3 DEF ReportIsTrue
  <2> QED
    BY <1>1, <1>3, <2>1, <2>2, <2>4, WhenReported DEF CommandKinds
<1> QED
  BY <1>1, <1>2, <1>3

\* What a registration that was written reports is so.
LEMMA WriteKeeps ==
  ASSUME CommandHeld, Entry(service), WriteRegistration
  PROVE  CommandHeld' /\ command'.found = command.found /\ Entry(service)'
<1>1. /\ command.phase = "register" /\ command.kind \in {"install", "configure"}
      /\ DOMAIN command = DOMAIN NoCommand
      /\ command.kind = "install" => InstallHeld
      /\ command.kind = "configure" => service = command.found
      /\ Report("ok")
  BY DEF WriteRegistration, At, CommandHeld
<1>2. PICK subject, changes, fl : /\ subject = command.subject /\ fl = "subject"
                                  /\ changes = [subject |-> command.subject]
  OBVIOUS
<1>3. service' = Configured(changes) /\ DOMAIN changes = {fl} /\ changes[fl] = subject
  BY <1>2 DEF WriteRegistration
<1>4. /\ DOMAIN command' = DOMAIN NoCommand /\ command'.phase = "reported"
      /\ command'.kind = command.kind /\ command'.start = command.start
      /\ command'.subject = subject /\ command'.found = command.found /\ command'.result = "ok"
  BY <1>1, <1>2, ReportGoes
<1>5. Entry(service)'
  BY <1>3, ConfiguredEntry DEF Entry
<1>6. CASE command.kind = "install"
  <2>1. Made(TRUE, "bounded", TRUE)
    BY <1>1, <1>6 DEF InstallHeld
  <2>2. Writable
    BY <2>1 DEF Made, Writable
  <2>3. PICK s, t : /\ service = {s} /\ service' = {t} /\ t[fl] = subject
                    /\ \A f \in EntryFields \ {fl} : t[f] = s[f]
    <3>1. fl \in EntryFields
      BY <1>2 DEF EntryFields
    <3> QED
      BY <1>3, <2>2, <3>1, FieldGoes
  <2>4. PICK start, yes, no : start = command.start /\ yes = TRUE /\ no = FALSE
    OBVIOUS
  <2>5. /\ t.marked = no /\ t.start = start /\ t.subject = subject
        /\ t.sid = yes /\ t.actions = "bounded" /\ t.flag = yes
    BY <1>2, <2>1, <2>3, <2>4 DEF Made, EntryFields
  <2>6. t = [f \in EntryFields |-> t[f]]
    BY <1>5, <2>3 DEF Entry
  <2>7. t = [marked |-> no, start |-> start, sid |-> yes, actions |-> "bounded", flag |-> yes,
             subject |-> subject]
    <3>1. PICK r : r = [marked |-> no, start |-> start, sid |-> yes, actions |-> "bounded",
                        flag |-> yes, subject |-> subject]
      OBVIOUS
    <3>2. r = [f \in EntryFields |-> r[f]]
      BY <3>1 DEF EntryFields
    <3>3. \A f \in EntryFields : r[f] = t[f]
      BY <2>5, <3>1 DEF EntryFields
    <3> QED
      BY <2>6, <3>1, <3>2, <3>3
  <2>8. service' = InstalledAs(command'.start, command'.subject)
    BY <1>4, <2>3, <2>4, <2>7 DEF InstalledAs
  <2>9. ReportIsTrue'
    BY <1>4, <1>6, <2>8 DEF ReportIsTrue, InstalledAs
  <2> QED
    BY <1>4, <1>5, <1>6, <2>9, WhenReported DEF CommandKinds
<1>7. CASE command.kind = "configure"
  <2>1. Lasting(service') = {[s EXCEPT !.subject = subject] : s \in Lasting(command.found)}
    <3>1. CASE service = {}
      BY <1>1, <1>3, <1>7, <3>1, ConfiguredEntry DEF Lasting
    <3>2. CASE service # {}
      <4>1. PICK s : service = {s} /\ s = [f \in EntryFields |-> s[f]]
        BY <3>2 DEF Entry
      <4>2. PICK t : t = [f \in DOMAIN s |-> IF f \in DOMAIN changes THEN changes[f] ELSE s[f]]
        OBVIOUS
      <4>3. service' = {t}
        BY <1>3, <4>1, <4>2, ConfiguredOne
      <4>4. PICK u : u = [s EXCEPT !.subject = subject]
        OBVIOUS
      <4>5. t = u /\ t.marked = s.marked
        BY <1>2, <1>3, <4>1, <4>2, <4>4 DEF EntryFields
      <4>6. Lasting({s}) = IF s.marked THEN {} ELSE {s}
        BY DEF Lasting
      <4>7. Lasting({t}) = IF s.marked THEN {} ELSE {t}
        BY <4>5 DEF Lasting
      <4> QED
        BY <1>1, <1>7, <4>1, <4>3, <4>4, <4>5, <4>6, <4>7
    <3> QED
      BY <3>1, <3>2
  <2>2. ReportIsTrue'
    BY <1>4, <1>7, <2>1 DEF ReportIsTrue, Lasting
  <2> QED
    BY <1>4, <1>5, <1>7, <2>2, WhenReported DEF CommandKinds
<1> QED
  BY <1>1, <1>6, <1>7

\* A failed or interrupted step leaves what it found, or what is undone next.
LEMMA FailsKeeps ==
  ASSUME CommandHeld, StepFails
  PROVE  CommandHeld' /\ command'.found = command.found /\ UNCHANGED service
<1>1. /\ DOMAIN command = DOMAIN NoCommand /\ service' = service
      /\ command.kind \in CommandKinds /\ command.phase \in Phases(command.kind)
      /\ command.phase \notin {"idle", "reported", "undo_actions", "undo_flag", "undo_install",
                               "undo_disable"}
      /\ command.kind = "install" => InstallHeld
      /\ command.kind = "recovery" => RecoveryHeld
      /\ command.kind = "remove" => RemoveHeld
  BY KindOfPhase DEF StepFails, Between, Undoing, CommandHeld
<1>2. PICK p : p = FailureGoesTo(command.phase)
  OBVIOUS
<1>3. /\ DOMAIN command' = DOMAIN NoCommand /\ command'.phase = p
      /\ command'.kind = command.kind /\ command'.start = command.start
      /\ command'.found = command.found /\ command'.previous = command.previous
      /\ command'.result = "failed"
  <2>1. Goto([phase |-> p, result |-> "failed"])
    BY <1>2 DEF StepFails
  <2> QED
    BY <1>1, <2>1 DEF Goto, NoCommand
<1>4. CASE command.phase \in {"flag", "verify"}
  <2>1. p = "undo_actions" /\ command.kind \in {"install", "recovery"}
    BY <1>1, <1>2, <1>4 DEF FailureGoesTo, Phases, CommandKinds
  <2>2. CASE command.kind = "install"
    <3>1. InstallHeld'
      BY <1>1, <1>3, <1>4, <2>1, <2>2 DEF InstallHeld
    <3> QED
      BY <1>1, <1>3, <2>1, <2>2, <3>1, WhenInstalling DEF Phases
  <2>3. CASE command.kind = "recovery"
    <3>1. FoundBut({"actions", "flag"})
      BY <1>1, <1>4, <2>3 DEF RecoveryHeld, FoundBut
    <3>2. FoundBut({"actions", "flag"})'
      BY <1>1, <1>3, <3>1 DEF FoundBut
    <3>3. RecoveryHeld'
      BY <1>1, <1>3, <1>4, <2>1, <2>3, <3>2 DEF RecoveryHeld
    <3> QED
      BY <1>1, <1>3, <2>1, <2>3, <3>3, WhenRecovering DEF Phases
  <2> QED
    BY <2>1, <2>2, <2>3
<1>5. CASE command.phase = "delete"
  <2>1. p = "undo_disable" /\ command.kind = "remove"
    BY <1>1, <1>2, <1>5 DEF FailureGoesTo, Phases, CommandKinds
  <2>2. RemoveHeld'
    BY <1>1, <1>3, <1>5, <2>1 DEF RemoveHeld, FoundBut
  <2> QED
    BY <1>1, <1>3, <2>1, <2>2 DEF CommandHeld, Undoing, Phases
<1>6. CASE command.kind = "install" /\ command.phase \in {"sid", "query", "actions", "register"}
  <2>1. p = "undo_install"
    BY <1>2, <1>6 DEF FailureGoesTo, Undone
  <2>2. InstallHeld'
    BY <1>1, <1>3, <1>6, <2>1 DEF InstallHeld
  <2> QED
    BY <1>1, <1>3, <1>6, <2>1, <2>2, WhenInstalling DEF Phases
<1>7. CASE /\ command.phase \notin {"flag", "verify", "delete"}
           /\ command.phase \in {"sid", "query", "actions", "register"} => command.kind # "install"
  <2>1. p = "reported"
    BY <1>1, <1>2, <1>7 DEF FailureGoesTo, Undone
  <2>2. service = command.found
    <3>1. command.kind = "recovery" => service = command.found
      BY <1>1, <1>7 DEF RecoveryHeld, Phases
    <3>2. command.kind = "remove" => service = command.found
      BY <1>1, <1>7 DEF RemoveHeld, Phases
    <3>3. command.kind = "install" => service = command.found
      BY <1>1, <1>7 DEF InstallHeld, Phases
    <3>4. command.kind \in {"configure", "start", "stop"} => service = command.found
      BY <1>1 DEF CommandHeld
    <3> QED
      BY <1>1, <3>1, <3>2, <3>3, <3>4 DEF CommandKinds
  <2>3. ReportIsTrue'
    BY <1>1, <1>3, <2>2 DEF ReportIsTrue, Lasting
  <2> QED
    BY <1>1, <1>3, <2>1, <2>3, WhenReported
<1> QED
  BY <1>1, <1>3, <1>4, <1>5, <1>6, <1>7

\* A report that says nothing of the service.
LEMMA SilentReport ==
  ASSUME CommandHeld, NEW result, Report(result), result \notin {"ok", "failed"},
         command.kind \in CommandKinds
  PROVE  CommandHeld' /\ command'.found = command.found
<1>1. /\ DOMAIN command' = DOMAIN NoCommand /\ command'.kind = command.kind
      /\ command'.phase = "reported" /\ command'.result = result /\ command'.found = command.found
  BY ReportGoes DEF CommandHeld
<1>2. ReportIsTrue'
  BY <1>1 DEF ReportIsTrue
<1> QED
  BY <1>1, <1>2, WhenReported

\* An interrupted command says that it was.
LEMMA InterruptedKeeps ==
  ASSUME CommandHeld, Interrupted
  PROVE  CommandHeld' /\ command'.found = command.found /\ UNCHANGED service
<1>1. command.phase # "idle" /\ Report("interrupted") /\ service' = service
  BY DEF Interrupted
<1> QED
  BY <1>1, KindOfPhase, SilentReport

\* Undoing the actions of a recovery puts back what it found.
LEMMA UndoActionsKeeps ==
  ASSUME CommandHeld, Entry(service), Entry(command.found), UndoActions
  PROVE  CommandHeld' /\ command'.found = command.found /\ Entry(service)'
<1>1. PICK v, changes, fl : /\ v = (CHOOSE p \in command.previous : TRUE).actions
                            /\ changes = [actions |-> v] /\ fl = "actions"
  OBVIOUS
<1>2. /\ command.phase = "undo_actions" /\ command.kind \in {"install", "recovery"}
      /\ DOMAIN command = DOMAIN NoCommand /\ Change(changes, "undo_flag")
      /\ command.kind = "install" => InstallHeld
      /\ command.kind = "recovery" => RecoveryHeld
      /\ command.result # "ok"
  BY <1>1 DEF UndoActions, At, CommandHeld, Undoing, Phases, CommandKinds
<1>3. /\ DOMAIN command' = DOMAIN NoCommand /\ command'.phase = "undo_flag"
      /\ command'.kind = command.kind /\ command'.start = command.start
      /\ command'.found = command.found /\ command'.previous = command.previous
      /\ command'.result = command.result /\ Entry(service)'
  BY <1>2, ChangeGoes
<1>4. /\ DOMAIN changes = {fl} /\ changes[fl] = v /\ fl \in EntryFields
      /\ Writable /\ service' = Configured(changes)
  BY <1>1, <1>2 DEF Change, EntryFields
<1>5. PICK s, t : /\ service = {s} /\ ~s.marked /\ service' = {t} /\ t[fl] = v
                  /\ \A f \in EntryFields \ {fl} : t[f] = s[f]
  BY <1>4, FieldGoes
<1>6. CASE command.kind = "install"
  <2>1. InstallHeld'
    BY <1>2, <1>3, <1>6 DEF InstallHeld
  <2> QED
    BY <1>2, <1>3, <1>6, <2>1, WhenInstalling DEF Phases
<1>7. CASE command.kind = "recovery"
  <2>1. /\ FoundBut({"actions", "flag"})
        /\ command.previous = {[actions |-> x.actions, flag |-> x.flag] : x \in command.found}
    BY <1>2, <1>7 DEF RecoveryHeld
  <2>2. PICK u : command.found = {u}
    BY <1>5, <2>1 DEF FoundBut, Entry
  <2>3. v = u.actions
    <3>1. PICK r : r = [actions |-> u.actions, flag |-> u.flag]
      OBVIOUS
    <3>2. command.previous = {r}
      BY <2>1, <2>2, <3>1
    <3>3. PICK x : x = CHOOSE p \in command.previous : TRUE
      OBVIOUS
    <3>4. x = r
      BY <3>2, <3>3
    <3>5. v = x.actions
      BY <1>1, <3>3
    <3> QED
      BY <3>1, <3>4, <3>5
  <2>4. \A f \in EntryFields \ {"flag"} : t[f] = u[f]
    BY <1>1, <1>5, <2>1, <2>2, <2>3 DEF FoundBut
  <2>5. FoundBut({"flag"})'
    BY <1>3, <1>5, <2>2, <2>4 DEF FoundBut
  <2>6. RecoveryHeld'
    BY <1>3, <2>1, <2>5 DEF RecoveryHeld
  <2> QED
    BY <1>2, <1>3, <1>7, <2>6, WhenRecovering DEF Phases
<1> QED
  BY <1>2, <1>6, <1>7

\* Undoing the flag makes the entry what was found.
LEMMA UndoFlagKeeps ==
  ASSUME CommandHeld, Entry(service), Entry(command.found), UndoFlag
  PROVE  CommandHeld' /\ command'.found = command.found /\ Entry(service)'
<1>1. PICK v, changes, fl, p : /\ v = (CHOOSE x \in command.previous : TRUE).flag
                               /\ changes = [flag |-> v] /\ fl = "flag" /\ p = Undone
  OBVIOUS
<1>2. /\ command.phase = "undo_flag" /\ command.kind \in {"install", "recovery"}
      /\ DOMAIN command = DOMAIN NoCommand /\ Change(changes, p)
      /\ command.kind = "install" => InstallHeld
      /\ command.kind = "recovery" => RecoveryHeld
      /\ command.result # "ok"
  BY <1>1 DEF UndoFlag, At, CommandHeld, Undoing, Phases, CommandKinds
<1>3. /\ DOMAIN command' = DOMAIN NoCommand /\ command'.phase = p
      /\ command'.kind = command.kind /\ command'.start = command.start
      /\ command'.found = command.found /\ command'.previous = command.previous
      /\ command'.result = command.result /\ Entry(service)'
  BY <1>2, ChangeGoes
<1>4. /\ DOMAIN changes = {fl} /\ changes[fl] = v /\ fl \in EntryFields
      /\ Writable /\ service' = Configured(changes)
  BY <1>1, <1>2 DEF Change, EntryFields
<1>5. PICK s, t : /\ service = {s} /\ ~s.marked /\ service' = {t} /\ t[fl] = v
                  /\ \A f \in EntryFields \ {fl} : t[f] = s[f]
  BY <1>4, FieldGoes
<1>6. CASE command.kind = "install"
  <2>1. p = "undo_install"
    BY <1>1, <1>6 DEF Undone
  <2>2. InstallHeld'
    BY <1>2, <1>3, <1>6, <2>1 DEF InstallHeld
  <2> QED
    BY <1>2, <1>3, <1>6, <2>1, <2>2, WhenInstalling DEF Phases
<1>7. CASE command.kind = "recovery"
  <2>1. /\ FoundBut({"flag"}) /\ p = "reported"
        /\ command.previous = {[actions |-> x.actions, flag |-> x.flag] : x \in command.found}
    BY <1>1, <1>2, <1>7 DEF RecoveryHeld, Undone
  <2>2. PICK u : command.found = {u}
    BY <1>5, <2>1 DEF FoundBut, Entry
  <2>3. v = u.flag
    <3>1. PICK r : r = [actions |-> u.actions, flag |-> u.flag]
      OBVIOUS
    <3>2. command.previous = {r}
      BY <2>1, <2>2, <3>1
    <3>3. PICK y : y = CHOOSE x \in command.previous : TRUE
      OBVIOUS
    <3>4. y = r
      BY <3>2, <3>3
    <3>5. v = y.flag
      BY <1>1, <3>3
    <3> QED
      BY <3>1, <3>4, <3>5
  <2>4. \A f \in EntryFields : t[f] = u[f]
    BY <1>1, <1>5, <2>1, <2>2, <2>3 DEF FoundBut
  <2>5. service' = command.found
    <3>1. PICK S, T : S = service' /\ T = command.found
      OBVIOUS
    <3>2. Entry(S) /\ Entry(T) /\ S # {} /\ T # {}
      BY <1>3, <1>5, <2>2, <3>1 DEF Entry
    <3>3. \A x \in S, y \in T : \A f \in EntryFields : x[f] = y[f]
      BY <1>5, <2>2, <2>4, <3>1
    <3> QED
      BY <3>1, <3>2, <3>3, EntriesAgree
  <2>6. ReportIsTrue'
    BY <1>2, <1>3, <2>5 DEF ReportIsTrue, Lasting
  <2> QED
    BY <1>2, <1>3, <1>7, <2>1, <2>6, WhenReported DEF CommandKinds
<1> QED
  BY <1>2, <1>6, <1>7

\* A deleted service lasts no longer.
LEMMA DeleteGoes ==
  ASSUME Entry(service), DeleteService
  PROVE  Entry(service)' /\ Lasting(service') = {}
<1>1. CASE service' = {}
  BY <1>1 DEF Entry, Lasting
<1>2. CASE service' = Configured([marked |-> TRUE])
  <2>1. CASE service = {}
    BY <1>1, <1>2, <2>1, ConfiguredEntry
  <2>2. CASE service # {}
    <3>1. PICK s : service = {s} /\ s = [f \in EntryFields |-> s[f]]
      BY <2>2 DEF Entry
    <3>2. PICK v, changes : v = TRUE /\ changes = [marked |-> v]
      OBVIOUS
    <3>3. PICK t : t = [f \in DOMAIN s |-> IF f \in DOMAIN changes THEN changes[f] ELSE s[f]]
      OBVIOUS
    <3>4. service' = {t}
      BY <1>2, <3>1, <3>2, <3>3, ConfiguredOne
    <3>5. t["marked"] = v
      BY <3>1, <3>2, <3>3 DEF EntryFields
    <3>6. Lasting({t}) = {}
      BY <3>2, <3>5 DEF Lasting
    <3>7. Entry(service')
      BY <1>2, ConfiguredEntry
    <3> QED
      BY <3>4, <3>6, <3>7 DEF Entry
  <2> QED
    BY <2>1, <2>2
<1> QED
  BY <1>1, <1>2 DEF DeleteService

\* Undoing an installation deletes what it made.
LEMMA UndoInstallKeeps ==
  ASSUME CommandHeld, Entry(service), UndoInstall
  PROVE  CommandHeld' /\ command'.found = command.found /\ Entry(service)'
<1>1. /\ command.phase = "undo_install" /\ command.kind = "install" /\ command.result # "ok"
      /\ DOMAIN command = DOMAIN NoCommand /\ InstallHeld
  BY DEF UndoInstall, At, CommandHeld, Undoing, Phases, CommandKinds
<1>2. /\ DOMAIN command' = DOMAIN NoCommand /\ command'.phase = "reported"
      /\ command'.kind = command.kind /\ command'.found = command.found
      /\ command'.result = command.result
  BY <1>1, PhaseGoes DEF UndoInstall
<1>3. command.found = {}
  BY <1>1 DEF InstallHeld
<1>4. Entry(service)' /\ Lasting(service') = {}
  BY DeleteGoes DEF UndoInstall
<1>5. ReportIsTrue'
  BY <1>1, <1>2, <1>3, <1>4 DEF ReportIsTrue, Lasting
<1> QED
  BY <1>1, <1>2, <1>4, <1>5, WhenReported DEF CommandKinds

\* An undoing that fails says so.
LEMMA UndoFailsKeeps ==
  ASSUME CommandHeld, UndoFails
  PROVE  CommandHeld' /\ command'.found = command.found /\ UNCHANGED service
<1>1. PICK p : p = IF command.phase \in {"undo_actions", "undo_flag"} THEN Undone ELSE "reported"
  OBVIOUS
<1>2. /\ DOMAIN command = DOMAIN NoCommand /\ service' = service /\ Undoing
      /\ command.kind \in CommandKinds
      /\ Goto([result |-> "rollback_failed", phase |-> p])
      /\ command.kind = "install" => InstallHeld
      /\ command.phase \in Phases(command.kind)
  BY <1>1, KindOfPhase DEF UndoFails, Undoing, CommandHeld
<1>3. /\ DOMAIN command' = DOMAIN NoCommand /\ command'.phase = p
      /\ command'.kind = command.kind /\ command'.found = command.found
      /\ command'.result = "rollback_failed"
  BY <1>2 DEF Goto, NoCommand
<1>4. CASE p = "reported"
  <2>1. ReportIsTrue'
    BY <1>3 DEF ReportIsTrue
  <2> QED
    BY <1>2, <1>3, <1>4, <2>1, WhenReported
<1>5. CASE p # "reported"
  <2>1. p = "undo_install" /\ command.kind = "install"
    BY <1>1, <1>5 DEF Undone
  <2>2. InstallHeld'
    BY <1>2, <1>3, <2>1 DEF InstallHeld, Undoing
  <2> QED
    BY <1>2, <1>3, <2>1, <2>2, WhenInstalling DEF Phases
<1> QED
  BY <1>2, <1>3, <1>4, <1>5

\* Starting and stopping leave the entry alone.
LEMMA StartStopKeeps ==
  ASSUME CommandHeld, StartService \/ StopService \/ AwaitStop
  PROVE  CommandHeld' /\ command'.found = command.found /\ UNCHANGED service
<1>1. /\ command.kind \in {"start", "stop"} /\ command.phase \in {"start", "stop", "stopping"}
      /\ service' = service /\ DOMAIN command = DOMAIN NoCommand
      /\ \/ Report("ok") \/ Report("failed")
         \/ command.kind = "stop" /\ Goto([phase |-> "stopping"])
  BY DEF StartService, StopService, AwaitStop, At, OnlyCommand, CommandHeld
<1>2. service = command.found
  BY <1>1 DEF CommandHeld
<1>3. ASSUME NEW result, Report(result)
      PROVE  CommandHeld' /\ command'.found = command.found
  <2>1. /\ DOMAIN command' = DOMAIN NoCommand /\ command'.phase = "reported"
        /\ command'.kind = command.kind /\ command'.found = command.found
    BY <1>1, <1>3, ReportGoes
  <2>2. ReportIsTrue'
    BY <1>1, <1>2, <2>1 DEF ReportIsTrue, Lasting
  <2> QED
    BY <1>1, <2>1, <2>2, WhenReported DEF CommandKinds
<1>4. CASE command.kind = "stop" /\ Goto([phase |-> "stopping"])
  <2>1. /\ DOMAIN command' = DOMAIN NoCommand /\ command'.phase = "stopping"
        /\ command'.kind = "stop" /\ command'.found = command.found
    BY <1>1, <1>4, PhaseGoes
  <2> QED
    BY <1>1, <1>2, <2>1 DEF CommandHeld, Undoing, CommandKinds, Phases
<1> QED
  BY <1>1, <1>3, <1>4

\* A service to be removed is disabled, and its start mode remembered.
LEMMA DisableKeeps ==
  ASSUME CommandHeld, Entry(service), DisableService
  PROVE  CommandHeld' /\ command'.found = command.found /\ Entry(service)'
<1>1. /\ command.phase = "disable" /\ command.kind = "remove" /\ Writable
      /\ DOMAIN command = DOMAIN NoCommand /\ service = command.found
  BY KindOfPhase DEF DisableService, At, CommandHeld
<1>2. PICK v, changes, fl : v = "disabled" /\ changes = [start |-> v] /\ fl = "start"
  OBVIOUS
<1>3. DOMAIN changes = {fl} /\ changes[fl] = v /\ fl \in EntryFields /\ service' = Configured(changes)
  BY <1>2 DEF DisableService, EntryFields
<1>4. PICK s, t : /\ service = {s} /\ service' = {t} /\ t[fl] = v
                  /\ \A f \in EntryFields \ {fl} : t[f] = s[f]
  BY <1>1, <1>3, FieldGoes
<1>5. /\ DOMAIN command' = DOMAIN NoCommand /\ command'.phase = "delete"
      /\ command'.kind = command.kind /\ command'.found = command.found
      /\ command'.previous = {x.start : x \in service}
  BY <1>1 DEF DisableService, Goto, NoCommand
<1>6. FoundBut({"start"})'
  BY <1>1, <1>2, <1>4, <1>5 DEF FoundBut
<1>7. RemoveHeld'
  BY <1>1, <1>5, <1>6 DEF RemoveHeld
<1>8. Entry(service)'
  BY <1>3, ConfiguredEntry DEF Entry
<1> QED
  BY <1>1, <1>5, <1>7, <1>8 DEF CommandHeld, Undoing, CommandKinds, Phases

\* A removed service lasts no longer.
LEMMA RemoveKeeps ==
  ASSUME CommandHeld, Entry(service), RemoveService
  PROVE  CommandHeld' /\ command'.found = command.found /\ Entry(service)'
<1>1. command.kind = "remove" /\ DOMAIN command = DOMAIN NoCommand
  BY DEF RemoveService, At, CommandHeld
<1>2. /\ DOMAIN command' = DOMAIN NoCommand /\ command'.phase = "reported"
      /\ command'.kind = command.kind /\ command'.found = command.found /\ command'.result = "ok"
  BY <1>1, ReportGoes DEF RemoveService
<1>3. Entry(service)' /\ Lasting(service') = {}
  BY DeleteGoes DEF RemoveService
<1>4. ReportIsTrue'
  BY <1>1, <1>2, <1>3 DEF ReportIsTrue, Lasting
<1> QED
  BY <1>1, <1>2, <1>3, <1>4, WhenReported DEF CommandKinds

\* A removal that fails gives the start mode back.
LEMMA UndoDisableKeeps ==
  ASSUME CommandHeld, Entry(service), Entry(command.found), UndoDisable
  PROVE  CommandHeld' /\ command'.found = command.found /\ Entry(service)'
<1>1. PICK v, changes, fl : /\ v = (CHOOSE start \in command.previous : TRUE)
                            /\ changes = [start |-> v] /\ fl = "start"
  OBVIOUS
<1>2. /\ command.phase = "undo_disable" /\ command.kind = "remove"
      /\ DOMAIN command = DOMAIN NoCommand /\ Change(changes, "reported")
      /\ RemoveHeld /\ command.result # "ok"
  BY <1>1 DEF UndoDisable, At, CommandHeld, Undoing, Phases, CommandKinds
<1>3. /\ DOMAIN command' = DOMAIN NoCommand /\ command'.phase = "reported"
      /\ command'.kind = command.kind /\ command'.found = command.found
      /\ command'.result = command.result /\ Entry(service)'
  BY <1>2, ChangeGoes
<1>4. /\ DOMAIN changes = {fl} /\ changes[fl] = v /\ fl \in EntryFields
      /\ Writable /\ service' = Configured(changes)
  BY <1>1, <1>2 DEF Change, EntryFields
<1>5. PICK s, t : /\ service = {s} /\ service' = {t} /\ t[fl] = v
                  /\ \A f \in EntryFields \ {fl} : t[f] = s[f]
  BY <1>4, FieldGoes
<1>6. FoundBut({"start"}) /\ command.previous = {x.start : x \in command.found}
  BY <1>2 DEF RemoveHeld
<1>7. PICK u : command.found = {u}
  BY <1>5, <1>6 DEF FoundBut, Entry
<1>8. v = u.start
  <2>1. command.previous = {u.start}
    BY <1>6, <1>7
  <2> QED
    BY <1>1, <2>1
<1>9. \A f \in EntryFields : t[f] = u[f]
  BY <1>1, <1>5, <1>6, <1>7, <1>8 DEF FoundBut
<1>10. service' = command.found
  <2>1. PICK S, T : S = service' /\ T = command.found
    OBVIOUS
  <2>2. Entry(S) /\ Entry(T) /\ S # {} /\ T # {}
    BY <1>3, <1>5, <1>7, <2>1 DEF Entry
  <2>3. \A x \in S, y \in T : \A f \in EntryFields : x[f] = y[f]
    BY <1>5, <1>7, <1>9, <2>1
  <2> QED
    BY <2>1, <2>2, <2>3, EntriesAgree
<1>11. ReportIsTrue'
  BY <1>2, <1>3, <1>10 DEF ReportIsTrue, Lasting
<1> QED
  BY <1>2, <1>3, <1>11, WhenReported DEF CommandKinds

\* The machine, the service manager and the administrator between the commands.
LEMMA OutsideKeeps ==
  ASSUME CommandHeld, Entry(service), Entry(command.found),
         Boot \/ ChangedByHand \/ CommandDies \/ MarkedServiceGoes
  PROVE  CommandHeld' /\ Entry(command.found)' /\ Entry(service)'
<1>1. CASE Boot
  <2>1. service' = {s \in service : ~s.marked} /\ command' = NoCommand
    BY <1>1 DEF Boot
  <2>2. Entry(service')
    BY <2>1 DEF Entry
  <2> QED
    BY <2>1, <2>2, CommandGone DEF Entry
<1>2. CASE ChangedByHand
  <2>1. PICK s \in service : service' = {[s EXCEPT !.actions = "foreign", !.flag = FALSE]}
    BY <1>2 DEF ChangedByHand
  <2>2. s = [f \in EntryFields |-> s[f]]
    BY <2>1 DEF Entry
  <2>3. PICK t : t = [s EXCEPT !.actions = "foreign", !.flag = FALSE]
    OBVIOUS
  <2>4. t = [f \in EntryFields |-> t[f]]
    BY <2>2, <2>3
  <2>5. service' = {t}
    BY <2>1, <2>3
  <2>6. Entry(service')
    BY <2>4, <2>5 DEF Entry
  <2> QED
    BY <1>2, <2>6, CommandGone DEF ChangedByHand, Entry
<1>3. CASE CommandDies
  BY <1>3, CommandGone DEF CommandDies, Entry
<1>4. CASE MarkedServiceGoes
  <2>1. /\ service' = {} /\ command' = command /\ \E s \in service : s.marked
        /\ command.phase \in {"idle", "reported"}
    BY <1>4 DEF MarkedServiceGoes, Between
  <2>2. Lasting(service) = {} /\ Lasting(service') = {}
    BY <2>1 DEF Lasting, Entry
  <2>3. PICK s : service = {s} /\ s.marked
    BY <2>1 DEF Entry
  <2>4. CASE command.phase = "reported"
    <3>1. command.kind \in CommandKinds /\ ReportIsTrue /\ DOMAIN command = DOMAIN NoCommand
      BY <2>4, KindOfPhase DEF CommandHeld
    <3>2. ~(command.result = "ok" /\ command.kind \in {"install", "recovery"})
      <4>1. ASSUME command.result = "ok", command.kind = "install"
            PROVE  FALSE
        <5>1. service = InstalledAs(command.start, command.subject)
          BY <3>1, <4>1 DEF ReportIsTrue
        <5>2. PICK r, no : /\ no = FALSE /\ service = {r} /\ r.marked = no
          BY <5>1 DEF InstalledAs
        <5> QED
          BY <2>3, <5>2
      <4>2. ASSUME command.result = "ok", command.kind = "recovery"
            PROVE  FALSE
        BY <2>3, <2>4, <4>2 DEF CommandHeld, RecoveryHeld
      <4> QED
        BY <4>1, <4>2
    <3>3. ReportIsTrue'
      <4>1. CASE command.result = "failed"
        BY <2>1, <2>2, <3>1, <4>1 DEF ReportIsTrue, Lasting
      <4>2. CASE command.result = "ok" /\ command.kind = "configure"
        BY <2>1, <2>2, <3>1, <4>2 DEF ReportIsTrue, Lasting
      <4>3. CASE command.result = "ok" /\ command.kind \in {"start", "stop", "remove"}
        BY <2>1, <2>2, <3>1, <4>3 DEF ReportIsTrue, Lasting
      <4>4. CASE command.result \notin {"failed", "ok"}
        BY <2>1, <4>4 DEF ReportIsTrue
      <4> QED
        BY <3>1, <3>2, <4>1, <4>2, <4>3, <4>4 DEF CommandKinds
    <3>4. command'.kind = "recovery" /\ command'.result = "ok" => \A x \in service' : ~x.marked
      BY <2>1
    <3>5. CommandHeld'
      BY <2>1, <2>4, <3>1, <3>3, <3>4, WhenReported
    <3> QED
      BY <2>1, <3>5 DEF Entry
  <2>5. CASE command.phase = "idle"
    <3>1. command.kind = "none"
      BY <2>5, KindIdle
    <3> QED
      BY <2>1, <2>5, <3>1 DEF CommandHeld, Undoing, Entry, CommandKinds
  <2> QED
    BY <2>1, <2>4, <2>5
<1> QED
  BY <1>1, <1>2, <1>3, <1>4

\* The first state, and the step.
LEMMA WindowsInitially ==
  ASSUME WindowsInit
  PROVE  WindowsInv
<1>1. PICK c : c = NoCommand
  OBVIOUS
<1>2. /\ c.kind = "none" /\ c.phase = "idle" /\ DOMAIN c = DOMAIN NoCommand /\ c.found = {}
  BY <1>1 DEF NoCommand
<1>3. command = c /\ service = {} /\ process = Down
  BY <1>1 DEF WindowsInit
<1>4. CommandHeld
  BY <1>2, <1>3 DEF CommandHeld, Phases, CommandKinds, Undoing
<1>5. StopHeld
  BY <1>3 DEF StopHeld, Down
<1> QED
  BY <1>2, <1>3, <1>4, <1>5 DEF WindowsInv, Entry

\* The step: each of them keeps the invariant.
LEMMA WindowsStep ==
  ASSUME WindowsInv, [WindowsNext]_windowsVars
  PROVE  WindowsInv'
<1>1. CommandHeld /\ Entry(service) /\ Entry(command.found)
  BY DEF WindowsInv
<1>2. StopHeld'
  BY StopKept DEF WindowsInv
<1>3. CASE UNCHANGED <<service, command>>
  <2>1. CommandHeld'
    BY <1>1, <1>3, CommandStands
  <2> QED
    BY <1>1, <1>2, <1>3, <2>1 DEF WindowsInv, Entry
<1>4. ASSUME CommandHeld' /\ command'.found = command.found, Entry(service)' \/ UNCHANGED service
      PROVE  WindowsInv'
  BY <1>1, <1>2, <1>4 DEF WindowsInv, Entry
<1>5. ASSUME NEW kind \in CommandKinds, NEW start, BeginCommand(kind, start)
      PROVE  WindowsInv'
  <2>1. CommandHeld' /\ command'.found = service /\ UNCHANGED service
    BY <1>1, <1>5, BeginKeeps
  <2> QED
    BY <1>1, <1>2, <2>1 DEF WindowsInv, Entry
<1>6. CASE Boot \/ ChangedByHand \/ CommandDies \/ MarkedServiceGoes
  BY <1>1, <1>2, <1>6, OutsideKeeps DEF WindowsInv
<1>7. CASE CheckStatus \/ PrepareRegistration \/ CreateService \/ EnableServiceSid \/ QueryRecovery
  BY <1>1, <1>4, <1>7, StatusKeeps, PrepareRegistrationKeeps, CreateKeeps, SidKeeps, QueryKeeps
<1>8. CASE SetActions \/ SetFlag \/ VerifyRecovery \/ WriteRegistration
  BY <1>1, <1>4, <1>8, SetActionsKeeps, SetFlagKeeps, VerifyKeeps, WriteKeeps
<1>9. CASE \/ StartService \/ StopService \/ AwaitStop \/ DisableService \/ RemoveService
           \/ StepFails \/ Interrupted
  BY <1>1, <1>4, <1>9, StartStopKeeps, DisableKeeps, RemoveKeeps, FailsKeeps, InterruptedKeeps
<1>10. CASE UndoActions \/ UndoFlag \/ UndoInstall \/ UndoDisable \/ UndoFails
  BY <1>1, <1>4, <1>10, UndoActionsKeeps, UndoFlagKeeps, UndoInstallKeeps, UndoDisableKeeps,
     UndoFailsKeeps
<1>11. ASSUME \/ RestartFailed \/ ForgetFailures \/ StopRequested \/ EditConfiguration
              \/ ProcessNext \/ UNCHANGED windowsVars
       PROVE  UNCHANGED <<service, command>>
  BY <1>11 DEF RestartFailed, ForgetFailures, StopRequested, EditConfiguration, ProcessNext,
     ReadRegistration, LoadConfiguration, CreateHost, AnnounceHost, RunHost, ServerReturns,
     CloseFromControl, EndProcess, ProcessDies, Unchanged, windowsVars
<1> QED
  BY <1>3, <1>5, <1>6, <1>7, <1>8, <1>9, <1>10, <1>11 DEF WindowsNext, CommandNext

\* ServiceReportsHold: what a command reports of the service is so, whichever step
\* failed, and a stop that the control handler finished is not lost.
THEOREM ReportsHold == WindowsSpec => []ServiceReportsHold
<1>1. WindowsInit => WindowsInv
  BY WindowsInitially
<1>2. WindowsInv /\ [WindowsNext]_windowsVars => WindowsInv'
  BY WindowsStep
<1>3. WindowsInv => ServiceReportsHold
  BY DEF WindowsInv, CommandHeld, StopHeld, ServiceReportsHold
<1> QED
  BY <1>1, <1>2, <1>3, PTL DEF WindowsSpec

-----------------------------------------------------------------------------
(* The deployment                                                          *)

\* A deployment is the application and the service, so what is proved of each of
\* them holds of it: this is the specification that the run checks.
THEOREM DeploymentIsBoth == DeploymentSpec => Spec /\ WindowsSpec
<1>1. DeploymentInit => Init /\ WindowsInit
  BY DEF DeploymentInit
<1>2. [DeploymentNext]_deploymentVars => [Next]_vars /\ [WindowsNext]_windowsVars
  BY DEF DeploymentNext, OnApplication, OnService, deploymentVars
<1> QED
  BY <1>1, <1>2, PTL DEF DeploymentSpec, Spec, WindowsSpec

=============================================================================
