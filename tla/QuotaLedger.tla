------------------------------ MODULE QuotaLedger ------------------------------
(***************************************************************************)
(* The transactional lease store of the quota proxy                        *)
(* (SQLiteOpenAIQuotaStore).  Every public method of the store that writes *)
(* runs in one BEGIN IMMEDIATE transaction, so it is one action here; its  *)
(* callers, the proxy's worker and admin routes, are modelled by           *)
(* QuotaProxy, and any caller may call anything in any order below.        *)
(*                                                                         *)
(* lease[l] is the row of quota_leases, op[l][s] the row of                *)
(* quota_operations with primary key (l, s).  Amounts are whole nano-USD.  *)
(***************************************************************************)
EXTENDS Integers, FiniteSets

CONSTANTS
  Leases,         \* lease identifiers the store may draw
  Reservations,   \* what the admin route may ask for, with the expiry it gets
  Reasons,        \* reason codes of cancellations and failures
  MaxOperations,  \* bound of quota_leases.max_operations
  MaxConcurrency, \* bound of quota_leases.max_concurrency
  MaxCost,        \* bound of every nano-USD column
  Horizon         \* last reading of the store's clock

Seqs == 1 .. MaxOperations
Amounts == 0 .. MaxCost
Instants == 0 .. Horizon

ASSUME LedgerAssumption ==
  /\ MaxOperations \in Nat \ {0}
  /\ MaxConcurrency \in Nat \ {0}
  /\ MaxCost \in Nat
  /\ Horizon \in Nat
  /\ "none" \notin Reasons
  /\ "settled" \notin Reasons
  /\ Reservations \subseteq [cost : Amounts, conc : 1 .. MaxConcurrency,
                             ops : Seqs, expires : Nat]

VARIABLES
  lease,          \* quota_leases
  op              \* quota_operations

ledgerVars == << lease, op >>

-----------------------------------------------------------------------------
(* Rows *)

LeaseStates == {"absent", "active", "settled", "canceled", "failed"}
Terminal == {"settled", "canceled", "failed"}
OpStates == {"absent", "forwarding", "completed", "uncertain", "accounting_failed"}

LeaseRow ==
  [state : LeaseStates, maxCost : Amounts, maxConc : 0 .. MaxConcurrency,
   maxOps : 0 .. MaxOperations, expires : Nat, count : 0 .. MaxOperations,
   successful : 0 .. MaxOperations, inFlight : 0 .. MaxConcurrency, held : Amounts,
   actual : Amounts, uncertain : Amounts, reason : Reasons \cup {"none", "settled"}]

OpRow == [status : OpStates, reserved : Amounts, cost : Amounts]

NoLease ==
  [state |-> "absent", maxCost |-> 0, maxConc |-> 0, maxOps |-> 0, expires |-> 0,
   count |-> 0, successful |-> 0, inFlight |-> 0, held |-> 0, actual |-> 0,
   uncertain |-> 0, reason |-> "none"]

NewLease(r) ==
  [NoLease EXCEPT !.state = "active", !.maxCost = r.cost, !.maxConc = r.conc,
                  !.maxOps = r.ops, !.expires = r.expires]

\* Variant: any lease can end again.
EndedAgain(row, state, reason) == [row EXCEPT !.state = state, !.reason = reason]

\* Only an active lease can end, for the first reason it is given.
Ended(row, state, reason) ==
  IF row.state = "active" THEN [row EXCEPT !.state = state, !.reason = reason] ELSE row

NoOp == [status |-> "absent", reserved |-> 0, cost |-> 0]

\* What the lease may still be billed for or has been billed for.
Liability(l) == lease[l].actual + lease[l].held + lease[l].uncertain

LedgerInit ==
  /\ lease = [l \in Leases |-> NoLease]
  /\ op = [l \in Leases |-> [s \in Seqs |-> NoOp]]

-----------------------------------------------------------------------------
(* Transactions *)

\* reserve: an INSERT of a fresh, active lease.
Reserve(l, r) ==
  /\ lease[l].state = "absent"
  /\ lease' = [lease EXCEPT ![l] = NewLease(r)]
  /\ UNCHANGED op

\* Variant: only what was charged counts against the cost limit, not what is held.
AdmitsOverHolds(l, amount, now) ==
  /\ lease[l].state = "active"
  /\ now <= lease[l].expires
  /\ lease[l].count < lease[l].maxOps
  /\ lease[l].inFlight < lease[l].maxConc
  /\ lease[l].actual + amount <= lease[l].maxCost

\* The checks of begin_operation.  `now' was read before the write lock was
\* taken; the expiry instant itself is still admitted.
Admits(l, amount, now) ==
  /\ lease[l].state = "active"
  /\ now <= lease[l].expires
  /\ lease[l].count < lease[l].maxOps
  /\ lease[l].inFlight < lease[l].maxConc
  /\ Liability(l) + amount <= lease[l].maxCost

Held(row, amount) ==
  [row EXCEPT !.count = @ + 1, !.inFlight = @ + 1, !.held = @ + amount]

BeginOperation(l, amount, now) ==
  /\ Admits(l, amount, now)
  /\ op' = [op EXCEPT ![l][lease[l].count + 1] =
                [status |-> "forwarding", reserved |-> amount, cost |-> 0]]
  /\ lease' = [lease EXCEPT ![l] = Held(lease[l], amount)]

\* complete_operation with usage that costs no more than the hold.
Charged(row, reserved, cost) ==
  [row EXCEPT !.successful = @ + 1, !.inFlight = @ - 1,
              !.held = @ - reserved, !.actual = @ + cost]

CompleteOperation(l, s, cost) ==
  /\ op[l][s].status = "forwarding"
  /\ cost <= op[l][s].reserved
  /\ op' = [op EXCEPT ![l][s] = [op[l][s] EXCEPT !.status = "completed", !.cost = cost]]
  /\ lease' = [lease EXCEPT ![l] = Charged(lease[l], op[l][s].reserved, cost)]

\* complete_operation with usage that costs more than the hold: the two UPDATEs
\* that record 'accounting_failed' are followed by a raise inside the same
\* transaction, which rolls them back.
CompleteOverrun(l, s, cost) ==
  /\ op[l][s].status = "forwarding"
  /\ cost > op[l][s].reserved
  /\ UNCHANGED ledgerVars

\* mark_operation_uncertain: the whole hold becomes uncertain liability, and an
\* active lease fails with it.  Any row not forwarding is left alone.
\* Variants: the hold stays held as well; the lease stays usable.
BurnedAndHeld(row, reserved, reason) ==
  [Ended(row, "failed", reason) EXCEPT !.inFlight = @ - 1, !.uncertain = @ + reserved]
BurnedQuietly(row, reserved, reason) ==
  [row EXCEPT !.inFlight = @ - 1, !.held = @ - reserved, !.uncertain = @ + reserved]

Burned(row, reserved, reason) ==
  [Ended(row, "failed", reason) EXCEPT
     !.inFlight = @ - 1, !.held = @ - reserved, !.uncertain = @ + reserved]

\* Variant: only operations of an active lease are marked.
MarkWhileActive(l, s, reason) ==
  /\ op[l][s].status = "forwarding"
  /\ lease[l].state = "active"
  /\ op' = [op EXCEPT ![l][s] = [op[l][s] EXCEPT !.status = "uncertain"]]
  /\ lease' = [lease EXCEPT ![l] = Burned(lease[l], op[l][s].reserved, reason)]

MarkUncertain(l, s, reason) ==
  /\ op[l][s].status = "forwarding"
  /\ op' = [op EXCEPT ![l][s] = [op[l][s] EXCEPT !.status = "uncertain"]]
  /\ lease' = [lease EXCEPT ![l] = Burned(lease[l], op[l][s].reserved, reason)]

\* Variant: operations still in flight do not keep a lease from settling.
SettleableInFlight(l, completed) ==
  /\ lease[l].state = "active"
  /\ lease[l].uncertain = 0
  /\ completed = lease[l].successful

\* The checks of settle; `completed' is the number of outcomes the sandbox counted.
Settleable(l, completed) ==
  /\ lease[l].state = "active"
  /\ lease[l].inFlight = 0
  /\ lease[l].held = 0
  /\ lease[l].uncertain = 0
  /\ completed = lease[l].successful
  /\ lease[l].count = lease[l].successful

Settle(l, completed) ==
  /\ Settleable(l, completed)
  /\ lease' = [lease EXCEPT ![l] = Ended(lease[l], "settled", "settled")]
  /\ UNCHANGED op

\* cancel returns normally: the lease is revoked by it, or was already revoked.
CancelAccepted(l, reason) ==
  \/ lease[l].state \in {"active", "failed"}
  \/ lease[l].state = "canceled" /\ lease[l].reason = reason

Cancel(l, reason) ==
  /\ CancelAccepted(l, reason)
  /\ lease' = [lease EXCEPT ![l] = Ended(lease[l], "canceled", reason)]
  /\ UNCHANGED op

LedgerNext ==
  \E l \in Leases :
    \/ \E r \in Reservations : Reserve(l, r)
    \/ \E amount \in Amounts, now \in Instants : BeginOperation(l, amount, now)
    \/ \E s \in Seqs, cost \in Amounts : CompleteOperation(l, s, cost)
    \/ \E s \in Seqs, cost \in Amounts : CompleteOverrun(l, s, cost)
    \/ \E s \in Seqs, reason \in Reasons : MarkUncertain(l, s, reason)
    \/ \E completed \in 0 .. MaxOperations : Settle(l, completed)
    \/ \E reason \in Reasons : Cancel(l, reason)

LedgerSpec == LedgerInit /\ [][LedgerNext]_ledgerVars

-----------------------------------------------------------------------------
(* Properties *)

Rows(l, states) == { s \in Seqs : op[l][s].status \in states }

\* The sum of amount[s] over the sequences in S, counted one nano-USD at a time:
\* the size of the disjoint union of the intervals 1 .. amount[s].
Units(S, amount) == { u \in S \X (1 .. MaxCost) : u[2] <= amount[u[1]] }
Total(S, amount) == Cardinality(Units(S, amount))

ReservedOf(l) == [s \in Seqs |-> op[l][s].reserved]
CostOf(l) == [s \in Seqs |-> op[l][s].cost]

\* Every column of both tables keeps its type.
LedgerTypeOK ==
  /\ lease \in [Leases -> LeaseRow]
  /\ op \in [Leases -> [Seqs -> OpRow]]

\* The counters and running sums that the six transactions keep in a lease's row
\* are exactly the counts and sums of its operation rows: no interleaving of
\* begin, complete, mark and cancel drops, doubles or misplaces a hold.
CountersMatchRows(l) ==
  /\ Rows(l, OpStates \ {"absent"}) = 1 .. lease[l].count
  /\ lease[l].inFlight = Cardinality(Rows(l, {"forwarding"}))
  /\ lease[l].successful = Cardinality(Rows(l, {"completed"}))
SumsMatchRows(l) ==
  /\ lease[l].held = Total(Rows(l, {"forwarding"}), ReservedOf(l))
  /\ lease[l].uncertain = Total(Rows(l, {"uncertain"}), ReservedOf(l))
  /\ lease[l].actual = Total(Rows(l, {"completed"}), CostOf(l))
LedgerBalanced == \A l \in Leases : CountersMatchRows(l) /\ SumsMatchRows(l)

\* No transaction that passes the store's own checks reaches a row that the table's
\* CHECK constraints refuse, so no accounting update is lost to an integrity error.
ChecksHold ==
  \A l \in Leases :
    /\ lease[l].count <= lease[l].maxOps
    /\ lease[l].successful <= lease[l].count
    /\ lease[l].inFlight <= lease[l].maxConc
    /\ Liability(l) <= lease[l].maxCost
    /\ lease[l].state \in Terminal <=> lease[l].reason # "none"

\* A settled lease has only operations with authoritative provider accounting, as many
\* as the settlement says, and its recorded cost is theirs.
SettledIsExact ==
  \A l \in Leases : lease[l].state = "settled" =>
    /\ Rows(l, OpStates \ {"absent"}) = Rows(l, {"completed"})
    /\ Liability(l) = Total(Rows(l, {"completed"}), CostOf(l))

\* An operation whose provider cost is unknown revokes its lease for good.
UncertainRevokes ==
  \A l \in Leases : Rows(l, {"uncertain"}) # {} => lease[l].state \in {"canceled", "failed"}

\* The store keeps the promise of a provider hard limit: every lease is a budget, what
\* its three running sums leave of max_cost_nusd is what can still be held, its
\* forwarding rows are the holds and its uncertain rows the burned ones.
Phase(state) ==
  CASE state = "absent" -> "none"
    [] state = "active" -> "open"
    [] state = "settled" -> "clean"
    [] OTHER -> "revoked"

PhaseOf == [l \in Leases |-> Phase(lease[l].state)]
LeftOf == [l \in Leases |-> lease[l].maxCost - Liability(l)]
HoldOf == [l \in Leases |-> [s \in Seqs |->
             IF op[l][s].status = "forwarding" THEN op[l][s].reserved ELSE -1]]
UsedOf == [l \in Leases |-> Rows(l, OpStates \ {"absent"})]
BurnedOf == [l \in Leases |-> Rows(l, {"uncertain"})]

Budget == INSTANCE QuotaBudget WITH
  Budgets <- Leases, Slots <- Seqs, Limits <- Amounts,
  phase <- PhaseOf, left <- LeftOf, hold <- HoldOf, used <- UsedOf, burned <- BurnedOf

HardLimit == Budget!Spec

\* A terminal lease keeps its state and its first reason, and takes no new operation,
\* while late provider answers still settle its holds; a settled lease never changes.
TerminalIsFinal ==
  [][\A l \in Leases : lease[l].state \in Terminal =>
       /\ lease'[l].state = lease[l].state
       /\ lease'[l].reason = lease[l].reason
       /\ lease'[l].count = lease[l].count
       /\ lease[l].state = "settled" => lease'[l] = lease[l] /\ op'[l] = op[l]]_ledgerVars

=============================================================================
