------------------------------- MODULE QuotaProxy -------------------------------
(***************************************************************************)
(* The proxy in front of the provider (OpenAIQuotaWSGIApplication): one     *)
(* handler thread per worker request, each walking through _forward while   *)
(* the admin route reserves, settles and cancels leases at any moment.      *)
(*                                                                         *)
(* A handler reads the clock and authorizes its request, opens an operation *)
(* in the ledger, sends it to the provider, and ends the operation with the *)
(* usage it got back or marks it uncertain.  Between any two of these steps *)
(* other handlers run, the write lock of the store may stay busy past its   *)
(* timeout, the provider may answer late or never, and the proxy process    *)
(* may die.                                                                *)
(***************************************************************************)
EXTENDS QuotaLedger, QuotaPricing

CONSTANTS
  Handlers,       \* worker requests, each served by one thread
  InputLimit,     \* max_input_tokens of the model
  OutputLimits,   \* values of max_output_tokens that the requests carry
  BusyFaults,     \* how many times the write lock is busy past its timeout
  Crashes         \* how many times the proxy process dies

\* Why a handler gives up; "upstream_unavailable" also stands for "upstream_failed".
HandlerReasons == {"upstream_unavailable", "upstream_non_success", "provider_accounting_failed"}

ASSUME ProxyAssumption ==
  /\ Leases # {}
  /\ InputLimit \in Nat \ {0}
  /\ OutputLimits \subseteq Nat \ {0}
  /\ BusyFaults \in Nat
  /\ Crashes \in Nat
  /\ HandlerReasons \subseteq Reasons

VARIABLES
  clock,          \* the wall clock both the ledger and the handlers read
  handler,        \* the local variables and program counter of every thread
  provider,       \* what the provider did with each operation it received
  bill,           \* what the provider charges for it, in 1/Scale nano-USD
  faults          \* busy timeouts and crashes so far, to bound them

proxyVars == << lease, op, clock, handler, provider, bill, faults >>

-----------------------------------------------------------------------------
(* Handlers *)

\* Where a handler stands in _forward; "gone" is a thread lost with its process.
Pcs == {"idle", "begin", "send", "await", "nonsuccess", "complete", "mark", "done", "gone"}
InForward == {"send", "await", "nonsuccess", "complete", "mark"}

NoUsage == [input |-> 0, cached |-> 0, output |-> 0]
IdleHandler(l) ==
  [pc |-> "idle", lease |-> l, output |-> 0, now |-> 0, seq |-> 0, usage |-> NoUsage,
   reason |-> "none"]

AnyLease == CHOOSE l \in Leases : TRUE

Goto(h, pc) == handler' = [handler EXCEPT ![h].pc = pc]
GiveUp(h, reason) == handler' = [handler EXCEPT ![h].pc = "mark", ![h].reason = reason]

\* _authorize_request: the hold is priced at the model's whole input limit and the
\* output limit of the request.
Authorized(h) == MaximumCost(InputLimit, handler[h].output)

\* The usage a response may carry; _usage_accounting refuses any other.
Reportable(h) == Usage(InputLimit, handler[h].output)

OpOf(h) == op[handler[h].lease][handler[h].seq]

ProxyInit ==
  /\ LedgerInit
  /\ clock = 0
  /\ handler = [h \in Handlers |-> IdleHandler(AnyLease)]
  /\ provider = [l \in Leases |-> [s \in Seqs |-> "none"]]
  /\ bill = [l \in Leases |-> [s \in Seqs |-> 0]]
  /\ faults = [busy |-> 0, crash |-> 0]

\* A worker that holds the credential of a lease sends a request: _authorize_request,
\* then the clock reading of begin_operation.
Authorize(h, l, output) ==
  /\ handler[h].pc = "idle"
  /\ lease[l].state # "absent"
  /\ handler' = [handler EXCEPT ![h] =
       [IdleHandler(l) EXCEPT !.pc = "begin", !.output = output, !.now = clock]]
  /\ UNCHANGED << lease, op, clock, provider, bill, faults >>

\* begin_operation commits; the handler keeps the operation's sequence.
Begin(h) ==
  LET l == handler[h].lease IN
  /\ handler[h].pc = "begin"
  /\ BeginOperation(l, Authorized(h), handler[h].now)
  /\ handler' = [handler EXCEPT ![h].pc = "send", ![h].seq = lease[l].count + 1]
  /\ UNCHANGED << clock, provider, bill, faults >>

\* begin_operation refuses; the worker gets 401, 402 or 429.
BeginRefused(h) ==
  /\ handler[h].pc = "begin"
  /\ ~Admits(handler[h].lease, Authorized(h), handler[h].now)
  /\ Goto(h, "done")
  /\ UNCHANGED << lease, op, clock, provider, bill, faults >>

\* The request leaves for the provider.
Send(h) ==
  /\ handler[h].pc = "send"
  /\ provider' = [provider EXCEPT ![handler[h].lease][handler[h].seq] = "working"]
  /\ Goto(h, "await")
  /\ UNCHANGED << lease, op, clock, bill, faults >>

\* The request cannot be sent, times out, is redirected, or is answered by something
\* that _usage_accounting refuses.  The provider may still work on it.
UpstreamFails(h) ==
  /\ handler[h].pc \in {"send", "await"}
  /\ GiveUp(h, "upstream_unavailable")
  /\ UNCHANGED << lease, op, clock, provider, bill, faults >>

\* The provider answers with a status other than 200.
UpstreamRefuses(h) ==
  /\ handler[h].pc = "await"
  /\ handler' = [handler EXCEPT ![h].pc = "nonsuccess", ![h].reason = "upstream_non_success"]
  /\ UNCHANGED << lease, op, clock, provider, bill, faults >>

\* The provider answers with bounded usage, for which it charges.
UpstreamAnswers(h) ==
  LET l == handler[h].lease
      s == handler[h].seq IN
  /\ handler[h].pc = "await"
  /\ provider[l][s] = "working"
  /\ \E u \in Reportable(h) :
       /\ provider' = [provider EXCEPT ![l][s] = "finished"]
       /\ bill' = [bill EXCEPT ![l][s] = ExactBill(u)]
       /\ handler' = [handler EXCEPT ![h].pc = "complete", ![h].usage = u]
  /\ UNCHANGED << lease, op, clock, faults >>

\* The provider finishes, and charges for, an operation whose answer does not reach its
\* handler: the connection broke, the handler gave up on it, or its process died.
ProviderFinishesUnheard(h) ==
  LET l == handler[h].lease
      s == handler[h].seq IN
  /\ s # 0
  /\ provider[l][s] = "working"
  /\ provider' = [provider EXCEPT ![l][s] = "finished"]
  /\ \E u \in Reportable(h) : bill' = [bill EXCEPT ![l][s] = ExactBill(u)]
  /\ UNCHANGED << lease, op, clock, handler, faults >>

\* complete_operation commits and the response goes back to the worker.
Complete(h) ==
  /\ handler[h].pc = "complete"
  /\ CompleteOperation(handler[h].lease, handler[h].seq, ActualCost(handler[h].usage))
  /\ Goto(h, "done")
  /\ UNCHANGED << clock, provider, bill, faults >>

\* Variant: the handler does not mark an operation whose accounting was rejected.
OverrunForgotten(h) ==
  /\ handler[h].pc = "complete"
  /\ CompleteOverrun(handler[h].lease, handler[h].seq, ActualCost(handler[h].usage))
  /\ Goto(h, "done")
  /\ UNCHANGED << clock, provider, bill, faults >>

\* complete_operation raises OpenAIQuotaStoreError: the usage costs more than the hold.
Overrun(h) ==
  /\ handler[h].pc = "complete"
  /\ CompleteOverrun(handler[h].lease, handler[h].seq, ActualCost(handler[h].usage))
  /\ GiveUp(h, "provider_accounting_failed")
  /\ UNCHANGED << clock, provider, bill, faults >>

\* mark_operation_uncertain commits; from "nonsuccess" the handler marks a second
\* time, which finds the row already uncertain and changes nothing.
Mark(h) ==
  /\ handler[h].pc \in {"nonsuccess", "mark"}
  /\ MarkUncertain(handler[h].lease, handler[h].seq, handler[h].reason)
  /\ Goto(h, "done")
  /\ UNCHANGED << clock, provider, bill, faults >>

\* A transaction of the handler finds the write lock busy past busy_timeout.  Before
\* the operation exists the worker just gets an error; complete_operation and the
\* first mark of a refused answer fall through to one more mark; and when that one is
\* busy too, the handler ends and its operation stays in `forwarding'.
StoreBusy(h) ==
  /\ faults.busy < BusyFaults
  /\ \/ handler[h].pc \in {"begin", "mark"} /\ Goto(h, "done")
     \/ handler[h].pc \in {"nonsuccess", "complete"} /\ GiveUp(h, "provider_accounting_failed")
  /\ faults' = [faults EXCEPT !.busy = @ + 1]
  /\ UNCHANGED << lease, op, clock, provider, bill >>

\* The proxy process dies: every thread in it is lost, what is committed stays.  A
\* worker whose request was lost counts as answered with an error.
Crash ==
  /\ faults.crash < Crashes
  /\ \E h \in Handlers : handler[h].pc \notin {"idle", "done", "gone"}
  /\ handler' = [h \in Handlers |->
       IF handler[h].pc \in {"idle", "done"} THEN handler[h]
                                             ELSE [handler[h] EXCEPT !.pc = "gone"]]
  /\ faults' = [faults EXCEPT !.crash = @ + 1]
  /\ UNCHANGED << lease, op, clock, provider, bill >>

Tick ==
  /\ clock < Horizon
  /\ clock' = clock + 1
  /\ UNCHANGED << lease, op, handler, provider, bill, faults >>

\* The admin route, driven by the controller of a run.
Admin(l) ==
  /\ \/ \E r \in Reservations : Reserve(l, r)
     \/ \E completed \in 0 .. MaxOperations : Settle(l, completed)
     \/ \E reason \in Reasons : Cancel(l, reason)
  /\ UNCHANGED << clock, handler, provider, bill, faults >>

HandlerStep(h) ==
  \/ Begin(h) \/ BeginRefused(h)
  \/ Send(h) \/ UpstreamFails(h) \/ UpstreamRefuses(h) \/ UpstreamAnswers(h)
  \/ Complete(h) \/ Overrun(h) \/ Mark(h)

ProxyNext ==
  \/ \E h \in Handlers, l \in Leases, output \in OutputLimits : Authorize(h, l, output)
  \/ \E h \in Handlers : HandlerStep(h) \/ StoreBusy(h) \/ ProviderFinishesUnheard(h)
  \/ \E l \in Leases : Admin(l)
  \/ Crash
  \/ Tick

\* A thread that is not blocked runs on, and the transport's timeout ends every wait
\* for the provider; nobody has to send requests, drive the admin route, or fail.
ProxyFairness == \A h \in Handlers : WF_proxyVars(HandlerStep(h))

ProxySpec == ProxyInit /\ [][ProxyNext]_proxyVars /\ ProxyFairness

-----------------------------------------------------------------------------
(* Properties *)

ProxyTypeOK ==
  /\ LedgerTypeOK
  /\ clock \in Instants
  /\ handler \in [Handlers ->
       [pc : Pcs, lease : Leases, output : OutputLimits \cup {0}, now : Instants,
        seq : Seqs \cup {0}, usage : [input : Nat, cached : Nat, output : Nat],
        reason : HandlerReasons \cup {"none"}]]
  /\ provider \in [Leases -> [Seqs -> {"none", "working", "finished"}]]
  /\ bill \in [Leases -> [Seqs -> Nat]]
  /\ faults \in [busy : 0 .. BusyFaults, crash : 0 .. Crashes]

\* Whatever is lost, late or refused, the ledger's liability for an operation covers what
\* the provider charges for it, so the provider's total never exceeds the lease's budget.
RowLiability(l, s) ==
  IF op[l][s].status = "completed" THEN op[l][s].cost ELSE op[l][s].reserved
BillCovered == \A l \in Leases, s \in Seqs : bill[l][s] <= Scale * RowLiability(l, s)

\* The provider never works on more operations of a lease at once than the lease allows,
\* even counting the ones the proxy has given up on or forgotten.
ProviderConcurrencyBounded ==
  \A l \in Leases :
    Cardinality({s \in Seqs : provider[l][s] = "working"}) <= lease[l].maxConc

\* Nothing happens behind a settlement: no handler of a settled lease is still in
\* _forward, and the provider works on none of its operations.
SettledIsQuiet ==
  \A l \in Leases : lease[l].state = "settled" =>
    /\ \A h \in Handlers : handler[h].lease = l => handler[h].pc \notin InForward
    /\ \A s \in Seqs : provider[l][s] # "working"

\* An operation awaiting accounting belongs to one live handler; it is left without one
\* only by a crash or by a busy store, and such a lease is never settled.
HoldsAreOwned ==
  \A l \in Leases, s \in Seqs :
    LET owners == {h \in Handlers : handler[h].lease = l /\ handler[h].seq = s}
        live == {h \in owners : handler[h].pc \in InForward} IN
    /\ Cardinality(owners) <= 1
    /\ op[l][s].status = "forwarding" =>
         live # {} \/ (faults # [busy |-> 0, crash |-> 0] /\ lease[l].state # "settled")
    /\ live # {} => op[l][s].status = "forwarding"

\* Usage within the authorized token bounds never costs more than the hold.
BoundedUsageFitsHold ==
  \A h \in Handlers :
    handler[h].pc = "complete" => ActualCost(handler[h].usage) <= OpOf(h).reserved

\* Every request that took a hold ends, with its hold charged or burned unless the store
\* was busy or the process died.
EveryForwardEnds ==
  \A h \in Handlers :
    handler[h].pc \in InForward ~>
      \/ handler[h].pc = "gone"
      \/ /\ handler[h].pc = "done" /\ handler[h].seq # 0
         /\ OpOf(h).status = "forwarding" => faults.busy > 0

\* Accounting that exceeds the authorization is kept as such: the operation ends in
\* accounting_failed, as the UPDATE of complete_operation says.
OverrunIsRecorded ==
  \A h \in Handlers :
    /\ handler[h].pc = "done"
    /\ handler[h].seq # 0
    /\ ActualCost(handler[h].usage) > OpOf(h).reserved
    => OpOf(h).status = "accounting_failed"

=============================================================================
