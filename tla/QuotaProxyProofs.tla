---------------------------- MODULE QuotaProxyProofs ----------------------------
(***************************************************************************)
(* The proxy keeps the store's promise towards the provider: for every      *)
(* number of requests, leases, busy timeouts and crashes, and for every     *)
(* price list, each of its steps is a transaction of the store or leaves    *)
(* the tables alone, what the provider charges is covered, and what the     *)
(* provider works on is bounded.                                            *)
(***************************************************************************)
EXTENDS QuotaProxy, QuotaLedgerProofs

-----------------------------------------------------------------------------
(* The prices: what the ceiling arithmetic guarantees for every price,      *)
(* every token limit and every usage within it                              *)

\* Cost is the least whole number of nano-USD that covers the exact price.
LEMMA CeilingBounds ==
  ASSUME NEW tokens \in Nat, NEW rate \in Nat
  PROVE  /\ Cost(tokens, rate) \in Nat
         /\ tokens * rate \in Nat
         /\ Scale * Cost(tokens, rate) \in Nat
         /\ tokens * rate <= Scale * Cost(tokens, rate)
         /\ Scale * Cost(tokens, rate) < tokens * rate + Scale
<1> DEFINE x == tokens * rate + Scale - 1
<1>1. tokens * rate \in Nat
  OBVIOUS
<1>2. x \in Nat
  BY <1>1, PricingAssumption
<1>3. x \div Scale \in Nat /\ x = Scale * (x \div Scale) + (x % Scale)
      /\ x % Scale \in 0 .. Scale - 1
  BY <1>2, PricingAssumption
<1>4. Cost(tokens, rate) \in Nat => Scale * Cost(tokens, rate) \in Nat
  BY PricingAssumption
<1> QED
  BY <1>1, <1>3, <1>4, PricingAssumption DEF Cost

\* More tokens at the same rate never cost less.
LEMMA CostMonotonic ==
  ASSUME NEW few \in Nat, NEW many \in Nat, few <= many, NEW rate \in Nat
  PROVE  few * rate <= many * rate
OBVIOUS

\* The cached part of a usage costs no more than the same tokens at the regular rate.
LEMMA CachedIsDiscount ==
  ASSUME NEW tokens \in Nat
  PROVE  tokens * CachedRate <= tokens * InputRate
BY PricingAssumption

\* The exact charge for a bounded usage, split into what input and output contribute.
LEMMA ExactParts ==
  ASSUME NEW inputLimit \in Nat, NEW outputLimit \in Nat,
         NEW u \in Usage(inputLimit, outputLimit)
  PROVE  /\ u.input \in Nat /\ u.cached \in Nat /\ u.output \in Nat
         /\ u.input - u.cached \in Nat
         /\ (u.input - u.cached) * InputRate + u.cached * CachedRate <= inputLimit * InputRate
         /\ u.output * OutputRate <= outputLimit * OutputRate
<1>1. /\ u.input \in 0 .. inputLimit /\ u.cached \in 0 .. inputLimit
      /\ u.output \in 0 .. outputLimit /\ u.cached <= u.input
  BY DEF Usage
<1>2. u.cached * CachedRate <= u.cached * InputRate
  BY <1>1, CachedIsDiscount
<1>3. (u.input - u.cached) * InputRate + u.cached * InputRate = u.input * InputRate
  BY <1>1, PricingAssumption
<1>4. u.input * InputRate <= inputLimit * InputRate
  BY <1>1, CostMonotonic, PricingAssumption
<1>5. u.output * OutputRate <= outputLimit * OutputRate
  BY <1>1, CostMonotonic, PricingAssumption
<1>6. /\ (u.input - u.cached) * InputRate \in Int /\ u.cached * CachedRate \in Int
      /\ u.cached * InputRate \in Int /\ u.input * InputRate \in Int
      /\ inputLimit * InputRate \in Int
  BY <1>1, PricingAssumption
<1> QED
  BY <1>1, <1>2, <1>3, <1>4, <1>5, <1>6

\* The charge the ledger records for a completed operation covers the exact bill: the
\* ceilings of _cost only ever round in the ledger's favour.
THEOREM ChargeCoversBill ==
  ASSUME NEW inputLimit \in Nat, NEW outputLimit \in Nat,
         NEW u \in Usage(inputLimit, outputLimit)
  PROVE  /\ ActualCost(u) \in Nat
         /\ ExactBill(u) <= Scale * ActualCost(u)
<1> DEFINE regular == Cost(u.input - u.cached, InputRate)
           cached == Cost(u.cached, CachedRate)
           output == Cost(u.output, OutputRate)
<1>1. /\ u.input \in Nat /\ u.cached \in Nat /\ u.output \in Nat /\ u.input - u.cached \in Nat
  BY ExactParts
<1>2. regular \in Nat /\ (u.input - u.cached) * InputRate <= Scale * regular
  BY <1>1, CeilingBounds, PricingAssumption
<1>3. cached \in Nat /\ u.cached * CachedRate <= Scale * cached
  BY <1>1, CeilingBounds, PricingAssumption
<1>4. output \in Nat /\ u.output * OutputRate <= Scale * output
  BY <1>1, CeilingBounds, PricingAssumption
<1>5. Scale * (regular + cached + output) = Scale * regular + Scale * cached + Scale * output
  BY <1>2, <1>3, <1>4, PricingAssumption
<1>6. /\ (u.input - u.cached) * InputRate \in Int /\ u.cached * CachedRate \in Int
      /\ u.output * OutputRate \in Int
      /\ Scale * regular \in Int /\ Scale * cached \in Int /\ Scale * output \in Int
  BY <1>1, <1>2, <1>3, <1>4, PricingAssumption
<1> HIDE DEF regular, cached, output
<1>7. ExactBill(u) <= Scale * (regular + cached + output)
  BY <1>2, <1>3, <1>4, <1>5, <1>6 DEF ExactBill
<1> QED
  BY <1>2, <1>3, <1>4, <1>7 DEF ActualCost, regular, cached, output

\* The hold taken before forwarding covers the exact bill of every usage within the
\* authorized token bounds, for every configured price.
THEOREM HoldCoversBill ==
  ASSUME NEW inputLimit \in Nat, NEW outputLimit \in Nat,
         NEW u \in Usage(inputLimit, outputLimit)
  PROVE  /\ MaximumCost(inputLimit, outputLimit) \in Nat
         /\ ExactBill(u) <= Scale * MaximumCost(inputLimit, outputLimit)
<1> DEFINE input == Cost(inputLimit, InputRate)
           output == Cost(outputLimit, OutputRate)
<1>1. input \in Nat /\ inputLimit * InputRate <= Scale * input
  BY CeilingBounds, PricingAssumption
<1>2. output \in Nat /\ outputLimit * OutputRate <= Scale * output
  BY CeilingBounds, PricingAssumption
<1>3. /\ (u.input - u.cached) * InputRate + u.cached * CachedRate <= inputLimit * InputRate
      /\ u.output * OutputRate <= outputLimit * OutputRate
      /\ u.input \in Nat /\ u.cached \in Nat /\ u.output \in Nat
  BY ExactParts
<1>4. /\ (u.input - u.cached) * InputRate \in Int /\ u.cached * CachedRate \in Int
      /\ u.output * OutputRate \in Int /\ inputLimit * InputRate \in Int
      /\ outputLimit * OutputRate \in Int /\ Scale * input \in Int /\ Scale * output \in Int
  BY <1>1, <1>2, <1>3, PricingAssumption
<1>5. Scale * (input + output) = Scale * input + Scale * output
  BY <1>1, <1>2, PricingAssumption
<1> HIDE DEF input, output
<1>6. ExactBill(u) <= Scale * (input + output)
  BY <1>1, <1>2, <1>3, <1>4, <1>5 DEF ExactBill
<1> QED
  BY <1>1, <1>2, <1>6 DEF MaximumCost, input, output

LEMMA CancelScale ==
  ASSUME NEW a \in Int, NEW b \in Int, Scale * a < Scale * b
  PROVE  a < b
BY PricingAssumption

\* Any whole number of nano-USD that covers the exact price is at least the cost.
LEMMA CeilingLeast ==
  ASSUME NEW tokens \in Nat, NEW rate \in Nat, NEW n \in Int, tokens * rate <= Scale * n
  PROVE  Cost(tokens, rate) <= n
<1>1. /\ Cost(tokens, rate) \in Nat /\ tokens * rate \in Nat
      /\ Scale * Cost(tokens, rate) < tokens * rate + Scale
  BY CeilingBounds
<1>2. Scale * (n + 1) = Scale * n + Scale /\ Scale * n \in Int
      /\ Scale * Cost(tokens, rate) \in Int
  BY <1>1, PricingAssumption
<1>3. Scale * Cost(tokens, rate) < Scale * (n + 1)
  BY <1>1, <1>2, PricingAssumption
<1>4. Cost(tokens, rate) < n + 1
  BY <1>1, <1>3, CancelScale
<1> QED
  BY <1>1, <1>4

LEMMA CostIncreases ==
  ASSUME NEW few \in Nat, NEW many \in Nat, few <= many, NEW rate \in Nat
  PROVE  Cost(few, rate) <= Cost(many, rate)
<1>1. few * rate <= many * rate
  BY CostMonotonic
<1>2. /\ many * rate <= Scale * Cost(many, rate) /\ Cost(many, rate) \in Nat
      /\ many * rate \in Nat /\ few * rate \in Nat /\ Scale * Cost(many, rate) \in Nat
  BY CeilingBounds
<1>3. few * rate <= Scale * Cost(many, rate)
  BY <1>1, <1>2
<1> QED
  BY <1>2, <1>3, CeilingLeast

\* Rounding regular and cached input separately can lose at most one nano-USD against
\* the hold, which rounds the whole input limit once.
THEOREM OverrunIsAtMostOne ==
  ASSUME NEW inputLimit \in Nat, NEW outputLimit \in Nat,
         NEW u \in Usage(inputLimit, outputLimit)
  PROVE  ActualCost(u) <= MaximumCost(inputLimit, outputLimit) + 1
<1> DEFINE regular == Cost(u.input - u.cached, InputRate)
           cached == Cost(u.cached, CachedRate)
           output == Cost(u.output, OutputRate)
           input == Cost(inputLimit, InputRate)
           outputMax == Cost(outputLimit, OutputRate)
           a == (u.input - u.cached) * InputRate
           b == u.cached * CachedRate
           c == inputLimit * InputRate
<1>1. /\ u.input \in Nat /\ u.cached \in Nat /\ u.output \in Nat /\ u.input - u.cached \in Nat
      /\ a + b <= c /\ u.output <= outputLimit
  BY ExactParts DEF Usage
<1>2. /\ regular \in Nat /\ a \in Nat /\ Scale * regular < a + Scale
  BY <1>1, CeilingBounds, PricingAssumption
<1>3. /\ cached \in Nat /\ b \in Nat /\ Scale * cached < b + Scale
  BY <1>1, CeilingBounds, PricingAssumption
<1>4. /\ input \in Nat /\ c \in Nat /\ c <= Scale * input
  BY CeilingBounds, PricingAssumption
<1>5. output <= outputMax /\ output \in Nat /\ outputMax \in Nat
  BY <1>1, CostIncreases, CeilingBounds, PricingAssumption
<1> HIDE DEF a, b, c, regular, cached, output, input, outputMax
<1>6. regular + cached <= input + 1
  <2>1. /\ Scale * (regular + cached) = Scale * regular + Scale * cached
        /\ Scale * (input + 2) = Scale * input + Scale + Scale
        /\ Scale * regular \in Int /\ Scale * cached \in Int /\ Scale * input \in Int
    BY <1>2, <1>3, <1>4, PricingAssumption
  <2>2. Scale * (regular + cached) < Scale * (input + 2)
    BY <1>1, <1>2, <1>3, <1>4, <2>1, PricingAssumption
  <2>3. regular + cached < input + 2
    BY <1>2, <1>3, <1>4, <2>2, CancelScale
  <2> QED
    BY <1>2, <1>3, <1>4, <2>3
<1> QED
  BY <1>2, <1>3, <1>4, <1>5, <1>6
     DEF ActualCost, MaximumCost, regular, cached, output, input, outputMax

\* When one regular input token costs a whole number of nano-USD, bounded usage never
\* costs more than the hold: the preauthorized maximum is then a maximum.
THEOREM WholeInputRateNeverOverruns ==
  ASSUME NEW inputLimit \in Nat, NEW outputLimit \in Nat,
         NEW u \in Usage(inputLimit, outputLimit),
         NEW k \in Nat, InputRate = k * Scale
  PROVE  ActualCost(u) <= MaximumCost(inputLimit, outputLimit)
<1>1. /\ u.input \in Nat /\ u.cached \in Nat /\ u.output \in Nat /\ u.input - u.cached \in Nat
  BY ExactParts
<1>2. u.input <= inputLimit /\ u.output <= outputLimit
  BY DEF Usage
<1> DEFINE t == u.input - u.cached
<1>3. Cost(t, InputRate) <= t * k /\ t * k \in Nat
  <2>1. t * InputRate = Scale * (t * k) /\ t * k \in Nat
    BY <1>1, PricingAssumption
  <2> QED
    BY <1>1, <2>1, CeilingLeast, PricingAssumption
<1>4. Cost(u.cached, CachedRate) <= u.cached * k /\ u.cached * k \in Nat
  <2>1. u.cached * InputRate = Scale * (u.cached * k) /\ u.cached * k \in Nat
    BY <1>1, PricingAssumption
  <2>2. u.cached * CachedRate <= u.cached * InputRate
    BY <1>1, CachedIsDiscount
  <2> QED
    BY <1>1, <2>1, <2>2, CeilingLeast, PricingAssumption
<1>5. inputLimit * k <= Cost(inputLimit, InputRate) /\ inputLimit * k \in Nat
  <2>1. inputLimit * InputRate = Scale * (inputLimit * k) /\ inputLimit * k \in Nat
    BY PricingAssumption
  <2>2. /\ inputLimit * InputRate <= Scale * Cost(inputLimit, InputRate)
        /\ Cost(inputLimit, InputRate) \in Nat /\ Scale * Cost(inputLimit, InputRate) \in Nat
    BY CeilingBounds, PricingAssumption
  <2>3. /\ Scale * (Cost(inputLimit, InputRate) + 1) = Scale * Cost(inputLimit, InputRate) + Scale
        /\ Scale * (inputLimit * k) \in Nat
    BY <2>1, <2>2, PricingAssumption
  <2>4. inputLimit * k < Cost(inputLimit, InputRate) + 1
    BY <2>1, <2>2, <2>3, CancelScale, PricingAssumption
  <2> QED
    BY <2>1, <2>2, <2>4
<1>6. t * k + u.cached * k <= inputLimit * k
  <2>1. t * k + u.cached * k = u.input * k
    BY <1>1
  <2> QED
    BY <1>1, <1>2, <2>1, CostMonotonic
<1>7. Cost(u.output, OutputRate) <= Cost(outputLimit, OutputRate)
  BY <1>1, <1>2, CostIncreases, PricingAssumption
<1>8. /\ Cost(t, InputRate) \in Nat /\ Cost(u.cached, CachedRate) \in Nat
      /\ Cost(u.output, OutputRate) \in Nat /\ Cost(inputLimit, InputRate) \in Nat
      /\ Cost(outputLimit, OutputRate) \in Nat
  BY <1>1, CeilingBounds, PricingAssumption
<1> QED
  BY <1>3, <1>4, <1>5, <1>6, <1>7, <1>8 DEF ActualCost, MaximumCost

-----------------------------------------------------------------------------
(* The inductive invariant *)

\* The locals of one handler thread, as ProxyTypeOK types them.
HandlerRow ==
  [pc : Pcs, lease : Leases, output : OutputLimits \cup {0}, now : Instants,
   seq : Seqs \cup {0}, usage : [input : Nat, cached : Nat, output : Nat],
   reason : HandlerReasons \cup {"none"}]

\* What a handler relies on between two of its steps: once it has an operation, the row is
\* there and was priced at its own request; while it is in _forward the row is forwarding;
\* and when it is about to complete, the provider's books hold exactly its usage.
HandlerInv(h) ==
  LET l == handler[h].lease
      s == handler[h].seq IN
  /\ handler[h].pc # "idle" => handler[h].output \in OutputLimits
  /\ handler[h].pc \in {"idle", "begin"} => s = 0
  /\ s # 0 => op[l][s].status # "absent" /\ op[l][s].reserved = Authorized(h)
  /\ handler[h].pc \in InForward => s # 0 /\ op[l][s].status = "forwarding"
  /\ handler[h].pc \in {"nonsuccess", "mark"} => handler[h].reason \in HandlerReasons
  /\ handler[h].pc = "complete" =>
       /\ handler[h].usage \in Reportable(h)
       /\ provider[l][s] = "finished"
       /\ bill[l][s] = ExactBill(handler[h].usage)

\* The provider works only on operations that still may cost something, charges nothing for
\* one that does not exist, and never more than the ledger has down for it.
RowInv(l, s) ==
  /\ provider[l][s] = "working" => op[l][s].status \in {"forwarding", "uncertain"}
  /\ op[l][s].status = "absent" => bill[l][s] = 0
  /\ bill[l][s] <= Scale * RowLiability(l, s)

\* No two handlers share an operation.
OneOwner ==
  \A h, k \in Handlers :
    handler[h].seq # 0 /\ handler[h].seq = handler[k].seq /\ handler[h].lease = handler[k].lease
      => h = k

Live(h, l, s) == handler[h].lease = l /\ handler[h].seq = s /\ handler[h].pc \in InForward

NoFault == faults.busy = 0 /\ faults.crash = 0

\* Without a fault every forwarding row has a handler in _forward.
NoOrphan ==
  \A l \in Leases, s \in Seqs :
    op[l][s].status = "forwarding" => (\E h \in Handlers : Live(h, l, s)) \/ ~NoFault

\* The operations whose provider work is not known to be over: they are never more than
\* the lease's concurrency, because the first uncertain one stops new ones.
Exposed(l) == Rows(l, {"forwarding", "uncertain"})
ExposureBounded == \A l \in Leases : Cardinality(Exposed(l)) <= lease[l].maxConc

PInv ==
  /\ ProxyTypeOK
  /\ IInv
  /\ \A h \in Handlers : HandlerInv(h)
  /\ \A l \in Leases, s \in Seqs : RowInv(l, s)
  /\ OneOwner
  /\ NoOrphan
  /\ ExposureBounded

-----------------------------------------------------------------------------
(* Effects of the transactions on rows *)

LEMMA Types ==
  ASSUME PInv
  PROVE  /\ lease \in [Leases -> LeaseRow] /\ op \in [Leases -> [Seqs -> OpRow]]
         /\ handler \in [Handlers -> HandlerRow]
         /\ provider \in [Leases -> [Seqs -> {"none", "working", "finished"}]]
         /\ bill \in [Leases -> [Seqs -> Nat]]
         /\ clock \in Instants
         /\ faults \in [busy : 0 .. BusyFaults, crash : 0 .. Crashes]
BY DEF PInv, ProxyTypeOK, LedgerTypeOK, HandlerRow

\* 0 is never a sequence number.
LEMMA ZeroIsNoSeq == 0 \notin Seqs
BY LedgerAssumption DEF Seqs

\* A bounded usage is billed a whole number of price units, covered by the hold of its
\* request and by the cost it is charged.
LEMMA BillFits ==
  ASSUME NEW h, handler[h].output \in OutputLimits, NEW u \in Reportable(h)
  PROVE  /\ u \in [input : Nat, cached : Nat, output : Nat]
         /\ ExactBill(u) \in Nat /\ ActualCost(u) \in Nat
         /\ ExactBill(u) <= Scale * Authorized(h)
         /\ ExactBill(u) <= Scale * ActualCost(u)
<1> DEFINE out == handler[h].output
<1>1. InputLimit \in Nat /\ out \in Nat
  BY ProxyAssumption
<1>2. u \in Usage(InputLimit, out)
  BY DEF Reportable
<1>3. /\ ActualCost(u) \in Nat /\ ExactBill(u) <= Scale * ActualCost(u)
      /\ ExactBill(u) <= Scale * MaximumCost(InputLimit, out)
  BY <1>1, <1>2, ChargeCoversBill, HoldCoversBill
<1>4. /\ u.input \in Nat /\ u.cached \in Nat /\ u.output \in Nat /\ u.input - u.cached \in Nat
  BY <1>1, <1>2, ExactParts
<1>5. ExactBill(u) \in Nat
  <2>1. /\ (u.input - u.cached) * InputRate \in Nat /\ u.cached * CachedRate \in Nat
        /\ u.output * OutputRate \in Nat
    BY <1>4, PricingAssumption
  <2> QED
    BY <2>1 DEF ExactBill
<1>6. u \in [input : Nat, cached : Nat, output : Nat]
  BY <1>1, <1>2 DEF Usage
<1> QED
  BY <1>3, <1>5, <1>6 DEF Authorized

\* A handler whose place in _forward and reason change keeps everything else.
LEMMA HandlerUpdated ==
  ASSUME handler \in [Handlers -> HandlerRow], NEW h \in Handlers,
         NEW pc \in Pcs, NEW reason \in HandlerReasons \cup {"none"},
         handler' = [handler EXCEPT ![h].pc = pc, ![h].reason = reason]
  PROVE  /\ handler' \in [Handlers -> HandlerRow]
         /\ handler'[h].pc = pc /\ handler'[h].reason = reason
         /\ handler'[h].lease = handler[h].lease /\ handler'[h].seq = handler[h].seq
         /\ handler'[h].output = handler[h].output /\ handler'[h].usage = handler[h].usage
         /\ \A k \in Handlers \ {h} : handler'[k] = handler[k]
BY DEF HandlerRow

LEMMA HandlerHears ==
  ASSUME handler \in [Handlers -> HandlerRow], NEW h \in Handlers,
         NEW u \in [input : Nat, cached : Nat, output : Nat],
         handler' = [handler EXCEPT ![h].pc = "complete", ![h].usage = u]
  PROVE  /\ handler' \in [Handlers -> HandlerRow]
         /\ handler'[h].pc = "complete" /\ handler'[h].usage = u
         /\ handler'[h].lease = handler[h].lease /\ handler'[h].seq = handler[h].seq
         /\ handler'[h].output = handler[h].output
         /\ \A k \in Handlers \ {h} : handler'[k] = handler[k]
<1>1. "complete" \in Pcs
  BY DEF Pcs
<1> QED
  BY ZenonT(40), <1>1 DEF HandlerRow

LEMMA HandlerOpens ==
  ASSUME handler \in [Handlers -> HandlerRow], NEW h \in Handlers, NEW n \in Seqs,
         handler' = [handler EXCEPT ![h].pc = "send", ![h].seq = n]
  PROVE  /\ handler' \in [Handlers -> HandlerRow]
         /\ handler'[h].pc = "send" /\ handler'[h].seq = n
         /\ handler'[h].lease = handler[h].lease /\ handler'[h].output = handler[h].output
         /\ \A k \in Handlers \ {h} : handler'[k] = handler[k]
<1>1. "send" \in Pcs
  BY DEF Pcs
<1> QED
  BY ZenonT(40), <1>1 DEF HandlerRow

LEMMA HandlerMoves ==
  ASSUME handler \in [Handlers -> HandlerRow], NEW h \in Handlers,
         NEW pc \in Pcs, NEW reason \in HandlerReasons \cup {"none"},
         \/ Goto(h, pc) /\ reason = handler[h].reason
         \/ GiveUp(h, reason) /\ pc = "mark"
  PROVE  /\ handler' \in [Handlers -> HandlerRow]
         /\ handler'[h].pc = pc /\ handler'[h].reason = reason
         /\ handler'[h].lease = handler[h].lease /\ handler'[h].seq = handler[h].seq
         /\ handler'[h].output = handler[h].output /\ handler'[h].usage = handler[h].usage
         /\ \A k \in Handlers \ {h} : handler'[k] = handler[k]
<1>1. CASE Goto(h, pc) /\ reason = handler[h].reason
  BY <1>1 DEF Goto, HandlerRow
<1>2. CASE GiveUp(h, reason) /\ pc = "mark"
  BY ZenonT(40), <1>2 DEF GiveUp, HandlerRow
<1> QED
  BY <1>1, <1>2

\* A handler that stands still keeps its invariant if its own row does.
LEMMA HandlerUntouched ==
  ASSUME NEW k \in Handlers, HandlerInv(k), handler'[k] = handler[k],
         handler[k].seq # 0 =>
           /\ op'[handler[k].lease][handler[k].seq] = op[handler[k].lease][handler[k].seq]
           /\ provider'[handler[k].lease][handler[k].seq] = provider[handler[k].lease][handler[k].seq]
           /\ bill'[handler[k].lease][handler[k].seq] = bill[handler[k].lease][handler[k].seq]
  PROVE  HandlerInv(k)'
<1>1. Authorized(k)' = Authorized(k) /\ Reportable(k)' = Reportable(k)
  BY DEF Authorized, Reportable
<1> QED
  BY <1>1 DEF HandlerInv, InForward

\* A row that the tables, the provider and its books leave alone keeps its invariant.
LEMMA RowUntouched ==
  ASSUME NEW l \in Leases, NEW s \in Seqs, RowInv(l, s),
         op'[l][s] = op[l][s], provider'[l][s] = provider[l][s], bill'[l][s] = bill[l][s]
  PROVE  RowInv(l, s)'
BY DEF RowInv, RowLiability

\* Without a transaction the store and what it says about exposure stay as they are.
LEMMA TablesUntouched ==
  ASSUME PInv, lease' = lease, op' = op
  PROVE  IInv' /\ ExposureBounded'
<1>1. IInv'
  BY NextPreserves DEF PInv, ledgerVars
<1>2. ExposureBounded'
  BY DEF PInv, ExposureBounded, Exposed, Rows
<1> QED
  BY <1>1, <1>2

\* One handler moves on, the tables and the provider's side stay: it is enough to look at
\* that handler.  A handler may leave _forward like this only by a fault.
LEMMA OneHandlerMoves ==
  ASSUME PInv, UNCHANGED << lease, op, provider, bill >>,
         NEW h \in Handlers, handler' \in [Handlers -> HandlerRow],
         \A k \in Handlers \ {h} : handler'[k] = handler[k],
         HandlerInv(h)',
         handler'[h].seq # 0 =>
           handler'[h].seq = handler[h].seq /\ handler'[h].lease = handler[h].lease,
         handler[h].pc \in InForward =>
           \/ /\ handler'[h].pc \in InForward
              /\ handler'[h].seq = handler[h].seq /\ handler'[h].lease = handler[h].lease
           \/ ~NoFault',
         clock' \in Instants, faults' \in [busy : 0 .. BusyFaults, crash : 0 .. Crashes],
         ~NoFault => ~NoFault'
  PROVE  PInv'
<1>1. IInv' /\ ExposureBounded'
  BY TablesUntouched
<1>2. \A k \in Handlers : HandlerInv(k)'
  <2> SUFFICES ASSUME NEW k \in Handlers, k # h PROVE HandlerInv(k)'
    OBVIOUS
  <2> QED
    BY HandlerUntouched DEF PInv
<1>3. \A l \in Leases, s \in Seqs : RowInv(l, s)'
  BY RowUntouched DEF PInv
<1>4. OneOwner'
  BY DEF PInv, OneOwner
<1>5. NoOrphan'
  <2> SUFFICES ASSUME NEW l \in Leases, NEW s \in Seqs, op[l][s].status = "forwarding"
               PROVE  (\E k \in Handlers : Live(k, l, s)') \/ ~NoFault'
    BY DEF NoOrphan
  <2>1. CASE ~NoFault
    BY <2>1
  <2>2. ASSUME NEW k \in Handlers, Live(k, l, s) PROVE Live(k, l, s)' \/ ~NoFault'
    BY <2>2 DEF Live
  <2> QED
    BY <2>1, <2>2 DEF PInv, NoOrphan
<1>6. ProxyTypeOK'
  BY Types, <1>1 DEF ProxyTypeOK, IInv, HandlerRow
<1> QED
  BY <1>1, <1>2, <1>3, <1>4, <1>5, <1>6 DEF PInv

-----------------------------------------------------------------------------
(* The steps of a handler that leave the tables alone *)

LEMMA AuthorizePreserves ==
  ASSUME PInv, NEW h \in Handlers, NEW l \in Leases, NEW output \in OutputLimits,
         Authorize(h, l, output)
  PROVE  PInv'
<1> DEFINE new == [IdleHandler(l) EXCEPT !.pc = "begin", !.output = output, !.now = clock]
<1>1. /\ handler' = [handler EXCEPT ![h] = new] /\ handler[h].pc = "idle"
      /\ UNCHANGED << lease, op, clock, provider, bill, faults >>
  BY DEF Authorize
<1>2. new \in HandlerRow
  BY Types DEF IdleHandler, HandlerRow, Pcs, NoUsage
<1>3. new.pc = "begin" /\ new.seq = 0 /\ new.output = output
  BY DEF IdleHandler
<1> HIDE DEF new
<1>4. /\ handler' \in [Handlers -> HandlerRow] /\ handler'[h] = new
      /\ \A k \in Handlers \ {h} : handler'[k] = handler[k]
  BY <1>1, <1>2, Types
<1>5. HandlerInv(h)'
  BY <1>3, <1>4 DEF HandlerInv, InForward
<1> QED
  BY <1>1, <1>3, <1>4, <1>5, Types, OneHandlerMoves DEF InForward, NoFault

\* begin_operation refuses, or finds the store busy; the request cannot be sent or is
\* refused; complete_operation rejects an overrun: the handler moves, nothing else.
LEMMA MovePreserves ==
  ASSUME PInv, NEW h \in Handlers, NEW pc \in Pcs, NEW reason \in HandlerReasons \cup {"none"},
         UNCHANGED << lease, op, clock, provider, bill >>,
         faults' \in [busy : 0 .. BusyFaults, crash : 0 .. Crashes], ~NoFault => ~NoFault',
         handler' \in [Handlers -> HandlerRow],
         handler'[h].pc = pc, handler'[h].reason = reason,
         handler'[h].lease = handler[h].lease, handler'[h].seq = handler[h].seq,
         handler'[h].output = handler[h].output,
         \A k \in Handlers \ {h} : handler'[k] = handler[k],
         handler[h].pc # "idle",
         \/ handler[h].pc = "begin" /\ pc = "done"
         \/ /\ handler[h].pc \in InForward
            /\ \/ pc \in {"nonsuccess", "mark"} /\ reason # "none"
               \/ pc = "done" /\ ~NoFault'
  PROVE  PInv'
<1>1. handler[h] \in HandlerRow /\ HandlerInv(h)
  BY Types DEF PInv
<1>2. Authorized(h)' = Authorized(h)
  BY DEF Authorized
<1>3. HandlerInv(h)'
  BY <1>1, <1>2 DEF HandlerInv, InForward
<1>4. clock' \in Instants
  BY Types
<1>5. handler[h].pc \in InForward => handler'[h].pc \in InForward \/ ~NoFault'
  BY DEF InForward
<1> QED
  BY <1>3, <1>4, <1>5, OneHandlerMoves

LEMMA RefusalsPreserve ==
  ASSUME PInv, NEW h \in Handlers,
         \/ BeginRefused(h) \/ UpstreamFails(h) \/ UpstreamRefuses(h) \/ Overrun(h) \/ StoreBusy(h)
  PROVE  PInv'
<1> USE DEF Pcs, InForward, HandlerReasons
<1>1. handler[h] \in HandlerRow
  BY Types
<1>2. handler[h].reason \in HandlerReasons \cup {"none"}
  BY <1>1 DEF HandlerRow
<1>3. faults \in [busy : 0 .. BusyFaults, crash : 0 .. Crashes]
  BY Types
<1>4. CASE BeginRefused(h)
  <2>1. handler[h].pc = "begin" /\ Goto(h, "done") /\ UNCHANGED << lease, op, clock, provider, bill, faults >>
    BY <1>4 DEF BeginRefused
  <2> QED
    BY <1>2, <1>3, <2>1, Types, HandlerMoves, MovePreserves DEF NoFault
<1>5. CASE UpstreamFails(h)
  <2>1. /\ handler[h].pc \in {"send", "await"} /\ GiveUp(h, "upstream_unavailable")
        /\ UNCHANGED << lease, op, clock, provider, bill, faults >>
    BY <1>5 DEF UpstreamFails
  <2> QED
    BY <1>3, <2>1, Types, HandlerMoves, MovePreserves DEF NoFault
<1>6. CASE UpstreamRefuses(h)
  <2>1. /\ handler[h].pc = "await" /\ UNCHANGED << lease, op, clock, provider, bill, faults >>
        /\ handler' = [handler EXCEPT ![h].pc = "nonsuccess", ![h].reason = "upstream_non_success"]
    BY <1>6 DEF UpstreamRefuses
  <2>2. "nonsuccess" \in Pcs /\ "upstream_non_success" \in HandlerReasons
    OBVIOUS
  <2>3. /\ handler' \in [Handlers -> HandlerRow]
        /\ handler'[h].pc = "nonsuccess" /\ handler'[h].reason = "upstream_non_success"
        /\ handler'[h].lease = handler[h].lease /\ handler'[h].seq = handler[h].seq
        /\ handler'[h].output = handler[h].output
        /\ \A k \in Handlers \ {h} : handler'[k] = handler[k]
    BY ZenonT(40), <2>1, <2>2, Types, HandlerUpdated
  <2>4. handler[h].pc = "await" /\ UNCHANGED << lease, op, clock, provider, bill, faults >>
    BY <2>1
  <2> QED
    BY <1>3, <2>2, <2>3, <2>4, MovePreserves DEF NoFault
<1>7. CASE Overrun(h)
  <2>1. /\ handler[h].pc = "complete" /\ GiveUp(h, "provider_accounting_failed")
        /\ UNCHANGED << lease, op, clock, provider, bill, faults >>
    BY <1>7 DEF Overrun, CompleteOverrun, ledgerVars
  <2> QED
    BY <1>3, <2>1, Types, HandlerMoves, MovePreserves DEF NoFault
<1>8. CASE StoreBusy(h)
  <2>1. /\ faults.busy < BusyFaults /\ faults' = [faults EXCEPT !.busy = faults.busy + 1]
        /\ UNCHANGED << lease, op, clock, provider, bill >>
    BY <1>8 DEF StoreBusy
  <2>2. faults' \in [busy : 0 .. BusyFaults, crash : 0 .. Crashes] /\ ~NoFault'
    BY <1>3, <2>1, ProxyAssumption DEF NoFault
  <2>3. CASE handler[h].pc \in {"begin", "mark"} /\ Goto(h, "done")
    BY <1>2, <2>1, <2>2, <2>3, Types, HandlerMoves, MovePreserves
  <2>4. CASE handler[h].pc \in {"nonsuccess", "complete"} /\ GiveUp(h, "provider_accounting_failed")
    BY SMTT(40), <2>1, <2>2, <2>4, Types, HandlerMoves, MovePreserves
  <2> QED
    BY <1>8, <2>3, <2>4 DEF StoreBusy
<1> QED
  BY <1>4, <1>5, <1>6, <1>7, <1>8

\* The process dies: whatever a handler was doing, it is gone, and a fault is on record.
LEMMA CrashPreserves ==
  ASSUME PInv, Crash
  PROVE  PInv'
<1>1. /\ faults.crash < Crashes /\ faults' = [faults EXCEPT !.crash = faults.crash + 1]
      /\ UNCHANGED << lease, op, clock, provider, bill >>
  BY DEF Crash
<1>2. faults' \in [busy : 0 .. BusyFaults, crash : 0 .. Crashes] /\ ~NoFault'
  BY <1>1, Types, ProxyAssumption DEF NoFault
<1>3. handler' = [h \in Handlers |->
        IF handler[h].pc \in {"idle", "done"} THEN handler[h]
                                              ELSE [handler[h] EXCEPT !.pc = "gone"]]
  BY DEF Crash
<1>4. /\ handler' \in [Handlers -> HandlerRow]
      /\ \A h \in Handlers :
           /\ handler'[h].pc = IF handler[h].pc \in {"idle", "done"} THEN handler[h].pc ELSE "gone"
           /\ handler'[h].lease = handler[h].lease /\ handler'[h].seq = handler[h].seq
           /\ handler'[h].output = handler[h].output
  <2> SUFFICES ASSUME NEW h \in Handlers
               PROVE  /\ handler'[h] \in HandlerRow
                      /\ handler'[h].pc = IF handler[h].pc \in {"idle", "done"} THEN handler[h].pc ELSE "gone"
                      /\ handler'[h].lease = handler[h].lease /\ handler'[h].seq = handler[h].seq
                      /\ handler'[h].output = handler[h].output
    BY <1>3
  <2>1. handler[h] \in HandlerRow
    BY Types
  <2>2. CASE handler[h].pc \in {"idle", "done"}
    BY <1>3, <2>1, <2>2
  <2>3. CASE handler[h].pc \notin {"idle", "done"}
    <3>1. handler'[h] = [handler[h] EXCEPT !.pc = "gone"]
      BY <1>3, <2>3
    <3> QED
      BY <2>1, <2>3, <3>1 DEF HandlerRow, Pcs
  <2> QED
    BY <2>2, <2>3
<1>5. \A h \in Handlers : HandlerInv(h)'
  <2> SUFFICES ASSUME NEW h \in Handlers PROVE HandlerInv(h)'
    OBVIOUS
  <2>1. Authorized(h)' = Authorized(h)
    BY <1>4 DEF Authorized
  <2>2. HandlerInv(h)
    BY DEF PInv
  <2> QED
    BY <1>1, <1>4, <2>1, <2>2 DEF HandlerInv, InForward
<1>6. \A l \in Leases, s \in Seqs : RowInv(l, s)'
  BY <1>1, RowUntouched DEF PInv
<1>7. OneOwner'
  BY <1>4 DEF PInv, OneOwner
<1>8. NoOrphan'
  BY <1>2 DEF NoOrphan
<1>9. IInv' /\ ExposureBounded'
  BY <1>1, TablesUntouched
<1>10. ProxyTypeOK'
  BY Types, <1>1, <1>2, <1>4, <1>9 DEF ProxyTypeOK, IInv, HandlerRow
<1> QED
  BY <1>5, <1>6, <1>7, <1>8, <1>9, <1>10 DEF PInv

\* Time passes, or nothing happens.
LEMMA TickPreserves ==
  ASSUME PInv, clock' \in Instants, UNCHANGED << lease, op, handler, provider, bill, faults >>
  PROVE  PInv'
<1>1. IInv' /\ ExposureBounded'
  BY TablesUntouched
<1>2. \A h \in Handlers : HandlerInv(h)'
  BY HandlerUntouched DEF PInv
<1>3. \A l \in Leases, s \in Seqs : RowInv(l, s)'
  BY RowUntouched DEF PInv
<1>4. OneOwner' /\ NoOrphan'
  BY DEF PInv, OneOwner, NoOrphan, NoFault, Live
<1>5. ProxyTypeOK'
  BY Types, <1>1 DEF ProxyTypeOK, IInv, HandlerRow
<1> QED
  BY <1>1, <1>2, <1>3, <1>4, <1>5 DEF PInv

-----------------------------------------------------------------------------
(* The steps of the provider *)

\* Something happens to the provider's side of one handler's operation, the tables stay: it
\* is enough to look at that handler and that row.
LEMMA OneRowAtProvider ==
  ASSUME PInv, UNCHANGED << lease, op, clock, faults >>,
         NEW h \in Handlers, NEW l \in Leases, NEW s \in Seqs,
         l = handler[h].lease, s = handler[h].seq,
         handler' \in [Handlers -> HandlerRow],
         \A k \in Handlers \ {h} : handler'[k] = handler[k],
         handler'[h].lease = l, handler'[h].seq = s,
         handler[h].pc \in InForward => handler'[h].pc \in InForward,
         NEW status \in {"none", "working", "finished"}, NEW price \in Nat,
         provider' = [provider EXCEPT ![l][s] = status],
         bill' = [bill EXCEPT ![l][s] = price],
         HandlerInv(h)', RowInv(l, s)'
  PROVE  PInv'
<1>1. IInv' /\ ExposureBounded'
  BY TablesUntouched
<1>2. /\ provider' \in [Leases -> [Seqs -> {"none", "working", "finished"}]]
      /\ bill' \in [Leases -> [Seqs -> Nat]]
      /\ \A j \in Leases, t \in Seqs : ~(j = l /\ t = s) =>
           provider'[j][t] = provider[j][t] /\ bill'[j][t] = bill[j][t]
  BY Types
<1>3. \A k \in Handlers : HandlerInv(k)'
  <2> SUFFICES ASSUME NEW k \in Handlers, k # h PROVE HandlerInv(k)'
    OBVIOUS
  <2>1. handler[k] \in HandlerRow
    BY Types
  <2>2. handler[k].seq # 0 => handler[k].lease \in Leases /\ handler[k].seq \in Seqs
    BY <2>1 DEF HandlerRow
  <2>3. handler[k].seq # 0 => ~(handler[k].lease = l /\ handler[k].seq = s)
    BY DEF PInv, OneOwner
  <2> QED
    BY <1>2, <2>2, <2>3, HandlerUntouched DEF PInv
<1>4. \A j \in Leases, t \in Seqs : RowInv(j, t)'
  <2> SUFFICES ASSUME NEW j \in Leases, NEW t \in Seqs, ~(j = l /\ t = s) PROVE RowInv(j, t)'
    OBVIOUS
  <2> QED
    BY <1>2, RowUntouched DEF PInv
<1>5. OneOwner'
  BY DEF PInv, OneOwner
<1>6. NoOrphan'
  <2>1. ASSUME NEW k \in Handlers, NEW j \in Leases, NEW t \in Seqs, Live(k, j, t) PROVE Live(k, j, t)'
    BY <2>1 DEF Live
  <2> QED
    BY <2>1 DEF PInv, NoOrphan, NoFault
<1>7. ProxyTypeOK'
  BY Types, <1>1, <1>2 DEF ProxyTypeOK, IInv, HandlerRow
<1> QED
  BY <1>1, <1>3, <1>4, <1>5, <1>6, <1>7 DEF PInv

\* A handler in _forward has a row of its own, forwarding and priced at its request.
LEMMA OwnRow ==
  ASSUME PInv, NEW h \in Handlers, handler[h].pc \in InForward
  PROVE  /\ handler[h].lease \in Leases /\ handler[h].seq \in Seqs /\ handler[h].seq # 0
         /\ handler[h].output \in OutputLimits
         /\ OpOf(h).status = "forwarding" /\ OpOf(h).reserved = Authorized(h)
<1>1. handler[h] \in HandlerRow /\ HandlerInv(h)
  BY Types DEF PInv
<1> QED
  BY <1>1 DEF HandlerInv, HandlerRow, InForward, OpOf

LEMMA SendPreserves ==
  ASSUME PInv, NEW h \in Handlers, Send(h)
  PROVE  PInv'
<1>1. handler[h].lease \in Leases /\ handler[h].seq \in Seqs
  BY OwnRow DEF Send, InForward
<1> SUFFICES ASSUME NEW l \in Leases, NEW s \in Seqs, l = handler[h].lease, s = handler[h].seq
             PROVE  PInv'
  BY <1>1
<1>2. /\ handler[h].pc = "send" /\ Goto(h, "await")
      /\ UNCHANGED << lease, op, clock, bill, faults >>
      /\ provider' = [provider EXCEPT ![l][s] = "working"]
  BY DEF Send
<1>3. /\ s # 0 /\ handler[h].output \in OutputLimits
      /\ op[l][s].status = "forwarding" /\ op[l][s].reserved = Authorized(h)
  BY <1>2, OwnRow DEF InForward, OpOf
<1>4. handler[h] \in HandlerRow /\ handler \in [Handlers -> HandlerRow]
  BY Types
<1>5. /\ handler' \in [Handlers -> HandlerRow]
      /\ handler'[h].pc = "await" /\ handler'[h].lease = l /\ handler'[h].seq = s
      /\ handler'[h].output = handler[h].output
      /\ \A k \in Handlers \ {h} : handler'[k] = handler[k]
  BY <1>2, <1>4, HandlerMoves DEF HandlerRow, Pcs
<1>6. bill' = [bill EXCEPT ![l][s] = bill[l][s]] /\ bill[l][s] \in Nat
  BY <1>2, <1>3, Types
<1>7. Authorized(h)' = Authorized(h)
  BY <1>5 DEF Authorized
<1>8. HandlerInv(h)'
  BY <1>2, <1>3, <1>5, <1>7 DEF HandlerInv, InForward
<1>9. RowInv(l, s)'
  <2>1. bill[l][s] <= Scale * RowLiability(l, s)
    BY <1>3 DEF PInv, RowInv
  <2>2. op' = op /\ bill' = bill /\ RowLiability(l, s)' = RowLiability(l, s)
    BY <1>2 DEF RowLiability
  <2> QED
    BY <1>3, <2>1, <2>2 DEF RowInv
<1>10. handler'[h].pc \in InForward
  BY <1>5 DEF InForward
<1> QED
  BY <1>2, <1>3, <1>5, <1>6, <1>8, <1>9, <1>10, OneRowAtProvider

\* The provider finishes operation s of lease l with a bounded usage of the handler's
\* request: its bill fits the hold.
LEMMA FinishedRowFits ==
  ASSUME PInv, NEW h \in Handlers, NEW u \in Reportable(h), handler[h].seq # 0,
         NEW l \in Leases, NEW s \in Seqs, l = handler[h].lease, s = handler[h].seq,
         provider[l][s] = "working", op' = op,
         provider'[l][s] = "finished", bill'[l][s] = ExactBill(u)
  PROVE  /\ ExactBill(u) \in Nat
         /\ u \in [input : Nat, cached : Nat, output : Nat]
         /\ RowInv(l, s)'
<1>1. handler[h] \in HandlerRow /\ HandlerInv(h)
  BY Types DEF PInv
<1>2. /\ l \in Leases /\ s \in Seqs /\ handler[h].output \in OutputLimits
      /\ op[l][s].status # "absent" /\ op[l][s].reserved = Authorized(h)
  BY <1>1 DEF HandlerInv, HandlerRow
<1>3. /\ ExactBill(u) \in Nat /\ ExactBill(u) <= Scale * Authorized(h)
      /\ u \in [input : Nat, cached : Nat, output : Nat]
  BY <1>2, BillFits
<1>4. RowInv(l, s) /\ op[l][s].status # "completed"
  BY <1>2 DEF PInv, RowInv
<1>5. RowLiability(l, s)' = Authorized(h)
  BY <1>2, <1>4 DEF RowLiability
<1>6. RowInv(l, s)'
  BY <1>2, <1>3, <1>4, <1>5 DEF RowInv
<1> QED
  BY <1>3, <1>6

LEMMA AnswerPreserves ==
  ASSUME PInv, NEW h \in Handlers, UpstreamAnswers(h)
  PROVE  PInv'
<1>1. handler[h].lease \in Leases /\ handler[h].seq \in Seqs
  BY OwnRow DEF UpstreamAnswers, InForward
<1> SUFFICES ASSUME NEW l \in Leases, NEW s \in Seqs, l = handler[h].lease, s = handler[h].seq
             PROVE  PInv'
  BY <1>1
<1>2. PICK u \in Reportable(h) :
        /\ provider' = [provider EXCEPT ![l][s] = "finished"]
        /\ bill' = [bill EXCEPT ![l][s] = ExactBill(u)]
        /\ handler' = [handler EXCEPT ![h].pc = "complete", ![h].usage = u]
  BY DEF UpstreamAnswers
<1>3. /\ handler[h].pc = "await" /\ provider[l][s] = "working"
      /\ UNCHANGED << lease, op, clock, faults >>
  BY DEF UpstreamAnswers
<1>4. /\ s # 0 /\ handler[h].output \in OutputLimits
      /\ op[l][s].status = "forwarding" /\ op[l][s].reserved = Authorized(h)
  BY <1>3, OwnRow DEF InForward, OpOf
<1>5. provider'[l][s] = "finished" /\ bill'[l][s] = ExactBill(u) /\ op' = op
  BY <1>2, <1>3, Types
<1>6. /\ ExactBill(u) \in Nat /\ u \in [input : Nat, cached : Nat, output : Nat]
      /\ RowInv(l, s)'
  BY <1>3, <1>4, <1>5, FinishedRowFits
<1>7. /\ handler' \in [Handlers -> HandlerRow]
      /\ handler'[h].pc = "complete" /\ handler'[h].usage = u
      /\ handler'[h].lease = l /\ handler'[h].seq = s /\ handler'[h].output = handler[h].output
      /\ \A k \in Handlers \ {h} : handler'[k] = handler[k]
  BY <1>2, <1>6, Types, HandlerHears
<1>8. Authorized(h)' = Authorized(h) /\ Reportable(h)' = Reportable(h)
  BY <1>7 DEF Authorized, Reportable
<1>9. HandlerInv(h)'
  BY <1>3, <1>4, <1>6, <1>7, <1>8, <1>5 DEF HandlerInv, InForward
<1>10. handler'[h].pc \in InForward
  BY <1>7 DEF InForward
<1> QED
  BY <1>2, <1>3, <1>4, <1>6, <1>7, <1>9, <1>10, OneRowAtProvider

LEMMA UnheardPreserves ==
  ASSUME PInv, NEW h \in Handlers, ProviderFinishesUnheard(h)
  PROVE  PInv'
<1>1. handler[h].seq # 0 /\ handler[h] \in HandlerRow
  BY Types DEF ProviderFinishesUnheard
<1>2. handler[h].lease \in Leases /\ handler[h].seq \in Seqs
  BY <1>1 DEF HandlerRow
<1> SUFFICES ASSUME NEW l \in Leases, NEW s \in Seqs, l = handler[h].lease, s = handler[h].seq
             PROVE  PInv'
  BY <1>2
<1>3. /\ s # 0 /\ provider[l][s] = "working"
      /\ provider' = [provider EXCEPT ![l][s] = "finished"]
      /\ UNCHANGED << lease, op, clock, handler, faults >>
  BY DEF ProviderFinishesUnheard
<1>4. PICK u \in Reportable(h) : bill' = [bill EXCEPT ![l][s] = ExactBill(u)]
  BY DEF ProviderFinishesUnheard
<1>5. provider'[l][s] = "finished" /\ bill'[l][s] = ExactBill(u)
  BY <1>3, <1>4, Types
<1>6. ExactBill(u) \in Nat /\ RowInv(l, s)'
  BY <1>3, <1>5, FinishedRowFits
<1>7. HandlerInv(h) /\ handler[h].pc # "complete"
  BY <1>3 DEF PInv, HandlerInv
<1>8. Authorized(h)' = Authorized(h)
  BY <1>3 DEF Authorized
<1>9. HandlerInv(h)'
  BY <1>3, <1>7, <1>8 DEF HandlerInv
<1>10. handler' \in [Handlers -> HandlerRow]
  BY <1>3, Types
<1> QED
  BY <1>3, <1>4, <1>6, <1>9, <1>10, OneRowAtProvider

-----------------------------------------------------------------------------
(* The steps that commit a transaction *)

\* A transaction on the row of one handler leaves the other rows, and with them the other
\* handlers, alone.
LEMMA OneRowInTables ==
  ASSUME PInv, IInv', UNCHANGED << clock, provider, bill, faults >>,
         NEW h \in Handlers, NEW l \in Leases, NEW s \in Seqs,
         \A j \in Leases, t \in Seqs : ~(j = l /\ t = s) => op'[j][t] = op[j][t],
         \A k \in Handlers : k # h /\ handler[k].seq # 0 =>
           ~(handler[k].lease = l /\ handler[k].seq = s),
         handler' \in [Handlers -> HandlerRow],
         \A k \in Handlers \ {h} : handler'[k] = handler[k],
         handler'[h].lease = l, handler'[h].seq = s,
         handler[h].seq # 0 => handler[h].lease = l /\ handler[h].seq = s,
         op'[l][s].status = "forwarding" => handler'[h].pc \in InForward,
         HandlerInv(h)', RowInv(l, s)', ExposureBounded'
  PROVE  PInv'
<1>1. \A k \in Handlers : HandlerInv(k)'
  <2> SUFFICES ASSUME NEW k \in Handlers, k # h PROVE HandlerInv(k)'
    OBVIOUS
  <2>1. handler[k] \in HandlerRow
    BY Types
  <2>2. handler[k].seq # 0 => handler[k].lease \in Leases /\ handler[k].seq \in Seqs
    BY <2>1 DEF HandlerRow
  <2> QED
    BY <2>2, HandlerUntouched DEF PInv
<1>2. \A j \in Leases, t \in Seqs : RowInv(j, t)'
  <2> SUFFICES ASSUME NEW j \in Leases, NEW t \in Seqs, ~(j = l /\ t = s) PROVE RowInv(j, t)'
    OBVIOUS
  <2> QED
    BY RowUntouched DEF PInv
<1>3. OneOwner'
  BY DEF PInv, OneOwner
<1>4. NoOrphan'
  <2> SUFFICES ASSUME NEW j \in Leases, NEW t \in Seqs, op'[j][t].status = "forwarding"
               PROVE  (\E k \in Handlers : Live(k, j, t)') \/ ~NoFault'
    BY DEF NoOrphan
  <2>1. CASE j = l /\ t = s
    BY <2>1 DEF Live
  <2>2. CASE ~(j = l /\ t = s)
    <3>1. op[j][t].status = "forwarding"
      BY <2>2
    <3>2. CASE ~NoFault
      BY <3>2 DEF NoFault
    <3>3. ASSUME NEW k \in Handlers, Live(k, j, t) PROVE Live(k, j, t)'
      <4>1. t # 0
        BY ZeroIsNoSeq
      <4> QED
        BY <2>2, <3>3, <4>1 DEF Live
    <3> QED
      BY <3>1, <3>2, <3>3 DEF PInv, NoOrphan
  <2> QED
    BY <2>1, <2>2
<1>5. ProxyTypeOK'
  BY Types DEF ProxyTypeOK, IInv, HandlerRow
<1> QED
  BY <1>1, <1>2, <1>3, <1>4, <1>5 DEF PInv

\* An active lease has no uncertain operation, so its exposure is what is in flight.
ActiveIsBounded ==
  \A l \in Leases : lease[l].state = "active" => Cardinality(Exposed(l)) <= lease[l].maxConc

LEMMA ActiveExposure == IInv => ActiveIsBounded
<1> SUFFICES ASSUME IInv, NEW l \in Leases, lease[l].state = "active"
             PROVE  Cardinality(Exposed(l)) <= lease[l].maxConc
  BY DEF ActiveIsBounded
<1>1. LeaseInv(l)
  BY DEF IInv
<1>2. Rows(l, {"uncertain"}) = {}
  BY <1>1 DEF LeaseInv
<1>3. Exposed(l) = Rows(l, {"forwarding"})
  BY <1>2 DEF Exposed, Rows
<1> QED
  BY <1>1, <1>3 DEF LeaseInv, CountersMatchRows

\* A lease with no more exposed rows and no less concurrency stays within it.
LEMMA ExposureShrinks ==
  ASSUME IInv, IInv', ExposureBounded, NEW l \in Leases,
         Exposed(l)' \subseteq Exposed(l), lease'[l].maxConc = lease[l].maxConc
  PROVE  Cardinality(Exposed(l)') <= lease'[l].maxConc
<1>1. /\ IsFiniteSet(Exposed(l)) /\ Cardinality(Exposed(l)) \in Nat
  BY RowsFinite DEF Exposed
<1>2. Cardinality(Exposed(l)') <= Cardinality(Exposed(l)) /\ Cardinality(Exposed(l)') \in Nat
  BY <1>1, FS_Subset, FS_CardinalityType
<1>3. Cardinality(Exposed(l)) <= lease[l].maxConc /\ lease[l].maxConc \in Nat
  <2>1. lease[l] \in LeaseRow
    BY DEF IInv, LedgerTypeOK
  <2> QED
    BY <2>1, LedgerAssumption DEF ExposureBounded, LeaseRow
<1> QED
  BY <1>1, <1>2, <1>3

LEMMA BeginStepPreserves ==
  ASSUME PInv, NEW h \in Handlers, Begin(h)
  PROVE  PInv' /\ LedgerNext
<1>1. handler[h].lease \in Leases /\ handler[h] \in HandlerRow /\ HandlerInv(h)
  BY Types DEF HandlerRow, PInv
<1> SUFFICES ASSUME NEW l \in Leases, l = handler[h].lease, NEW n, n = lease[l].count + 1,
                    NEW amount, amount = Authorized(h)
             PROVE  PInv' /\ LedgerNext
  BY <1>1
<1>2. /\ handler[h].pc = "begin" /\ BeginOperation(l, amount, handler[h].now)
      /\ handler' = [handler EXCEPT ![h].pc = "send", ![h].seq = n]
      /\ UNCHANGED << clock, provider, bill, faults >>
  BY DEF Begin
<1>3. /\ lease[l].state = "active" /\ lease[l].count < lease[l].maxOps
      /\ Liability(l) + amount <= lease[l].maxCost
      /\ op' = [op EXCEPT ![l][n] = [status |-> "forwarding", reserved |-> amount, cost |-> 0]]
      /\ lease' = [lease EXCEPT ![l] = Held(lease[l], amount)]
  BY <1>2 DEF BeginOperation, Admits
<1>4. lease[l] \in LeaseRow /\ LeaseInv(l)
  BY Types DEF PInv, IInv
<1>5. /\ lease[l].count \in 0 .. MaxOperations /\ lease[l].maxOps \in 0 .. MaxOperations
      /\ lease[l].maxCost \in 0 .. MaxCost /\ lease[l].held \in 0 .. MaxCost
      /\ lease[l].actual \in 0 .. MaxCost /\ lease[l].uncertain \in 0 .. MaxCost
  BY <1>4 DEF LeaseRow, Amounts
<1>6. handler[h].output \in OutputLimits /\ handler[h].seq = 0 /\ handler[h].now \in Instants
  BY <1>1, <1>2 DEF HandlerInv, HandlerRow
<1>7. amount \in Nat
  <2>1. InputLimit \in Nat /\ handler[h].output \in Nat
    BY <1>6, ProxyAssumption
  <2>2. Cost(InputLimit, InputRate) \in Nat /\ Cost(handler[h].output, OutputRate) \in Nat
    BY <2>1, CeilingBounds, PricingAssumption
  <2> QED
    BY <2>2 DEF Authorized, MaximumCost
<1>8. amount \in Amounts /\ n \in Seqs /\ n # 0
  BY <1>3, <1>5, <1>7, LedgerAssumption DEF Liability, Amounts, Seqs
<1>9. IInv' /\ LedgerNext
  BY <1>2, <1>6, <1>8, BeginPreserves DEF PInv, LedgerNext
<1>10. op[l][n].status = "absent"
  <2>1. Rows(l, OpStates \ {"absent"}) = 1 .. lease[l].count
    BY <1>4 DEF LeaseInv, CountersMatchRows
  <2>2. n \notin 1 .. lease[l].count
    BY <1>5
  <2>3. op[l][n].status \in OpStates
    BY <1>8, Types DEF OpRow
  <2> QED
    BY <1>8, <2>1, <2>2, <2>3 DEF Rows
<1>11. /\ op'[l][n].status = "forwarding" /\ op'[l][n].reserved = amount
       /\ \A j \in Leases, t \in Seqs : ~(j = l /\ t = n) => op'[j][t] = op[j][t]
  BY <1>3, <1>8, Types
<1>12. /\ handler' \in [Handlers -> HandlerRow]
       /\ handler'[h].pc = "send" /\ handler'[h].seq = n
       /\ handler'[h].lease = l /\ handler'[h].output = handler[h].output
       /\ \A k \in Handlers \ {h} : handler'[k] = handler[k]
  BY <1>2, <1>8, Types, HandlerOpens
<1>13. \A k \in Handlers : handler[k].seq # 0 => ~(handler[k].lease = l /\ handler[k].seq = n)
  BY <1>10 DEF PInv, HandlerInv
<1>14. Authorized(h)' = Authorized(h)
  BY <1>12 DEF Authorized
<1>15. HandlerInv(h)'
  BY <1>6, <1>8, <1>11, <1>12, <1>14 DEF HandlerInv, InForward
<1>16. RowInv(l, n)'
  <2>1. bill'[l][n] = 0 /\ RowLiability(l, n)' = amount
    BY <1>2, <1>8, <1>10, <1>11 DEF PInv, RowInv, RowLiability
  <2>2. 0 <= Scale * amount
    BY <1>7, PricingAssumption
  <2> QED
    BY <1>11, <2>1, <2>2 DEF RowInv
<1>17. ExposureBounded'
  <2> SUFFICES ASSUME NEW j \in Leases PROVE Cardinality(Exposed(j)') <= lease'[j].maxConc
    BY DEF ExposureBounded
  <2>1. CASE j = l
    <3>1. lease'[l].state = "active"
      BY <1>3, <1>4, Types DEF Held, LeaseRow
    <3>2. ActiveIsBounded'
      BY <1>9, ActiveExposure, PTL
    <3> QED
      BY <2>1, <3>1, <3>2 DEF ActiveIsBounded
  <2>2. CASE j # l
    <3>1. lease'[j] = lease[j] /\ \A t \in Seqs : op'[j][t] = op[j][t]
      BY <1>3, <1>11, <2>2, Types
    <3>2. Exposed(j)' \subseteq Exposed(j)
      BY <3>1 DEF Exposed, Rows
    <3> QED
      BY <1>9, <3>1, <3>2, ExposureShrinks DEF PInv
  <2> QED
    BY <2>1, <2>2
<1> QED
  BY SMTT(40), <1>2, <1>6, <1>8, <1>9, <1>11, <1>12, <1>13, <1>15, <1>16, <1>17, OneRowInTables DEF InForward

\* The cost that complete_operation accepts covers the bill, and the row no longer exposes
\* the lease.
LEMMA CompleteStepPreserves ==
  ASSUME PInv, NEW h \in Handlers, Complete(h)
  PROVE  PInv' /\ LedgerNext
<1>1. /\ handler[h].pc = "complete" /\ Goto(h, "done")
      /\ UNCHANGED << clock, provider, bill, faults >>
      /\ CompleteOperation(handler[h].lease, handler[h].seq, ActualCost(handler[h].usage))
  BY DEF Complete
<1>2. /\ handler[h].lease \in Leases /\ handler[h].seq \in Seqs
       /\ handler[h].output \in OutputLimits
  BY <1>1, OwnRow DEF InForward
<1> SUFFICES ASSUME NEW l \in Leases, l = handler[h].lease, NEW s \in Seqs, s = handler[h].seq,
                    NEW cost, cost = ActualCost(handler[h].usage)
             PROVE  PInv' /\ LedgerNext
  BY <1>2
<1>3. handler[h] \in HandlerRow /\ HandlerInv(h) /\ s # 0
  BY Types, ZeroIsNoSeq DEF PInv
<1>4. /\ handler[h].usage \in Reportable(h) /\ provider[l][s] = "finished"
      /\ bill[l][s] = ExactBill(handler[h].usage)
      /\ op[l][s].status = "forwarding" /\ op[l][s].reserved = Authorized(h)
  BY <1>1, <1>3 DEF HandlerInv, InForward
<1>5. cost \in Nat /\ bill[l][s] <= Scale * cost
  BY <1>2, <1>4, BillFits
<1>6. /\ cost <= op[l][s].reserved
      /\ op' = [op EXCEPT ![l][s] = [op[l][s] EXCEPT !.status = "completed", !.cost = cost]]
      /\ lease' = [lease EXCEPT ![l] = Charged(lease[l], op[l][s].reserved, cost)]
  BY <1>1 DEF CompleteOperation
<1>7. op[l][s] \in OpRow /\ op[l][s].reserved \in 0 .. MaxCost
  BY Types DEF OpRow, Amounts
<1>8. cost \in Amounts
  BY <1>5, <1>6, <1>7, LedgerAssumption DEF Amounts
<1>9. CompleteOperation(l, s, cost)
  BY <1>1
<1>10. IInv' /\ LedgerNext
  BY <1>8, <1>9, CompletePreserves DEF PInv, LedgerNext
<1>11. /\ op'[l][s].status = "completed" /\ op'[l][s].reserved = op[l][s].reserved
      /\ op'[l][s].cost = cost
      /\ \A j \in Leases, t \in Seqs : ~(j = l /\ t = s) => op'[j][t] = op[j][t]
  <2> DEFINE row == [op[l][s] EXCEPT !.status = "completed", !.cost = cost]
  <2>1. row.status = "completed" /\ row.reserved = op[l][s].reserved /\ row.cost = cost
    BY <1>7 DEF OpRow
  <2>2. op' = [op EXCEPT ![l][s] = row]
    BY <1>6
  <2> HIDE DEF row
  <2> QED
    BY <2>1, <2>2, Types
<1>12. /\ handler' \in [Handlers -> HandlerRow]
       /\ handler'[h].pc = "done" /\ handler'[h].lease = l /\ handler'[h].seq = s
       /\ handler'[h].output = handler[h].output
       /\ \A k \in Handlers \ {h} : handler'[k] = handler[k]
  <2>1. "done" \in Pcs /\ handler[h].reason \in HandlerReasons \cup {"none"}
    BY <1>3 DEF Pcs, HandlerRow
  <2> QED
    BY <1>1, <2>1, Types, HandlerMoves
<1>13. \A k \in Handlers : k # h /\ handler[k].seq # 0 => ~(handler[k].lease = l /\ handler[k].seq = s)
  BY DEF PInv, OneOwner
<1>14. Authorized(h)' = Authorized(h)
  BY <1>12 DEF Authorized
<1>15. HandlerInv(h)'
  BY <1>2, <1>3, <1>4, <1>11, <1>12, <1>14 DEF HandlerInv, InForward
<1>16. RowInv(l, s)'
  <2>1. bill' = bill /\ provider' = provider /\ RowLiability(l, s)' = cost
    BY <1>1, <1>11 DEF RowLiability
  <2> QED
    BY <1>4, <1>5, <1>11, <2>1 DEF RowInv
<1>17. ExposureBounded'
  <2> SUFFICES ASSUME NEW j \in Leases PROVE Cardinality(Exposed(j)') <= lease'[j].maxConc
    BY DEF ExposureBounded
  <2>1. lease'[j].maxConc = lease[j].maxConc
    BY <1>6, Types DEF Charged, LeaseRow
  <2>2. Exposed(j)' \subseteq Exposed(j)
    BY <1>11 DEF Exposed, Rows
  <2> QED
    BY <1>10, <2>1, <2>2, ExposureShrinks DEF PInv
<1>18. op'[l][s].status # "forwarding"
  BY <1>11
<1> QED
  BY <1>1, <1>10, <1>11, <1>12, <1>13, <1>15, <1>16, <1>17, <1>18, OneRowInTables

\* mark_operation_uncertain keeps the hold as liability, which still covers any bill.
LEMMA MarkStepPreserves ==
  ASSUME PInv, NEW h \in Handlers, Mark(h)
  PROVE  PInv' /\ LedgerNext
<1>1. /\ handler[h].pc \in {"nonsuccess", "mark"} /\ Goto(h, "done")
      /\ UNCHANGED << clock, provider, bill, faults >>
      /\ MarkUncertain(handler[h].lease, handler[h].seq, handler[h].reason)
  BY DEF Mark
<1>2. /\ handler[h].lease \in Leases /\ handler[h].seq \in Seqs
       /\ handler[h].output \in OutputLimits
  BY <1>1, OwnRow DEF InForward
<1> SUFFICES ASSUME NEW l \in Leases, l = handler[h].lease, NEW s \in Seqs, s = handler[h].seq,
                    NEW reason, reason = handler[h].reason
             PROVE  PInv' /\ LedgerNext
  BY <1>2
<1>3. handler[h] \in HandlerRow /\ HandlerInv(h) /\ s # 0
  BY Types, ZeroIsNoSeq DEF PInv
<1>4. /\ reason \in Reasons
      /\ op[l][s].status = "forwarding" /\ op[l][s].reserved = Authorized(h)
  BY <1>1, <1>3, ProxyAssumption DEF HandlerInv, InForward
<1>5. /\ op' = [op EXCEPT ![l][s] = [op[l][s] EXCEPT !.status = "uncertain"]]
      /\ lease' = [lease EXCEPT ![l] = Burned(lease[l], op[l][s].reserved, reason)]
  BY <1>1 DEF MarkUncertain
<1>6. MarkUncertain(l, s, reason)
  BY <1>1
<1>7. IInv' /\ LedgerNext
  BY <1>4, <1>6, MarkPreserves DEF PInv, LedgerNext
<1>8. op[l][s] \in OpRow
  BY Types
<1>9. /\ op'[l][s].status = "uncertain" /\ op'[l][s].reserved = op[l][s].reserved
      /\ \A j \in Leases, t \in Seqs : ~(j = l /\ t = s) => op'[j][t] = op[j][t]
  <2> DEFINE row == [op[l][s] EXCEPT !.status = "uncertain"]
  <2>1. row.status = "uncertain" /\ row.reserved = op[l][s].reserved
    BY <1>8 DEF OpRow
  <2>2. op' = [op EXCEPT ![l][s] = row]
    BY <1>5
  <2> HIDE DEF row
  <2> QED
    BY <2>1, <2>2, Types
<1>10. /\ handler' \in [Handlers -> HandlerRow]
      /\ handler'[h].pc = "done" /\ handler'[h].lease = l /\ handler'[h].seq = s
      /\ handler'[h].output = handler[h].output
      /\ \A k \in Handlers \ {h} : handler'[k] = handler[k]
  <2>1. "done" \in Pcs /\ handler[h].reason \in HandlerReasons \cup {"none"}
    BY <1>3 DEF Pcs, HandlerRow
  <2> QED
    BY ZenonT(40), <1>1, <2>1, Types, HandlerMoves
<1>11. \A k \in Handlers : k # h /\ handler[k].seq # 0 => ~(handler[k].lease = l /\ handler[k].seq = s)
  BY DEF PInv, OneOwner
<1>12. Authorized(h)' = Authorized(h)
  BY <1>10 DEF Authorized
<1>13. HandlerInv(h)'
  BY <1>2, <1>3, <1>4, <1>9, <1>10, <1>12 DEF HandlerInv, InForward
<1>14. RowInv(l, s)'
  <2>1. /\ bill' = bill /\ provider' = provider
        /\ RowLiability(l, s)' = RowLiability(l, s)
    BY <1>1, <1>4, <1>9 DEF RowLiability
  <2>2. bill[l][s] <= Scale * RowLiability(l, s)
    BY DEF PInv, RowInv
  <2> QED
    BY <1>9, <2>1, <2>2 DEF RowInv
<1>15. ExposureBounded'
  <2> SUFFICES ASSUME NEW j \in Leases PROVE Cardinality(Exposed(j)') <= lease'[j].maxConc
    BY DEF ExposureBounded
  <2>1. lease'[j].maxConc = lease[j].maxConc
    <3>1. Burned(lease[l], op[l][s].reserved, reason).maxConc = lease[l].maxConc
      BY Types DEF Burned, Ended, LeaseRow
    <3> QED
      BY <1>5, <3>1, Types
  <2>2. Exposed(j)' \subseteq Exposed(j)
    BY <1>4, <1>9 DEF Exposed, Rows
  <2> QED
    BY <1>7, <2>1, <2>2, ExposureShrinks DEF PInv
<1>16. op'[l][s].status # "forwarding"
  BY <1>9
<1> QED
  BY <1>1, <1>7, <1>9, <1>10, <1>11, <1>13, <1>14, <1>15, <1>16, OneRowInTables

\* The admin route ends or reserves a lease; operations, handlers and provider stay.
LEMMA AdminPreserves ==
  ASSUME PInv, NEW l \in Leases, Admin(l)
  PROVE  PInv' /\ LedgerNext
<1>1. UNCHANGED << clock, handler, provider, bill, faults >>
  BY DEF Admin
<1>2. lease \in [Leases -> LeaseRow]
  BY Types
<1>3. op' = op /\ LedgerNext /\ (lease'[l].maxConc = lease[l].maxConc \/ lease[l].state = "absent")
      /\ \A j \in Leases : j # l => lease'[j] = lease[j]
  <2>1. CASE \E r \in Reservations : Reserve(l, r)
    BY <2>1, <1>2 DEF Reserve, LedgerNext
  <2>2. CASE \E completed \in 0 .. MaxOperations : Settle(l, completed)
    <3>1. PICK completed \in 0 .. MaxOperations : Settle(l, completed)
      BY <2>2
    <3>2. Ended(lease[l], "settled", "settled").maxConc = lease[l].maxConc
      BY <1>2 DEF Ended, LeaseRow
    <3> QED
      BY <3>1, <3>2, <1>2 DEF Settle, LedgerNext
  <2>3. CASE \E reason \in Reasons : Cancel(l, reason)
    <3>1. PICK reason \in Reasons : Cancel(l, reason)
      BY <2>3
    <3>2. Ended(lease[l], "canceled", reason).maxConc = lease[l].maxConc
      BY <1>2 DEF Ended, LeaseRow
    <3> QED
      BY <3>1, <3>2, <1>2 DEF Cancel, LedgerNext
  <2> QED
    BY <2>1, <2>2, <2>3 DEF Admin
<1>4. IInv'
  BY <1>3, NextPreserves DEF PInv
<1>5. ExposureBounded'
  <2> SUFFICES ASSUME NEW j \in Leases PROVE Cardinality(Exposed(j)') <= lease'[j].maxConc
    BY DEF ExposureBounded
  <2>1. Exposed(j)' = Exposed(j)
    BY <1>3 DEF Exposed, Rows
  <2>2. CASE lease'[j].maxConc = lease[j].maxConc
    BY <1>4, <2>1, <2>2, ExposureShrinks DEF PInv
  <2>3. CASE lease[j].state = "absent"
    <3>1. lease[j].maxConc = 0
      BY <2>3 DEF PInv, IInv, LeaseInv, NoLease
    <3>2. Cardinality(Exposed(j)) <= 0 /\ Cardinality(Exposed(j)) \in Nat
      BY <3>1, RowsFinite DEF PInv, ExposureBounded, Exposed
    <3>3. lease'[j] \in LeaseRow
      BY <1>4 DEF IInv, LedgerTypeOK
    <3>4. lease'[j].maxConc \in Nat
      BY <3>3, LedgerAssumption DEF LeaseRow
    <3> QED
      BY <2>1, <3>2, <3>4
  <2> QED
    BY <1>3, <2>2, <2>3
<1>6. \A h \in Handlers : HandlerInv(h)'
  BY <1>1, <1>3, HandlerUntouched DEF PInv
<1>7. \A j \in Leases, s \in Seqs : RowInv(j, s)'
  BY <1>1, <1>3, RowUntouched DEF PInv
<1>8. OneOwner' /\ NoOrphan'
  BY <1>1, <1>3 DEF PInv, OneOwner, NoOrphan, NoFault, Live
<1>9. ProxyTypeOK'
  BY Types, <1>1, <1>4 DEF ProxyTypeOK, IInv, HandlerRow
<1> QED
  BY <1>3, <1>4, <1>5, <1>6, <1>7, <1>8, <1>9 DEF PInv

-----------------------------------------------------------------------------
(* The theorems *)

LEMMA ProxyInitEstablishes == ProxyInit => PInv
<1> SUFFICES ASSUME ProxyInit PROVE PInv
  OBVIOUS
<1>1. LedgerInit /\ IInv
  BY InitEstablishes DEF ProxyInit
<1>2. /\ clock = 0 /\ handler = [h \in Handlers |-> IdleHandler(AnyLease)]
      /\ provider = [l \in Leases |-> [s \in Seqs |-> "none"]]
      /\ bill = [l \in Leases |-> [s \in Seqs |-> 0]]
      /\ faults = [busy |-> 0, crash |-> 0]
  BY DEF ProxyInit
<1>3. AnyLease \in Leases
  BY ProxyAssumption DEF AnyLease
<1>4. 0 \in Instants /\ IdleHandler(AnyLease) \in HandlerRow
  BY <1>3, LedgerAssumption DEF Instants, IdleHandler, HandlerRow, Pcs, NoUsage
<1>5. ProxyTypeOK
  BY <1>1, <1>2, <1>4, ProxyAssumption DEF ProxyTypeOK, IInv, HandlerRow
<1>6. \A l \in Leases, s \in Seqs : op[l][s] = NoOp /\ lease[l] = NoLease
  BY <1>1 DEF LedgerInit
<1>7. \A h \in Handlers : HandlerInv(h) /\ handler[h].seq = 0
  BY <1>2 DEF HandlerInv, IdleHandler, InForward
<1>8. \A l \in Leases, s \in Seqs : RowInv(l, s)
  <2> SUFFICES ASSUME NEW l \in Leases, NEW s \in Seqs PROVE RowInv(l, s)
    OBVIOUS
  <2>1. op[l][s].status = "absent" /\ RowLiability(l, s) = 0
    BY <1>6 DEF NoOp, RowLiability
  <2>2. 0 <= Scale * 0
    BY PricingAssumption
  <2> QED
    BY <1>2, <2>1, <2>2 DEF RowInv
<1>9. OneOwner /\ NoOrphan
  BY <1>6, <1>7 DEF OneOwner, NoOrphan, NoOp
<1>10. ExposureBounded
  <2> SUFFICES ASSUME NEW l \in Leases PROVE Cardinality(Exposed(l)) <= lease[l].maxConc
    BY DEF ExposureBounded
  <2>1. Exposed(l) = {}
    BY <1>6 DEF Exposed, Rows, NoOp
  <2>2. lease[l].maxConc = 0
    BY <1>1 DEF LedgerInit, NoLease
  <2> QED
    BY <2>1, <2>2, FS_EmptySet
<1> QED
  BY <1>1, <1>5, <1>7, <1>8, <1>9, <1>10 DEF PInv

\* Every step of the proxy keeps the invariant and is, for the store, one of its
\* transactions or nothing.
LEMMA ProxyStep == PInv /\ [ProxyNext]_proxyVars => PInv' /\ [LedgerNext]_ledgerVars
<1> SUFFICES ASSUME PInv, [ProxyNext]_proxyVars PROVE PInv' /\ [LedgerNext]_ledgerVars
  OBVIOUS
<1>1. ASSUME NEW h \in Handlers, NEW l \in Leases, NEW output \in OutputLimits,
             Authorize(h, l, output)
      PROVE  PInv' /\ UNCHANGED ledgerVars
  BY <1>1, AuthorizePreserves DEF Authorize, ledgerVars
<1>2. ASSUME NEW h \in Handlers, Begin(h) PROVE PInv' /\ LedgerNext
  BY <1>2, BeginStepPreserves
<1>3. ASSUME NEW h \in Handlers,
             BeginRefused(h) \/ UpstreamFails(h) \/ UpstreamRefuses(h) \/ Overrun(h) \/ StoreBusy(h)
      PROVE  PInv' /\ UNCHANGED ledgerVars
  <2>1. PInv'
    BY <1>3, RefusalsPreserve
  <2>2. UNCHANGED ledgerVars
    BY <1>3 DEF BeginRefused, UpstreamFails, UpstreamRefuses, Overrun, CompleteOverrun,
                StoreBusy, ledgerVars
  <2> QED
    BY <2>1, <2>2
<1>4. ASSUME NEW h \in Handlers, Send(h) PROVE PInv' /\ UNCHANGED ledgerVars
  BY <1>4, SendPreserves DEF Send, ledgerVars
<1>5. ASSUME NEW h \in Handlers, UpstreamAnswers(h) PROVE PInv' /\ UNCHANGED ledgerVars
  BY <1>5, AnswerPreserves DEF UpstreamAnswers, ledgerVars
<1>6. ASSUME NEW h \in Handlers, ProviderFinishesUnheard(h) PROVE PInv' /\ UNCHANGED ledgerVars
  BY <1>6, UnheardPreserves DEF ProviderFinishesUnheard, ledgerVars
<1>7. ASSUME NEW h \in Handlers, Complete(h) PROVE PInv' /\ LedgerNext
  BY <1>7, CompleteStepPreserves
<1>8. ASSUME NEW h \in Handlers, Mark(h) PROVE PInv' /\ LedgerNext
  BY <1>8, MarkStepPreserves
<1>9. ASSUME NEW l \in Leases, Admin(l) PROVE PInv' /\ LedgerNext
  BY <1>9, AdminPreserves
<1>10. ASSUME Crash PROVE PInv' /\ UNCHANGED ledgerVars
  BY <1>10, CrashPreserves DEF Crash, ledgerVars
<1>11. ASSUME Tick PROVE PInv' /\ UNCHANGED ledgerVars
  <2>1. clock' \in Instants
    BY <1>11, Types, LedgerAssumption DEF Tick, Instants
  <2> QED
    BY <1>11, <2>1, TickPreserves DEF Tick, ledgerVars
<1>12. ASSUME UNCHANGED proxyVars PROVE PInv' /\ UNCHANGED ledgerVars
  <2>1. UNCHANGED << lease, op, clock, handler, provider, bill, faults >> /\ clock' \in Instants
    BY <1>12, Types DEF proxyVars
  <2> QED
    BY <2>1, TickPreserves DEF ledgerVars
<1>13. ASSUME NEW h \in Handlers, HandlerStep(h) PROVE PInv' /\ [LedgerNext]_ledgerVars
  BY <1>2, <1>3, <1>4, <1>5, <1>7, <1>8, <1>13 DEF HandlerStep
<1> QED
  BY <1>1, <1>3, <1>6, <1>9, <1>10, <1>11, <1>12, <1>13 DEF ProxyNext

LEMMA ProxyInductive == ProxySpec => []PInv
BY ProxyInitEstablishes, ProxyStep, PTL DEF ProxySpec

\* The proxy drives the store only through its transactions, so everything proved of the
\* store holds below the proxy: the tables stay balanced, the CHECKs hold, and the promise
\* of a provider hard limit is kept (OpenAIQuotaWSGIApplication over SQLiteOpenAIQuotaStore).
THEOREM ProxyKeepsHardLimit == ProxySpec => LedgerSpec /\ HardLimit /\ []LedgerBalanced
<1>1. ProxySpec => LedgerSpec
  BY ProxyInitEstablishes, ProxyStep, PTL DEF ProxySpec, LedgerSpec, ProxyInit
<1> QED
  BY <1>1, LedgerIsHardLimit, LedgerInvariants, PTL

\* Whatever is lost, late, refused or repeated, the ledger has down at least what the
\* provider charges, operation by operation (_authorize_request, _usage_accounting,
\* complete_operation, mark_operation_uncertain).
THEOREM BillsAreCovered == ProxySpec => []BillCovered
<1>1. PInv => BillCovered
  BY DEF PInv, RowInv, BillCovered
<1> QED
  BY <1>1, ProxyInductive, PTL

\* The provider never works on more operations of a lease than the lease's concurrency,
\* not even when the proxy gave up on some of them, lost them in a crash, or could not mark
\* them: the first mark revokes the lease, so no operation is opened beside the old ones.
THEOREM ConcurrencyIsBounded == ProxySpec => []ProviderConcurrencyBounded
<1>1. ASSUME PInv, NEW l \in Leases
      PROVE  Cardinality({s \in Seqs : provider[l][s] = "working"}) <= lease[l].maxConc
  <2> DEFINE working == {s \in Seqs : provider[l][s] = "working"}
  <2>1. working \subseteq Exposed(l)
    BY <1>1 DEF PInv, RowInv, Exposed, Rows
  <2>2. IsFiniteSet(Exposed(l)) /\ Cardinality(Exposed(l)) \in Nat
    BY RowsFinite DEF Exposed
  <2>3. Cardinality(working) <= Cardinality(Exposed(l)) /\ Cardinality(working) \in Nat
    BY <2>1, <2>2, FS_Subset, FS_CardinalityType
  <2>4. Cardinality(Exposed(l)) <= lease[l].maxConc
    BY <1>1 DEF PInv, ExposureBounded
  <2>5. lease[l] \in LeaseRow
    BY <1>1, Types
  <2>6. lease[l].maxConc \in Nat
    BY <2>5, LedgerAssumption DEF LeaseRow
  <2> HIDE DEF working
  <2>7. Cardinality(working) <= lease[l].maxConc
    BY <2>2, <2>3, <2>4, <2>6
  <2> QED
    BY <2>7 DEF working
<1>2. PInv => ProviderConcurrencyBounded
  BY <1>1 DEF ProviderConcurrencyBounded
<1> QED
  BY <1>2, ProxyInductive, PTL

\* A settled lease has no forwarding and no uncertain operation, hence no handler in
\* _forward and no work left at the provider: nothing can be charged behind a settlement.
THEOREM SettlementIsQuiet == ProxySpec => []SettledIsQuiet
<1>1. ASSUME PInv, NEW l \in Leases, lease[l].state = "settled"
      PROVE  /\ \A h \in Handlers : handler[h].lease = l => handler[h].pc \notin InForward
             /\ \A s \in Seqs : provider[l][s] # "working"
  <2>1. IInv /\ LeaseInv(l)
    BY <1>1 DEF PInv, IInv
  <2>2. Rows(l, {"uncertain"}) = {}
    BY <1>1, <2>1 DEF LeaseInv
  <2>3. \A s \in Seqs : op[l][s].status # "forwarding"
    BY <1>1, <2>1, ForwardingIsOpen
  <2>4. \A s \in Seqs : op[l][s].status \notin {"forwarding", "uncertain"}
    BY <2>2, <2>3 DEF Rows
  <2>5. \A s \in Seqs : provider[l][s] # "working"
    BY <1>1, <2>4 DEF PInv, RowInv
  <2>6. ASSUME NEW h \in Handlers, handler[h].lease = l, handler[h].pc \in InForward PROVE FALSE
    BY <1>1, <2>3, <2>6, OwnRow DEF OpOf
  <2> QED
    BY <2>5, <2>6
<1>2. PInv => SettledIsQuiet
  BY <1>1 DEF SettledIsQuiet
<1> QED
  BY <1>2, ProxyInductive, PTL

\* An operation has at most one handler, is forwarding as long as that handler is in
\* _forward, and is left forwarding without one only after a crash or a busy store, on a
\* lease that then can never be settled.
THEOREM HoldsHaveOwners == ProxySpec => []HoldsAreOwned
<1>1. ASSUME PInv, NEW l \in Leases, NEW s \in Seqs,
             NEW owners, owners = {h \in Handlers : handler[h].lease = l /\ handler[h].seq = s},
             NEW live, live = {h \in owners : handler[h].pc \in InForward}
      PROVE  /\ Cardinality(owners) <= 1
             /\ op[l][s].status = "forwarding" =>
                  live # {} \/ (faults # [busy |-> 0, crash |-> 0] /\ lease[l].state # "settled")
             /\ live # {} => op[l][s].status = "forwarding"
  <2>1. s # 0
    BY ZeroIsNoSeq
  <2>2. \A h, k \in owners : h = k
    BY <1>1, <2>1 DEF PInv, OneOwner
  <2>3. Cardinality(owners) <= 1
    <3>1. CASE owners = {}
      BY <3>1, FS_EmptySet
    <3>2. CASE owners # {}
      <4>1. PICK h \in owners : owners = {h}
        BY <2>2, <3>2
      <4> QED
        BY <4>1, FS_Singleton
    <3> QED
      BY <3>1, <3>2
  <2>4. ASSUME op[l][s].status = "forwarding", live = {}
        PROVE  faults # [busy |-> 0, crash |-> 0] /\ lease[l].state # "settled"
    <3>1. ~NoFault
      BY <1>1, <2>4 DEF PInv, NoOrphan, Live
    <3>2. lease[l].state # "settled"
      BY <1>1, <2>4, ForwardingIsOpen DEF PInv
    <3> QED
      BY <3>1, <3>2 DEF NoFault
  <2>5. ASSUME NEW h \in live PROVE op[l][s].status = "forwarding"
    BY <1>1, <2>5, OwnRow DEF OpOf
  <2> QED
    BY <2>3, <2>4, <2>5
<1>2. PInv => HoldsAreOwned
  BY <1>1 DEF HoldsAreOwned
<1> QED
  BY <1>2, ProxyInductive, PTL

=============================================================================
