--------------------------- MODULE QuotaLedgerProofs ---------------------------
(***************************************************************************)
(* The quota store's accounting is exact, for every number of leases,       *)
(* operations and callers, every limit and every amount.                   *)
(***************************************************************************)
EXTENDS QuotaLedger, FiniteSetTheorems, TLAPS

-----------------------------------------------------------------------------
(* Sums over rows *)

LEMMA SeqsFinite == IsFiniteSet(Seqs) /\ Seqs \subseteq Nat \ {0}
BY FS_Interval, LedgerAssumption DEF Seqs

\* The units of finitely many bounded amounts are finitely many.
LEMMA UnitsFinite ==
  ASSUME NEW S \in SUBSET Seqs, NEW f
  PROVE  IsFiniteSet(Units(S, f)) /\ Total(S, f) \in Nat
<1>1. IsFiniteSet(S)
  BY SeqsFinite, FS_Subset
<1>2. IsFiniteSet(1 .. MaxCost)
  BY FS_Interval, LedgerAssumption
<1>3. IsFiniteSet(S \X (1 .. MaxCost))
  BY <1>1, <1>2, FS_Product
<1>4. Units(S, f) \in SUBSET (S \X (1 .. MaxCost))
  BY DEF Units
<1>5. IsFiniteSet(Units(S, f))
  BY <1>3, <1>4, FS_Subset
<1> QED
  BY <1>5, FS_CardinalityType DEF Total

\* Amounts that agree on a set of rows have the same total over it.
LEMMA TotalAgrees ==
  ASSUME NEW S \in SUBSET Seqs, NEW f, NEW g, \A s \in S : f[s] = g[s]
  PROVE  Total(S, f) = Total(S, g)
<1>1. Units(S, f) = Units(S, g)
  BY DEF Units
<1> QED
  BY <1>1 DEF Total

\* One more row adds its amount.
LEMMA TotalAdd ==
  ASSUME NEW S \in SUBSET Seqs, NEW x \in Seqs \ S, NEW f, f[x] \in Amounts
  PROVE  Total(S \cup {x}, f) = Total(S, f) + f[x]
<1> DEFINE new == {x} \X (1 .. f[x])
<1>1. f[x] \in Nat /\ f[x] <= MaxCost
  BY LedgerAssumption DEF Amounts
<1>2. Units(S \cup {x}, f) = Units(S, f) \cup new
  BY <1>1, LedgerAssumption DEF Units
<1>3. Units(S, f) \cap new = {}
  BY DEF Units
<1>4. IsFiniteSet(new) /\ Cardinality(new) = f[x]
  <2>1. IsFiniteSet({x}) /\ Cardinality({x}) = 1
    BY FS_Singleton
  <2>2. IsFiniteSet(1 .. f[x]) /\ Cardinality(1 .. f[x]) = f[x]
    BY <1>1, FS_Interval
  <2>3. IsFiniteSet(new) /\ Cardinality(new) = Cardinality({x}) * Cardinality(1 .. f[x])
    BY <2>1, <2>2, FS_Product
  <2> QED
    BY <1>1, <2>1, <2>2, <2>3
<1>5. IsFiniteSet(Units(S, f)) /\ Cardinality(Units(S, f)) \in Nat
  BY UnitsFinite, FS_CardinalityType
<1>6. Cardinality(Units(S, f) \cup new) =
        Cardinality(Units(S, f)) + Cardinality(new) - Cardinality({})
  BY <1>3, <1>4, <1>5, FS_Union
<1>7. Cardinality({}) = 0
  BY FS_EmptySet
<1>8. Total(S \cup {x}, f) = Cardinality(Units(S, f) \cup new) /\ Total(S, f) = Cardinality(Units(S, f))
  BY <1>2 DEF Total
<1> HIDE DEF new
<1> QED
  BY <1>1, <1>4, <1>5, <1>6, <1>7, <1>8

\* One row less subtracts its amount.
LEMMA TotalRemove ==
  ASSUME NEW S \in SUBSET Seqs, NEW x \in S, NEW f, f[x] \in Amounts
  PROVE  /\ Total(S \ {x}, f) = Total(S, f) - f[x]
         /\ f[x] <= Total(S, f)
<1>1. (S \ {x}) \cup {x} = S /\ S \ {x} \in SUBSET Seqs /\ x \in Seqs \ (S \ {x})
  OBVIOUS
<1>2. Total(S, f) = Total(S \ {x}, f) + f[x]
  BY <1>1, TotalAdd
<1>3. Total(S \ {x}, f) \in Nat /\ Total(S, f) \in Nat /\ f[x] \in Nat
  BY UnitsFinite, LedgerAssumption DEF Amounts
<1> QED
  BY <1>2, <1>3

-----------------------------------------------------------------------------
(* The inductive invariant *)

\* Everything the transactions rely on about one lease and its operations.  The checked
\* invariants are not inductive by themselves: a charge needs held to be at least the
\* hold it releases, which the sums say; settling needs that an active lease has no
\* uncertain row, and reserving needs that an absent lease has no row at all.
LeaseInv(l) ==
  /\ CountersMatchRows(l)
  /\ SumsMatchRows(l)
  /\ lease[l].count <= lease[l].maxOps
  /\ lease[l].successful <= lease[l].count
  /\ lease[l].inFlight <= lease[l].maxConc
  /\ Liability(l) <= lease[l].maxCost
  /\ lease[l].state \in Terminal <=> lease[l].reason # "none"
  /\ Rows(l, {"uncertain"}) # {} => lease[l].state \in {"canceled", "failed"}
  /\ lease[l].state = "absent" => lease[l] = NoLease
  /\ lease[l].state = "settled" =>
       /\ lease[l].held = 0 /\ lease[l].uncertain = 0
       /\ lease[l].count = lease[l].successful

IInv == LedgerTypeOK /\ \A l \in Leases : LeaseInv(l)

\* A lease that a transaction does not touch keeps its invariant.
LEMMA LeaseUntouched ==
  ASSUME NEW l \in Leases, LeaseInv(l), lease'[l] = lease[l], op'[l] = op[l]
  PROVE  LeaseInv(l)'
<1>1. \A states : Rows(l, states)' = Rows(l, states)
  BY DEF Rows
<1>2. ReservedOf(l)' = ReservedOf(l) /\ CostOf(l)' = CostOf(l)
  BY DEF ReservedOf, CostOf
<1>3. Liability(l)' = Liability(l)
  BY DEF Liability
<1>4. CountersMatchRows(l)' /\ SumsMatchRows(l)'
  BY <1>1, <1>2 DEF LeaseInv, CountersMatchRows, SumsMatchRows, Total, Units
<1> QED
  BY <1>1, <1>3, <1>4 DEF LeaseInv

\* The row sets of a lease are finite, so their sizes and totals are numbers.
LEMMA RowsFinite ==
  ASSUME NEW l \in Leases, NEW states
  PROVE  /\ Rows(l, states) \in SUBSET Seqs
         /\ IsFiniteSet(Rows(l, states))
         /\ Cardinality(Rows(l, states)) \in Nat
<1>1. Rows(l, states) \in SUBSET Seqs
  BY DEF Rows
<1> QED
  BY <1>1, SeqsFinite, FS_Subset, FS_CardinalityType

\* A lease has as many completed operations as it has operations only if all are.
LEMMA AllCompleted ==
  ASSUME NEW l \in Leases, LedgerTypeOK, LeaseInv(l)
  PROVE  /\ lease[l].successful <= lease[l].count
         /\ lease[l].count = lease[l].successful
              => Rows(l, OpStates \ {"absent"}) = Rows(l, {"completed"})
<1> DEFINE all == Rows(l, OpStates \ {"absent"})
           done == Rows(l, {"completed"})
<1>1. done \in SUBSET all
  BY DEF Rows, OpStates
<1>2. lease[l].count \in Nat /\ all = 1 .. lease[l].count
  BY DEF LeaseInv, CountersMatchRows, LedgerTypeOK, LeaseRow
<1>3. IsFiniteSet(all) /\ Cardinality(all) = lease[l].count
  BY <1>2, FS_Interval
<1>4. Cardinality(done) <= Cardinality(all) /\ (Cardinality(all) = Cardinality(done) => all = done)
  BY <1>1, <1>3, FS_Subset
<1>5. lease[l].successful = Cardinality(done)
  BY DEF LeaseInv, CountersMatchRows
<1> QED
  BY <1>3, <1>4, <1>5

-----------------------------------------------------------------------------
(* One row changes *)

\* Taking a row out of a set takes its amount out of the total, if it was there.
LEMMA TotalAt ==
  ASSUME NEW S \in SUBSET Seqs, NEW x \in Seqs, NEW f, f[x] \in Amounts
  PROVE  /\ Total(S, f) = Total(S \ {x}, f) + (IF x \in S THEN f[x] ELSE 0)
         /\ Total(S \ {x}, f) \in Nat
<1> DEFINE rest == S \ {x}
<1>1. Total(rest, f) \in Nat /\ Total(S, f) \in Nat /\ f[x] \in Nat
  BY UnitsFinite, LedgerAssumption DEF Amounts
<1>2. x \in S => Total(rest, f) = Total(S, f) - f[x]
  BY TotalRemove
<1>3. x \notin S => rest = S
  OBVIOUS
<1> HIDE DEF rest
<1>4. Total(S, f) = Total(rest, f) + (IF x \in S THEN f[x] ELSE 0)
  <2>1. CASE x \in S
    BY <1>1, <1>2, <2>1
  <2>2. CASE x \notin S
    BY <1>1, <1>3, <2>2
  <2> QED
    BY <2>1, <2>2
<1> QED
  BY <1>1, <1>4 DEF rest

\* Likewise for its size.
LEMMA SizeAt ==
  ASSUME NEW S \in SUBSET Seqs, NEW x \in Seqs
  PROVE  /\ Cardinality(S) = Cardinality(S \ {x}) + (IF x \in S THEN 1 ELSE 0)
         /\ Cardinality(S \ {x}) \in Nat
<1> DEFINE rest == S \ {x}
<1>1. IsFiniteSet(S) /\ IsFiniteSet(rest)
  BY SeqsFinite, FS_Subset
<1>2. Cardinality(S) \in Nat /\ Cardinality(rest) \in Nat
  BY <1>1, FS_CardinalityType
<1>3. x \in S => Cardinality(rest) = Cardinality(S) - 1
  BY <1>1, FS_RemoveElement
<1>4. x \notin S => rest = S
  OBVIOUS
<1> HIDE DEF rest
<1>5. Cardinality(S) = Cardinality(rest) + (IF x \in S THEN 1 ELSE 0)
  <2>1. CASE x \in S
    BY <1>2, <1>3, <2>1
  <2>2. CASE x \notin S
    BY <1>2, <1>4, <2>2
  <2> QED
    BY <2>1, <2>2
<1> QED
  BY <1>2, <1>5 DEF rest

\* When only row s of lease l changes, the size of a set of rows and its totals change by
\* what row s no longer contributes and by what it now contributes.
LEMMA RowMoves ==
  ASSUME NEW l \in Leases, NEW s \in Seqs, op[l][s] \in OpRow, op'[l][s] \in OpRow,
         \A k \in Seqs \ {s} : op'[l][k] = op[l][k],
         NEW states
  PROVE  /\ Cardinality(Rows(l, states)') =
              Cardinality(Rows(l, states))
                - (IF op[l][s].status \in states THEN 1 ELSE 0)
                + (IF op'[l][s].status \in states THEN 1 ELSE 0)
         /\ Total(Rows(l, states)', ReservedOf(l)') =
              Total(Rows(l, states), ReservedOf(l))
                - (IF op[l][s].status \in states THEN op[l][s].reserved ELSE 0)
                + (IF op'[l][s].status \in states THEN op'[l][s].reserved ELSE 0)
         /\ Total(Rows(l, states)', CostOf(l)') =
              Total(Rows(l, states), CostOf(l))
                - (IF op[l][s].status \in states THEN op[l][s].cost ELSE 0)
                + (IF op'[l][s].status \in states THEN op'[l][s].cost ELSE 0)
<1> DEFINE old == Rows(l, states)
           new == Rows(l, states)'
           rest == old \ {s}
<1>1. old \in SUBSET Seqs /\ new \in SUBSET Seqs /\ rest \in SUBSET Seqs /\ s \notin rest
  BY DEF Rows
<1>2. new \ {s} = rest
  BY DEF Rows
<1>3. (op[l][s].status \in states <=> s \in old) /\ (op'[l][s].status \in states <=> s \in new)
  BY DEF Rows
<1>5. /\ op[l][s].reserved \in Amounts /\ op'[l][s].reserved \in Amounts
      /\ op[l][s].cost \in Amounts /\ op'[l][s].cost \in Amounts
  BY DEF OpRow
<1>6. /\ ReservedOf(l)[s] = op[l][s].reserved /\ ReservedOf(l)'[s] = op'[l][s].reserved
      /\ CostOf(l)[s] = op[l][s].cost /\ CostOf(l)'[s] = op'[l][s].cost
  BY DEF ReservedOf, CostOf
<1>7. \A k \in rest : ReservedOf(l)[k] = ReservedOf(l)'[k] /\ CostOf(l)[k] = CostOf(l)'[k]
  BY <1>1 DEF ReservedOf, CostOf
<1>8. /\ Total(rest, ReservedOf(l)) = Total(rest, ReservedOf(l)')
      /\ Total(rest, CostOf(l)) = Total(rest, CostOf(l)')
  BY <1>1, <1>7, TotalAgrees
<1>9. /\ Cardinality(old) = Cardinality(rest) + (IF s \in old THEN 1 ELSE 0)
      /\ Cardinality(rest) \in Nat
  BY <1>1, SizeAt
<1>10. Cardinality(new) = Cardinality(rest) + (IF s \in new THEN 1 ELSE 0)
  BY <1>1, <1>2, SizeAt
<1>4. /\ ReservedOf(l)[s] \in Amounts /\ ReservedOf(l)'[s] \in Amounts
      /\ CostOf(l)[s] \in Amounts /\ CostOf(l)'[s] \in Amounts
  BY <1>5, <1>6
<1>11. /\ Total(old, ReservedOf(l)) = Total(rest, ReservedOf(l)) + (IF s \in old THEN ReservedOf(l)[s] ELSE 0)
       /\ Total(rest, ReservedOf(l)) \in Nat
  BY <1>1, <1>4, TotalAt
<1>12. /\ Total(old, CostOf(l)) = Total(rest, CostOf(l)) + (IF s \in old THEN CostOf(l)[s] ELSE 0)
       /\ Total(rest, CostOf(l)) \in Nat
  BY <1>1, <1>4, TotalAt
<1>13. /\ Total(new, ReservedOf(l)') = Total(rest, ReservedOf(l)') + (IF s \in new THEN ReservedOf(l)'[s] ELSE 0)
       /\ Total(rest, ReservedOf(l)') \in Nat
  <2>1. /\ Total(new, ReservedOf(l)') = Total(new \ {s}, ReservedOf(l)') + (IF s \in new THEN ReservedOf(l)'[s] ELSE 0)
        /\ Total(new \ {s}, ReservedOf(l)') \in Nat
    BY <1>1, <1>4, TotalAt
  <2> QED
    BY <1>2, <2>1
<1>14. /\ Total(new, CostOf(l)') = Total(rest, CostOf(l)') + (IF s \in new THEN CostOf(l)'[s] ELSE 0)
       /\ Total(rest, CostOf(l)') \in Nat
  <2>1. /\ Total(new, CostOf(l)') = Total(new \ {s}, CostOf(l)') + (IF s \in new THEN CostOf(l)'[s] ELSE 0)
        /\ Total(new \ {s}, CostOf(l)') \in Nat
    BY <1>1, <1>4, TotalAt
  <2> QED
    BY <1>2, <2>1
<1>15. /\ op[l][s].reserved \in Nat /\ op'[l][s].reserved \in Nat
       /\ op[l][s].cost \in Nat /\ op'[l][s].cost \in Nat
  BY <1>5, LedgerAssumption DEF Amounts
<1> HIDE DEF old, new, rest
<1>16. /\ Cardinality(new) = Cardinality(old) - (IF s \in old THEN 1 ELSE 0) + (IF s \in new THEN 1 ELSE 0)
       /\ Total(new, ReservedOf(l)') = Total(old, ReservedOf(l))
            - (IF s \in old THEN op[l][s].reserved ELSE 0) + (IF s \in new THEN op'[l][s].reserved ELSE 0)
       /\ Total(new, CostOf(l)') = Total(old, CostOf(l))
            - (IF s \in old THEN op[l][s].cost ELSE 0) + (IF s \in new THEN op'[l][s].cost ELSE 0)
  BY <1>6, <1>8, <1>9, <1>10, <1>11, <1>12, <1>13, <1>14, <1>15
<1> QED
  BY <1>3, <1>16 DEF old, new

\* The three ways a row can move: out of a set of states, into it, or past it.
LEMMA RowLeaves ==
  ASSUME NEW l \in Leases, NEW s \in Seqs, op[l][s] \in OpRow, op'[l][s] \in OpRow,
         \A k \in Seqs \ {s} : op'[l][k] = op[l][k],
         NEW states, op[l][s].status \in states, op'[l][s].status \notin states
  PROVE  /\ Cardinality(Rows(l, states)') = Cardinality(Rows(l, states)) - 1
         /\ Total(Rows(l, states)', ReservedOf(l)') = Total(Rows(l, states), ReservedOf(l)) - op[l][s].reserved
         /\ Total(Rows(l, states)', CostOf(l)') = Total(Rows(l, states), CostOf(l)) - op[l][s].cost
<1>1. op[l][s].reserved \in Nat /\ op'[l][s].reserved \in Nat /\ op[l][s].cost \in Nat /\ op'[l][s].cost \in Nat
  BY LedgerAssumption DEF OpRow, Amounts
<1>2. /\ Cardinality(Rows(l, states)) \in Nat
      /\ Total(Rows(l, states), ReservedOf(l)) \in Nat
      /\ Total(Rows(l, states), CostOf(l)) \in Nat
  BY RowsFinite, UnitsFinite
<1> QED
  BY <1>1, <1>2, RowMoves

LEMMA RowEnters ==
  ASSUME NEW l \in Leases, NEW s \in Seqs, op[l][s] \in OpRow, op'[l][s] \in OpRow,
         \A k \in Seqs \ {s} : op'[l][k] = op[l][k],
         NEW states, op[l][s].status \notin states, op'[l][s].status \in states
  PROVE  /\ Cardinality(Rows(l, states)') = Cardinality(Rows(l, states)) + 1
         /\ Total(Rows(l, states)', ReservedOf(l)') = Total(Rows(l, states), ReservedOf(l))
              + op'[l][s].reserved
         /\ Total(Rows(l, states)', CostOf(l)') = Total(Rows(l, states), CostOf(l))
              + op'[l][s].cost
<1>1. op[l][s].reserved \in Nat /\ op'[l][s].reserved \in Nat /\ op[l][s].cost \in Nat /\ op'[l][s].cost \in Nat
  BY LedgerAssumption DEF OpRow, Amounts
<1>2. /\ Cardinality(Rows(l, states)) \in Nat
      /\ Total(Rows(l, states), ReservedOf(l)) \in Nat
      /\ Total(Rows(l, states), CostOf(l)) \in Nat
  BY RowsFinite, UnitsFinite
<1> QED
  BY <1>1, <1>2, RowMoves

LEMMA RowPasses ==
  ASSUME NEW l \in Leases, NEW s \in Seqs, op[l][s] \in OpRow, op'[l][s] \in OpRow,
         \A k \in Seqs \ {s} : op'[l][k] = op[l][k],
         NEW states, op[l][s].status \notin states, op'[l][s].status \notin states
  PROVE  /\ Cardinality(Rows(l, states)') = Cardinality(Rows(l, states))
         /\ Total(Rows(l, states)', ReservedOf(l)') = Total(Rows(l, states), ReservedOf(l))
         /\ Total(Rows(l, states)', CostOf(l)') = Total(Rows(l, states), CostOf(l))
<1>1. op[l][s].reserved \in Nat /\ op'[l][s].reserved \in Nat /\ op[l][s].cost \in Nat /\ op'[l][s].cost \in Nat
  BY LedgerAssumption DEF OpRow, Amounts
<1>2. /\ Cardinality(Rows(l, states)) \in Nat
      /\ Total(Rows(l, states), ReservedOf(l)) \in Nat
      /\ Total(Rows(l, states), CostOf(l)) \in Nat
  BY RowsFinite, UnitsFinite
<1> QED
  BY <1>1, <1>2, RowMoves

-----------------------------------------------------------------------------
(* Every transaction preserves the invariant *)

\* It is enough to look at the one lease a transaction is about.
LEMMA OneLease ==
  ASSUME IInv, LedgerTypeOK', NEW l \in Leases, LeaseInv(l)',
         \A k \in Leases \ {l} : lease'[k] = lease[k] /\ op'[k] = op[k]
  PROVE  IInv'
<1>1. ASSUME NEW k \in Leases, k # l PROVE LeaseInv(k)'
  BY <1>1, LeaseUntouched DEF IInv
<1> QED
  BY <1>1 DEF IInv

\* What a forwarding row says about the counters of its lease.
LEMMA Forwarding ==
  ASSUME IInv, NEW l \in Leases, NEW s \in Seqs, op[l][s].status = "forwarding"
  PROVE  /\ lease[l].inFlight >= 1
         /\ op[l][s].reserved <= lease[l].held
         /\ lease[l].successful + lease[l].inFlight <= lease[l].count
<1> DEFINE running == Rows(l, {"forwarding"})
           done == Rows(l, {"completed"})
           all == Rows(l, OpStates \ {"absent"})
<1>1. s \in running /\ running \cap done = {} /\ running \cup done \in SUBSET all
  BY DEF Rows, OpStates
<1>2. op[l][s].reserved \in Amounts /\ ReservedOf(l)[s] = op[l][s].reserved
  BY DEF IInv, LedgerTypeOK, OpRow, ReservedOf
<1>3. op[l][s].reserved <= Total(running, ReservedOf(l))
  <2>1. ReservedOf(l)[s] \in Amounts
    BY <1>2
  <2>2. ReservedOf(l)[s] <= Total(running, ReservedOf(l))
    BY <1>1, <2>1, RowsFinite, TotalRemove
  <2> QED
    BY <1>2, <2>2
<1>4. IsFiniteSet(running) /\ IsFiniteSet(done) /\ IsFiniteSet(all)
  BY RowsFinite
<1>5. Cardinality(running) \in Nat /\ Cardinality(done) \in Nat
  BY RowsFinite
<1>6. Cardinality(running) >= 1
  <2>1. Cardinality(running) # 0
    BY <1>1, <1>4, FS_EmptySet
  <2> QED
    BY <1>5, <2>1
<1>7. Cardinality(running \cup done) = Cardinality(running) + Cardinality(done)
  <2>1. Cardinality(running \cup done) =
          Cardinality(running) + Cardinality(done) - Cardinality(running \cap done)
    BY <1>4, FS_Union
  <2>2. Cardinality(running \cap done) = 0
    BY <1>1, FS_EmptySet
  <2> QED
    BY <1>5, <2>1, <2>2
<1>8. Cardinality(running \cup done) <= Cardinality(all)
  BY <1>1, <1>4, FS_Subset
<1>9. Cardinality(all) = lease[l].count /\ lease[l].count \in Nat
  <2>1. lease[l].count \in Nat /\ all = 1 .. lease[l].count
    <3>1. lease[l] \in LeaseRow /\ LeaseInv(l)
      BY DEF IInv, LedgerTypeOK
    <3> QED
      BY <3>1 DEF LeaseInv, CountersMatchRows, LeaseRow
  <2>2. Cardinality(1 .. lease[l].count) = lease[l].count
    BY <2>1, FS_Interval
  <2> QED
    BY <2>1, <2>2
<1>10. /\ lease[l].inFlight = Cardinality(running)
       /\ lease[l].successful = Cardinality(done)
       /\ lease[l].held = Total(running, ReservedOf(l))
  BY DEF IInv, LeaseInv, CountersMatchRows, SumsMatchRows
<1> QED
  BY <1>3, <1>5, <1>6, <1>7, <1>8, <1>9, <1>10

\* complete_operation.
LEMMA CompletePreserves ==
  ASSUME IInv, NEW l \in Leases, NEW s \in Seqs, NEW cost \in Amounts,
         CompleteOperation(l, s, cost)
  PROVE  IInv'
<1> USE LedgerAssumption
<1>1. op[l][s].status = "forwarding" /\ cost <= op[l][s].reserved
  BY DEF CompleteOperation
<1>2. op[l][s] \in OpRow /\ lease[l] \in LeaseRow /\ LeaseInv(l)
  BY DEF IInv, LedgerTypeOK
<1>3. op[l][s].reserved \in Nat /\ cost \in Nat
  BY <1>2 DEF OpRow, Amounts
<1>4. /\ lease[l].inFlight >= 1 /\ op[l][s].reserved <= lease[l].held
      /\ lease[l].successful + lease[l].inFlight <= lease[l].count
  BY <1>1, Forwarding
<1>5. /\ lease[l].count \in 0 .. MaxOperations /\ lease[l].successful \in 0 .. MaxOperations
      /\ lease[l].inFlight \in 0 .. MaxConcurrency /\ lease[l].maxConc \in 0 .. MaxConcurrency
      /\ lease[l].maxCost \in 0 .. MaxCost /\ lease[l].held \in 0 .. MaxCost
      /\ lease[l].actual \in 0 .. MaxCost /\ lease[l].uncertain \in 0 .. MaxCost
  BY <1>2 DEF LeaseRow, Amounts
<1>6. lease[l].actual + lease[l].held + lease[l].uncertain <= lease[l].maxCost
  BY <1>2 DEF LeaseInv, Liability
<1> DEFINE row == Charged(lease[l], op[l][s].reserved, cost)
<1>7. lease' = [lease EXCEPT ![l] = row]
  BY DEF CompleteOperation
<1>8. /\ row \in LeaseRow
      /\ row.inFlight = lease[l].inFlight - 1 /\ row.held = lease[l].held - op[l][s].reserved
      /\ row.successful = lease[l].successful + 1 /\ row.actual = lease[l].actual + cost
      /\ row.uncertain = lease[l].uncertain /\ row.count = lease[l].count
      /\ row.maxOps = lease[l].maxOps /\ row.maxConc = lease[l].maxConc
      /\ row.maxCost = lease[l].maxCost /\ row.state = lease[l].state
      /\ row.reason = lease[l].reason
  <2>1. /\ lease[l].successful + 1 \in 0 .. MaxOperations /\ lease[l].inFlight - 1 \in 0 .. MaxConcurrency
        /\ lease[l].held - op[l][s].reserved \in 0 .. MaxCost /\ lease[l].actual + cost \in 0 .. MaxCost
    BY <1>1, <1>3, <1>4, <1>5, <1>6
  <2> QED
    BY <1>2, <2>1 DEF Charged, LeaseRow, Amounts
<1>9. /\ op'[l][s] = [op[l][s] EXCEPT !.status = "completed", !.cost = cost]
      /\ \A k \in Seqs \ {s} : op'[l][k] = op[l][k]
      /\ \A k \in Leases \ {l} : op'[k] = op[k]
      /\ op' \in [Leases -> [Seqs -> OpRow]]
  <2> DEFINE new == [op[l][s] EXCEPT !.status = "completed", !.cost = cost]
  <2>1. op' = [op EXCEPT ![l][s] = new]
    BY DEF CompleteOperation
  <2>2. new \in OpRow
    BY <1>2 DEF OpRow, OpStates
  <2>3. op \in [Leases -> [Seqs -> OpRow]]
    BY DEF IInv, LedgerTypeOK
  <2> HIDE DEF new
  <2>4. /\ op'[l][s] = new
        /\ \A k \in Seqs \ {s} : op'[l][k] = op[l][k]
        /\ \A k \in Leases \ {l} : op'[k] = op[k]
        /\ op' \in [Leases -> [Seqs -> OpRow]]
    BY <2>1, <2>2, <2>3
  <2> QED
    BY <2>4 DEF new
<1>10. /\ lease'[l] = row /\ LedgerTypeOK'
       /\ \A k \in Leases \ {l} : lease'[k] = lease[k]
  BY <1>7, <1>8, <1>9 DEF IInv, LedgerTypeOK
<1> HIDE DEF row
<1>11. /\ op'[l][s] \in OpRow /\ op'[l][s].status = "completed"
       /\ op'[l][s].cost = cost /\ op'[l][s].reserved = op[l][s].reserved
  BY <1>2, <1>9, <1>10 DEF LedgerTypeOK, OpRow
<1>12. /\ op[l][s].status \in {"forwarding"} /\ op'[l][s].status \notin {"forwarding"}
       /\ op[l][s].status \notin {"completed"} /\ op'[l][s].status \in {"completed"}
       /\ op[l][s].status \notin {"uncertain"} /\ op'[l][s].status \notin {"uncertain"}
  BY <1>1, <1>11
<1>13. /\ Cardinality(Rows(l, {"forwarding"})') = Cardinality(Rows(l, {"forwarding"})) - 1
       /\ Total(Rows(l, {"forwarding"})', ReservedOf(l)') =
            Total(Rows(l, {"forwarding"}), ReservedOf(l)) - op[l][s].reserved
  BY <1>2, <1>9, <1>11, <1>12, RowLeaves
<1>14. /\ Cardinality(Rows(l, {"completed"})') = Cardinality(Rows(l, {"completed"})) + 1
       /\ Total(Rows(l, {"completed"})', CostOf(l)') =
            Total(Rows(l, {"completed"}), CostOf(l)) + op'[l][s].cost
  BY ZenonT(40), <1>2, <1>9, <1>11, <1>12, RowEnters
<1>15. Total(Rows(l, {"uncertain"})', ReservedOf(l)') = Total(Rows(l, {"uncertain"}), ReservedOf(l))
  BY <1>2, <1>9, <1>11, <1>12, RowPasses
<1>16. /\ Rows(l, OpStates \ {"absent"})' = Rows(l, OpStates \ {"absent"})
       /\ Rows(l, {"uncertain"})' = Rows(l, {"uncertain"})
  <2>1. ASSUME NEW k \in Seqs
        PROVE  /\ op'[l][k].status \in OpStates \ {"absent"} <=>
                    op[l][k].status \in OpStates \ {"absent"}
               /\ op'[l][k].status \in {"uncertain"} <=> op[l][k].status \in {"uncertain"}
    <3>1. CASE k = s
      BY <3>1, <1>1, <1>11 DEF OpStates
    <3>2. CASE k # s
      <4>1. op'[l][k] = op[l][k]
        BY <3>2, <2>1, <1>9
      <4> QED
        BY <4>1
    <3> QED
      BY <3>1, <3>2
  <2>2. Rows(l, OpStates \ {"absent"})' = Rows(l, OpStates \ {"absent"})
    BY <2>1 DEF Rows
  <2>3. Rows(l, {"uncertain"})' = Rows(l, {"uncertain"})
    BY <2>1 DEF Rows
  <2> QED
    BY <2>2, <2>3
<1>17. CountersMatchRows(l)' /\ SumsMatchRows(l)'
  BY <1>2, <1>8, <1>10, <1>11, <1>13, <1>14, <1>15, <1>16
     DEF LeaseInv, CountersMatchRows, SumsMatchRows
<1>18. Liability(l)' <= lease'[l].maxCost
  BY <1>1, <1>3, <1>5, <1>6, <1>8, <1>10 DEF Liability
<1>19. lease[l].state \notin {"absent", "settled"}
  BY <1>2, <1>4, <1>5 DEF LeaseInv, NoLease
<1>20. LeaseInv(l)'
  BY <1>2, <1>4, <1>5, <1>8, <1>10, <1>16, <1>17, <1>18, <1>19 DEF LeaseInv
<1> QED
  BY <1>9, <1>10, <1>20, OneLease

\* mark_operation_uncertain.
LEMMA MarkPreserves ==
  ASSUME IInv, NEW l \in Leases, NEW s \in Seqs, NEW reason \in Reasons,
         MarkUncertain(l, s, reason)
  PROVE  IInv'
<1> USE LedgerAssumption
<1>1. op[l][s].status = "forwarding"
  BY DEF MarkUncertain
<1>2. op[l][s] \in OpRow /\ lease[l] \in LeaseRow /\ LeaseInv(l)
  BY DEF IInv, LedgerTypeOK
<1>3. op[l][s].reserved \in Nat
  BY <1>2 DEF OpRow, Amounts
<1>4. /\ lease[l].inFlight >= 1 /\ op[l][s].reserved <= lease[l].held
      /\ lease[l].successful + lease[l].inFlight <= lease[l].count
  BY <1>1, Forwarding
<1>5. /\ lease[l].count \in 0 .. MaxOperations /\ lease[l].successful \in 0 .. MaxOperations
      /\ lease[l].inFlight \in 0 .. MaxConcurrency /\ lease[l].maxConc \in 0 .. MaxConcurrency
      /\ lease[l].maxCost \in 0 .. MaxCost /\ lease[l].held \in 0 .. MaxCost
      /\ lease[l].actual \in 0 .. MaxCost /\ lease[l].uncertain \in 0 .. MaxCost
  BY <1>2 DEF LeaseRow, Amounts
<1>6. lease[l].actual + lease[l].held + lease[l].uncertain <= lease[l].maxCost
  BY <1>2 DEF LeaseInv, Liability
<1> DEFINE row == Burned(lease[l], op[l][s].reserved, reason)
<1>7. lease' = [lease EXCEPT ![l] = row]
  BY DEF MarkUncertain
<1>8. /\ row \in LeaseRow
      /\ row.inFlight = lease[l].inFlight - 1 /\ row.held = lease[l].held - op[l][s].reserved
      /\ row.successful = lease[l].successful /\ row.actual = lease[l].actual
      /\ row.uncertain = lease[l].uncertain + op[l][s].reserved /\ row.count = lease[l].count
      /\ row.maxOps = lease[l].maxOps /\ row.maxConc = lease[l].maxConc
      /\ row.maxCost = lease[l].maxCost
      /\ row.state = IF lease[l].state = "active" THEN "failed" ELSE lease[l].state
      /\ row.reason = IF lease[l].state = "active" THEN reason ELSE lease[l].reason
  <2>1. /\ lease[l].inFlight - 1 \in 0 .. MaxConcurrency
        /\ lease[l].held - op[l][s].reserved \in 0 .. MaxCost
        /\ lease[l].uncertain + op[l][s].reserved \in 0 .. MaxCost
    BY <1>1, <1>3, <1>4, <1>5, <1>6
  <2> QED
    BY <1>2, <2>1 DEF Burned, Ended, LeaseStates, LeaseRow, Amounts
<1>9. /\ op'[l][s] = [op[l][s] EXCEPT !.status = "uncertain"]
      /\ \A k \in Seqs \ {s} : op'[l][k] = op[l][k]
      /\ \A k \in Leases \ {l} : op'[k] = op[k]
      /\ op' \in [Leases -> [Seqs -> OpRow]]
  <2> DEFINE new == [op[l][s] EXCEPT !.status = "uncertain"]
  <2>1. op' = [op EXCEPT ![l][s] = new]
    BY DEF MarkUncertain
  <2>2. new \in OpRow
    BY <1>2 DEF OpRow, OpStates
  <2>3. op \in [Leases -> [Seqs -> OpRow]]
    BY DEF IInv, LedgerTypeOK
  <2> HIDE DEF new
  <2>4. /\ op'[l][s] = new
        /\ \A k \in Seqs \ {s} : op'[l][k] = op[l][k]
        /\ \A k \in Leases \ {l} : op'[k] = op[k]
        /\ op' \in [Leases -> [Seqs -> OpRow]]
    BY <2>1, <2>2, <2>3
  <2> QED
    BY <2>4 DEF new
<1>10. /\ lease'[l] = row /\ LedgerTypeOK'
       /\ \A k \in Leases \ {l} : lease'[k] = lease[k]
  BY <1>7, <1>8, <1>9 DEF IInv, LedgerTypeOK
<1> HIDE DEF row
<1>11. /\ op'[l][s] \in OpRow /\ op'[l][s].status = "uncertain"
       /\ op'[l][s].reserved = op[l][s].reserved
  BY <1>2, <1>9, <1>10 DEF LedgerTypeOK, OpRow
<1>12. /\ op[l][s].status \in {"forwarding"} /\ op'[l][s].status \notin {"forwarding"}
       /\ op[l][s].status \notin {"completed"} /\ op'[l][s].status \notin {"completed"}
       /\ op[l][s].status \notin {"uncertain"} /\ op'[l][s].status \in {"uncertain"}
  BY <1>1, <1>11
<1>13. /\ Cardinality(Rows(l, {"forwarding"})') = Cardinality(Rows(l, {"forwarding"})) - 1
       /\ Total(Rows(l, {"forwarding"})', ReservedOf(l)') =
            Total(Rows(l, {"forwarding"}), ReservedOf(l)) - op[l][s].reserved
  BY <1>2, <1>9, <1>11, <1>12, RowLeaves
<1>14. /\ Cardinality(Rows(l, {"completed"})') = Cardinality(Rows(l, {"completed"}))
       /\ Total(Rows(l, {"completed"})', CostOf(l)') = Total(Rows(l, {"completed"}), CostOf(l))
  BY <1>2, <1>9, <1>11, <1>12, RowPasses
<1>15. Total(Rows(l, {"uncertain"})', ReservedOf(l)') =
         Total(Rows(l, {"uncertain"}), ReservedOf(l)) + op'[l][s].reserved
  BY <1>2, <1>9, <1>11, <1>12, RowEnters
<1>16. Rows(l, OpStates \ {"absent"})' = Rows(l, OpStates \ {"absent"})
  BY <1>1, <1>9, <1>11 DEF Rows, OpStates
<1>17. CountersMatchRows(l)' /\ SumsMatchRows(l)'
  BY <1>2, <1>8, <1>10, <1>11, <1>13, <1>14, <1>15, <1>16
     DEF LeaseInv, CountersMatchRows, SumsMatchRows
<1>18. Liability(l)' <= lease'[l].maxCost
  BY <1>1, <1>3, <1>5, <1>6, <1>8, <1>10 DEF Liability
<1>19. lease[l].state \notin {"absent", "settled"}
  BY <1>2, <1>4, <1>5 DEF LeaseInv, NoLease
<1>20. lease'[l].state \in {"canceled", "failed"} /\ lease'[l].reason # "none"
  <2>1. lease[l].state \in LeaseStates
    BY <1>2 DEF LeaseRow
  <2> QED
    BY <1>2, <1>8, <1>10, <1>19, <2>1 DEF LeaseInv, LeaseStates, Terminal
<1>21. LeaseInv(l)'
  BY <1>2, <1>4, <1>5, <1>8, <1>10, <1>17, <1>18, <1>20 DEF LeaseInv, Terminal
<1> QED
  BY <1>9, <1>10, <1>21, OneLease

\* begin_operation.
LEMMA BeginPreserves ==
  ASSUME IInv, NEW l \in Leases, NEW amount \in Amounts, NEW now,
         BeginOperation(l, amount, now)
  PROVE  IInv'
<1> USE LedgerAssumption
<1> DEFINE n == lease[l].count + 1
           row == Held(lease[l], amount)
           new == [status |-> "forwarding", reserved |-> amount, cost |-> 0]
<1>1. lease[l] \in LeaseRow /\ LeaseInv(l) /\ op \in [Leases -> [Seqs -> OpRow]]
  BY DEF IInv, LedgerTypeOK
<1>2. /\ lease[l].state = "active" /\ lease[l].count < lease[l].maxOps
      /\ lease[l].inFlight < lease[l].maxConc /\ Liability(l) + amount <= lease[l].maxCost
  BY DEF BeginOperation, Admits
<1>3. /\ lease[l].count \in 0 .. MaxOperations /\ lease[l].maxOps \in 0 .. MaxOperations
      /\ lease[l].successful \in 0 .. MaxOperations
      /\ lease[l].inFlight \in 0 .. MaxConcurrency /\ lease[l].maxConc \in 0 .. MaxConcurrency
      /\ lease[l].maxCost \in 0 .. MaxCost /\ lease[l].held \in 0 .. MaxCost
      /\ lease[l].actual \in 0 .. MaxCost /\ lease[l].uncertain \in 0 .. MaxCost
      /\ amount \in 0 .. MaxCost
  BY <1>1 DEF LeaseRow, Amounts
<1>4. n \in Seqs /\ op[l][n] \in OpRow
  <2>1. n \in Seqs
    BY <1>2, <1>3 DEF Seqs
  <2> QED
    BY <1>1, <2>1
<1>5. n \notin 1 .. lease[l].count /\ 1 .. n = (1 .. lease[l].count) \cup {n}
  BY <1>3
<1>6. Rows(l, OpStates \ {"absent"}) = 1 .. lease[l].count
  BY <1>1 DEF LeaseInv, CountersMatchRows
<1>7. op[l][n].status = "absent"
  <2>1. op[l][n].status \in OpStates
    BY <1>4 DEF OpRow
  <2>2. n \notin Rows(l, OpStates \ {"absent"})
    BY <1>5, <1>6
  <2> QED
    BY <1>4, <2>1, <2>2 DEF Rows
<1>8. lease' = [lease EXCEPT ![l] = row] /\ op' = [op EXCEPT ![l][n] = new]
  BY DEF BeginOperation
<1>9. /\ row \in LeaseRow
      /\ row.count = n /\ row.inFlight = lease[l].inFlight + 1 /\ row.held = lease[l].held + amount
      /\ row.successful = lease[l].successful /\ row.actual = lease[l].actual
      /\ row.uncertain = lease[l].uncertain /\ row.maxOps = lease[l].maxOps
      /\ row.maxConc = lease[l].maxConc /\ row.maxCost = lease[l].maxCost
      /\ row.state = lease[l].state /\ row.reason = lease[l].reason
  <2>1. /\ n \in 0 .. MaxOperations /\ lease[l].inFlight + 1 \in 0 .. MaxConcurrency
        /\ lease[l].held + amount \in 0 .. MaxCost
    BY <1>2, <1>3 DEF Liability
  <2> QED
    BY <1>1, <2>1 DEF Held, LeaseRow, Amounts
<1>10. new \in OpRow
  BY DEF OpRow, OpStates, Amounts
<1> HIDE DEF new, row, n
<1>11. /\ op'[l][n] = new
       /\ \A k \in Seqs \ {n} : op'[l][k] = op[l][k]
       /\ \A k \in Leases \ {l} : op'[k] = op[k]
       /\ op' \in [Leases -> [Seqs -> OpRow]]
  BY <1>1, <1>4, <1>8, <1>10
<1>12. /\ lease'[l] = row /\ LedgerTypeOK'
       /\ \A k \in Leases \ {l} : lease'[k] = lease[k]
  BY <1>8, <1>9, <1>11 DEF IInv, LedgerTypeOK
<1>13. /\ op'[l][n] \in OpRow /\ op'[l][n].status = "forwarding"
       /\ op'[l][n].reserved = amount
  BY <1>10, <1>11 DEF new
<1>14. /\ op[l][n].status \notin {"forwarding"} /\ op'[l][n].status \in {"forwarding"}
       /\ op[l][n].status \notin {"completed"} /\ op'[l][n].status \notin {"completed"}
       /\ op[l][n].status \notin {"uncertain"} /\ op'[l][n].status \notin {"uncertain"}
  BY <1>7, <1>13
<1>15. /\ Cardinality(Rows(l, {"forwarding"})') = Cardinality(Rows(l, {"forwarding"})) + 1
       /\ Total(Rows(l, {"forwarding"})', ReservedOf(l)') =
            Total(Rows(l, {"forwarding"}), ReservedOf(l)) + op'[l][n].reserved
  BY <1>4, <1>11, <1>13, <1>14, RowEnters
<1>16. /\ Cardinality(Rows(l, {"completed"})') = Cardinality(Rows(l, {"completed"}))
       /\ Total(Rows(l, {"completed"})', CostOf(l)') = Total(Rows(l, {"completed"}), CostOf(l))
       /\ Total(Rows(l, {"uncertain"})', ReservedOf(l)') = Total(Rows(l, {"uncertain"}), ReservedOf(l))
  BY <1>4, <1>11, <1>13, <1>14, RowPasses
<1>17. Rows(l, {"uncertain"})' = Rows(l, {"uncertain"})
  BY <1>11, <1>14 DEF Rows
<1>18. Rows(l, OpStates \ {"absent"})' = 1 .. n
  <2>1. Rows(l, OpStates \ {"absent"})' = Rows(l, OpStates \ {"absent"}) \cup {n}
    BY <1>4, <1>11, <1>13 DEF Rows, OpStates
  <2> QED
    BY <1>5, <1>6, <2>1
<1>19. CountersMatchRows(l)' /\ SumsMatchRows(l)'
  BY <1>1, <1>9, <1>12, <1>13, <1>15, <1>16, <1>18 DEF LeaseInv, CountersMatchRows, SumsMatchRows
<1>20. Liability(l)' <= lease'[l].maxCost
  BY <1>2, <1>3, <1>9, <1>12 DEF Liability
<1>21. LeaseInv(l)'
  BY <1>1, <1>2, <1>3, <1>9, <1>12, <1>17, <1>19, <1>20 DEF LeaseInv, n
<1> QED
  BY <1>11, <1>12, <1>21, OneLease

\* What reserve, settle and cancel have in common: they leave the operations alone, and
\* with them everything that relates the rows to the counters.
LEMMA RowsUntouched ==
  ASSUME IInv, NEW l \in Leases, op' = op, NEW row \in LeaseRow,
         lease' = [lease EXCEPT ![l] = row],
         row.count = lease[l].count, row.inFlight = lease[l].inFlight,
         row.successful = lease[l].successful, row.held = lease[l].held,
         row.actual = lease[l].actual, row.uncertain = lease[l].uncertain
  PROVE  /\ LedgerTypeOK' /\ lease'[l] = row
         /\ \A k \in Leases \ {l} : lease'[k] = lease[k] /\ op'[k] = op[k]
         /\ CountersMatchRows(l)' /\ SumsMatchRows(l)'
         /\ Rows(l, {"uncertain"})' = Rows(l, {"uncertain"})
<1>1. lease'[l] = row /\ LedgerTypeOK'
  BY DEF IInv, LedgerTypeOK
<1>2. \A states : Rows(l, states)' = Rows(l, states)
  BY DEF Rows
<1>3. ReservedOf(l)' = ReservedOf(l) /\ CostOf(l)' = CostOf(l)
  BY DEF ReservedOf, CostOf
<1>4. CountersMatchRows(l)' /\ SumsMatchRows(l)'
  <2>1. CountersMatchRows(l) /\ SumsMatchRows(l)
    BY DEF IInv, LeaseInv
  <2> QED
    BY <1>1, <1>2, <1>3, <2>1 DEF CountersMatchRows, SumsMatchRows, Total, Units
<1> QED
  BY <1>1, <1>2, <1>4 DEF IInv, LedgerTypeOK

\* reserve.
LEMMA ReservePreserves ==
  ASSUME IInv, NEW l \in Leases, NEW r \in Reservations, Reserve(l, r)
  PROVE  IInv'
<1> DEFINE row == NewLease(r)
<1>1. /\ lease[l] = NoLease /\ lease' = [lease EXCEPT ![l] = row] /\ op' = op
      /\ Rows(l, {"uncertain"}) = {}
  BY DEF Reserve, IInv, LeaseInv, NoLease
<1>2. /\ row \in LeaseRow
      /\ row.count = 0 /\ row.inFlight = 0 /\ row.successful = 0 /\ row.held = 0
      /\ row.actual = 0 /\ row.uncertain = 0 /\ row.state = "active" /\ row.reason = "none"
      /\ row.maxOps \in Nat /\ row.maxConc \in Nat /\ row.maxCost \in Nat
  <2>1. /\ r.cost \in 0 .. MaxCost /\ r.conc \in 1 .. MaxConcurrency
        /\ r.ops \in 1 .. MaxOperations /\ r.expires \in Nat
    BY LedgerAssumption DEF Amounts, Seqs
  <2>2. NoLease \in LeaseRow
    BY LedgerAssumption DEF NoLease, LeaseRow, LeaseStates, Amounts
  <2>3. row = [NoLease EXCEPT !.state = "active", !.maxCost = r.cost, !.maxConc = r.conc,
                              !.maxOps = r.ops, !.expires = r.expires]
    BY DEF NewLease
  <2>4. /\ NoLease.count = 0 /\ NoLease.inFlight = 0 /\ NoLease.successful = 0 /\ NoLease.held = 0
        /\ NoLease.actual = 0 /\ NoLease.uncertain = 0 /\ NoLease.reason = "none"
    BY DEF NoLease
  <2> HIDE DEF row
  <2>5. row \in LeaseRow
    <3>1. /\ r.conc \in 0 .. MaxConcurrency /\ r.ops \in 0 .. MaxOperations
          /\ r.cost \in Amounts /\ "active" \in LeaseStates
      BY <2>1, LedgerAssumption DEF Amounts, LeaseStates
    <3> QED
      BY <2>1, <2>2, <2>3, <3>1 DEF LeaseRow
  <2> QED
    BY <2>1, <2>2, <2>3, <2>4, <2>5, LedgerAssumption DEF LeaseRow
<1>3. /\ lease[l].count = 0 /\ lease[l].inFlight = 0 /\ lease[l].successful = 0
      /\ lease[l].held = 0 /\ lease[l].actual = 0 /\ lease[l].uncertain = 0
  BY <1>1 DEF NoLease
<1> HIDE DEF row
<1>4. /\ LedgerTypeOK' /\ lease'[l] = row
      /\ \A k \in Leases \ {l} : lease'[k] = lease[k] /\ op'[k] = op[k]
      /\ CountersMatchRows(l)' /\ SumsMatchRows(l)'
      /\ Rows(l, {"uncertain"})' = Rows(l, {"uncertain"})
  BY <1>1, <1>2, <1>3, RowsUntouched
<1>5. Liability(l)' = 0
  BY <1>2, <1>4 DEF Liability
<1>6. LeaseInv(l)'
  BY <1>1, <1>2, <1>4, <1>5 DEF LeaseInv, Terminal
<1> QED
  BY <1>4, <1>6, OneLease

\* settle.
LEMMA SettlePreserves ==
  ASSUME IInv, NEW l \in Leases, NEW completed, Settle(l, completed)
  PROVE  IInv'
<1> DEFINE row == Ended(lease[l], "settled", "settled")
<1>1. /\ lease' = [lease EXCEPT ![l] = row] /\ op' = op
      /\ lease[l].state = "active" /\ lease[l].held = 0 /\ lease[l].uncertain = 0
      /\ lease[l].count = lease[l].successful
  BY DEF Settle, Settleable
<1>2. lease[l] \in LeaseRow /\ LeaseInv(l)
  BY DEF IInv, LedgerTypeOK
<1>3. /\ row \in LeaseRow /\ row.state = "settled" /\ row.reason = "settled"
      /\ row.count = lease[l].count /\ row.inFlight = lease[l].inFlight
      /\ row.successful = lease[l].successful /\ row.held = lease[l].held
      /\ row.actual = lease[l].actual /\ row.uncertain = lease[l].uncertain
      /\ row.maxOps = lease[l].maxOps /\ row.maxConc = lease[l].maxConc
      /\ row.maxCost = lease[l].maxCost
  BY <1>1, <1>2 DEF Ended, LeaseRow, LeaseStates
<1> HIDE DEF row
<1>4. /\ LedgerTypeOK' /\ lease'[l] = row
      /\ \A k \in Leases \ {l} : lease'[k] = lease[k] /\ op'[k] = op[k]
      /\ CountersMatchRows(l)' /\ SumsMatchRows(l)'
      /\ Rows(l, {"uncertain"})' = Rows(l, {"uncertain"})
  BY <1>1, <1>3, RowsUntouched
<1>5. Liability(l)' = Liability(l)
  BY <1>3, <1>4 DEF Liability
<1>6. LeaseInv(l)'
  BY <1>1, <1>2, <1>3, <1>4, <1>5 DEF LeaseInv, Terminal
<1> QED
  BY <1>4, <1>6, OneLease

\* cancel.
LEMMA CancelPreserves ==
  ASSUME IInv, NEW l \in Leases, NEW reason \in Reasons, Cancel(l, reason)
  PROVE  IInv'
<1> DEFINE row == Ended(lease[l], "canceled", reason)
<1>1. lease' = [lease EXCEPT ![l] = row] /\ op' = op
  BY DEF Cancel
<1>2. lease[l] \in LeaseRow /\ LeaseInv(l)
  BY DEF IInv, LedgerTypeOK
<1>3. /\ row \in LeaseRow
      /\ row.count = lease[l].count /\ row.inFlight = lease[l].inFlight
      /\ row.successful = lease[l].successful /\ row.held = lease[l].held
      /\ row.actual = lease[l].actual /\ row.uncertain = lease[l].uncertain
      /\ row.maxOps = lease[l].maxOps /\ row.maxConc = lease[l].maxConc
      /\ row.maxCost = lease[l].maxCost
      /\ lease[l].state # "active" => row = lease[l]
      /\ lease[l].state = "active" => row.state = "canceled" /\ row.reason = reason
  BY <1>2 DEF Ended, LeaseRow, LeaseStates
<1> HIDE DEF row
<1>4. /\ LedgerTypeOK' /\ lease'[l] = row
      /\ \A k \in Leases \ {l} : lease'[k] = lease[k] /\ op'[k] = op[k]
      /\ CountersMatchRows(l)' /\ SumsMatchRows(l)'
      /\ Rows(l, {"uncertain"})' = Rows(l, {"uncertain"})
  BY <1>1, <1>3, RowsUntouched
<1>5. Liability(l)' = Liability(l)
  BY <1>3, <1>4 DEF Liability
<1>6. CASE lease[l].state = "active"
  <2>1. LeaseInv(l)'
    BY <1>2, <1>3, <1>4, <1>5, <1>6, LedgerAssumption DEF LeaseInv, Terminal
  <2> QED
    BY <1>4, <2>1, OneLease
<1>7. CASE lease[l].state # "active"
  <2>1. LeaseInv(l)'
    BY <1>2, <1>3, <1>4, <1>5, <1>7 DEF LeaseInv
  <2> QED
    BY <1>4, <2>1, OneLease
<1> QED
  BY <1>6, <1>7

-----------------------------------------------------------------------------
(* Theorems of the specification *)

\* The inductive invariant holds of the empty tables, and no transaction breaks it.
LEMMA InitEstablishes == LedgerInit => IInv
<1> SUFFICES ASSUME LedgerInit PROVE IInv
  OBVIOUS
<1>1. LedgerTypeOK
  <2>1. NoLease \in LeaseRow
    BY LedgerAssumption DEF NoLease, LeaseRow, LeaseStates, Amounts
  <2>2. NoOp \in OpRow
    BY LedgerAssumption DEF NoOp, OpRow, OpStates, Amounts
  <2> QED
    BY <2>1, <2>2 DEF LedgerInit, LedgerTypeOK
<1>2. ASSUME NEW l \in Leases PROVE LeaseInv(l)
  <2>1. lease[l] = NoLease /\ \A s \in Seqs : op[l][s] = NoOp
    BY DEF LedgerInit
  <2>2. /\ Rows(l, OpStates \ {"absent"}) = {} /\ Rows(l, {"forwarding"}) = {}
        /\ Rows(l, {"completed"}) = {} /\ Rows(l, {"uncertain"}) = {}
    BY <2>1 DEF Rows, NoOp
  <2>3. \A f : Units({}, f) = {}
    BY DEF Units
  <2>4. Cardinality({}) = 0 /\ \A f : Total({}, f) = 0
    BY <2>3, FS_EmptySet DEF Total
  <2>5. 1 .. 0 = {}
    OBVIOUS
  <2>6. CountersMatchRows(l) /\ SumsMatchRows(l)
    BY <2>1, <2>2, <2>4, <2>5 DEF CountersMatchRows, SumsMatchRows, NoLease
  <2> QED
    BY <2>1, <2>2, <2>6 DEF LeaseInv, Liability, NoLease, Terminal
<1> QED
  BY <1>1, <1>2 DEF IInv

LEMMA NextPreserves == IInv /\ [LedgerNext]_ledgerVars => IInv'
<1> SUFFICES ASSUME IInv, [LedgerNext]_ledgerVars PROVE IInv'
  OBVIOUS
<1>1. ASSUME NEW l \in Leases, NEW r \in Reservations, Reserve(l, r) PROVE IInv'
  BY <1>1, ReservePreserves
<1>2. ASSUME NEW l \in Leases, NEW amount \in Amounts, NEW now \in Instants,
             BeginOperation(l, amount, now)
      PROVE  IInv'
  BY <1>2, BeginPreserves
<1>3. ASSUME NEW l \in Leases, NEW s \in Seqs, NEW cost \in Amounts, CompleteOperation(l, s, cost)
      PROVE  IInv'
  BY <1>3, CompletePreserves
<1>4. ASSUME NEW l \in Leases, NEW s \in Seqs, NEW reason \in Reasons, MarkUncertain(l, s, reason)
      PROVE  IInv'
  BY <1>4, MarkPreserves
<1>5. ASSUME NEW l \in Leases, NEW completed, Settle(l, completed) PROVE IInv'
  BY <1>5, SettlePreserves
<1>6. ASSUME NEW l \in Leases, NEW reason \in Reasons, Cancel(l, reason) PROVE IInv'
  BY <1>6, CancelPreserves
<1>7. ASSUME UNCHANGED ledgerVars PROVE IInv'
  <2>1. lease' = lease /\ op' = op
    BY <1>7 DEF ledgerVars
  <2>2. LedgerTypeOK'
    BY <2>1 DEF IInv, LedgerTypeOK
  <2>3. \A l \in Leases : LeaseInv(l)'
    BY <2>1, LeaseUntouched DEF IInv
  <2> QED
    BY <2>2, <2>3 DEF IInv
<1>8. ASSUME NEW l \in Leases, NEW s \in Seqs, NEW cost \in Amounts, CompleteOverrun(l, s, cost)
      PROVE  IInv'
  BY <1>7, <1>8 DEF CompleteOverrun
<1> QED
  BY <1>1, <1>2, <1>3, <1>4, <1>5, <1>6, <1>7, <1>8 DEF LedgerNext

\* The inductive invariant implies each of the checked invariants.
LEMMA InvariantImplies ==
  IInv => LedgerTypeOK /\ LedgerBalanced /\ ChecksHold /\ SettledIsExact /\ UncertainRevokes
<1> SUFFICES ASSUME IInv
             PROVE  LedgerTypeOK /\ LedgerBalanced /\ ChecksHold /\ SettledIsExact /\ UncertainRevokes
  OBVIOUS
<1>1. LedgerTypeOK /\ \A l \in Leases : LeaseInv(l)
  BY DEF IInv
<1>2. LedgerBalanced /\ ChecksHold /\ UncertainRevokes
  BY <1>1 DEF LedgerBalanced, ChecksHold, UncertainRevokes, LeaseInv
<1>3. SettledIsExact
  <2> SUFFICES ASSUME NEW l \in Leases, lease[l].state = "settled"
               PROVE  /\ Rows(l, OpStates \ {"absent"}) = Rows(l, {"completed"})
                      /\ Liability(l) = Total(Rows(l, {"completed"}), CostOf(l))
    BY DEF SettledIsExact
  <2>1. /\ lease[l].held = 0 /\ lease[l].uncertain = 0 /\ lease[l].count = lease[l].successful
        /\ lease[l].actual = Total(Rows(l, {"completed"}), CostOf(l))
    BY <1>1 DEF LeaseInv, SumsMatchRows
  <2>2. lease[l].actual \in Nat
    BY <1>1, LedgerAssumption DEF LedgerTypeOK, LeaseRow, Amounts
  <2> QED
    BY <1>1, <2>1, <2>2, AllCompleted DEF Liability
<1> QED
  BY <1>1, <1>2, <1>3

\* The accounting theorem: whatever the callers do, in whatever order, the store's tables
\* keep their types, the counters and sums of a lease are those of its operations, no
\* update trips over a CHECK constraint, a settled lease is exactly accounted for, and an
\* operation of unknown cost revokes its lease (SQLiteOpenAIQuotaStore).
THEOREM LedgerInvariants ==
  LedgerSpec => [](LedgerTypeOK /\ LedgerBalanced /\ ChecksHold /\ SettledIsExact /\ UncertainRevokes)
<1>1. LedgerSpec => []IInv
  BY InitEstablishes, NextPreserves, PTL DEF LedgerSpec
<1> QED
  BY <1>1, InvariantImplies, PTL

-----------------------------------------------------------------------------
(* Terminal leases *)

\* A lease with an operation awaiting accounting is not settled, and was reserved.
LEMMA ForwardingIsOpen ==
  ASSUME IInv, NEW l \in Leases, NEW s \in Seqs, op[l][s].status = "forwarding"
  PROVE  lease[l].state \notin {"absent", "settled"}
<1>1. lease[l].inFlight >= 1 /\ lease[l].successful + lease[l].inFlight <= lease[l].count
  BY Forwarding
<1>2. lease[l] \in LeaseRow /\ LeaseInv(l)
  BY DEF IInv, LedgerTypeOK
<1>3. lease[l].inFlight \in Nat /\ lease[l].successful \in Nat /\ lease[l].count \in Nat
  BY <1>2, LedgerAssumption DEF LeaseRow
<1> QED
  BY <1>1, <1>2, <1>3 DEF LeaseInv, NoLease

\* What one step leaves of a terminal lease.
Kept(l) ==
  /\ lease'[l].state = lease[l].state
  /\ lease'[l].reason = lease[l].reason
  /\ lease'[l].count = lease[l].count
  /\ lease[l].state = "settled" => lease'[l] = lease[l] /\ op'[l] = op[l]

LEMMA TerminalStep ==
  ASSUME IInv, [LedgerNext]_ledgerVars, NEW k \in Leases, lease[k].state \in Terminal
  PROVE  Kept(k)
<1> USE DEF Terminal
<1>1. /\ lease \in [Leases -> LeaseRow] /\ op \in [Leases -> [Seqs -> OpRow]]
  BY DEF IInv, LedgerTypeOK
<1>2. ASSUME NEW l \in Leases, NEW r \in Reservations, Reserve(l, r) PROVE Kept(k)
  BY <1>1, <1>2 DEF Reserve, Kept
<1>3. ASSUME NEW l \in Leases, NEW amount \in Amounts, NEW now \in Instants,
             BeginOperation(l, amount, now)
      PROVE  Kept(k)
  BY <1>1, <1>3 DEF BeginOperation, Admits, Kept
<1>4. ASSUME NEW l \in Leases, NEW s \in Seqs, NEW cost \in Amounts, CompleteOperation(l, s, cost)
      PROVE  Kept(k)
  <2>1. op[l][s].status = "forwarding" /\ lease[l].state # "settled"
    BY <1>4, ForwardingIsOpen DEF CompleteOperation
  <2> DEFINE row == Charged(lease[l], op[l][s].reserved, cost)
  <2>2. /\ row.state = lease[l].state /\ row.reason = lease[l].reason /\ row.count = lease[l].count
    BY <1>1 DEF Charged, LeaseRow
  <2>3. lease' = [lease EXCEPT ![l] = row]
    BY <1>4 DEF CompleteOperation
  <2>4. l # k => op'[k] = op[k]
    BY <1>1, <1>4 DEF CompleteOperation
  <2> HIDE DEF row
  <2> QED
    BY <1>1, <2>1, <2>2, <2>3, <2>4 DEF Kept
<1>5. ASSUME NEW l \in Leases, NEW s \in Seqs, NEW reason \in Reasons, MarkUncertain(l, s, reason)
      PROVE  Kept(k)
  <2>1. op[l][s].status = "forwarding" /\ lease[l].state # "settled"
    BY <1>5, ForwardingIsOpen DEF MarkUncertain
  <2> DEFINE row == Burned(lease[l], op[l][s].reserved, reason)
  <2>2. lease[l].state # "active" =>
          row.state = lease[l].state /\ row.reason = lease[l].reason /\ row.count = lease[l].count
    BY <1>1 DEF Burned, Ended, LeaseRow
  <2>3. lease' = [lease EXCEPT ![l] = row]
    BY <1>5 DEF MarkUncertain
  <2>4. l # k => op'[k] = op[k]
    BY <1>1, <1>5 DEF MarkUncertain
  <2> HIDE DEF row
  <2> QED
    BY <1>1, <2>1, <2>2, <2>3, <2>4 DEF Kept
<1>6. ASSUME NEW l \in Leases, NEW completed, Settle(l, completed) PROVE Kept(k)
  BY <1>1, <1>6 DEF Settle, Settleable, Kept
<1>7. ASSUME NEW l \in Leases, NEW reason \in Reasons, Cancel(l, reason) PROVE Kept(k)
  <2>1. op' = op /\ lease' = [lease EXCEPT ![l] = Ended(lease[l], "canceled", reason)]
    BY <1>7 DEF Cancel
  <2>2. lease[l].state # "active" => Ended(lease[l], "canceled", reason) = lease[l]
    BY DEF Ended
  <2> QED
    BY <1>1, <2>1, <2>2 DEF Kept
<1>8. ASSUME UNCHANGED ledgerVars PROVE Kept(k)
  BY <1>8 DEF ledgerVars, Kept
<1> QED
  BY <1>2, <1>3, <1>4, <1>5, <1>6, <1>7, <1>8 DEF LedgerNext, CompleteOverrun

\* No caller can revive a settled, canceled or failed lease, rewrite why it ended, or open
\* one more operation on it; a settled lease never changes at all.
THEOREM TerminalLeasesStay == LedgerSpec => TerminalIsFinal
<1>1. LedgerSpec => []IInv
  BY InitEstablishes, NextPreserves, PTL DEF LedgerSpec
<1>2. IInv /\ [LedgerNext]_ledgerVars =>
        [\A l \in Leases : lease[l].state \in Terminal => Kept(l)]_ledgerVars
  BY TerminalStep
<1> QED
  BY <1>1, <1>2, PTL DEF LedgerSpec, TerminalIsFinal, Kept

-----------------------------------------------------------------------------
(* The store implements the hard limit of QuotaBudget: each transaction is  *)
(* one step of the abstract budget or leaves it alone.                     *)

\* Every amount of the ledger is an amount of the budget.
LEMMA AmountsAgree == Budget!Amount = Amounts
<1>1. Amounts = 0 .. MaxCost /\ MaxCost \in Nat
  BY LedgerAssumption DEF Amounts
<1>2. Budget!Amount = UNION {0 .. limit : limit \in Amounts}
  BY DEF Budget!Amount
<1> QED
  BY <1>1, <1>2

\* Empty tables are an empty budget.
LEMMA BudgetInit == LedgerInit => Budget!Init
<1> SUFFICES ASSUME LedgerInit PROVE Budget!Init
  OBVIOUS
<1>1. /\ \A l \in Leases : lease[l] = NoLease
      /\ \A l \in Leases, s \in Seqs : op[l][s] = NoOp
  BY DEF LedgerInit
<1>2. PhaseOf = [l \in Leases |-> "none"]
  BY <1>1 DEF PhaseOf, Phase, NoLease
<1>3. LeftOf = [l \in Leases |-> 0]
  BY <1>1 DEF LeftOf, Liability, NoLease
<1>4. HoldOf = [l \in Leases |-> [s \in Seqs |-> -1]]
  BY <1>1 DEF HoldOf, NoOp
<1>5. UsedOf = [l \in Leases |-> {}] /\ BurnedOf = [l \in Leases |-> {}]
  BY <1>1 DEF UsedOf, BurnedOf, Rows, NoOp
<1> QED
  BY <1>2, <1>3, <1>4, <1>5 DEF Budget!Init, Budget!Free

\* A transaction that leaves the operations alone changes at most the phase and what is left.
LEMMA RowsMapped ==
  ASSUME op' = op
  PROVE  HoldOf' = HoldOf /\ UsedOf' = UsedOf /\ BurnedOf' = BurnedOf
BY DEF HoldOf, UsedOf, BurnedOf, Rows

\* A transaction on one lease changes only what is left of that lease.
LEMMA LeftMoves ==
  ASSUME NEW l \in Leases, NEW row, NEW amount,
         lease \in [Leases -> LeaseRow], lease' = [lease EXCEPT ![l] = row],
         amount = row.maxCost - (row.actual + row.held + row.uncertain)
  PROVE  LeftOf' = [LeftOf EXCEPT ![l] = amount]
<1>1. lease'[l] = row /\ \A k \in Leases \ {l} : lease'[k] = lease[k]
  OBVIOUS
<1>2. Liability(l)' = row.actual + row.held + row.uncertain
  BY <1>1 DEF Liability
<1>3. LeftOf'[l] = amount
  BY <1>1, <1>2 DEF LeftOf
<1>4. \A k \in Leases \ {l} : LeftOf'[k] = LeftOf[k]
  BY <1>1 DEF LeftOf, Liability
<1>5. LeftOf' = [k \in Leases |-> LeftOf'[k]] /\ LeftOf = [k \in Leases |-> LeftOf[k]]
  BY DEF LeftOf
<1> QED
  BY <1>3, <1>4, <1>5

\* A transaction on one operation changes only the hold of that operation.
LEMMA HoldMoves ==
  ASSUME NEW l \in Leases, NEW s \in Seqs, NEW amount,
         \A k \in Seqs \ {s} : op'[l][k] = op[l][k],
         \A k \in Leases \ {l} : op'[k] = op[k],
         amount = IF op'[l][s].status = "forwarding" THEN op'[l][s].reserved ELSE -1
  PROVE  HoldOf' = [HoldOf EXCEPT ![l][s] = amount]
<1>1. HoldOf'[l][s] = amount /\ \A k \in Seqs \ {s} : HoldOf'[l][k] = HoldOf[l][k]
  BY DEF HoldOf
<1>2. HoldOf'[l] = [k \in Seqs |-> HoldOf'[l][k]] /\ HoldOf[l] = [k \in Seqs |-> HoldOf[l][k]]
  BY DEF HoldOf
<1>3. HoldOf'[l] = [HoldOf[l] EXCEPT ![s] = amount]
  BY <1>1, <1>2
<1>4. \A k \in Leases \ {l} : HoldOf'[k] = HoldOf[k]
  BY DEF HoldOf
<1>5. HoldOf' = [k \in Leases |-> HoldOf'[k]] /\ HoldOf = [k \in Leases |-> HoldOf[k]]
  BY DEF HoldOf
<1> QED
  BY <1>3, <1>4, <1>5

\* The numbers of a lease, for arithmetic on what is left of it.
LEMMA LeaseNumbers ==
  ASSUME IInv, NEW l \in Leases
  PROVE  /\ lease[l] \in LeaseRow
         /\ lease[l].maxCost \in Nat /\ lease[l].held \in Nat /\ lease[l].actual \in Nat
         /\ lease[l].uncertain \in Nat /\ lease[l].count \in Nat
         /\ Liability(l) \in Nat /\ Liability(l) <= lease[l].maxCost
<1>1. lease[l] \in LeaseRow /\ LeaseInv(l)
  BY DEF IInv, LedgerTypeOK
<1>2. /\ lease[l].maxCost \in Nat /\ lease[l].held \in Nat /\ lease[l].actual \in Nat
      /\ lease[l].uncertain \in Nat /\ lease[l].count \in Nat
  BY <1>1, LedgerAssumption DEF LeaseRow, Amounts
<1> QED
  BY <1>1, <1>2 DEF LeaseInv, Liability

\* reserve grants a budget.
LEMMA ReserveGrants ==
  ASSUME IInv, NEW l \in Leases, NEW r \in Reservations, Reserve(l, r)
  PROVE  Budget!Grant(l, r.cost)
<1>1. /\ lease[l].state = "absent" /\ op' = op /\ lease' = [lease EXCEPT ![l] = NewLease(r)]
      /\ lease \in [Leases -> LeaseRow] /\ lease[l] = NoLease
  BY DEF Reserve, IInv, LedgerTypeOK, LeaseInv
<1>2. /\ NewLease(r).state = "active" /\ NewLease(r).maxCost = r.cost /\ NewLease(r).held = 0
      /\ NewLease(r).actual = 0 /\ NewLease(r).uncertain = 0
  BY DEF NewLease, NoLease
<1>3. r.cost \in Nat
  BY LedgerAssumption DEF Amounts
<1>4. PhaseOf[l] = "none" /\ PhaseOf' = [PhaseOf EXCEPT ![l] = "open"]
  BY <1>1, <1>2 DEF PhaseOf, Phase
<1>5. LeftOf' = [LeftOf EXCEPT ![l] = r.cost]
  <2> DEFINE row == NewLease(r)
  <2>1. r.cost = row.maxCost - (row.actual + row.held + row.uncertain)
    BY <1>2, <1>3
  <2>2. lease \in [Leases -> LeaseRow] /\ lease' = [lease EXCEPT ![l] = row]
    BY <1>1
  <2> HIDE DEF row
  <2> QED
    BY <2>1, <2>2, LeftMoves
<1>6. HoldOf' = HoldOf /\ UsedOf' = UsedOf /\ BurnedOf' = BurnedOf
  BY <1>1, RowsMapped
<1> QED
  BY <1>4, <1>5, <1>6 DEF Budget!Grant

\* begin_operation takes a hold in a slot that was never used.
LEMMA BeginHolds ==
  ASSUME IInv, NEW l \in Leases, NEW amount \in Amounts, NEW now,
         BeginOperation(l, amount, now)
  PROVE  Budget!Hold(l, lease[l].count + 1, amount) /\ lease[l].count + 1 \in Seqs
<1> DEFINE n == lease[l].count + 1
           new == [status |-> "forwarding", reserved |-> amount, cost |-> 0]
           row == Held(lease[l], amount)
<1>1. /\ lease[l] \in LeaseRow /\ LeaseInv(l)
      /\ lease \in [Leases -> LeaseRow] /\ op \in [Leases -> [Seqs -> OpRow]]
  BY DEF IInv, LedgerTypeOK
<1>2. /\ lease[l].state = "active" /\ lease[l].count < lease[l].maxOps
      /\ Liability(l) + amount <= lease[l].maxCost
      /\ lease' = [lease EXCEPT ![l] = row] /\ op' = [op EXCEPT ![l][n] = new]
  BY DEF BeginOperation, Admits
<1>3. n \in Seqs /\ n \notin 1 .. lease[l].count
  <2>1. lease[l].count \in 0 .. MaxOperations /\ lease[l].maxOps \in 0 .. MaxOperations
    BY <1>1 DEF LeaseRow
  <2> QED
    BY <1>2, <2>1, LedgerAssumption DEF Seqs
<1>4. UsedOf[l] = 1 .. lease[l].count
  BY <1>1 DEF UsedOf, LeaseInv, CountersMatchRows
<1>5. amount \in Nat /\ Liability(l) \in Nat /\ lease[l].maxCost \in Nat
      /\ lease[l].held \in Nat /\ lease[l].actual \in Nat /\ lease[l].uncertain \in Nat
  BY LeaseNumbers, LedgerAssumption DEF Amounts
<1>6. /\ row.state = "active" /\ row.maxCost = lease[l].maxCost /\ row.held = lease[l].held + amount
      /\ row.actual = lease[l].actual /\ row.uncertain = lease[l].uncertain
  BY <1>1, <1>2 DEF Held, LeaseRow
<1>7. new.status = "forwarding" /\ new.reserved = amount
  OBVIOUS
<1> HIDE DEF new, row, n
<1>8. /\ op'[l][n] = new /\ \A k \in Seqs \ {n} : op'[l][k] = op[l][k]
      /\ \A k \in Leases \ {l} : op'[k] = op[k]
  BY <1>1, <1>2, <1>3
<1>9. PhaseOf[l] = "open" /\ PhaseOf' = PhaseOf
  BY <1>1, <1>2, <1>6 DEF PhaseOf, Phase
<1>10. amount <= LeftOf[l] /\ LeftOf' = [LeftOf EXCEPT ![l] = @ - amount]
  <2>1. LeftOf[l] = lease[l].maxCost - Liability(l)
    BY DEF LeftOf
  <2>2. LeftOf[l] - amount = row.maxCost - (row.actual + row.held + row.uncertain)
    BY <1>5, <1>6, <2>1 DEF Liability
  <2>3. LeftOf' = [LeftOf EXCEPT ![l] = LeftOf[l] - amount]
    BY <1>1, <1>2, <2>2, LeftMoves
  <2> QED
    BY <1>2, <1>5, <2>1, <2>3
<1>11. HoldOf' = [HoldOf EXCEPT ![l][n] = amount]
  BY <1>3, <1>7, <1>8, HoldMoves
<1>12. Rows(l, OpStates \ {"absent"})' = Rows(l, OpStates \ {"absent"}) \cup {n}
  BY <1>3, <1>7, <1>8 DEF Rows, OpStates
<1>13. UsedOf' = [UsedOf EXCEPT ![l] = @ \cup {n}]
  BY <1>8, <1>12 DEF UsedOf, Rows
<1>14. op[l][n].status \notin {"uncertain"}
  <2>1. n \notin Rows(l, OpStates \ {"absent"})
    BY <1>1, <1>3 DEF LeaseInv, CountersMatchRows
  <2> QED
    BY <1>3, <2>1 DEF Rows, OpStates
<1>15. BurnedOf' = BurnedOf
  BY <1>3, <1>7, <1>8, <1>14 DEF BurnedOf, Rows
<1>16. n \notin UsedOf[l]
  BY <1>3, <1>4
<1>17. Budget!Hold(l, n, amount)
  BY <1>9, <1>10, <1>11, <1>13, <1>15, <1>16 DEF Budget!Hold
<1> QED
  BY <1>3, <1>17 DEF n

\* complete_operation charges its hold.
LEMMA CompleteCharges ==
  ASSUME IInv, NEW l \in Leases, NEW s \in Seqs, NEW cost \in Amounts,
         CompleteOperation(l, s, cost)
  PROVE  Budget!Charge(l, s, cost)
<1> DEFINE new == [op[l][s] EXCEPT !.status = "completed", !.cost = cost]
           row == Charged(lease[l], op[l][s].reserved, cost)
<1>1. /\ lease[l] \in LeaseRow /\ op[l][s] \in OpRow
      /\ lease \in [Leases -> LeaseRow] /\ op \in [Leases -> [Seqs -> OpRow]]
  BY DEF IInv, LedgerTypeOK
<1>2. /\ op[l][s].status = "forwarding" /\ cost <= op[l][s].reserved
      /\ lease' = [lease EXCEPT ![l] = row] /\ op' = [op EXCEPT ![l][s] = new]
  BY DEF CompleteOperation
<1>3. op[l][s].reserved \in Nat /\ cost \in Nat
  BY <1>1, LedgerAssumption DEF OpRow, Amounts
<1>4. /\ lease[l].held \in Nat /\ lease[l].actual \in Nat /\ lease[l].uncertain \in Nat
      /\ lease[l].maxCost \in Nat
  BY LeaseNumbers
<1>5. /\ row.state = lease[l].state /\ row.maxCost = lease[l].maxCost
      /\ row.held = lease[l].held - op[l][s].reserved /\ row.actual = lease[l].actual + cost
      /\ row.uncertain = lease[l].uncertain
  BY <1>1 DEF Charged, LeaseRow
<1>6. new.status = "completed"
  BY <1>1 DEF OpRow
<1> HIDE DEF new, row
<1>7. /\ op'[l][s] = new /\ \A k \in Seqs \ {s} : op'[l][k] = op[l][k]
      /\ \A k \in Leases \ {l} : op'[k] = op[k]
  BY <1>1, <1>2
<1>8. PhaseOf' = PhaseOf
  BY <1>1, <1>2, <1>5 DEF PhaseOf
<1>9. HoldOf[l][s] = op[l][s].reserved
  BY <1>2 DEF HoldOf
<1>10. LeftOf' = [LeftOf EXCEPT ![l] = @ + op[l][s].reserved - cost]
  <2>1. LeftOf[l] = lease[l].maxCost - (lease[l].actual + lease[l].held + lease[l].uncertain)
    BY DEF LeftOf, Liability
  <2>2. LeftOf[l] + op[l][s].reserved - cost = row.maxCost - (row.actual + row.held + row.uncertain)
    BY <1>3, <1>4, <1>5, <2>1
  <2> QED
    BY <1>1, <1>2, <2>2, LeftMoves
<1>11. HoldOf' = [HoldOf EXCEPT ![l][s] = -1]
  BY <1>6, <1>7, HoldMoves
<1>12. UsedOf' = UsedOf /\ BurnedOf' = BurnedOf
  BY <1>2, <1>6, <1>7 DEF UsedOf, BurnedOf, Rows, OpStates
<1>13. HoldOf[l][s] # -1 /\ cost \in 0 .. HoldOf[l][s]
  BY <1>2, <1>3, <1>9
<1> QED
  BY <1>8, <1>9, <1>10, <1>11, <1>12, <1>13 DEF Budget!Charge, Budget!Free

\* mark_operation_uncertain burns its hold.
LEMMA MarkBurns ==
  ASSUME IInv, NEW l \in Leases, NEW s \in Seqs, NEW reason \in Reasons,
         MarkUncertain(l, s, reason)
  PROVE  Budget!Burn(l, s)
<1> DEFINE new == [op[l][s] EXCEPT !.status = "uncertain"]
           row == Burned(lease[l], op[l][s].reserved, reason)
<1>1. /\ lease[l] \in LeaseRow /\ op[l][s] \in OpRow
      /\ lease \in [Leases -> LeaseRow] /\ op \in [Leases -> [Seqs -> OpRow]]
  BY DEF IInv, LedgerTypeOK
<1>2. /\ op[l][s].status = "forwarding"
      /\ lease' = [lease EXCEPT ![l] = row] /\ op' = [op EXCEPT ![l][s] = new]
  BY DEF MarkUncertain
<1>3. op[l][s].reserved \in Nat
  BY <1>1, LedgerAssumption DEF OpRow, Amounts
<1>4. /\ lease[l].held \in Nat /\ lease[l].actual \in Nat /\ lease[l].uncertain \in Nat
      /\ lease[l].maxCost \in Nat
  BY LeaseNumbers
<1>5. lease[l].state \in {"active", "canceled", "failed"}
  BY <1>1, <1>2, ForwardingIsOpen DEF LeaseRow, LeaseStates
<1>6. /\ row.state \in {"canceled", "failed"} /\ row.maxCost = lease[l].maxCost
      /\ row.held = lease[l].held - op[l][s].reserved /\ row.actual = lease[l].actual
      /\ row.uncertain = lease[l].uncertain + op[l][s].reserved
  BY <1>1, <1>5 DEF Burned, Ended, LeaseRow
<1>7. new.status = "uncertain"
  BY <1>1 DEF OpRow
<1> HIDE DEF new, row
<1>8. /\ op'[l][s] = new /\ \A k \in Seqs \ {s} : op'[l][k] = op[l][k]
      /\ \A k \in Leases \ {l} : op'[k] = op[k]
  BY <1>1, <1>2
<1>9. PhaseOf' = [PhaseOf EXCEPT ![l] = "revoked"]
  BY <1>1, <1>2, <1>6 DEF PhaseOf, Phase
<1>10. LeftOf' = LeftOf
  BY <1>1, <1>2, <1>3, <1>4, <1>6 DEF LeftOf, Liability
<1>11. HoldOf[l][s] # -1 /\ HoldOf' = [HoldOf EXCEPT ![l][s] = -1]
  <2>1. HoldOf[l][s] = op[l][s].reserved
    BY <1>2 DEF HoldOf
  <2>2. HoldOf' = [HoldOf EXCEPT ![l][s] = -1]
    BY <1>7, <1>8, HoldMoves
  <2> QED
    BY <1>3, <2>1, <2>2
<1>12. UsedOf' = UsedOf
  BY <1>2, <1>7, <1>8 DEF UsedOf, Rows, OpStates
<1>13. Rows(l, {"uncertain"})' = Rows(l, {"uncertain"}) \cup {s}
  BY <1>7, <1>8 DEF Rows
<1>14. BurnedOf' = [BurnedOf EXCEPT ![l] = @ \cup {s}]
  BY <1>8, <1>13 DEF BurnedOf, Rows
<1> QED
  BY <1>9, <1>10, <1>11, <1>12, <1>14 DEF Budget!Burn, Budget!Free

\* settle closes a budget with nothing held and nothing burned.
LEMMA SettleCloses ==
  ASSUME IInv, NEW l \in Leases, NEW completed, Settle(l, completed)
  PROVE  Budget!CloseClean(l)
<1>1. /\ lease[l] \in LeaseRow /\ LeaseInv(l) /\ lease \in [Leases -> LeaseRow]
  BY DEF IInv, LedgerTypeOK
<1>2. /\ lease[l].state = "active" /\ lease[l].count = lease[l].successful
      /\ op' = op /\ lease' = [lease EXCEPT ![l] = Ended(lease[l], "settled", "settled")]
  BY DEF Settle, Settleable
<1>3. Rows(l, OpStates \ {"absent"}) = Rows(l, {"completed"})
  BY <1>1, <1>2, AllCompleted DEF IInv
<1>4. \A s \in Seqs : op[l][s].status \notin {"forwarding", "uncertain"}
  BY <1>3 DEF Rows, OpStates
<1>5. (\A s \in Seqs : HoldOf[l][s] = -1) /\ BurnedOf[l] = {}
  BY <1>4 DEF HoldOf, BurnedOf, Rows
<1> DEFINE row == Ended(lease[l], "settled", "settled")
<1>6. /\ row.state = "settled" /\ row.maxCost = lease[l].maxCost /\ row.held = lease[l].held
      /\ row.actual = lease[l].actual /\ row.uncertain = lease[l].uncertain
  BY <1>1, <1>2 DEF Ended, LeaseRow
<1>7. PhaseOf[l] = "open" /\ PhaseOf' = [PhaseOf EXCEPT ![l] = "clean"]
  BY <1>1, <1>2, <1>6 DEF PhaseOf, Phase
<1>8. LeftOf' = LeftOf
  BY <1>1, <1>2, <1>6 DEF LeftOf, Liability
<1>9. HoldOf' = HoldOf /\ UsedOf' = UsedOf /\ BurnedOf' = BurnedOf
  BY <1>2, RowsMapped
<1> QED
  BY <1>5, <1>7, <1>8, <1>9 DEF Budget!CloseClean, Budget!Free

\* cancel revokes an open budget and leaves any other alone.
LEMMA CancelRevokes ==
  ASSUME IInv, NEW l \in Leases, NEW reason \in Reasons, Cancel(l, reason)
  PROVE  Budget!Revoke(l) \/ UNCHANGED Budget!vars
<1> DEFINE row == Ended(lease[l], "canceled", reason)
<1>1. /\ lease[l] \in LeaseRow /\ lease \in [Leases -> LeaseRow]
  BY DEF IInv, LedgerTypeOK
<1>2. op' = op /\ lease' = [lease EXCEPT ![l] = row]
  BY DEF Cancel
<1>3. HoldOf' = HoldOf /\ UsedOf' = UsedOf /\ BurnedOf' = BurnedOf
  BY <1>2, RowsMapped
<1>4. CASE lease[l].state = "active"
  <2>1. /\ row.state = "canceled" /\ row.maxCost = lease[l].maxCost /\ row.held = lease[l].held
        /\ row.actual = lease[l].actual /\ row.uncertain = lease[l].uncertain
    BY <1>1, <1>4 DEF Ended, LeaseRow
  <2>2. PhaseOf[l] = "open" /\ PhaseOf' = [PhaseOf EXCEPT ![l] = "revoked"]
    BY <1>1, <1>2, <1>4, <2>1 DEF PhaseOf, Phase
  <2>3. LeftOf' = LeftOf
    BY <1>1, <1>2, <2>1 DEF LeftOf, Liability
  <2> QED
    BY <1>3, <2>2, <2>3 DEF Budget!Revoke
<1>5. CASE lease[l].state # "active"
  <2>1. lease' = lease
    BY <1>1, <1>2, <1>5 DEF Ended
  <2>2. PhaseOf' = PhaseOf /\ LeftOf' = LeftOf
    BY <2>1 DEF PhaseOf, LeftOf, Liability
  <2> QED
    BY <1>3, <2>2 DEF Budget!vars
<1> QED
  BY <1>4, <1>5

\* Every step of the store is a step of the budget, or leaves it alone.
LEMMA StepRefines ==
  ASSUME IInv, [LedgerNext]_ledgerVars
  PROVE  [Budget!Next]_Budget!vars
<1>1. ASSUME NEW l \in Leases, NEW r \in Reservations, Reserve(l, r) PROVE Budget!Next
  <2>1. Budget!Grant(l, r.cost)
    BY <1>1, ReserveGrants
  <2>2. r.cost \in Amounts
    BY LedgerAssumption
  <2> QED
    BY <2>1, <2>2 DEF Budget!Next
<1>2. ASSUME NEW l \in Leases, NEW amount \in Amounts, NEW now \in Instants,
             BeginOperation(l, amount, now)
      PROVE  Budget!Next
  <2>1. Budget!Hold(l, lease[l].count + 1, amount) /\ lease[l].count + 1 \in Seqs
    BY <1>2, BeginHolds
  <2> QED
    BY <2>1, AmountsAgree DEF Budget!Next
<1>3. ASSUME NEW l \in Leases, NEW s \in Seqs, NEW cost \in Amounts, CompleteOperation(l, s, cost)
      PROVE  Budget!Next
  BY <1>3, CompleteCharges, AmountsAgree DEF Budget!Next
<1>4. ASSUME NEW l \in Leases, NEW s \in Seqs, NEW reason \in Reasons, MarkUncertain(l, s, reason)
      PROVE  Budget!Next
  BY <1>4, MarkBurns DEF Budget!Next
<1>5. ASSUME NEW l \in Leases, NEW completed, Settle(l, completed) PROVE Budget!Next
  BY <1>5, SettleCloses DEF Budget!Next
<1>6. ASSUME NEW l \in Leases, NEW reason \in Reasons, Cancel(l, reason)
      PROVE  Budget!Next \/ UNCHANGED Budget!vars
  BY <1>6, CancelRevokes DEF Budget!Next
<1>7. ASSUME UNCHANGED ledgerVars PROVE UNCHANGED Budget!vars
  BY <1>7 DEF ledgerVars, Budget!vars, PhaseOf, LeftOf, HoldOf, UsedOf, BurnedOf, Liability, Rows
<1> QED
  BY <1>1, <1>2, <1>3, <1>4, <1>5, <1>6, <1>7 DEF LedgerNext, CompleteOverrun

\* The hard-limit theorem: for any limits, amounts and interleaving of callers, the lease
\* store is a budget that is held from before a cost can arise, never overspent, and
\* closed cleanly only with every hold charged (docs/openai-compatible-quota-proxy.md).
THEOREM LedgerIsHardLimit == LedgerSpec => HardLimit
<1>1. LedgerSpec => []IInv
  BY InitEstablishes, NextPreserves, PTL DEF LedgerSpec
<1>2. LedgerInit => Budget!Init
  BY BudgetInit
<1>3. IInv /\ [LedgerNext]_ledgerVars => [Budget!Next]_Budget!vars
  BY StepRefines
<1> QED
  BY <1>1, <1>2, <1>3, PTL DEF LedgerSpec, HardLimit, Budget!Spec

=============================================================================
