------------------------------ MODULE QuotaBudget ------------------------------
(***************************************************************************)
(* What a provider hard limit promises, without tables or counters: a      *)
(* budget of nano-USD from which every operation takes a hold BEFORE it    *)
(* may cost anything.  A hold ends in one of two ways: it is charged, and  *)
(* what was not used returns to the budget, or it is burned whole, and the *)
(* budget is revoked with it.  A budget closes cleanly only with nothing   *)
(* held and nothing burned.                                                *)
(***************************************************************************)
EXTENDS Integers

CONSTANTS
  Budgets,        \* names of the budgets
  Slots,          \* names of the holds of one budget
  Limits          \* the amounts of nano-USD a budget may be granted

Free == -1        \* the slot has no hold
Amount == UNION {0 .. limit : limit \in Limits}

VARIABLES
  phase,          \* "none", "open", "clean" or "revoked"
  left,           \* nano-USD that can still be held
  hold,           \* the amount held in each slot, or Free
  used,           \* the slots that ever took a hold
  burned          \* the slots whose hold was burned

vars == << phase, left, hold, used, burned >>

TypeOK ==
  /\ phase \in [Budgets -> {"none", "open", "clean", "revoked"}]
  /\ left \in [Budgets -> Amount \cup {0}]
  /\ hold \in [Budgets -> [Slots -> Amount \cup {Free}]]
  /\ used \in [Budgets -> SUBSET Slots]
  /\ burned \in [Budgets -> SUBSET Slots]

Init ==
  /\ phase = [b \in Budgets |-> "none"]
  /\ left = [b \in Budgets |-> 0]
  /\ hold = [b \in Budgets |-> [s \in Slots |-> Free]]
  /\ used = [b \in Budgets |-> {}]
  /\ burned = [b \in Budgets |-> {}]

Grant(b, limit) ==
  /\ phase[b] = "none"
  /\ phase' = [phase EXCEPT ![b] = "open"]
  /\ left' = [left EXCEPT ![b] = limit]
  /\ UNCHANGED << hold, used, burned >>

\* Each slot is used once: a hold is never taken again for the same operation.
Hold(b, s, amount) ==
  /\ phase[b] = "open"
  /\ s \notin used[b]
  /\ amount <= left[b]
  /\ hold' = [hold EXCEPT ![b][s] = amount]
  /\ left' = [left EXCEPT ![b] = @ - amount]
  /\ used' = [used EXCEPT ![b] = @ \cup {s}]
  /\ UNCHANGED << phase, burned >>

Charge(b, s, cost) ==
  /\ hold[b][s] # Free
  /\ cost \in 0 .. hold[b][s]
  /\ hold' = [hold EXCEPT ![b][s] = Free]
  /\ left' = [left EXCEPT ![b] = @ + hold[b][s] - cost]
  /\ UNCHANGED << phase, used, burned >>

Burn(b, s) ==
  /\ hold[b][s] # Free
  /\ hold' = [hold EXCEPT ![b][s] = Free]
  /\ burned' = [burned EXCEPT ![b] = @ \cup {s}]
  /\ phase' = [phase EXCEPT ![b] = "revoked"]
  /\ UNCHANGED << left, used >>

CloseClean(b) ==
  /\ phase[b] = "open"
  /\ \A s \in Slots : hold[b][s] = Free
  /\ burned[b] = {}
  /\ phase' = [phase EXCEPT ![b] = "clean"]
  /\ UNCHANGED << left, hold, used, burned >>

Revoke(b) ==
  /\ phase[b] = "open"
  /\ phase' = [phase EXCEPT ![b] = "revoked"]
  /\ UNCHANGED << left, hold, used, burned >>

Next ==
  \E b \in Budgets :
    \/ \E limit \in Limits : Grant(b, limit)
    \/ \E s \in Slots, amount \in Amount : Hold(b, s, amount)
    \/ \E s \in Slots, cost \in Amount : Charge(b, s, cost)
    \/ \E s \in Slots : Burn(b, s)
    \/ CloseClean(b)
    \/ Revoke(b)

Spec == Init /\ [][Next]_vars

=============================================================================
