----------------------------- MODULE MCQuotaLedger -----------------------------
(***************************************************************************)
(* One lease of the quota store under arbitrary callers: two reservations  *)
(* that differ in every limit, up to three operations, amounts up to four  *)
(* nano-USD and two clock readings, one on each side of an expiry.         *)
(***************************************************************************)
EXTENDS QuotaLedger

MCReservations ==
  { [cost |-> 4, conc |-> 2, ops |-> 3, expires |-> 0],
    [cost |-> 3, conc |-> 1, ops |-> 2, expires |-> 1] }

=============================================================================
