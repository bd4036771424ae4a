----------------------------- MODULE MCQuotaProxy -----------------------------
(***************************************************************************)
(* Two concurrent requests on one lease.  A token costs half a nano-USD,   *)
(* so the hold of a request (two input tokens and one output token) is two *)
(* nano-USD and usage of one cached and one regular input token rounds to  *)
(* three.  The first reservation has room for both holds, the second lacks *)
(* the money and the third the concurrency for a second one, and they      *)
(* expire on either side of the clock's tick.                              *)
(***************************************************************************)
EXTENDS QuotaProxy

MCReservations ==
  { [cost |-> 4, conc |-> 2, ops |-> 2, expires |-> 0],
    [cost |-> 3, conc |-> 2, ops |-> 2, expires |-> 1],
    [cost |-> 4, conc |-> 1, ops |-> 2, expires |-> 1] }

=============================================================================
