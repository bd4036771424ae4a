------------------------------ MODULE MCSandboxRun ------------------------------
(***************************************************************************)
(* A request of two references, with a lease for both workers at once and  *)
(* one for one at a time; each hold is half of the cost limit.             *)
(***************************************************************************)
EXTENDS SandboxRun

MCReservations ==
  { [cost |-> 4, conc |-> 2, ops |-> 2, expires |-> 0],
    [cost |-> 3, conc |-> 1, ops |-> 2, expires |-> 0] }

=============================================================================
