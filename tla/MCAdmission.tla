------------------------------ MODULE MCAdmission ------------------------------
(***************************************************************************)
(* Four requests of three sources, two at a time, before a table that has  *)
(* room for two sources, so that it evicts and, after an idle stretch,     *)
(* prunes.  A tick refills half of each bucket.                            *)
(***************************************************************************)
EXTENDS Admission, TLC

Symmetry == Permutations(Requests) \cup Permutations(Sources)

=============================================================================
