------------------------------ MODULE Records ------------------------------
(***************************************************************************)
(* Records as the code's immutable objects: a new one is an old one with   *)
(* some of its fields replaced.                                            *)
(***************************************************************************)

(* A record with some of its fields changed; it has no others.             *)
Updated(r, changes) ==
    [f \in DOMAIN r |-> IF f \in DOMAIN changes THEN changes[f] ELSE r[f]]
=============================================================================
