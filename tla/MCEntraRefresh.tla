--------------------------- MODULE MCEntraRefresh ---------------------------
(* Two processes of one host: while the keys rotate and tokens of the new    *)
(* keys come in, a process crashes, closes, loses its worker or fails a read;*)
(* or they rotate unnoticed, and the lock file is replaced.                  *)
EXTENDS EntraRefresh

MCOneFault == {[rotations |-> 1, replacements |-> 0, faults |-> 1, signals |-> 1]}

MCBudgets ==
    MCOneFault \cup {[rotations |-> 1, replacements |-> 1, faults |-> 0, signals |-> 0]}
=============================================================================
