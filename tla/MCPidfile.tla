------------------------------ MODULE MCPidfile ------------------------------
(* Three processes: two that share a file and a third that makes a new one *)
(* of the same inode number.                                               *)
EXTENDS Pidfile, TLC

CONSTANTS p1, p2, p3, i1, i2

MCProcs == {p1, p2, p3}
MCInodes == {i1, i2}
Symmetry == Permutations(MCProcs) \cup Permutations(MCInodes)
=============================================================================
