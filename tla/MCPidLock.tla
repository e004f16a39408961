------------------------------ MODULE MCPidLock ------------------------------
(***************************************************************************)
(* Three processes: two that claim and one that has died or goes on living.*)
(***************************************************************************)
EXTENDS PidLock, TLC

CONSTANTS p1, p2, p3

MCPids == {p1, p2, p3}
Symmetry == Permutations(MCPids)
=============================================================================
