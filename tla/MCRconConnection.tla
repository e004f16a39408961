-------------------------- MODULE MCRconConnection --------------------------
(***************************************************************************)
(* Small instances of RconConnection.                                      *)
(***************************************************************************)
EXTENDS RconConnection, TLC

CONSTANTS a1, a2, a3, l1, l2, c1, c2

Two == {a1, a2}
Three == {a1, a2, a3}
OneLoop == {l1}
TwoLoops == {l1, l2}
C1 == {c1}
C2 == {c2}
C12 == {c1, c2}
Nobody == {}

Slots == Permutations({a1, a2}) \cup Permutations({l1, l2})
=============================================================================
