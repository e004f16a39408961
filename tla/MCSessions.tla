----------------------------- MODULE MCSessions -----------------------------
(***************************************************************************)
(* Small instances of Sessions.                                            *)
(***************************************************************************)
EXTENDS Sessions, TLC

CONSTANTS t1, t2, b1, b2, r1, r2

TwoBrowsers == (t1 :> b1) @@ (t2 :> b2)
Swap == [x \in {t1, t2, b1, b2} |->
           CASE x = t1 -> t2 [] x = t2 -> t1 [] x = b1 -> b2 [] x = b2 -> b1]
Alike == Permutations({r1, r2}) \cup {Swap}
=============================================================================
