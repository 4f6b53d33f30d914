---------------------------- MODULE MCTaskGraph ----------------------------
(* Small task graphs for TLC.                                              *)
EXTENDS TaskGraph, TLC

CONSTANTS g1, g2, g3, t1, t2, t3

(* g3 depends on g2, an empty group, and on g1; g2 on g1.                  *)
Diamond == {<<g2, g1>>, <<g3, g2>>, <<g3, g1>>}
Chain == {<<g2, g1>>}
Owner == (t1 :> g1) @@ (t2 :> g3) @@ (t3 :> g1)
ChainOwner == (t1 :> g1) @@ (t2 :> g2)
=============================================================================
