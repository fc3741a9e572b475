---------------------------- MODULE MCMapLibrary ----------------------------
(* MapLibrary with one image imported twice, another one in another         *)
(* process's file, and a budget that either environment alone may exceed.   *)
EXTENDS MapLibrary, TLC

CONSTANTS m1, m2, f1, x, y, c1, c2

SomeImages == (m1 :> x) @@ (m2 :> x) @@ (f1 :> y)
Sizes == (x :> 2) @@ (y :> 5)
(* The two imports are alike: m1 is the first.                              *)
InOrder == m2 \in issued => m1 \in issued

(* After the restart, when the cache is empty as at the start, the library  *)
(* is imported to, read and removed from, and nothing is planned.           *)
PlanningComesFirst ==
  restarts > 0 => \A c \in Client : ops[c].then \notin {"plan", "queue"}

MCSpec == Init /\ [][Next /\ InOrder' /\ PlanningComesFirst']_vars

Symmetry == Permutations(Client)
=============================================================================
