------------------------------- MODULE MCGround -------------------------------
(* What is built over a map (`focus`): the graph (MCMixedGraph), or the      *)
(* clearance, from five of its contested cells, from ground that is all      *)
(* walls or all walls but one cell, and from files that lack chunks of the   *)
(* mask or hold a distance layer that is fresh, stale or incomplete.         *)
EXTENDS MCMixedGraph, Clearance

VARIABLE focus

File(mask, chunks, edt, edtChunks) ==
  [mask |-> mask, chunks |-> chunks, edt |-> edt, edtChunks |-> edtChunks]

Walls == SUBSET (Contested \ {<<2, 3>>}) \cup {Cells, Cells \ {<<3, 3>>}}

(* Of a stale layer nothing is read, whatever it holds.                      *)
MCFiles ==
  {File(mask, Chunks, "none", {}) : mask \in Walls}
    \cup {File(mask, chunks, layer[1], layer[2]) :
            mask \in {{<<1, 1>>, <<3, 2>>}, {<<0, 2>>}},
            chunks \in {{}, {<<1, 1>>}, Chunks \ {<<0, 0>>}, Chunks},
            layer \in {"fresh"} \X {{}, {<<1, 0>>}, Chunks} \cup {<<"stale", Chunks>>}}

MCInit ==
  /\ focus \in {"graph", "clearance"}
  /\ focus = "graph" \/ (focus # "graph" /\ world = Ground({}, {}, {}))
  /\ focus = "clearance" \/ (focus # "clearance" /\ file = File({}, Chunks, "none", {}))
  /\ Init /\ ClearInit

MCNext ==
  /\ \/ focus = "graph" /\ Next /\ UNCHANGED clearVars
     \/ focus = "clearance" /\ ClearNext /\ UNCHANGED vars
  /\ UNCHANGED focus

MCSpec == MCInit /\ [][MCNext]_<<focus, vars, clearVars>>
================================================================================
