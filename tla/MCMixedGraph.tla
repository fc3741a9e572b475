----------------------------- MODULE MCMixedGraph -----------------------------
(* Four by four cells, six of which may be forbidden in every combination; *)
(* five of them with a stair one may only go up; and two rooms joined by a *)
(* stair alone.  A later patch closes one more cell.  The line between the *)
(* two waypoints clips the corner of a cell that the patch may close.      *)
EXTENDS MixedGraph

Contested == {<<1, 1>>, <<2, 1>>, <<1, 2>>, <<3, 2>>, <<2, 3>>, <<0, 2>>}

Stair == [a |-> <<1, 3>>, b |-> <<1, 7>>, up |-> TRUE, down |-> FALSE]

Ground(mask, oneway, stairs) == [forbidden |-> mask, oneway |-> oneway, links |-> stairs]

Wall == {<<0, 2>>, <<1, 2>>, <<2, 2>>}

Maps ==
  {Ground(mask, {}, {}) : mask \in SUBSET Contested}
    \cup {Ground(mask, {<<3, 0>>}, {Stair}) : mask \in SUBSET (Contested \ {<<2, 3>>})}
    \cup {Ground(Wall \cup mask, {}, {[Stair EXCEPT !.down = TRUE]}) :
            mask \in SUBSET {<<3, 2>>, <<3, 3>>, <<1, 1>>}}

Later(mask) == {mask \cup {<<0, 0>>}, mask \cup {<<1, 0>>}}

Plaza == [open |-> <<<<1, 1>>, <<6, 4>>>>, beside |-> <<<<4, 3>>, <<2, 6>>, <<7, 7>>>>]
Waypoints == {Plaza}
Points == {<<1, 1>>, <<7, 7>>}
================================================================================
