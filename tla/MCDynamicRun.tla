----------------------------- MODULE MCDynamicRun -----------------------------
(* A ring of passable cells around a wall three cells wide and one high,   *)
(* and an island: every two places of the ring have a way round on either  *)
(* side, and none leads to the island.                                     *)
EXTENDS DynamicRun

Ring == <<<<0, 1>>, <<0, 2>>, <<1, 2>>, <<2, 2>>, <<3, 2>>, <<4, 2>>,
          <<4, 1>>, <<4, 0>>, <<3, 0>>, <<2, 0>>, <<1, 0>>, <<0, 0>>>>
Island == <<7, 1>>
RingSize == Len(Ring)

Centre(cell) == [axis \in 1..2 |-> cell[axis] * Unit]
CellOf(p) == [axis \in 1..2 |-> (p[axis] + Unit \div 2) \div Unit]
IsPassable(p) == CellOf(p) \in Range(Ring) \cup {Island}
Place(cell) == CHOOSE i \in 1..RingSize : Ring[i] = cell

Around(i, step) == ((i - 1 + step + RingSize) % RingSize) + 1

(* From exactly p through the centres of the cells after it, either way.   *)
RingRoutes(p, q) ==
  IF {CellOf(p), CellOf(q)} \subseteq Range(Ring) /\ CellOf(p) # CellOf(q)
    THEN LET from == Place(CellOf(p))
             to   == Place(CellOf(q))
         IN  {<<p>> \o [k \in 1..((s * (to - from) + RingSize) % RingSize) |->
                           Centre(Ring[Around(from, s * k)])] : s \in {1, -1}}
    ELSE {}

(* Next to the wall: the cells right above and below.                      *)
NearestCells(p) ==
  {Centre(<<CellOf(p)[1], y>>) : y \in {0, 2}}

Starts == {Centre(<<0, 1>>)}
Goals == {Centre(c) : c \in {<<2, 1>>, <<4, 1>>}}
Issue == {0, 3, 6, 8, 40}
Places == {Centre(c) : c \in {<<0, 1>>, <<2, 0>>, <<4, 2>>, Island}}
Checkpoints == [issued : Issue, goal : Places]
Lists == {<<>>} \cup {<<c>> : c \in Checkpoints} \cup {<<c, d>> : c, d \in Checkpoints}
Requests == [start : Starts, goal : Goals, checkpoints : Lists]
              \cup [start : Starts, goal : {Centre(Island)}, checkpoints : {<<>>}]

CloseBy == Unit
Reach == 2 * Unit
=============================================================================
