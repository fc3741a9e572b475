------------------------------ MODULE MCRoutePlan ------------------------------
(* A wall between two rooms, with a gate at its lower end and a link over   *)
(* it at the upper end; a niche too close to the wall to stand in; a place  *)
(* without a way to it and one that is off the map.  One request goes out    *)
(* and back again.                                                          *)
EXTENDS RoutePlan

Barrier == {<<2, 1>>, <<2, 2>>}
Gate == <<2, 0>>
LinkEnds == <<<<1, 2>>, <<3, 2>>>>
Niche == <<1, 1>>
Island == <<6, 1>>
Ground == ((0..4) \X (0..2) \cup {Island}) \ Barrier

IsPassable(p) == p \in Ground
NearestTo(p) == IF p = <<2, 1>> THEN {Gate} ELSE {}

Abs(n) == IF n < 0 THEN -n ELSE n
Between(a, b, x) == (a <= x /\ x <= b) \/ (b <= x /\ x <= a)

(* A wall point blocks the lines that pass less than half a cell from it.  *)
Blocks(w, p, q) ==
  LET dx == q[1] - p[1]  dy == q[2] - p[2]
      off == Abs(dx * (w[2] - p[2]) - dy * (w[1] - p[1]))
  IN  /\ Between(p[1], q[1], w[1]) /\ Between(p[2], q[2], w[2])
      /\ IF dx = 0 /\ dy = 0 THEN w = p ELSE 2 * off < IF Abs(dx) > Abs(dy) THEN Abs(dx) ELSE Abs(dy)

ClearLines ==
  {line \in Ground \X Ground :
     /\ line[1] = Island <=> line[2] = Island
     /\ \A w \in Barrier : ~Blocks(w, line[1], line[2])}
IsClear(p, q) == <<p, q>> \in ClearLines

Ways0 == {<<>>, <<Gate>>, LinkEnds, Reverse(LinkEnds)}
Walkable(line) ==
  \A i \in 1..Len(line) - 1 :
    \/ IsClear(line[i], line[i + 1])
    \/ {line[i], line[i + 1]} = Range(LinkEnds)
Found(p, q) ==
  IF p = q THEN {}
  ELSE {<<p>> \o via \o <<q>> : via \in {v \in Ways0 :
          Walkable(<<p>> \o v \o <<q>>) /\ {p, q} \cap Range(v) = {}}}

(* Attached with a straight line over the wall, and with a vertex twice.   *)
Library(p, q) ==
  IF <<p, q>> = <<<<0, 0>>, <<4, 0>>>>
    THEN {<<p, <<3, 2>>, q>>, <<p, <<1, 0>>, <<1, 0>>, q>>}
  ELSE IF <<p, q>> = <<<<0, 0>>, <<4, 1>>>> THEN {<<p, <<3, 2>>, q>>}
  ELSE {}

Middle(p, q) == [axis \in 1..2 |-> (p[axis] + q[axis]) \div 2]
Pulled(p, here, q) == Middle(p, q)
Project(p) ==
  CASE p = Niche -> <<0, 1>>
    [] p = <<2, 1>> -> Gate
    [] p = <<2, 2>> -> <<3, 2>>
    [] OTHER -> p
Along(line) ==
  {line, [i \in DOMAIN line |-> IF i \in {1, Len(line)} THEN line[i]
                                ELSE Middle(line[i], line[i + 1])]}
Apart(p, q) == IF Abs(p[1] - q[1]) > Abs(p[2] - q[2]) THEN Abs(p[1] - q[1]) ELSE Abs(p[2] - q[2])

Asked ==
  {<<<<0, 0>>, <<4, 0>>>>, <<<<0, 0>>, <<4, 1>>>>, <<<<0, 2>>, <<4, 2>>>>, <<<<0, 1>>, <<2, 1>>>>,
   <<<<0, 0>>, Island>>, <<<<0, 0>>, <<2, 2>>>>,
   <<<<0, 0>>, <<0, 2>>, <<0, 0>>>>,
   <<<<0, 1>>, Niche, <<4, 1>>>>, <<<<0, 2>>, <<4, 1>>, <<0, 0>>>>,
   <<<<0, 0>>, <<4, 0>>, <<1, 0>>>>, <<<<0, 1>>, <<1, 0>>, <<3, 0>>, <<4, 2>>>>}
================================================================================
