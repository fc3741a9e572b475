-------------------------------- MODULE Plane --------------------------------
(***************************************************************************)
(* The local plane of a map and its grid (crates/core/src/terrain/grid.rs).*)
(* A point is a pair of integers in units of half a cell, so that the      *)
(* centres of cells, the centres of blocks and the corners of both are     *)
(* points; the cell <<x, y>> covers [2x, 2x + 2) by [2y, 2y + 2), and the  *)
(* last column and the last row have their far border as well.             *)
(***************************************************************************)
EXTENDS Integers, FiniteSets, FiniteSetsExt

CONSTANTS Width, Height    \* of the map, in cells

ASSUME PlaneAssumption == {Width, Height} \subseteq Nat \ {0}

Cells == (0..Width - 1) \X (0..Height - 1)
Centre(c) == <<2 * c[1] + 1, 2 * c[2] + 1>>
OnMap(p) == p[1] \in 0..2 * Width /\ p[2] \in 0..2 * Height

RawCell(p) == <<p[1] \div 2, p[2] \div 2>>
CellOf(p) ==
  <<Max({0, Min({Width - 1, p[1] \div 2})}), Max({0, Min({Height - 1, p[2] \div 2})})>>

Apart(p, q) == (p[1] - q[1]) * (p[1] - q[1]) + (p[2] - q[2]) * (p[2] - q[2])
Within(p, q, radius) == Apart(p, q) <= radius * radius
Nearest(points, p) == {q \in points : \A r \in points : Apart(q, p) <= Apart(r, p)}

Size(n) == IF n < 0 THEN -n ELSE n
Sign(n) == IF n < 0 THEN -1 ELSE IF n > 0 THEN 1 ELSE 0
================================================================================
