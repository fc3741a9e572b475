------------------------------ MODULE Clearance -------------------------------
(***************************************************************************)
(* What the stages know of obstacles: the hard mask of a map and the       *)
(* distance to it, loaded once (core environment.rs, field/hard.rs,        *)
(* terrain/edt.rs), and the questions asked of them - the nearest passable *)
(* cell, the projection of a point out of an obstacle (smooth/project.rs), *)
(* the flags of the offset stage with and without a compute backend        *)
(* (motion/mod.rs, gpu/mod.rs), and the service's check of a point, which  *)
(* reads the map itself (service api/feasibility.rs).                      *)
(*                                                                         *)
(* Radii and distances are in half cells, distances squared.               *)
(***************************************************************************)
EXTENDS Plane, Sequences

CONSTANTS Files,       \* maps: [mask, chunks, edt, edtChunks], see below
          ChunkSide,   \* cells along a chunk
          SafeRadius,  \* safe_radius_m
          Rings,       \* how far nearest_passable is asked to look, in cells
          Big          \* the distance of a cell that has no obstacle in its column (1e12)

ASSUME ClearanceAssumption ==
  /\ {ChunkSide, SafeRadius, Rings} \subseteq Nat \ {0}
  /\ Big \in Nat /\ Width * Width + Height * Height <= Big
  /\ \A f \in Files : f.mask \subseteq Cells /\ f.edt \in {"none", "fresh", "stale"}

VARIABLES
  file,      \* the map: the hard layer's mask and the chunks it has of it, and whether a
             \* distance layer is stored, with which chunks, from this mask or an older one
  loading,   \* of the environment: "due", "loaded" or "missing"
  blocked,   \* HardMask::forbidden
  distance   \* DistanceField::distance

clearVars == <<file, loading, blocked, distance>>

ChunkOf(c) == <<c[1] \div ChunkSide, c[2] \div ChunkSide>>
Chunks == {ChunkOf(c) : c \in Cells}

-----------------------------------------------------------------------------
(* Loading. *)

(* A chunk that is not there leaves its cells passable.                    *)
MaskOf(f) == {c \in f.mask : ChunkOf(c) \in f.chunks}

(* What the transform starts from.                                         *)
Given(mask, c) == IF c \in mask THEN 0 ELSE Big

(* Where the parabola over q comes below the one over v.                   *)
Crossing(value, q, v) == [num |-> value[q] + q * q - value[v] - v * v, den |-> 2 * (q - v)]
Before(a, b) == a.num * b.den < b.num * a.den

(* transform_1d: the parabolas that make up the lower envelope, each with  *)
(* the point it takes over at; then the one that rules at each point.      *)
TakenOver(value, old, q) ==
  LET meet(k) == Crossing(value, q, old[k].of)
      kept == Max({1} \cup {k \in 2..Len(old) : Before(old[k].from, meet(k))})
  IN  Append(SubSeq(old, 1, kept), [of |-> q, from |-> meet(kept)])

Envelope(value) ==
  LET hull[q \in DOMAIN value] ==
        IF q = 0 THEN <<[of |-> 0]>> ELSE TakenOver(value, hull[q - 1], q)
  IN  hull[Max(DOMAIN value)]

Transform(value) ==
  LET hull == Envelope(value)
      ruling(q) == Max({1} \cup {k \in 2..Len(hull) : Before(hull[k].from, [num |-> q, den |-> 1])})
  IN  [q \in DOMAIN value |-> LET v == hull[ruling(q)].of IN (q - v) * (q - v) + value[v]]

(* from_mask: along the columns, then along the rows.                      *)
FromMask(mask) ==
  LET column == [x \in 0..Width - 1 |->
                   Transform([y \in 0..Height - 1 |-> Given(mask, <<x, y>>)])]
      row == [y \in 0..Height - 1 |-> Transform([x \in 0..Width - 1 |-> column[x][y]])]
  IN  [c \in Cells |-> 4 * row[c[2]][c[1]]]

(* What a distance layer is made of, by the tools that prepare a map.      *)
Exact(mask, c) ==
  IF mask = {} THEN 4 * Big ELSE Min({Apart(Centre(c), Centre(d)) : d \in mask})

(* The stored layer, if the reader hands out any of it; it hands out       *)
(* nothing of a stale one.  A cell without a chunk is at no distance.      *)
Usable(f) == f.edt = "fresh" /\ f.edtChunks # {}
Stored(f) == [c \in Cells |-> IF ChunkOf(c) \in f.edtChunks THEN Exact(f.mask, c) ELSE 0]

Load ==
  /\ loading = "due"
  /\ IF file.chunks = {}
     THEN loading' = "missing" /\ UNCHANGED <<blocked, distance>>
     ELSE /\ loading' = "loaded"
          /\ blocked' = MaskOf(file)
          /\ distance' = IF Usable(file) THEN Stored(file) ELSE FromMask(MaskOf(file))
  /\ UNCHANGED file

-----------------------------------------------------------------------------
(* Questions asked of an environment. *)

IsPassable(p) == OnMap(p) /\ CellOf(p) \notin blocked

Ring(c, n) == {d \in Cells : Max({Size(d[1] - c[1]), Size(d[2] - c[2])}) = n}

Bug_Settled(best, n, p) == best # {}

(* A cell was found, and nothing from the n-th ring on can be nearer.      *)
Settled(best, n, p) ==
  \E c \in best : n > 1 /\ 4 * (n - 1) * (n - 1) > Apart(Centre(c), p)

(* One ring more: the nearest of its free cells, the first that is met,    *)
(* takes the place of one that is not as near.                             *)
Searched(best, n, p) ==
  LET closer(c, d) == Apart(Centre(c), p) < Apart(Centre(d), p)
      free == Ring(CellOf(p), n) \ blocked
      least == {c \in free : \A d \in free : ~closer(d, c)}
      first == CHOOSE c \in least : \A d \in least : c[2] < d[2] \/ (c[2] = d[2] /\ c[1] <= d[1])
  IN  IF free = {} \/ Settled(best, n, p) \/ (\E c \in best : ~closer(first, c)) THEN best ELSE {first}

Surrounded(p, rings) ==
  /\ p[1] \in -2 * rings..2 * (Width + rings)
  /\ p[2] \in -2 * rings..2 * (Height + rings)

(* nearest_passable: ring by ring around the point's cell; the centre of   *)
(* the cell, no point for none.  What is settled stays so to the last ring.*)
NearestPassable(p, rings) ==
  LET best[n \in 0..rings] == IF n = 0 THEN {} ELSE Searched(best[n - 1], n, p)
  IN  IF IsPassable(p) THEN {p}
      ELSE IF Surrounded(p, rings) THEN {Centre(c) : c \in best[rings]} ELSE {}

(* project_point: out of the obstacle, then away from it, along a gradient *)
(* that may lead anywhere; back if that is an obstacle again.              *)
Projected(p) ==
  LET pulled == IF IsPassable(p) THEN {p} ELSE NearestPassable(p, Rings)
      near(q) == distance[CellOf(q)] < SafeRadius * SafeRadius
      pushed(q) == {r \in ((q[1] - SafeRadius)..(q[1] + SafeRadius))
                            \X ((q[2] - SafeRadius)..(q[2] + SafeRadius)) :
                      Within(r, q, SafeRadius)}
      landed(r) == IF NearestPassable(r, Rings) = {} THEN {r} ELSE NearestPassable(r, Rings)
  IN  IF pulled = {} THEN {p}
      ELSE UNION {IF near(q) THEN UNION {landed(r) : r \in pushed(q)} ELSE {q} : q \in pulled}

(* forbidden_flags without a backend, and the batch a backend answers.     *)
Flagged(p) == ~IsPassable(p) \/ distance[CellOf(p)] < SafeRadius * SafeRadius

BatchFlagged(p) ==
  \/ RawCell(p) \notin Cells \/ RawCell(p) \in blocked
  \/ distance[RawCell(p)] < SafeRadius * SafeRadius

-----------------------------------------------------------------------------
(* The service's check of a point reads the map and not the environment.   *)

(* A cell of the hard layer: "absent" with its chunk.                      *)
CellValue(c) ==
  IF ChunkOf(c) \notin file.chunks THEN "absent" ELSE IF c \in file.mask THEN "blocked" ELSE "free"

Bug_Window(p) ==
  LET reach == Max({1, (SafeRadius + 1) \div 2})
  IN  {c \in Cells : \A axis \in {1, 2} : c[axis] - RawCell(p)[axis] \in 1 - reach..reach}

Window(p) ==
  LET reach == Max({1, (SafeRadius + 1) \div 2})
  IN  {c \in Cells : \A axis \in {1, 2} : Size(c[axis] - RawCell(p)[axis]) <= reach}

(* distance_to_blocked: the radius itself when nothing is in the window,   *)
(* none when some cell of it is absent.                                    *)
ToBlocked(p) ==
  LET walls == {c \in Window(p) : CellValue(c) = "blocked"}
  IN  IF \E c \in Window(p) : CellValue(c) = "absent" THEN {}
      ELSE IF walls = {} THEN {SafeRadius * SafeRadius}
      ELSE {Min({Apart(Centre(c), p) : c \in walls})}

Reason(p) ==
  IF RawCell(p) \notin Cells THEN "outside"
  ELSE IF CellValue(RawCell(p)) = "absent" THEN "unknown"
  ELSE IF CellValue(RawCell(p)) = "blocked" THEN "forbidden"
  ELSE IF \E d \in ToBlocked(p) : d < SafeRadius * SafeRadius THEN "too_close" ELSE "ok"

-----------------------------------------------------------------------------
ClearInit ==
  /\ file \in Files
  /\ loading = "due"
  /\ blocked = {}
  /\ distance = [c \in Cells |-> 0]

ClearNext == Load

ClearSpec == ClearInit /\ [][ClearNext]_clearVars

-----------------------------------------------------------------------------
(* Properties. *)

ClearTypeOK ==
  /\ file \in Files /\ loading \in {"due", "loaded", "missing"}
  /\ blocked \subseteq Cells /\ distance \in [Cells -> Nat]

(* The points in and around the map.                                       *)
Surroundings(beyond) == (-beyond..2 * Width + beyond) \X (-beyond..2 * Height + beyond)

(* The distance of a cell is that to the nearest obstacle: derived from    *)
(* the mask, column by column and row by row, or stored.  It is never      *)
(* overstated, whatever chunks the map lacks.                              *)
DistancesAreExact ==
  loading = "loaded" =>
    \A c \in Cells :
      \/ distance[c] = Exact(blocked, c)
      \/ Usable(file) /\ distance[c] = IF ChunkOf(c) \in file.edtChunks THEN Exact(file.mask, c) ELSE 0

(* The passable cells that a search around a point may find.               *)
InReach(p) ==
  {c \in Cells \ (blocked \cup {CellOf(p)}) :
     Surrounded(p, Rings) /\ \A axis \in {1, 2} : Size(c[axis] - CellOf(p)[axis]) <= Rings}

(* A start, a goal or a point of a path is moved to the nearest passable   *)
(* cell in reach, and to none only if there is none; a projected point is  *)
(* on passable ground, or has none in reach.  The rings begin beside the   *)
(* cell of the point: the border cell nearest to a point outside is left   *)
(* out of both, and a push across the border of the only passable cell is  *)
(* not taken back.                                                         *)
SnapsToNearest ==
  loading = "loaded" =>
    \A p \in Surroundings(2) :
      LET found == NearestPassable(p, Rings)
      IN  /\ ~IsPassable(p) => /\ found \subseteq Nearest({Centre(c) : c \in InReach(p)}, p)
                               /\ found = {} <=> InReach(p) = {}
          /\ \A q \in Projected(p) : IsPassable(q) \/ InReach(q) = {}

(* Strictly inside a map that has all of its mask, the three ways to judge *)
(* a point go together: a point that the service calls legal is one that   *)
(* the planner takes as it is, and no obstacle's middle is within the      *)
(* radius; one that is called too close has one; and the flags are the     *)
(* same with and without a backend.                                        *)
JudgedAlike ==
  loading = "loaded" /\ file.chunks = Chunks =>
    \A p \in (1..2 * Width - 1) \X (1..2 * Height - 1) :
      LET walls == {c \in blocked : Apart(Centre(c), p) < SafeRadius * SafeRadius}
      IN  /\ Reason(p) = "ok" => NearestPassable(p, Rings) = {p} /\ walls = {}
          /\ Reason(p) = "too_close" => walls # {} /\ IsPassable(p)
          /\ Flagged(p) = BatchFlagged(p)

(* What is known of a point rests on one field: the field is exact, all    *)
(* who judge by it agree, and a point that is not on passable ground is    *)
(* moved to the nearest that is.                                           *)
ClearanceIsKnown == DistancesAreExact /\ JudgedAlike /\ SnapsToNearest

-----------------------------------------------------------------------------
(* What comments and docs say, and the code does not do. *)

(* "a point this endpoint calls legal is one the offset stage would also   *)
(* accept" (feasibility.rs, DEFAULT_SAFE_RADIUS_M): the endpoint measures  *)
(* from the point, the offset stage from the middle of its cell.           *)
LegalIsAccepted ==
  loading = "loaded" /\ file.chunks = Chunks =>
    \A p \in Surroundings(0) : Reason(p) = "ok" => ~Flagged(p)

(* "the caller cannot tell which one ran" (motion/mod.rs, forbidden_flags):*)
(* the far borders are on the map for one and outside for the other.       *)
BackendsAgree == loading = "loaded" => \A p \in Surroundings(2) : Flagged(p) = BatchFlagged(p)
=============================================================================
