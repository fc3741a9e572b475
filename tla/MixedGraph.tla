------------------------------ MODULE MixedGraph ------------------------------
(***************************************************************************)
(* The graph a search walks: MixedGraph of crates/core/src/graph/mod.rs    *)
(* with its blocks (coarse.rs), its roadmap (prm.rs), its links            *)
(* (connectors.rs) and its lines of sight (los.rs, field/hard.rs), from    *)
(* the moment the map's writer partitions the ground (map-format           *)
(* builder.rs) until a search has asked for all the neighbours it can      *)
(* reach.                                                                  *)
(*                                                                         *)
(* Points and cells are those of Plane.  Costs and lengths of edges are    *)
(* left out: an edge is there or it is not.  A node is a kind and a place. *)
(***************************************************************************)
EXTENDS Plane, Sequences, SequencesExt, Functions

CONSTANTS Worlds,            \* maps: records [forbidden, oneway, links]
          Patched(_),        \* masks a later patch of the map may leave
          Draws,             \* roadmaps drawn: records [open, beside], sequences of points
          Starts,            \* points a search may be asked to start from
          MinLeaf, MaxLeaf,  \* PartitionOptions::min_coarse_m, max_coarse_m, in cells
          UniformPct,        \* PartitionOptions::uniformity_threshold, of a hundred
          MaxBlock,          \* CoarseOptions::max_size_m, in cells
          MinDrill,          \* CoarseOptions::min_drill_size_m, in cells
          Footprint,         \* FOOTPRINT_RADIUS_M, in half cells
          AttachRadius,      \* CONNECTOR_ATTACH_RADIUS_M, in half cells
          SnapRadius,        \* radius of ThetaStar::snap, in half cells
          JoinRadius,        \* PrmParams::connect_radius_m, in half cells
          AnchorRadius       \* 1.5 * PrmParams::spacing_m, in half cells

ASSUME GraphAssumption ==
  /\ {MinLeaf, MaxLeaf, MaxBlock, MinDrill} \subseteq Nat \ {0}
  /\ {UniformPct, Footprint, AttachRadius, SnapRadius, JoinRadius, AnchorRadius} \subseteq Nat

VARIABLES phase,     \* "drawn", "written", "loaded", "asked" or "searched"
          forbidden, \* the hard mask
          world,     \* the record of Worlds the map was written from
          leaves,    \* the map's skeleton
          graph,     \* [blocks, roadmap, attached]: what a MixedGraph is made of
          start,     \* the node the search starts from
          cache      \* MixedGraph::cache: the neighbours of the nodes expanded so far

vars == <<phase, forbidden, world, leaves, graph, start, cache>>

links == world.links

-----------------------------------------------------------------------------
(* Passable ground. *)

Passable(c) == c \in Cells /\ c \notin forbidden
Walkable(p) == OnMap(p) /\ Passable(CellOf(p))

-----------------------------------------------------------------------------
(* Lines.  A moment of the way from p to q is counted in parts of Span, so *)
(* that the crossings of both axes are integers.                           *)

Span(p, q) == Max({1, Size(q[1] - p[1])}) * Max({1, Size(q[2] - p[2])})

(* When the way from p to q crosses a coordinate of an axis it moves on.   *)
Moment(p, q, axis, coordinate) ==
  (coordinate - p[axis]) * Sign(q[axis] - p[axis]) * Max({1, Size(q[3 - axis] - p[3 - axis])})

(* A mutant of the next definition: the samples of the cost alone decide.  *)
Bug_SegmentIsClear(p, q) == Walkable(p) /\ Walkable(q)

(* segment_is_clear walks the cells the line enters, one boundary at a     *)
(* time; when it meets a column and a row at once it takes the column.     *)
SegmentIsClear(p, q) ==
  LET cell(r) == IF OnMap(r) THEN CellOf(r) ELSE RawCell(r)
      last == cell(q)
      budget == Size(last[1] - cell(p)[1]) + Size(last[2] - cell(p)[2]) + 2
      step(axis) == Sign(q[axis] - p[axis])
      next(c, axis) == Moment(p, q, axis, IF step(axis) > 0 THEN 2 * c[axis] + 2 ELSE 2 * c[axis])
      crosses(c, axis) == step(axis) # 0 /\ next(c, axis) < Span(p, q)
      clear[left \in 0..budget, c \in Int \X Int] ==
        /\ left > 0
        /\ Passable(c)
        /\ \/ c = last
           \/ ~crosses(c, 1) /\ ~crosses(c, 2) /\ Passable(last)
           \/ /\ crosses(c, 1)
              /\ crosses(c, 2) => next(c, 1) <= next(c, 2)
              /\ clear[left - 1, <<c[1] + step(1), c[2]>>]
           \/ /\ crosses(c, 2)
              /\ crosses(c, 1) => next(c, 2) < next(c, 1)
              /\ clear[left - 1, <<c[1], c[2] + step(2)>>]
  IN  clear[budget, cell(p)]

(* The cost of a line is integrated over samples half a cell apart; one on *)
(* forbidden ground has no cost, and then neither has the line.            *)
SamplesAreFinite(p, q) ==
  LET steps == CHOOSE n \in 1..Span(p, q) + 1 :
                 n * n >= Apart(p, q) /\ (n = 1 \/ (n - 1) * (n - 1) < Apart(p, q))
      at(k, axis) == (p[axis] * steps + k * (q[axis] - p[axis])) \div steps
  IN  \A k \in 0..steps : Passable(CellOf(<<at(k, 1), at(k, 2)>>))

SegmentCost(p, q) == SegmentIsClear(p, q) /\ (p = q \/ SamplesAreFinite(p, q))

Cross(u, v) == u[1] * v[2] - u[2] * v[1]
Dot(u, v) == u[1] * v[1] + u[2] * v[2]
Minus(p, q) == <<p[1] - q[1], p[2] - q[2]>>

(* The distance from a point to a segment is at most a radius.             *)
PointNear(p, a, b, radius) ==
  LET along == Dot(Minus(p, a), Minus(b, a))
      whole == Apart(a, b)
  IN  IF along <= 0 THEN Within(p, a, radius)
      ELSE IF along >= whole THEN Within(p, b, radius)
      ELSE LET off == Cross(Minus(b, a), Minus(p, a)) IN off * off <= radius * radius * whole

SegmentsIntersect(p, q, a, b, radius) ==
  LET d == Cross(Minus(q, p), Minus(b, a))
      share(n) == 0 <= n * Sign(d) /\ n * Sign(d) <= Size(d)
  IN  \/ d # 0 /\ share(Cross(Minus(a, p), Minus(b, a))) /\ share(Cross(Minus(a, p), Minus(q, p)))
      \/ PointNear(a, p, q, radius) \/ PointNear(b, p, q, radius)
      \/ PointNear(p, a, b, radius) \/ PointNear(q, a, b, radius)

CrossesFootprint(p, q) == \E l \in links : SegmentsIntersect(p, q, l.a, l.b, Footprint)

(* One end is an end of a link and the other is on its side of the link.   *)
ApproachesEndpoint(p, q) ==
  \E l \in links : \E <<near, far>> \in {<<l.a, l.b>>, <<l.b, l.a>>} :
    \E <<here, there>> \in {<<p, q>>, <<q, p>>} :
      here = near /\ Apart(there, near) < Apart(there, far)

LineOfSight(p, q) ==
  /\ ApproachesEndpoint(p, q) \/ ~CrossesFootprint(p, q)
  /\ SegmentCost(p, q)

(* A link's own attachments may run inside its footprint.                  *)
ConnectorApproach(p, q) == SegmentCost(p, q)

-----------------------------------------------------------------------------
(* Blocks. *)

Square(lo, size) == (lo[1]..lo[1] + size - 1) \X (lo[2]..lo[2] + size - 1)

Side == CHOOSE s \in {2 ^ k : k \in 0..12} :
          s >= Max({Width, Height}) /\ (s = 1 \/ s \div 2 < Max({Width, Height}))

(* The square is quartered until its pieces are uniform: the share of      *)
(* forbidden cells is close enough to their maximum.  A leaf asks to be    *)
(* refined when it holds a forbidden cell at all.                          *)
Partition(mask, oneway) ==
  LET split[lo \in Nat \X Nat, size \in Nat] ==
        LET area == Square(lo, size) \cap Cells
            bad == area \cap mask
            uniform == bad = {} \/ 100 * Cardinality(area \ bad) <= UniformPct * Cardinality(area)
        IN  IF area = {} \/ size < MinLeaf THEN {}
            ELSE IF uniform /\ size <= MaxLeaf /\ area \cap oneway = {}
              THEN {[lo |-> lo, size |-> size, drill |-> bad # {}]}
            ELSE IF size < 2 THEN {}
            ELSE UNION {split[<<lo[1] + dx, lo[2] + dy>>, size \div 2] :
                          <<dx, dy>> \in {0, size \div 2} \X {0, size \div 2}}
  IN  split[<<0, 0>>, Side]

(* A block spans from lo to hi; what a leaf has beyond the map is cut off. *)
Block(lo, hi) ==
  [lo |-> lo, hi |-> <<Min({hi[1], 2 * Width}), Min({hi[2], 2 * Height})>>]
BlockOf(leaf) ==
  Block(<<2 * leaf.lo[1], 2 * leaf.lo[2]>>,
        <<2 * (leaf.lo[1] + leaf.size), 2 * (leaf.lo[2] + leaf.size)>>)

Breadth(block) == block.hi[1] - block.lo[1]
Depth(block) == block.hi[2] - block.lo[2]
Middle(block) == <<(block.lo[1] + block.hi[1]) \div 2, (block.lo[2] + block.hi[2]) \div 2>>
Holds(block, p) == \A axis \in {1, 2} : p[axis] \in block.lo[axis]..block.hi[axis]

SizeAdmitted(block) == Max({Breadth(block), Depth(block)}) <= 2 * MaxBlock

UniformGround(block) == \A c \in Cells : Holds(block, Centre(c)) => Passable(c)

(* A block that holds something forbidden gives way to the quarters of it  *)
(* that do not.                                                            *)
Drill(block) ==
  LET below[b \in [lo : Int \X Int, hi : Int \X Int]] ==
        LET half == Breadth(b) \div 2
            quarter(dx, dy) == [lo |-> <<b.lo[1] + dx, b.lo[2] + dy>>,
                                hi |-> <<b.lo[1] + dx + half, b.lo[2] + dy + half>>]
        IN  IF half < 2 * MinDrill THEN {}
            ELSE UNION {LET piece == quarter(dx, dy)
                        IN  IF ~UniformGround(piece) THEN below[piece]
                            ELSE IF SizeAdmitted(piece) THEN {piece} ELSE {}
                          : <<dx, dy>> \in {0, half} \X {0, half}}
  IN  below[block]

Refined(leaf) ==
  IF leaf.drill THEN Drill(BlockOf(leaf))
  ELSE IF SizeAdmitted(BlockOf(leaf)) THEN {BlockOf(leaf)} ELSE {}

(* A link's footprint reaches into the box of a block.                     *)
FootprintTouches(block) ==
  LET lo == <<block.lo[1] - Footprint, block.lo[2] - Footprint>>
      hi == <<block.hi[1] + Footprint, block.hi[2] + Footprint>>
      edges == {<<lo, <<hi[1], lo[2]>>>>, <<<<hi[1], lo[2]>>, hi>>,
                <<hi, <<lo[1], hi[2]>>>>, <<<<lo[1], hi[2]>>, lo>>}
  IN  \E l \in links :
        \/ Holds([lo |-> lo, hi |-> hi], l.a) \/ Holds([lo |-> lo, hi |-> hi], l.b)
        \/ \E <<p, q>> \in edges : SegmentsIntersect(l.a, l.b, p, q, 0)

CoarseGrid == {block \in UNION {Refined(leaf) : leaf \in leaves} : ~FootprintTouches(block)}

-----------------------------------------------------------------------------
(* The roadmap: points, edges stored for both directions, and the cells    *)
(* some of its points stand in.                                            *)

NoRoadmap == [points |-> {}, edges |-> {}, cells |-> {}]

(* Waypoints in reach of each other are joined by one look, taken in the   *)
(* order they were drawn.                                                  *)
Joined(open) ==
  UNION {{<<open[i], open[j]>>, <<open[j], open[i]>>} :
           <<i, j>> \in {<<i, j>> \in (DOMAIN open) \X (DOMAIN open) :
                           i < j /\ Within(open[i], open[j], JoinRadius)
                                 /\ LineOfSight(open[i], open[j])}}

(* A point beside open ground joins the nearest point there is so far (the *)
(* draws hold no two at one distance).                                     *)
Stitched(roadmap, p) ==
  LET near == {q \in Nearest(roadmap.points, p) : Within(p, q, AnchorRadius)}
      anchor == CHOOSE q \in near : TRUE
  IN  IF ~Walkable(p) \/ near = {} \/ ~LineOfSight(p, anchor) THEN roadmap
      ELSE [points |-> roadmap.points \cup {p},
            edges |-> roadmap.edges \cup {<<p, anchor>>, <<anchor, p>>},
            cells |-> roadmap.cells \cup {<<p, CellOf(p)>>}]

Roadmap(draw) ==
  LET open == SelectSeq(draw.open, Walkable)
  IN  FoldLeft(Stitched, [points |-> Range(open), edges |-> Joined(open), cells |-> {}],
               draw.beside)

-----------------------------------------------------------------------------
(* Nodes and their neighbours in a graph g. *)

Node(kind, at) == [kind |-> kind, at |-> at]
Grid(c) == Node("grid", Centre(c))
Coarse(block) == Node("coarse", Middle(block))
Prm(p) == Node("prm", p)
Endpoint(p) == Node("link", p)

Endpoints == {l.a : l \in links} \cup {l.b : l \in links}
BlocksAt(g, p) == {block \in g.blocks : Holds(block, p)}
Covered(g, c) == BlocksAt(g, Centre(c)) # {}

(* The cells at most so many cells away from a point's own.                *)
Around(p, rings) ==
  {c \in Cells : \A axis \in {1, 2} : Size(c[axis] - CellOf(p)[axis]) <= rings}

FreeCells(g, p, radius) ==
  {c \in Around(p, (radius + 1) \div 2) : Passable(c) /\ ~Covered(g, c)}

(* A block before a waypoint before a cell.                                *)
NearestPlaneNodes(g, p, radius) ==
  LET waypoints == {q \in g.roadmap.points : Within(p, q, radius)}
  IN  IF BlocksAt(g, p) # {} THEN {Coarse(block) : block \in BlocksAt(g, p)}
      ELSE IF waypoints # {} THEN {Prm(q) : q \in Nearest(waypoints, p)}
      ELSE {Node("grid", q) : q \in Nearest({Centre(c) : c \in FreeCells(g, p, radius)}, p)}

PlaneNodesNear(g, p, radius) ==
  {Coarse(block) : block \in {b \in g.blocks : 4 * Apart(Middle(b), p) <=
                                (2 * radius + Breadth(b)) * (2 * radius + Breadth(b))}}
    \cup {Prm(q) : q \in {q \in g.roadmap.points : Within(p, q, radius)}}
    \cup {Grid(c) : c \in {c \in FreeCells(g, p, radius) : Within(Centre(c), p, radius)}}

(* ThetaStar::snap: the nearest node, or the nearest that is in sight.     *)
Snapped(g, p) ==
  LET seen(nodes) == {n \in nodes : LineOfSight(p, n.at)}
      direct == NearestPlaneNodes(g, p, SnapRadius)
      near == seen(PlaneNodesNear(g, p, SnapRadius))
  IN  IF direct = {} THEN {}
      ELSE seen(direct) \cup
           (IF seen(direct) = direct THEN {}
            ELSE {n \in near : n.at \in Nearest({m.at : m \in near}, p)})

(* A mutant of the next definition: the point counts, not its cell.        *)
Bug_PointTouches(block, p) == Holds(block, p)

(* A cell reaches the box of a block.                                      *)
TouchesBounds(block, p) ==
  \A axis \in {1, 2} : p[axis] - 1 <= block.hi[axis] + 1 /\ block.lo[axis] <= p[axis] + 1

Touches(a, b) ==
  \A axis \in {1, 2} : a.lo[axis] <= b.hi[axis] /\ b.lo[axis] <= a.hi[axis]

ConnectorEdges(g, n) ==
  {Endpoint(e) : e \in {e \in DOMAIN g.attached : n \in g.attached[e] /\ ConnectorApproach(n.at, e)}}

GridNeighbours(g, n) ==
  LET c == CellOf(n.at)
      blocks == {Coarse(b) : b \in {b \in g.blocks : TouchesBounds(b, n.at)}}
      cells == {Grid(d) : d \in {d \in Around(n.at, 1) \ {c} : Passable(d)}}
      waypoints == {Prm(stand[1]) : stand \in {s \in g.roadmap.cells : s[2] = c}}
  IN  IF Covered(g, c) THEN {}
      ELSE {m \in blocks \cup cells \cup waypoints : LineOfSight(n.at, m.at)}
             \cup ConnectorEdges(g, n)

CoarseNeighbours(g, n) ==
  LET block == CHOOSE b \in g.blocks : Middle(b) = n.at
      blocks == {Coarse(b) : b \in {b \in g.blocks \ {block} : Touches(block, b)}}
      ring == {c \in Around(n.at, (Breadth(block) + 3) \div 4 + 1) :
                 Passable(c) /\ ~Holds(block, Centre(c)) /\ TouchesBounds(block, Centre(c))}
  IN  {m \in blocks \cup {Grid(c) : c \in ring} : LineOfSight(n.at, m.at)}
        \cup ConnectorEdges(g, n)

PrmNeighbours(g, n) ==
  LET stands == {s[2] : s \in {s \in g.roadmap.cells : s[1] = n.at}}
      home(c) == IF Covered(g, c) THEN {Coarse(b) : b \in BlocksAt(g, Centre(c))} ELSE {Grid(c)}
  IN  {Prm(e[2]) : e \in {e \in g.roadmap.edges : e[1] = n.at}}
        \cup {m \in UNION {home(c) : c \in {c \in stands : Passable(c)}} : LineOfSight(n.at, m.at)}
        \cup ConnectorEdges(g, n)

ConnectorNeighbours(g, n) ==
  {Endpoint(l.b) : l \in {l \in links : l.a = n.at /\ l.up}}
    \cup {Endpoint(l.a) : l \in {l \in links : l.b = n.at /\ l.down}}
    \cup {m \in g.attached[n.at] : ConnectorApproach(n.at, m.at)}

Neighbours(g, n) ==
  CASE n.kind = "grid" -> GridNeighbours(g, n)
    [] n.kind = "coarse" -> CoarseNeighbours(g, n)
    [] n.kind = "prm" -> PrmNeighbours(g, n)
    [] n.kind = "link" -> ConnectorNeighbours(g, n)

(* Each end of a link attaches to one of the nearest plane nodes, if any.  *)
Attachments(g) ==
  LET ways[ends \in SUBSET Endpoints] ==
        IF ends = {} THEN {<<>>}
        ELSE LET e == CHOOSE e \in ends : TRUE
                 nodes == NearestPlaneNodes(g, e, AttachRadius)
                 options == IF nodes = {} THEN {{}} ELSE {{n} : n \in nodes}
             IN  {(e :> option) @@ rest : <<option, rest>> \in options \X ways[ends \ {e}]}
  IN  ways[Endpoints]

-----------------------------------------------------------------------------
(* From the ground to a search. *)

None == Node("none", <<0, 0>>)
Empty == [blocks |-> {}, roadmap |-> NoRoadmap, attached |-> <<>>]

Init ==
  /\ phase = "drawn"
  /\ world \in Worlds
  /\ forbidden = world.forbidden
  /\ leaves = {}
  /\ graph = Empty
  /\ start = None
  /\ cache = <<>>

(* The writer partitions the ground it is given.                           *)
WriteMap ==
  /\ phase = "drawn"
  /\ phase' = "written"
  /\ leaves' = Partition(forbidden, world.oneway)
  /\ UNCHANGED <<forbidden, world, graph, start, cache>>

(* A patch replaces the mask; the skeleton stays what it was.              *)
PatchMask ==
  /\ phase = "written"
  /\ forbidden' \in Patched(forbidden)
  /\ forbidden = world.forbidden
  /\ UNCHANGED <<phase, world, leaves, graph, start, cache>>

(* An environment is loaded and the graph is built over it.                *)
BuildGraph ==
  /\ phase = "written"
  /\ phase' = "loaded"
  /\ \E roadmap \in {NoRoadmap} \cup {Roadmap(draw) : draw \in Draws} :
       LET plain == [Empty EXCEPT !.blocks = CoarseGrid, !.roadmap = roadmap]
       IN  \E table \in Attachments(plain) : graph' = [plain EXCEPT !.attached = table]
  /\ UNCHANGED <<forbidden, world, leaves, start, cache>>

Snap ==
  /\ phase = "loaded"
  /\ phase' = "asked"
  /\ \E p \in Starts : Walkable(p) /\ start' \in Snapped(graph, p)
  /\ UNCHANGED <<forbidden, world, leaves, graph, cache>>

Known == {start} \cup UNION Range(cache)
Frontier == Known \ DOMAIN cache

(* A round of the search: it asks for the neighbours of every node it      *)
(* knows and has not expanded.                                             *)
Expand ==
  /\ phase = "asked" /\ Frontier # {}
  /\ cache' = [n \in Frontier |-> Neighbours(graph, n)] @@ cache
  /\ UNCHANGED <<phase, forbidden, world, leaves, graph, start>>

Exhausted ==
  /\ phase = "asked" /\ Frontier = {}
  /\ phase' = "searched"
  /\ UNCHANGED <<forbidden, world, leaves, graph, start, cache>>

Next == WriteMap \/ PatchMask \/ BuildGraph \/ Snap \/ Expand \/ Exhausted

Spec == Init /\ [][Next]_vars

-----------------------------------------------------------------------------
(* Properties. *)

(* The line from p to q passes through the inside of a cell.               *)
PassesThrough(p, q, c) ==
  LET enters(axis) == Moment(p, q, axis, IF q[axis] > p[axis] THEN 2 * c[axis] ELSE 2 * c[axis] + 2)
      exits(axis) == Moment(p, q, axis, IF q[axis] > p[axis] THEN 2 * c[axis] + 2 ELSE 2 * c[axis])
      moving == {axis \in {1, 2} : p[axis] # q[axis]}
  IN  /\ \A axis \in {1, 2} \ moving : 2 * c[axis] < p[axis] /\ p[axis] < 2 * c[axis] + 2
      /\ Max({0} \cup {enters(axis) : axis \in moving})
           < Min({Span(p, q)} \cup {exits(axis) : axis \in moving})

(* No edge over the plane leads through forbidden ground, whatever was     *)
(* patched since the map was partitioned: neither an edge between blocks,  *)
(* nor one of the roadmap, of the stitches between them, or of an          *)
(* attachment of a link (hard.rs:232, coarse.rs:10).                       *)
EdgesAreWalkable ==
  \A n \in DOMAIN cache : \A m \in cache[n] :
    (n.kind = "link" /\ m.kind = "link")
      \/ (\A c \in forbidden : ~PassesThrough(n.at, m.at, c))

(* The same ground without blocks and without a roadmap.                   *)
PlainGraph ==
  LET nodes(e) == NearestPlaneNodes(Empty, e, AttachRadius)
  IN  [Empty EXCEPT !.attached = [e \in Endpoints |-> nodes(e)]]

PlainReach(from) ==
  LET nodes == {Grid(c) : c \in {c \in Cells : Passable(c)}} \cup {Endpoint(e) : e \in Endpoints}
      edges == UNION {{n} \X Neighbours(PlainGraph, n) : n \in nodes}
      grow[k \in Nat] ==
        IF k = 0 THEN from
        ELSE LET near == grow[k - 1] IN near \cup {e[2] : e \in {e \in edges : e[1] \in near}}
  IN  grow[Cardinality(nodes)]

(* The node that stands for a cell.                                        *)
Stands(c) ==
  IF Covered(graph, c) THEN {Coarse(b) : b \in BlocksAt(graph, Centre(c))} ELSE {Grid(c)}

Here == {Grid(c) : c \in {c \in Cells : start \in Stands(c) /\ Passable(c)}}

(* Blocks make the graph smaller and lose nothing: from a cell or a block, *)
(* the search comes to every cell, or to the block that stands for it,     *)
(* that it would come to cell by cell (coarse.rs:1-9, graph/mod.rs:440).   *)
(* A roadmap may take the attachments of links to itself, out of sight of  *)
(* them; the two together are left out.                                    *)
ReachIsKept ==
  /\ phase = "searched" /\ forbidden = world.forbidden /\ start.kind # "prm"
  /\ links = {} \/ graph.roadmap = NoRoadmap
  =>
    \A c \in Cells :
      Grid(c) \in PlainReach(Here) => Stands(c) \cap Known # {}

(* The mixed graph says of the ground what the ground is: no edge over     *)
(* what is forbidden, and none missing that a plain grid would have.       *)
GraphIsTheGround == EdgesAreWalkable /\ ReachIsKept
================================================================================
