------------------------------- MODULE RoutePlan -------------------------------
(***************************************************************************)
(* Planning one request: plan_with_library of crates/core/src/plan/        *)
(* standard.rs.  The legs between the requested points are searched one by *)
(* one and merged, the merged route is smoothed by an elastic band that    *)
(* pins the joints of the legs (smooth/elastic.rs, smooth/project.rs), and *)
(* the result goes through resampling, shortcuts, unfolding and rounding,  *)
(* each of which is undone when it leaves passable ground                  *)
(* (plan/clearance.rs).                                                    *)
(*                                                                         *)
(* Geometry appears by what these passes ask of it: which straight lines   *)
(* are clear, where a force may move a vertex, where the projection puts   *)
(* it.  Tolerances (how far a shortcut may deviate, how long a fold may    *)
(* be) only narrow the choices; the model leaves them open.  A vertex      *)
(* carries the number of the waypoint it is the joint of, or 0: the        *)
(* program knows its joints by index alone.                                *)
(***************************************************************************)
EXTENDS Integers, Sequences, FiniteSets, SequencesExt, FiniteSetsExt

CONSTANTS Requests,          \* sequences of points: start, waypoints, goal
          Passable(_),       \* HardMask::is_passable
          Nearest(_),        \* HardMask::nearest_passable: one point, or none
          Clear(_, _),       \* HardMask::segment_is_clear
          Stored(_, _),      \* candidates of the map's library, attached to two points
          Searched(_, _),    \* candidates the search may give; a link needs no clear line
          Midpoint(_, _),
          Relaxed(_, _, _),  \* where the forces put a vertex between two others
          Pushed(_),         \* project_point
          Resampled(_),      \* polylines a resampling may give, ends kept
          Distance(_, _),
          Iterations,        \* ElasticBandConfig::iterations
          MaxPoints          \* ElasticBandConfig::max_points

ASSUME BandAssumption ==
  /\ Iterations \in Nat \ {0}
  /\ MaxPoints \in Nat

VARIABLES request,  \* StandardRequest::legs: start, waypoints, goal
          stage,    \* "legs", "band", "finish", "shaped", "done", "no_path" or "refused"
          merged,   \* the searched route, its vertices as [at, joint]
          anchors,  \* indices of the ends of the legs
          working,  \* the band
          rounds,   \* iterations of the band so far
          path,     \* the finished path, a sequence of points
          stops,    \* vertex of path at which each waypoint is held
          full      \* history: a midpoint found no room

planVars == <<request, stage, merged, anchors, working, rounds, path, stops, full>>

-----------------------------------------------------------------------------
(* Polylines. *)

Points(vertices) == [i \in DOMAIN vertices |-> vertices[i].at]

AllClear(points) ==
  Len(points) >= 2 /\ \A i \in 1..Len(points) - 1 : Clear(points[i], points[i + 1])

(* Path::new drops a point that repeats the one before it (the model keeps *)
(* such points, no line between points is another for them) and errs on    *)
(* what is then one point: a path goes somewhere.                          *)
IsPath(points) == \E i \in DOMAIN points : points[i] # points[1]

Refused == <<>>

(* first_clear_path, one candidate after the other: a line that stays on   *)
(* passable ground is taken and the rest not tried, and if it is no path   *)
(* the plan fails with it.                                                 *)
FirstClear(line, rest) ==
  IF AllClear(line) THEN IF IsPath(line) THEN line ELSE Refused
  ELSE rest

(* The pairs of vertices that see each other.                              *)
InSight(points) ==
  {p \in (DOMAIN points) \X (DOMAIN points) : p[1] < p[2] /\ Clear(points[p[1]], points[p[2]])}

(* What may be left of n vertices when those between two that may be       *)
(* joined are skipped; the ends stay.                                      *)
Cuts(n, joinable) ==
  {kept \in {inner \cup {1, n} : inner \in SUBSET (2..n - 1)} :
     \A i, j \in kept :
       i < j /\ kept \cap (i + 1..j - 1) = {} => j = i + 1 \/ <<i, j>> \in joinable}

Below(indices, i) == {j \in indices : j < i}

(* The vertices kept, in their order.                                      *)
Picked(line, kept) ==
  [m \in 1..Cardinality(kept) |->
     line[CHOOSE i \in kept : Cardinality(Below(kept, i)) = m - 1]]

Shortened(line, joinable) == {Picked(line, kept) : kept \in Cuts(Len(line), joinable)}

(* A line with one more vertex behind some of its vertices, and where the  *)
(* j-th vertex is then.                                                    *)
Spot(twice, j) == j + Cardinality(Below(twice, j))

Spread(line, twice, extra) ==
  [n \in 1..Len(line) + Cardinality(twice) |->
     IF \E j \in DOMAIN line : Spot(twice, j) = n
     THEN line[CHOOSE j \in DOMAIN line : Spot(twice, j) = n]
     ELSE extra[CHOOSE i \in twice : Spot(twice, i) + 1 = n]]

-----------------------------------------------------------------------------
(* Legs. *)

Snapped(p) == IF Passable(p) THEN {p} ELSE Nearest(p)

(* A stored candidate whose attachment crosses something is dropped.       *)
Usable(from, to) == {line \in Stored(from, to) : AllClear(line)}

(* The library is preferred; without a usable entry the leg is searched.   *)
Candidates(from, to) ==
  IF Usable(from, to) # {} THEN Usable(from, to) ELSE Searched(from, to)

Ways(k) ==
  UNION {Candidates(from, to) : from \in Snapped(request[k]), to \in Snapped(request[k + 1])}

(* A leg starts and ends where it was asked to, up to a millimetre, and    *)
(* has two points at least (CandidateSet::validate); so has a request.     *)
IsLine(line) == line \in Seq(Range(line)) /\ Len(line) >= 2

ASSUME WaysAssumption ==
  \A asked \in Requests :
    /\ IsLine(asked)
    /\ \A k \in 1..Len(asked) - 1 :
         \A from \in Snapped(asked[k]), to \in Snapped(asked[k + 1]) :
           \A line \in Stored(from, to) \cup Searched(from, to) :
             IsLine(line) /\ line[1] = from /\ line[Len(line)] = to

(* The vertices of the k-th leg; its end is the joint to the next one.     *)
Leg(line, k) ==
  [i \in DOMAIN line |-> [at |-> line[i], joint |-> IF i = Len(line) THEN k ELSE 0]]

PlanInit ==
  /\ request \in Requests
  /\ stage = "legs"
  /\ merged = <<>> /\ anchors = <<>>
  /\ working = <<>> /\ rounds = 0
  /\ path = <<>> /\ stops = <<>>
  /\ full = FALSE

LegDue == stage = "legs" /\ Len(anchors) < Len(request) - 1

PlanLeg ==
  /\ LegDue
  /\ LET k == Len(anchors) + 1
     IN  \E line \in Ways(k) :
           LET joined == merged \o (IF merged = <<>> THEN Leg(line, k) ELSE Tail(Leg(line, k)))
           IN  /\ merged' = joined
               /\ anchors' = Append(anchors, Len(joined))
  /\ UNCHANGED <<request, stage, working, rounds, path, stops, full>>

NoWay ==
  /\ LegDue /\ Ways(Len(anchors) + 1) = {}
  /\ stage' = "no_path"
  /\ UNCHANGED <<request, merged, anchors, working, rounds, path, stops, full>>

-----------------------------------------------------------------------------
(* The elastic band. *)

Infeasible(vertices) ==
  {i \in 1..Len(vertices) - 1 : ~Clear(vertices[i].at, vertices[i + 1].at)}

(* Two vertices have nothing to relax, and a run may be configured not to  *)
(* smooth at all.  (A searched route that is one place fails in Shape.)    *)
StartBand ==
  /\ stage = "legs" /\ Len(anchors) = Len(request) - 1
  /\ \E smooth \in BOOLEAN :
       stage' = IF smooth /\ Len(merged) >= 3 THEN "band" ELSE "finish"
  /\ working' = merged
  /\ UNCHANGED <<request, merged, anchors, rounds, path, stops, full>>

(* One round of forces, which move some of the vertices that are not       *)
(* pinned, then the hard projection of every vertex but the ends.          *)
Moved ==
  LET last == Len(working)
      forced(i) == Relaxed(working[i - 1].at, working[i].at, working[i + 1].at)
  IN  {[i \in 1..last |->
          IF i \in {1, last} THEN working[i]
          ELSE [at |-> Pushed(IF i \in free THEN forced(i) ELSE working[i].at),
                joint |-> working[i].joint]] :
       free \in SUBSET ((2..last - 1) \ Range(anchors))}

(* Segments are split from the back, as long as there is room.             *)
Split(n, segments) ==
  {i \in segments : n + Cardinality({j \in segments : j > i}) < MaxPoints}

Halves(vertices, split) ==
  [i \in split |-> [at |-> Midpoint(vertices[i].at, vertices[i + 1].at), joint |-> 0]]

Inserted(vertices, segments) ==
  LET split == Split(Len(vertices), segments)
  IN  Spread(vertices, split, Halves(vertices, split))

Bug_Shifted(pins, segments) == pins

(* Every inserted midpoint shifts the pins behind it.                      *)
Shifted(pins, segments) ==
  [k \in DOMAIN pins |-> pins[k] + Cardinality(Below(segments, pins[k]))]

(* One iteration; the loop ends when nothing moves and nothing crosses, or *)
(* when the iterations are used up.                                        *)
RelaxBand ==
  /\ stage = "band" /\ rounds < Iterations
  /\ \E moved \in Moved :
       LET crossing == Infeasible(moved)
           split    == Inserted(moved, crossing)
       IN  /\ working' = split
           /\ anchors' = Shifted(anchors, crossing)
           /\ full' = (full \/ Len(split) < Len(moved) + Cardinality(crossing))
           /\ rounds' = IF moved = working /\ crossing = {} THEN Iterations ELSE rounds + 1
  /\ UNCHANGED <<request, stage, merged, path, stops>>

(* The pins strictly inside the band.                                      *)
Boundaries == {i \in Range(anchors) : i > 1 /\ i < Len(working)}

(* simplify_spans: shortcuts within each span between pins.                *)
Simplified ==
  {Picked(working, kept) :
     kept \in {kept \in Cuts(Len(working), InSight(Points(working))) : Boundaries \subseteq kept}}

(* A band that is not traversable is discarded for the searched route, one *)
(* that has become a single place fails the plan.                          *)
FinishBand ==
  /\ stage = "band" /\ rounds = Iterations
  /\ \E line \in Simplified :
       LET band == IF Len(line) < 3 THEN merged ELSE line
       IN  /\ stage' = IF IsPath(Points(band)) THEN "finish" ELSE "refused"
           /\ working' = IF AllClear(Points(band)) THEN band ELSE merged
  /\ UNCHANGED <<request, merged, anchors, rounds, path, stops, full>>

-----------------------------------------------------------------------------
(* The passes after the band. *)

(* resample_path keeps the ends.                                           *)
Resamplings(line) ==
  {resampled \in Resampled(line) :
     IsLine(resampled) /\ resampled[1] = line[1] /\ Last(resampled) = Last(line)}

(* Resample, take shortcuts once more, and unwind to the first clear stage; *)
(* a resampled line that is one place fails the plan before that.          *)
Shape ==
  /\ stage = "finish"
  /\ \E resampled \in Resamplings(Points(working)) :
       \E cleaned \in Shortened(resampled, InSight(resampled)) :
         LET unwound ==
               FirstClear(cleaned, FirstClear(resampled, FirstClear(Points(working),
                 FirstClear(Points(merged), Refused))))
             line == IF IsPath(resampled) THEN unwound ELSE Refused
         IN  /\ stage' = IF line = Refused THEN "refused" ELSE "shaped"
             /\ path' = line
  /\ UNCHANGED <<request, merged, anchors, working, rounds, stops, full>>

(* remove_spikes: out and back again, cut where the two ends meet.         *)
Unfolded(line) ==
  Shortened(line, {p \in InSight(line) : Distance(line[p[1]], line[p[2]]) = 0})

(* round_corners: vertices are replaced by arcs between their neighbours;  *)
(* where the line turns back on itself it is left as it is.                *)
Corners(line) == {i \in 2..Len(line) - 1 : line[i - 1] # line[i + 1]}

Rounded(line) ==
  {Spread([i \in DOMAIN line |-> IF i \in round THEN Midpoint(line[i - 1], line[i]) ELSE line[i]],
          round, [i \in round |-> Midpoint(line[i], line[i + 1])]) :
   round \in SUBSET Corners(line)}

(* The arc length of the closest vertex, counted in vertices.              *)
Projected(line, p) ==
  CHOOSE i \in DOMAIN line :
    /\ \A j \in DOMAIN line : Distance(line[i], p) <= Distance(line[j], p)
    /\ \A j \in 1..i - 1 : Distance(line[i], p) < Distance(line[j], p)

Bug_FinishPath ==
  /\ stage = "shaped"
  /\ \E unfolded \in Unfolded(path) : \E rounded \in Rounded(unfolded) :
       /\ path' = rounded
       /\ stops' = [k \in 1..Len(request) - 2 |-> Projected(rounded, request[k + 1])]
  /\ stage' = "done"
  /\ UNCHANGED <<request, merged, anchors, working, rounds, full>>

(* Cut the folds, round the corners, each unless it leaves passable        *)
(* ground, and find the waypoints on what is left.  A route that comes back *)
(* to where it began may be one fold: cut to a single place it is clear,   *)
(* so the uncut line is not tried, and no path, so the plan fails.         *)
FinishPath ==
  /\ stage = "shaped"
  /\ \E unfolded \in Unfolded(path) :
       LET straight == FirstClear(unfolded, path)
       IN  \E rounded \in Rounded(straight) :
             LET line == FirstClear(rounded, straight)
             IN  IF line = Refused
                   THEN stage' = "refused" /\ path' = Refused /\ stops' = <<>>
                   ELSE /\ stage' = "done"
                        /\ path' = line
                        /\ stops' = [k \in 1..Len(request) - 2 |-> Projected(line, request[k + 1])]
  /\ UNCHANGED <<request, merged, anchors, working, rounds, full>>

PlanNext == PlanLeg \/ NoWay \/ StartBand \/ RelaxBand \/ FinishBand \/ Shape \/ FinishPath

PlanSpec == PlanInit /\ [][PlanNext]_planVars

-----------------------------------------------------------------------------
(* Properties. *)

PlanTypeOK ==
  /\ request \in Requests
  /\ stage \in {"legs", "band", "finish", "shaped", "done", "no_path", "refused"}
  /\ \A v \in Range(merged) \cup Range(working) : v.joint \in 0..Len(request) - 1
  /\ anchors \in Seq(Nat)
  /\ rounds \in 0..Iterations
  /\ stops \in Seq(DOMAIN path)
  /\ full \in BOOLEAN

Joints == 1..Len(request) - 2

PlaceOf(k) == LET i == CHOOSE i \in DOMAIN merged : merged[i].joint = k IN merged[i].at

(* While the band relaxes, every pin is on the vertex of its joint, however *)
(* many midpoints were inserted before it, and a joint on open ground has  *)
(* not moved.                                                              *)
PinsHoldTheirJoints ==
  (stage = "band" /\ ~full) =>
    \A k \in Joints :
      /\ anchors[k] \in DOMAIN working /\ working[anchors[k]].joint = k
      /\ Pushed(PlaceOf(k)) = PlaceOf(k) => working[anchors[k]].at = PlaceOf(k)

(* The smoothed route passes the joints of the legs one after the other:   *)
(* no shortcut has cut one out, none is there twice.                       *)
JointsInOrder ==
  (stage = "finish" /\ ~full) =>
    /\ 1..Len(request) - 1 \subseteq {working[i].joint : i \in DOMAIN working}
    /\ \A i, j \in DOMAIN working :
         i < j /\ 0 \notin {working[i].joint, working[j].joint} => working[i].joint < working[j].joint

(* However crossing lines are split, the band has no more points than it   *)
(* may have, or than the searched route had.                               *)
BandIsBounded ==
  Len(working) <= Max({MaxPoints, Len(merged)})

(* What the band must keep of the legs it was made from, while it grows.   *)
BandKeepsItsJoints == PinsHoldTheirJoints /\ JointsInOrder /\ BandIsBounded

(* The path that is run stays on passable ground from the snapped start to *)
(* the snapped goal, whatever the passes did to it, and goes somewhere.    *)
ShippedIsSound ==
  stage \in {"shaped", "done"} =>
    /\ AllClear(path) /\ IsPath(path)
    /\ path[1] \in Snapped(request[1])
    /\ Last(path) \in Snapped(Last(request))

(* Once every leg has a way, the plan fails only because the way uses a    *)
(* link over ground that is not passable, or because it ends where it      *)
(* began: no pass loses a clear route from one place to another.           *)
RefusedForAReason ==
  stage = "refused" =>
    ~AllClear(Points(merged)) \/ merged[1].at = merged[Len(merged)].at

(* A plan whose legs have ways ends with a sound path, or for one of these *)
(* reasons.                                                                *)
PlanEndsSoundly == ShippedIsSound /\ RefusedForAReason

-----------------------------------------------------------------------------
(* What comments, docs and tests say, and the code does not do. *)

(* A link is "represented as a graph edge rather than as ground", so a     *)
(* "path must use the link" (docs/en/glossary.md); the searched route is   *)
(* one "which the line-of-sight test already cleared" (plan/standard.rs).  *)
RouteIsShipped == stage # "refused"

(* "Smooths a polyline, holding the given indices fixed" (elastic.rs): a   *)
(* joint is where it was asked for.                                        *)
JointsArePinned ==
  stage = "band" =>
    \A k \in Joints : \E i \in DOMAIN working :
      working[i].joint = k /\ working[i].at = PlaceOf(k)

(* "waypoints in order" (docs/en/usage.md): they are held in their order.  *)
DwellsInOrder ==
  \A i, j \in DOMAIN stops : i < j => stops[i] <= stops[j]
================================================================================
