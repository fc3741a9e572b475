------------------------------ MODULE DynamicRun ------------------------------
(***************************************************************************)
(* A run that checkpoints redirect: Simulator::run_dynamic_observed of     *)
(* crates/core/src/sim/mod.rs over plan/dynamic.rs.  The first route is    *)
(* walked into a recording; every checkpoint is then folded in: the state  *)
(* at its time is looked up, a route is planned from there, walked, and    *)
(* blended into the recording over a window, and what the old recording    *)
(* had left is dropped.                                                    *)
(*                                                                         *)
(* Time is counted in units of which a sample takes Tick, so a checkpoint  *)
(* may fall between two samples.  Coordinates are counted in Unit-ths of a *)
(* cell, which makes the blend weights whole numbers out of Unit.  The     *)
(* planner and the motion stage appear by what this code relies on: a      *)
(* route is a sequence of passable points, a walk takes one point a sample *)
(* and stands at its ends when it is told to.  Offsets, speeds, headings   *)
(* and heights are blended by the same weight as positions and are left    *)
(* out, and so is the centre line, which has a weight of its own.          *)
(***************************************************************************)
EXTENDS Integers, Sequences, SequencesExt

CONSTANTS Request,        \* [start, goal, checkpoints], as the service hands them over
          Routes(_, _),   \* routes the planner may choose between two passable points
          Passable(_),    \* HardMask::is_passable
          Nearest(_),     \* HardMask::nearest_passable: the points it may return
          Tick,           \* time between two samples of a walk
          Unit,           \* coordinates in one cell; also the whole of a blend weight
          Window,         \* DynamicConfig::blend_window_s
          StandStart, StandEnd,   \* samples stood at the ends of the first walk
          Close,          \* a checkpoint nearer than this is ignored (1 m)
          Stride,         \* property bound: no two samples are farther apart
          Bisections      \* steps of passable_weight (16)

ASSUME ClockAssumption ==
  /\ Tick \in Nat \ {0} /\ Unit \in Nat \ {0}
  /\ Window \in Nat /\ Close \in Nat /\ Bisections \in Nat
  /\ StandStart \in Nat /\ StandEnd \in Nat

(* A request is a list of moments and places.                              *)
ASSUME RequestAssumption ==
  \A asked \in Request :
    /\ asked.checkpoints \in Seq(Range(asked.checkpoints))
    /\ \A checkpoint \in Range(asked.checkpoints) : checkpoint.issued \in Nat

VARIABLES request,    \* the request of this run
          phase,      \* "planning", "folding", "done" or "failed"
          recording,  \* Trajectory::samples: [at, pos, leg]
          taken,      \* checkpoints looked at so far
          redirects   \* history: [issued, goal] of those that were accepted

vars == <<request, phase, recording, taken, redirects>>

-----------------------------------------------------------------------------
(* The motion stage, and looking things up in a recording. *)

(* Stand, walk the route one point a sample, stand.                        *)
Walk(route, before, after, leg) ==
  LET points == [i \in 1..before |-> route[1]] \o route
                  \o [i \in 1..after |-> Last(route)]
  IN  [i \in DOMAIN points |-> [at |-> Tick * (i - 1), pos |-> points[i], leg |-> leg]]

Duration(samples) == IF samples = <<>> THEN 0 ELSE Last(samples).at

Clamped(time, samples) ==
  IF time > Duration(samples) THEN Duration(samples) ELSE time

(* Trajectory::sample_at: the first sample that is not before the time.    *)
SampleAt(samples, time) ==
  SelectInSeq(samples, LAMBDA s : s.at >= Clamped(time, samples))

Apart(p, q) ==
  LET dx == IF p[1] < q[1] THEN q[1] - p[1] ELSE p[1] - q[1]
      dy == IF p[2] < q[2] THEN q[2] - p[2] ELSE p[2] - q[2]
  IN  IF dx > dy THEN dx ELSE dy

-----------------------------------------------------------------------------
(* plan/dynamic.rs: blend_trajectories. *)

(* The point a weight of the way from p to q.                              *)
Mix(p, q, weight) ==
  [axis \in 1..2 |-> (p[axis] * (Unit - weight) + q[axis] * weight) \div Unit]

Smoothstep(elapsed) ==
  (Unit * elapsed * elapsed * (3 * Window - 2 * elapsed)) \div (Window * Window * Window)

(* The bisection of passable_weight.  Its first test is of the far end     *)
(* alone, whatever lies between.                                           *)
PassableWeight(p, q) ==
  LET low[n \in 0..Bisections] ==
        IF n = 0 THEN [lo |-> 0, hi |-> Unit]
        ELSE LET b == low[n - 1]
                 middle == (b.lo + b.hi) \div 2
             IN  IF Passable(Mix(p, q, middle)) THEN [b EXCEPT !.lo = middle]
                 ELSE [b EXCEPT !.hi = middle]
  IN  IF Passable(q) THEN Unit ELSE low[Bisections].lo

Bug_KeptCentred(old, switch) == SelectSeq(old, LAMBDA s : s.at < switch - Window \div 2)

Bug_KeptToWindow(old, switch) == SelectSeq(old, LAMBDA s : s.at < switch + Window)

(* The part of the old recording that precedes the redirect.               *)
Kept(old, switch) ==
  FoldLeft(LAMBDA kept, s : IF s.at < switch THEN Append(kept, s) ELSE kept, <<>>, old)

Bug_Unblended(elapsed) == IF elapsed >= Window THEN Unit ELSE 0

Bug_NeverWhole(elapsed) == Unit \div 2

(* How much of the new walk there is a while after the switch.             *)
Weight(elapsed) ==
  IF Window = 0 \/ elapsed >= Window THEN Unit ELSE Smoothstep(elapsed)

Blended(old, new, switch) ==
  LET mixed == [i \in DOMAIN new |->
        LET elapsed == new[i].at - new[1].at
            was     == old[SampleAt(old, switch + elapsed)]
            weight  == IF Weight(elapsed) = Unit THEN Unit
                       ELSE (Weight(elapsed) * PassableWeight(was.pos, new[i].pos)) \div Unit
        IN  [at  |-> switch + elapsed,
             pos |-> IF weight = Unit THEN new[i].pos ELSE Mix(was.pos, new[i].pos, weight),
             leg |-> new[i].leg]]
  IN  Kept(old, switch) \o mixed

-----------------------------------------------------------------------------
(* sim/mod.rs: run_dynamic_observed, and replan. *)

(* Environment::snap_to_passable.                                          *)
Snapped(p) == IF Passable(p) THEN {p} ELSE Nearest(p)

(* A route leads from the one point to the other.                          *)
Joins(route, a, b) ==
  route \in Seq(Range(route)) /\ route # <<>> /\ route[1] = a /\ Last(route) = b

Plans(p, q) ==
  UNION {{route \in Routes(a, b) : Joins(route, a, b)} : a \in Snapped(p), b \in Snapped(q)}

Init ==
  /\ request \in Request
  /\ phase = "planning"
  /\ recording = <<>>
  /\ taken = 0
  /\ redirects = <<>>

PlanFirst ==
  /\ phase = "planning"
  /\ \E route \in Plans(request.start, request.goal) :
       recording' = Walk(route, StandStart, StandEnd, 0)
  /\ phase' = "folding"
  /\ UNCHANGED <<request, taken, redirects>>

Checkpoint == request.checkpoints[taken + 1]

More == phase = "folding" /\ taken < Len(request.checkpoints)

(* The state a checkpoint finds the runner in.                             *)
Here == recording[SampleAt(recording, Checkpoint.issued)]

(* A checkpoint where the runner already is leaves the run as it was.      *)
Ignore ==
  /\ More
  /\ Apart(Checkpoint.goal, Here.pos) < Close
  /\ taken' = taken + 1
  /\ UNCHANGED <<request, phase, recording, redirects>>

(* The look-up clamps the time to the recording, the blend does not.       *)
Redirect ==
  /\ More
  /\ Apart(Checkpoint.goal, Here.pos) >= Close
  /\ \E route \in Plans(Here.pos, Checkpoint.goal) :
       recording' = Blended(recording, Walk(route, 0, 0, Len(redirects) + 1), Checkpoint.issued)
  /\ redirects' = Append(redirects, Checkpoint)
  /\ taken' = taken + 1
  /\ UNCHANGED <<request, phase>>

(* No route, first or later, fails the whole run.                          *)
Fail ==
  /\ \/ phase = "planning" /\ Plans(request.start, request.goal) = {}
     \/ /\ More
        /\ Apart(Checkpoint.goal, Here.pos) >= Close
        /\ Plans(Here.pos, Checkpoint.goal) = {}
  /\ phase' = "failed"
  /\ UNCHANGED <<request, recording, taken, redirects>>

Finish ==
  /\ phase = "folding" /\ taken = Len(request.checkpoints)
  /\ phase' = "done"
  /\ UNCHANGED <<request, recording, taken, redirects>>

Next == PlanFirst \/ Ignore \/ Redirect \/ Fail \/ Finish

Spec == Init /\ [][Next]_vars

-----------------------------------------------------------------------------
(* Properties. *)

TypeOK ==
  /\ request \in Request
  /\ phase \in {"planning", "folding", "done", "failed"}
  /\ recording \in Seq([at : Nat, pos : [1..2 -> Int], leg : 0..Len(request.checkpoints)])
  /\ taken \in 0..Len(request.checkpoints)
  /\ redirects \in Seq(Range(request.checkpoints))

(* At every moment the runner follows the last in the list of the          *)
(* checkpoints issued by then: no fold loses a redirect or lets an old one *)
(* speak again, in whatever order they were issued.                        *)
LatestRedirectRules ==
  \A i \in DOMAIN recording :
    LET leg == recording[i].leg
    IN  /\ leg > 0 => redirects[leg].issued <= recording[i].at
        /\ \A later \in leg + 1..Len(redirects) : recording[i].at < redirects[later].issued

(* However many walks the recording is pieced together from, its clock     *)
(* never stands or runs back.                                              *)
ClockRuns == \A i, j \in DOMAIN recording : i < j => recording[i].at < recording[j].at

(* A redirect is a change of mind and not a splice: no two samples in a    *)
(* row are farther apart than a runner pulled between two routes gets,     *)
(* Stride.                                                                 *)
NoSplice ==
  \A i \in 2..Len(recording) : Apart(recording[i - 1].pos, recording[i].pos) <= Stride

FinalGoal == IF redirects = <<>> THEN request.goal ELSE Last(redirects).goal

(* The run ends where the last accepted checkpoint sent it, when the walk  *)
(* there outlasts the window.                                              *)
EndsWhereSent ==
  LET switch == IF redirects = <<>> THEN 0 ELSE Last(redirects).issued
  IN  (phase = "done" /\ (redirects = <<>> \/ Duration(recording) >= switch + Window))
        => Last(recording).pos \in Snapped(FinalGoal)

(* A redirect is obeyed, the latest one first, and run as one motion.      *)
RedirectsRule == LatestRedirectRules /\ ClockRuns /\ NoSplice /\ EndsWhereSent

(* What has been recorded before a redirect is never rewritten by it.      *)
PastIsKept ==
  [][Len(redirects') > Len(redirects) =>
       \A i \in DOMAIN recording :
         recording[i].at < Last(redirects').issued =>
           i \in DOMAIN recording' /\ recording'[i] = recording[i]]_vars

-----------------------------------------------------------------------------
(* What comments, docs and tests say, and the code does not do. *)

(* "The weight is reduced along such a chord so the reported truth never   *)
(* sits in a forbidden cell" (plan/dynamic.rs, blend_trajectories).        *)
TruthStaysPassable ==
  \A i \in DOMAIN recording : Passable(recording[i].pos)

(* "consumes the checkpoints in time order" (docs/en/usage.md): every      *)
(* accepted redirect is somewhere in the recording.                        *)
EveryRedirectIsRun ==
  \A leg \in DOMAIN redirects :
    (\A later \in leg + 1..Len(redirects) : redirects[later].issued # redirects[leg].issued)
      => \E i \in DOMAIN recording : recording[i].leg = leg
=============================================================================
