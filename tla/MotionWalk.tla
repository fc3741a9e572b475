------------------------------ MODULE MotionWalk ------------------------------
(***************************************************************************)
(* The walk that turns a planned path into a trajectory                    *)
(* (crates/core/src/motion): the stops the request and the reversals ask   *)
(* for are moved onto the sample grid of the speed profile, the profile is *)
(* zero there, and the walk then advances the arc one sample interval at a *)
(* time, holding at the stops, turning at the reversals and holding again  *)
(* at the end.                                                             *)
(*                                                                         *)
(* Arc lengths are whole units, Spacing of them between two samples of the *)
(* profile; the last interval is shorter unless the path is a multiple of  *)
(* Spacing.  A speed is only zero or positive, and a positive step is any  *)
(* number of units up to MaxStep.  Time is counted in sample intervals.    *)
(* Positions, headings, offsets and attitude ride on the samples and       *)
(* decide nothing here.                                                    *)
(***************************************************************************)
EXTENDS Integers, FiniteSetsExt, SequencesExt

CONSTANTS
    Spacing,      \* sample_spacing_m in units
    Probe,        \* the look-ahead of the step's acceleration term, in units
    MaxStep,      \* bound: the longest step of one sample interval, in units
    Lengths,      \* the path lengths tried, in units
    Durations,    \* the dwell durations tried, in sample intervals
    MaxDwells,    \* bound: the dwells one request asks for
    MaxTurns,     \* bound: the reversals of one path
    TurnTicks,    \* samples one turn emits
    StartStand,   \* samples of the standing start
    EndStand,     \* samples of the standing end, 0 for none
    SampleBudget  \* sample_budget

ASSUME WalkAssumption ==
    /\ Spacing \in Nat \ {0} /\ Probe \in Nat \ {0} /\ MaxStep \in Nat \ {0}
    /\ Lengths \subseteq {n \in Nat : n > Spacing}
    /\ Durations \subseteq Nat /\ IsFiniteSet(Durations) /\ MaxDwells \in Nat /\ MaxTurns \in Nat
    /\ TurnTicks \in Nat \ {0} /\ StartStand \in Nat /\ EndStand \in Nat
    /\ SampleBudget \in Nat

VARIABLES
    run,        \* what is walked, fixed by the build: see Run
    stage,      \* "start", "walk", "end", "done", or the errors "stuck" and "exhausted"
    arc, time,  \* of assemble_timeline: where the walk is and the next stamp
    nextStop,   \* next_stop, counted from 1
    pending,    \* pending_turns
    last,       \* the last sample: its arc and its stamp
    count,      \* samples.len()
    held,       \* history: the holds emitted, [at, n] in order
    turned      \* history: the turns emitted, [of, at] in order

walkVars == <<run, stage, arc, time, nextStop, pending, last, count, held, turned>>

-----------------------------------------------------------------------------
(* The profile: SpeedProfile::build.                                        *)

Samples(total) == {n \in 0 .. total : n % Spacing = 0} \cup {total}

Gap(x, y) == IF x < y THEN y - x ELSE x - y

\* The sample a stop is moved to; a tie goes to the lower one.
NearestSample(x, total) ==
    Min({y \in Samples(total) : \A z \in Samples(total) : Gap(x, y) <= Gap(x, z)})

\* snap_stops merges two stops that land on one sample, and their durations add up.
Merge(merged, stop) ==
    IF merged # <<>> /\ Last(merged).s = stop.s
    THEN [merged EXCEPT ![Len(merged)].d = @ + stop.d]
    ELSE Append(merged, stop)

SnapStops(stops, total) ==
    FoldLeft(Merge, <<>>, [i \in DOMAIN stops |-> [stops[i] EXCEPT !.s = NearestSample(@, total)]])

\* A set in an order that leaves no ties.
Sorted(S, Before(_, _)) ==
    [k \in 1 .. Cardinality(S) |-> CHOOSE r \in S : Cardinality({q \in S : Before(q, r)}) = k - 1]

\* build_with_backend registers every reversal as a stop of no duration and sorts the stops;
\* the sort is stable, and the reversals come after the dwells.
Registered(dwells, turns) ==
    Sorted(dwells \cup {[s |-> t, d |-> 0] : t \in turns},
            LAMBDA a, b : a.s < b.s \/ (a.s = b.s /\ a.d > b.d))

\* A bug: the pivot stays where the reversal was detected.
Bug_StopArcNear(stops, t) == t

\* stop_arc_near: the pivot moves to the stop nearest to it within a spacing; min_by takes the first.
StopArcNear(stops, t) ==
    LET near == {stops[i].s : i \in {j \in DOMAIN stops : Gap(stops[j].s, t) <= Spacing}}
    IN  IF near = {} THEN t ELSE Min({y \in near : \A z \in near : Gap(y, t) <= Gap(z, t)})

\* The limit is zero at every sample less than half a spacing from a stop, at the end if the
\* run stops there, and the speed is zero at the start of a run from rest.
Zeros(stops, total, fromRest, stopsAtEnd) ==
    {y \in Samples(total) : \E i \in DOMAIN stops : 2 * Gap(y, stops[i].s) < Spacing}
        \cup (IF stopsAtEnd THEN {total} ELSE {}) \cup (IF fromRest THEN {0} ELSE {})

\* speed_at: zero on a zero sample and between two of them, and beyond the end when the
\* whole last interval is zero; next to a single zero sample it is the acceleration ramp.
Still(x) ==
    LET grid  == Samples(run.total)
        below == IF x > run.total THEN Max(grid \ {run.total}) ELSE Max({y \in grid : y <= x})
        above == IF x > run.total THEN run.total ELSE Min({y \in grid : y >= x})
    IN  {below, above} \subseteq run.zeros

-----------------------------------------------------------------------------
(* The request: dwells and reversals anywhere on the path.  A standard run   *)
(* starts from rest and stops at the end, a replanned one is already moving, *)
(* and a periodic lap does neither and has no dwells.                        *)

Modes == {"standard", "replanned", "periodic"}

Dwells(total, mode) ==
    IF mode = "periodic" THEN {{}}
    ELSE UNION {kSubset(k, [s : 0 .. total, d : Durations]) : k \in 0 .. MaxDwells}

Turns(total) == UNION {kSubset(k, 0 .. total - 1) : k \in 0 .. MaxTurns}

\* What build_with_backend hands to assemble_timeline, with the request it comes from.
Run(total, mode, dwells, turns) ==
    LET stops == SnapStops(Registered(dwells, turns), total)
    IN  [total |-> total, mode |-> mode, dwells |-> dwells, turns |-> turns, stops |-> stops,
         zeros |-> Zeros(stops, total, mode = "standard", mode # "periodic")]

PendingTurns(stops, turns) ==
    Sorted({[of |-> t, s |-> StopArcNear(stops, t)] : t \in turns},
            LAMBDA a, b : a.s < b.s \/ (a.s = b.s /\ a.of < b.of))

WalkInit ==
    /\ \E total \in Lengths, mode \in Modes :
         \E dwells \in Dwells(total, mode), turns \in Turns(total) :
            run = Run(total, mode, dwells, turns)
    /\ pending = PendingTurns(run.stops, run.turns)
    /\ stage = "start"
    /\ arc = 0 /\ time = 0 /\ nextStop = 1 /\ count = 0
    /\ last = [at |-> 0, from |-> -1, stamp |-> -1]
    /\ held = <<>> /\ turned = <<>>

-----------------------------------------------------------------------------
(* assemble_timeline.                                                       *)

\* n samples at one arc, the first stamped from.
Emit(n, at, from) ==
    /\ count' = count + n
    /\ last' = IF n = 0 THEN last ELSE [at |-> at, from |-> from, stamp |-> from + n - 1]

StandingStart ==
    /\ stage = "start"
    /\ Emit(StartStand, 0, time)
    /\ time' = time + StartStand
    /\ stage' = "walk"
    /\ UNCHANGED <<run, arc, nextStop, pending, held, turned>>

Walking == stage = "walk" /\ arc < run.total /\ count < SampleBudget

TurnDue == pending # <<>> /\ arc >= Head(pending).s

Turn ==
    /\ Walking /\ TurnDue
    /\ Emit(TurnTicks, arc, time)
    /\ time' = time + TurnTicks
    /\ turned' = Append(turned, [of |-> Head(pending).of, at |-> arc])
    /\ pending' = Tail(pending)
    /\ UNCHANGED <<run, stage, arc, nextStop, held>>

\* A stop of no duration is held for one sample.
Ticks(stop) == IF stop.d = 0 THEN 1 ELSE stop.d

HoldDue == nextStop <= Len(run.stops) /\ run.stops[nextStop].s = arc

\* A bug: the hold is emitted and its time is not counted.
Bug_SampleHere ==
    LET hold == IF HoldDue THEN Ticks(run.stops[nextStop]) ELSE 0
    IN  /\ Emit(1 + hold, arc, time)
        /\ held' = IF HoldDue THEN Append(held, [at |-> arc, n |-> hold]) ELSE held
        /\ nextStop' = IF HoldDue THEN nextStop + 1 ELSE nextStop
        /\ time' = time + 1

\* The moving sample at arc and, on a stop, the hold that continues it.
SampleHere ==
    LET hold == IF HoldDue THEN Ticks(run.stops[nextStop]) ELSE 0
    IN  /\ Emit(1 + hold, arc, time)
        /\ held' = IF HoldDue THEN Append(held, [at |-> arc, n |-> hold]) ELSE held
        /\ nextStop' = IF HoldDue THEN nextStop + 1 ELSE nextStop
        /\ time' = time + 1 + hold

\* The step stops at the end of the path and at the next stop.
Room(next) ==
    Min({run.total - arc} \cup
        {run.stops[i].s - arc : i \in {next} \cap {j \in DOMAIN run.stops : run.stops[j].s > arc}})

\* Zero speed here and at the probe give a step of zero; any other pair a positive one.
NoStep == Still(arc) /\ Still(arc + Probe)

Advance ==
    /\ Walking /\ ~TurnDue /\ ~NoStep
    /\ SampleHere
    /\ \E step \in 1 .. Min({MaxStep, Room(nextStop')}) : arc' = arc + step
    /\ UNCHANGED <<run, stage, pending, turned>>

GiveUp ==
    /\ Walking /\ ~TurnDue /\ NoStep
    /\ stage' = "stuck"
    /\ UNCHANGED <<run, arc, time, nextStop, pending, last, count, held, turned>>

OutOfBudget ==
    /\ stage = "walk" /\ arc < run.total /\ count >= SampleBudget
    /\ stage' = "exhausted"
    /\ UNCHANGED <<run, arc, time, nextStop, pending, last, count, held, turned>>

\* The arrival sample, when the profile stops at the end.
Arrive ==
    /\ stage = "walk" /\ arc >= run.total
    /\ stage' = "end"
    /\ LET n == IF Still(run.total) /\ run.mode # "periodic" /\ count > 0 /\ last.at < run.total
                THEN 1 ELSE 0
       IN  Emit(n, run.total, time) /\ time' = time + n
    /\ UNCHANGED <<run, arc, nextStop, pending, held, turned>>

\* A bug: the hold at the end is forgotten.
Bug_EndStopDue == FALSE

EndStopDue == nextStop <= Len(run.stops) /\ run.stops[nextStop].s = run.total

\* A stop on the end of the path: the walk leaves its loop before it tests that arc.  Its hold
\* continues the last sample, and here the clock moves before a sample is stamped.
HoldAtEnd ==
    /\ stage = "end" /\ EndStopDue
    /\ LET n == Ticks(run.stops[nextStop])
       IN  /\ Emit(n, last.at, time + 1)
           /\ time' = time + n
           /\ held' = Append(held, [at |-> last.at, n |-> n])
    /\ nextStop' = nextStop + 1
    /\ UNCHANGED <<run, stage, arc, pending, turned>>

StandingEnd ==
    /\ stage = "end" /\ ~EndStopDue
    /\ Emit(EndStand, run.total, time)
    /\ time' = time + EndStand
    /\ stage' = "done"
    /\ UNCHANGED <<run, arc, nextStop, pending, held, turned>>

WalkNext == StandingStart \/ Turn \/ Advance \/ GiveUp \/ OutOfBudget \/ Arrive \/ HoldAtEnd \/ StandingEnd

WalkSpec == WalkInit /\ [][WalkNext]_walkVars

-----------------------------------------------------------------------------
(* Properties.                                                              *)

StopAtEnd == \E i \in DOMAIN run.stops : run.stops[i].s = run.total

WalkTypeOK ==
    /\ run.total \in Lengths /\ run.mode \in Modes
    /\ stage \in {"start", "walk", "end", "done", "stuck", "exhausted"}
    /\ arc \in 0 .. run.total
    /\ time \in Nat /\ count \in Nat
    /\ nextStop \in 1 .. Len(run.stops) + 1
    /\ last.at \in 0 .. run.total /\ last.stamp \in Int /\ last.from \in Int
    /\ \A i \in DOMAIN pending : pending[i].of \in run.turns
    /\ \A i \in DOMAIN held : held[i].at \in 0 .. run.total /\ held[i].n \in Nat
    /\ \A i \in DOMAIN turned : turned[i].of \in run.turns

(* The profile brakes to a standstill where the walk holds: the stops lie on *)
(* different samples in rising order, and the walk is never past the next   *)
(* one, so a hold neither happens short of its stop nor is missed.          *)
NextStopAhead ==
    /\ \A i, j \in DOMAIN run.stops : i < j => run.stops[i].s < run.stops[j].s
    /\ \A i \in DOMAIN run.stops : i >= nextStop => arc <= run.stops[i].s

(* What was asked for is what is held: once the walk is over, each sample of *)
(* the profile was held exactly once for all dwells and reversals nearest to *)
(* it together, for the sum of their durations, and no other place was.     *)
(* Two requests that share a sample, a dwell on a reversal and a dwell on   *)
(* the goal are the ones that lose a hold when a step is missing.  (A lap   *)
(* has no arrival sample: a reversal on its seam is held a step short.)     *)
HeldAsAsked ==
    stage = "done" /\ ~(run.mode = "periodic" /\ StopAtEnd) =>
        \A y \in 0 .. run.total :
            LET wanted == {r \in run.dwells : NearestSample(r.s, run.total) = y}
                due    == MapThenSumSet(LAMBDA r : r.d, wanted)
                asked  == wanted # {} \/ \E t \in run.turns : NearestSample(t, run.total) = y
                given  == {i \in DOMAIN held : held[i].at = y}
            IN  IF asked
                THEN \E i \in given : given = {i} /\ held[i].n = Max({1, due})
                ELSE given = {}

(* No stop is missed on the way, and at the end all have been held.         *)
StopsAreMet == NextStopAhead /\ HeldAsAsked

(* The runner turns only where it stands: each reversal before the end is   *)
(* turned at once, after the hold of the stop before and before the one at  *)
(* its own arc, on a zero sample of the profile less than a spacing away.   *)
TurnsAtStandstill ==
    /\ \A i \in DOMAIN turned :
          /\ turned[i].at \in run.zeros
          /\ Gap(turned[i].at, turned[i].of) < Spacing
          /\ \A j \in DOMAIN turned : turned[i].of = turned[j].of => i = j
    /\ stage = "done" =>
          \A t \in run.turns : NearestSample(t, run.total) < run.total => \E i \in DOMAIN turned : turned[i].of = t

(* Every standstill asked for is one, where and for as long as it was asked. *)
StandsAsAsked == StopsAreMet /\ TurnsAtStandstill

(* A sample is stamped one interval after the sample before it, through     *)
(* turns, holds and arrival, unless a stop sits on the end of the path.     *)
StampsFollow ==
    [][count' > count => last'.from = last.stamp + 1 \/ StopAtEnd]_walkVars

(* "A dwell requested at the goal therefore needs its own handling; without *)
(* it the hold was silently dropped" (tests/motion.rs:748-750): a request   *)
(* whose one dwell is on the goal is walked to the end.  The code reports   *)
(* an error when the last interval is shorter than half a spacing, because  *)
(* the stop zeroes the sample before the end as well.                       *)
GoalDwellIsHeld ==
    run.turns = {} /\ {r.s : r \in run.dwells} = {run.total} => stage # "stuck"

(* "A zero limit is the only way to get here -- the quadratic term keeps a  *)
(* standing start moving -- and it means the profile forbids passing this   *)
(* point" (motion/mod.rs:793-796): nothing but stops is zero in this model, *)
(* and every stop is meant to be passed.  Two standstills two samples apart *)
(* break it too, when Probe is two samples: zero here and zero at the probe.*)
StopsArePassed == stage # "stuck"

(* "Time stamps are strictly increasing" (tests/motion.rs:619, and          *)
(* docs/en/usage.md:307-308).  A hold at the end followed by a standing end *)
(* stamps two samples alike.                                                *)
StampsIncrease == [][count' > count => last'.from > last.stamp]_walkVars
=============================================================================
