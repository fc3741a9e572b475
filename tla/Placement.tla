------------------------------ MODULE Placement ------------------------------
(***************************************************************************)
(* Where a runner is put beside the centre line (crates/core/src/motion):  *)
(* the lateral offset is drawn sample by sample under the limits of ground *)
(* and bend (offset.rs), and the passes of mod.rs then work it over: the   *)
(* turns sweep it around their pivot, the placement, the bound on its      *)
(* second difference, the cap by what is clear on the side the runner is   *)
(* on, and the freezing of the holds.                                      *)
(*                                                                         *)
(* A trajectory is a sequence of samples that move, turn or stand.  Across *)
(* each of them lies a strip of ground, the lateral positions -Wide..Wide  *)
(* along the normal the runner faces; of a strip some positions are        *)
(* passable, and of those some are clear of obstacles by the safe radius.  *)
(* Left is positive.                                                       *)
(***************************************************************************)
EXTENDS Integers, Sequences, FiniteSetsExt, SequencesExt

CONSTANTS Wide,       \* bound: positions to a side
          Walks,      \* the sequences of "move", "turn" and "stand" tried
          Strips,     \* strips of ground: [passable, clear]
          Drawn,      \* values of the drift
          Bends,      \* what a bend leaves of its inside: 0..Wide to the left
          Bound,      \* a_lat_max * dt * dt
          Slope       \* OFFSET_CAP_SLOPE, for the arc of one moving sample

ASSUME PlacementAssumption ==
  /\ Wide \in Nat \ {0} /\ Bound \in Nat /\ Slope \in Nat
  /\ Drawn \subseteq -Wide..Wide /\ Bends \subseteq 0..Wide
  /\ \A strip \in Strips : strip.clear \subseteq strip.passable /\ strip.passable \subseteq -Wide..Wide
  /\ \A walk \in Walks : walk \in Seq({"move", "turn", "stand"}) /\ "move" \in Range(walk)

VARIABLES pass,    \* the pass that comes next
          kind,    \* of the samples
          strip,   \* of the samples drawn so far
          drift,   \* of generate: [limit, smoothed, previous]
          offset,  \* offset_m
          place    \* position: [at, side], the sample whose strip it is on and where

placementVars == <<pass, kind, strip, drift, offset, place>>

Count == Len(kind)
Moves(i) == kind[i] = "move"
Stands(i) == kind[i] = "stand"

Size(n) == IF n < 0 THEN -n ELSE n
Side(n) == IF n < 0 THEN -1 ELSE 1
Held(n, low, high) == Max({low, Min({n, high})})

(* low_pass: half of the way, the half unit in the way's favour.           *)
Halfway(n, target) ==
  IF target >= n THEN n + (target - n + 1) \div 2 ELSE n - (n - target + 1) \div 2

(* In the drift: half of the way or all of it, by how long the sample took.*)
Between(n, target) == {Halfway(n, target), target}

(* The arc moves with the samples that move.                               *)
Span(i) == IF Moves(i) /\ i < Count THEN 1 ELSE 0

-----------------------------------------------------------------------------
(* How far out a side may be used. *)

(* The searches for a limit halve what is left until it cannot be told     *)
(* apart: they end on a place found legal, or on the whole of it when      *)
(* nothing on the way was found illegal.                                   *)
Halved(legal, side, wanted) ==
  LET halve[part \in (0..Wide) \X (0..Wide)] ==
        LET low    == part[1]
            high   == part[2]
            middle == (low + high) \div 2
        IN  IF high - low <= 1 THEN IF side * high \in legal THEN high ELSE low
            ELSE IF side * middle \in legal THEN halve[<<middle, high>>] ELSE halve[<<low, middle>>]
  IN  halve[<<0, wanted>>]

(* environment_limit                                                       *)
EnvironmentLimit(ground, wanted) ==
  IF wanted \in ground.clear THEN Size(wanted)
  ELSE IF 0 \notin ground.clear THEN 0
  ELSE Halved(ground.clear, Side(wanted), Size(wanted))

(* legal_limit of a turn asks whether the ground is passable, no more.     *)
LegalLimit(ground, side, magnitude) ==
  IF 0 \notin ground.passable THEN 0 ELSE Halved(ground.passable, side, magnitude)

-----------------------------------------------------------------------------
(* generate: one profile sample. *)

Draw ==
  LET i == Len(strip) + 1
  IN  /\ pass = "draw" /\ i <= Count
      /\ \E ground \in Strips, raw \in Drawn, bend \in Bends :
           LET target   == EnvironmentLimit(ground, raw)
               limit    == IF i = 1 \/ target >= drift.limit THEN {target}
                           ELSE {Min({n, target}) : n \in Between(drift.limit, target)}
               smoothed == IF i = 1 THEN {raw} ELSE Between(drift.smoothed, raw)
           IN  \E l \in limit, s \in smoothed :
                 LET legal  == Held(s, -l, l)
                     inside == Min({legal, bend})
                     ramped == IF i > 1 /\ Size(inside) > Size(drift.previous)
                               THEN {Held(n, -l, l) : n \in Between(drift.previous, inside)}
                               ELSE {inside}
                 IN  \E applied \in ramped :
                       /\ drift' = [limit |-> l, smoothed |-> s, previous |-> applied]
                       /\ strip' = Append(strip, ground)
                       /\ offset' = Append(offset, applied)
                       /\ place' = Append(place, [at |-> i, side |-> applied])
      /\ UNCHANGED <<pass, kind>>

Undrawn == [limit |-> 0, smoothed |-> 0, previous |-> 0]

Drew ==
  /\ pass = "draw" /\ Len(strip) = Count
  /\ pass' = "turn"
  /\ drift' = Undrawn
  /\ UNCHANGED <<kind, strip, offset, place>>

-----------------------------------------------------------------------------
(* apply_turns *)

TurnRuns == {i \in 2..Count : kind[i] = "turn" /\ kind[i - 1] # "turn"}
LastOf(i) == Max({j \in i..Count : \A k \in i..j : kind[k] = kind[i]})

(* Out to the arrival's offset at both ends of the turn, in to what all of *)
(* its directions allow at its middle.                                     *)
Dip(first, i) ==
  LET magnitude == Size(offset[first - 1])
      floor == Min({magnitude} \cup
                   {LegalLimit(strip[j], Side(offset[first - 1]), magnitude) : j \in first..LastOf(first)})
      span  == Max({1, LastOf(first) - first})
      shape == span - Size(2 * (i - first) - span)
      want  == magnitude - ((magnitude - floor) * shape) \div span
  IN  Side(offset[first - 1])
        * Min({want, LegalLimit(strip[i], Side(offset[first - 1]), want)})

(* The sample after the turn carries on with the offset it ended on.       *)
Turned(i) ==
  IF \E first \in TurnRuns : i \in first..LastOf(first)
  THEN Dip(CHOOSE first \in TurnRuns : i \in first..LastOf(first), i)
  ELSE IF \E first \in TurnRuns : i = LastOf(first) + 1
       THEN LET first == CHOOSE f \in TurnRuns : i = LastOf(f) + 1 IN Dip(first, LastOf(first))
       ELSE offset[i]

ApplyTurns ==
  /\ pass = "turn"
  /\ pass' = "bound"
  /\ offset' = [i \in 1..Count |-> Turned(i)]
  /\ place' = [i \in 1..Count |-> IF kind[i] = "turn" \/ Moves(i)
                                  THEN [at |-> i, side |-> Turned(i)] ELSE place[i]]
  /\ UNCHANGED <<kind, strip, drift>>

-----------------------------------------------------------------------------
(* limit_offset_acceleration *)

(* One of the two passes of the filter, over the samples that move.        *)
Filtered(values) ==
  LET before(i) == Max({1} \cup {j \in 2..i - 1 : Moves(j)})
      value[i \in 1..Count] ==
        IF i = 1 THEN values[1]
        ELSE IF Moves(i) THEN Halfway(value[before(i)], values[i]) ELSE values[i]
  IN  value

(* The sweeps hold each value to what its two neighbours extrapolate to.   *)
Swept(values) ==
  LET forward[i \in 1..Count] ==
        IF i <= 2 THEN values[i]
        ELSE Held(values[i], 2 * forward[i - 1] - forward[i - 2] - Bound,
                                2 * forward[i - 1] - forward[i - 2] + Bound)
      backward[i \in 1..Count] ==
        IF i >= Count - 1 THEN forward[i]
        ELSE Held(forward[i], 2 * backward[i + 1] - backward[i + 2] - Bound,
                                 2 * backward[i + 1] - backward[i + 2] + Bound)
  IN  backward

LimitAcceleration ==
  LET bounded == IF Count < 3 THEN offset ELSE Swept(Filtered(Filtered(offset)))
  IN  /\ pass = "bound"
      /\ pass' = "cap"
      /\ offset' = bounded
      /\ place' = [i \in 1..Count |-> IF Moves(i) THEN [at |-> i, side |-> bounded[i]] ELSE place[i]]
      /\ UNCHANGED <<kind, strip, drift>>

-----------------------------------------------------------------------------
(* cap_offsets *)

Bug_CapLimit(i) ==
  IF 0 \notin strip[i].clear THEN 0
  ELSE Halved(strip[i].clear, 1, Min({Wide, Size(offset[i])}))

(* The probe is on the side the runner is on.                              *)
CapLimit(i) ==
  IF 0 \notin strip[i].clear THEN 0
  ELSE Halved(strip[i].clear, Side(offset[i]), Min({Wide, Size(offset[i])}))

Bug_Ramped(caps) == caps

(* Two rounds, each backwards and then forwards along the arc.             *)
Ramped(caps) ==
  LET round(cap) ==
        LET back[i \in 1..Count] ==
              IF i = Count THEN cap[i] ELSE Min({cap[i], back[i + 1] + Slope * Span(i)})
            on[i \in 1..Count] ==
              IF i = 1 THEN back[i] ELSE Min({back[i], on[i - 1] + Slope * Span(i - 1)})
        IN  on
  IN  round(round(caps))

(* The search stops just short of the whole offset, so every sample that   *)
(* has one is placed again.                                                *)
CapOffsets ==
  LET cap == Ramped([i \in 1..Count |-> CapLimit(i)])
  IN  /\ pass = "cap"
      /\ pass' = "freeze"
      /\ offset' = [i \in 1..Count |-> IF cap[i] >= Size(offset[i]) THEN offset[i]
                                       ELSE Side(offset[i]) * cap[i]]
      /\ place' = [i \in 1..Count |-> IF offset[i] = 0 THEN place[i]
                                      ELSE [at |-> i, side |-> Side(offset[i]) * cap[i]]]
      /\ UNCHANGED <<kind, strip, drift>>

-----------------------------------------------------------------------------
(* freeze_stands: a hold continues from the sample before it that does not *)
(* stand, or from the first that moves after it.                           *)

Anchor(i) ==
  LET before == {j \in 1..i - 1 : ~Stands(j)}
      after  == {j \in i + 1..Count : Moves(j)}
  IN  IF before # {} THEN Max(before) ELSE IF after # {} THEN Min(after) ELSE i

FreezeStands ==
  /\ pass = "freeze"
  /\ pass' = "done"
  /\ offset' = [i \in 1..Count |-> IF Stands(i) THEN offset[Anchor(i)] ELSE offset[i]]
  /\ place' = [i \in 1..Count |-> IF Stands(i) THEN place[Anchor(i)] ELSE place[i]]
  /\ UNCHANGED <<kind, strip, drift>>

-----------------------------------------------------------------------------
PlacementInit ==
  /\ pass = "draw"
  /\ kind \in Walks
  /\ strip = <<>> /\ offset = <<>> /\ place = <<>>
  /\ drift = Undrawn

PlacementNext ==
  Draw \/ Drew \/ ApplyTurns \/ LimitAcceleration \/ CapOffsets \/ FreezeStands

PlacementSpec == PlacementInit /\ [][PlacementNext]_placementVars

-----------------------------------------------------------------------------
(* Properties. *)

PlacementTypeOK ==
  /\ pass \in {"draw", "turn", "bound", "cap", "freeze", "done"}
  /\ Len(strip) <= Count /\ Len(offset) = Len(strip) /\ Len(place) = Len(strip)
  /\ Range(strip) \subseteq Strips
  /\ \A i \in DOMAIN place : place[i].at \in 1..Count

(* A strip has no gap on either side of the centre.                        *)
Plain(ground) ==
  \A n \in ground.clear, m \in -Wide..Wide :
    0 \in ground.clear /\ m * n >= 0 /\ Size(m) <= Size(n) => m \in ground.clear

(* Whatever was drawn, turned and bounded before it, the cap leaves every  *)
(* sample that moves clear of obstacles, unless its centre is not.         *)
PlacedWhereClear ==
  pass \in {"freeze", "done"} =>
    \A i \in 1..Count :
      Moves(i) /\ 0 \in strip[i].clear /\ Plain(strip[i]) =>
        place[i].side \in strip[place[i].at].clear

(* The runner is never moved sideways in a step: what the cap may change   *)
(* along the arc is bounded, the samples of a turn share one offset with   *)
(* its entry, and a hold is where the sample it continues from is.         *)
MovesWithoutSteps ==
  pass = "done" =>
    \A i \in 1..Count - 1 :
      /\ ~Stands(i) /\ ~Stands(i + 1) => Size(Size(offset[i + 1]) - Size(offset[i])) <= Slope * Span(i)
      /\ Stands(i + 1) => place[i + 1] = place[i]

(* What five passes leave of a runner's sideways offsets is both clear of   *)
(* obstacles and free of jumps: neither is bought by the other.            *)
PlacedSoundly == PlacedWhereClear /\ MovesWithoutSteps

-----------------------------------------------------------------------------
(* What the tests say of a trajectory (crates/core/tests/motion.rs, "Every *)
(* position is on passable ground"), on ground with a gap: the cap of a    *)
(* sample was found legal, a smaller one on the way to it was not looked   *)
(* at.                                                                     *)
TrajectoryOnPassableGround ==
  pass = "done" =>
    \A i \in 1..Count :
      0 \in strip[place[i].at].clear => place[i].side \in strip[place[i].at].passable
=============================================================================
