------------------------------- MODULE Requests -------------------------------
(***************************************************************************)
(* A request, from the form to the run: the draft the workspace edits      *)
(* (web/src/components/forms, web/src/stores/workspace.ts), the body it    *)
(* sends, what the service reads in it and refuses, and the configuration  *)
(* the worker builds (crates/service/src/api/dto/simulation.rs).  Clients  *)
(* that are not the page post bodies of their own.  The checks exist twice,*)
(* in the form and in the service, and the body is read twice, when it is  *)
(* submitted and when it runs; the library changes in between.             *)
(*                                                                         *)
(* Numbers are hundredths.  A point is complete (a place), half typed or   *)
(* blank.  `individual` and the 64-bit integers end at small bounds.       *)
(***************************************************************************)
EXTENDS Integers, Sequences, SequencesExt, FiniteSets, Functions

CONSTANTS
  Place,          \* complete points
  MapIds,         \* ids of the library
  Typed,          \* numbers a reader types, in hundredths
  Knobs,          \* overrides a reader touches
  Bodies,         \* what other clients post
  U32, U64,       \* bounds: the largest individual, the largest seed or lap count
  MaxResolution,  \* the coarsest cell of a synthetic map
  MaxCells,       \* the most cells the generator rasterises
  MaxEdits,       \* bound: edits of the draft
  MaxStops        \* bound: waypoints, and checkpoints

ASSUME RequestBounds ==
  /\ {U32, U64, MaxResolution, MaxCells, MaxEdits, MaxStops} \subseteq Nat
  /\ Typed \subseteq Nat

VARIABLES
  draft,    \* workspace.draft
  edits,    \* edits so far
  shelf,    \* ids of the maps in the library
  posted    \* the latest submission: [from, body, answer, shown, map, ids, ran]

requestVars == <<draft, edits, shelf, posted>>

Min2(a, b) == IF a < b THEN a ELSE b
Max2(a, b) == IF a > b THEN a ELSE b
Trunc(n) == (n \div 100) * 100
IsInteger(n) == n = Trunc(n)
With(f, k, v) == [x \in DOMAIN f \cup {k} |-> IF x = k THEN v ELSE f[x]]
Nothing == [x \in {} |-> 0]

-------------------------------------------------------------------------------
(* The draft.                                                              *)

Empty == -1                     \* the null of a number field
Point == Place \cup {"blank", "half"}
IsCompletePoint(p) == p \in Place

Rates == {"sensors.gnss_rate_hz", "sensors.imu_rate_hz", "sensors.mag_rate_hz",
          "sensors.baro_rate_hz"}
SensorNumbers == Rates \cup {"sensors.jitter_sigma_m", "sensors.reference_pressure_pa"}
SensorChoices == {"sensors.multipath_enabled", "sensors.magnetic_disturbance_enabled",
                  "sensors.jitter_enabled", "sensors.mount", "sensors.force_deterministic_events"}

DefaultForm ==
  [map |-> "none", mode |-> "standard", start |-> "blank", goal |-> "blank",
   waypoints |-> <<>>, reference |-> "blank", laps |-> 100, checkpoints |-> <<>>,
   preset |-> "moderate", overrides |-> Nothing, seed |-> 12300, individual |-> 0,
   numbers |-> [f \in SensorNumbers |-> Empty], choices |-> [f \in SensorChoices |-> "default"],
   with_metrics |-> "on", backend |-> "default", motionMode |-> "default", smooth |-> "on"]

NewWaypoint(p) == [at |-> p, how |-> "pass", wait |-> 1000, radius |-> 500]
NewCheckpoint == [at |-> "blank", issued |-> 0]

(* The recipes of recipes.ts.                                              *)
Recipes ==
  {DefaultForm,
   [DefaultForm EXCEPT !.preset = "race", !.mode = "loop", !.laps = 400, !.seed = 20200,
                       !.overrides = "pace_strategy" :> <<"text", "positive_split">>],
   [DefaultForm EXCEPT
      !.numbers = [f \in SensorNumbers |->
        CASE f = "sensors.gnss_rate_hz" -> 100 [] f = "sensors.imu_rate_hz" -> 10000
          [] f = "sensors.mag_rate_hz" -> 5000 [] f = "sensors.baro_rate_hz" -> 1000
          [] OTHER -> Empty],
      !.choices = [f \in SensorChoices |-> IF f = "sensors.mount" THEN "body" ELSE "on"]],
   [DefaultForm EXCEPT !.with_metrics = "off",
      !.choices = [f \in SensorChoices |->
        IF f \in {"sensors.mount", "sensors.force_deterministic_events"} THEN "default" ELSE "off"]]}

(* The fields of PersonParams the service takes, and those of its sensor    *)
(* noise; `overrideGroups` draws every one of them.                        *)
Exceeding    == {"target_speed", "step_frequency"}
Positive     == {"a_max", "a_lat_max", "beta_logit", "fatigue_tau_s", "pace_drift_tau_s",
                 "turn_omega_max"}
NotNegative  == {"look_ahead_m", "bounce_amplitude_m", "pace_drift_sigma"}
Unchecked    == {"lateral_offset_mean", "lateral_offset_std", "lateral_offset_tau_s",
                 "split_amplitude", "lean_max_deg", "head_look_ahead_s", "harmonic_2_ratio",
                 "harmonic_3_ratio"}
PersonNumbers == Exceeding \cup Positive \cup NotNegative \cup Unchecked
                   \cup {"k_down", "critical_speed_ratio"}
PersonFields == PersonNumbers \cup {"label", "pace_strategy"}
NoiseNumbers ==
  {"sensors.gnss_bias_sigma_m", "sensors.gnss_bias_tau_s", "sensors.gnss_white_sigma_m",
   "sensors.gnss_speed_sigma", "sensors.accel_bias_sigma", "sensors.accel_white_sigma",
   "sensors.gyro_bias_sigma", "sensors.gyro_white_sigma", "sensors.gyro_step_amplitude_rps",
   "sensors.mag_bias_sigma_ut", "sensors.mag_white_sigma_ut", "sensors.baro_white_sigma_pa"}
NoiseFlag == "sensors.gnss_correlated_velocity"
NoiseFields == NoiseNumbers \cup {NoiseFlag}
AcceptedFields == PersonFields \cup {"sensors"}
Offered == PersonFields \cup NoiseFields

Strategies == {"even", "positive_split", "negative_split"}
KindOf(name) ==
  IF name \in {"pace_strategy", NoiseFlag} THEN "choice"
  ELSE IF name = "label" THEN "text" ELSE "number"
Values(name) ==
  CASE KindOf(name) = "number" -> {<<"number", v>> : v \in Typed}
    [] KindOf(name) = "text"   -> {<<"text", "">>, <<"text", "runner">>}
    [] name = NoiseFlag        -> {<<"text", "true">>, <<"text", "false">>}
    [] OTHER                   -> {<<"text", strategy>> : strategy \in Strategies}

-------------------------------------------------------------------------------
(* Edits.  A patch replaces fields of the draft and leaves the others.     *)

Patch(changed) ==
  /\ edits < MaxEdits
  /\ edits' = edits + 1
  /\ draft' = changed
  /\ UNCHANGED <<shelf, posted>>

(* A coordinate is typed or cleared (setPointCoordinate), a place is       *)
(* picked, or the point is removed.                                        *)
Retyped(p) == IF p = "blank" THEN {"half"} ELSE Place \cup IF p = "half" THEN {"blank"} ELSE {"half"}
Repositioned(p) == (Retyped(p) \cup Place) \ {p}

SetPoint ==
  \E end \in {"start", "goal", "reference"} :
    \E p \in Repositioned(draft[end]) \cup ({"blank"} \ {draft[end]}) :
      Patch([draft EXCEPT ![end] = p])

(* A click on empty ground: the first end the mode still lacks.            *)
PlaceNext(p) ==
  LET lacking == SelectSeq(<<"start", IF draft.mode = "loop" THEN "reference" ELSE "goal">>,
                           LAMBDA end : ~IsCompletePoint(draft[end]))
  IN  lacking # <<>> /\ Patch([draft EXCEPT ![lacking[1]] = p])

AddWaypoint(p) ==
  /\ Len(draft.waypoints) < MaxStops
  /\ Patch([draft EXCEPT !.waypoints =
              Append(@, IF p = "blank" THEN NewWaypoint(p) ELSE [NewWaypoint(p) EXCEPT !.wait = 0])])

SetWaypoint(i) ==
  LET waypoint == draft.waypoints[i]
  IN  \E changed \in {[waypoint EXCEPT !.at = p] : p \in Repositioned(waypoint.at)}
                 \cup {[waypoint EXCEPT !.how = how] : how \in {"pass", "slow", "dwell"} \ {waypoint.how}}
                 \cup {[waypoint EXCEPT !.wait = v] : v \in Typed}
                 \cup {[waypoint EXCEPT !.radius = v] : v \in Typed} :
        Patch([draft EXCEPT !.waypoints[i] = changed])

AddCheckpoint ==
  /\ Len(draft.checkpoints) < MaxStops
  /\ Patch([draft EXCEPT !.checkpoints = Append(@, NewCheckpoint)])

SetCheckpoint(i) ==
  LET checkpoint == draft.checkpoints[i]
  IN  \E changed \in {[checkpoint EXCEPT !.at = p] : p \in Repositioned(checkpoint.at)}
                 \cup {[checkpoint EXCEPT !.issued = v] : v \in Typed} :
        Patch([draft EXCEPT !.checkpoints[i] = changed])

RemovePoint ==
  \/ \E i \in DOMAIN draft.waypoints : Patch([draft EXCEPT !.waypoints = RemoveAt(@, i)])
  \/ \E i \in DOMAIN draft.checkpoints : Patch([draft EXCEPT !.checkpoints = RemoveAt(@, i)])

(* A cleared override leaves the draft; an emptied text stays in it.       *)
SetOverride ==
  \E name \in Knobs :
    \/ \E v \in Values(name) : Patch([draft EXCEPT !.overrides = With(@, name, v)])
    \/ /\ name \in DOMAIN draft.overrides
       /\ Patch([draft EXCEPT !.overrides = Restrict(@, DOMAIN @ \ {name})])

SetSensor ==
  \/ \E f \in SensorNumbers, v \in Typed \cup {Empty} : Patch([draft EXCEPT !.numbers[f] = v])
  \/ \E f \in SensorChoices \ {"sensors.mount"}, v \in {"default", "on", "off"} :
       Patch([draft EXCEPT !.choices[f] = v])
  \/ \E v \in {"default", "body", "head"} : Patch([draft EXCEPT !.choices["sensors.mount"] = v])

SetSwitch ==
  \/ \E mode \in {"standard", "loop", "dynamic"} : Patch([draft EXCEPT !.mode = mode])
  \/ \E laps \in {v \in Typed : v >= 100} : Patch([draft EXCEPT !.laps = laps])
  \/ \E preset \in {"jog", "moderate", "race"} : Patch([draft EXCEPT !.preset = preset])
  \/ \E seed \in Typed : Patch([draft EXCEPT !.seed = seed])
  \/ \E individual \in Typed \cup {Empty} : Patch([draft EXCEPT !.individual = individual])
  \/ \E on \in {"on", "off"} : Patch([draft EXCEPT !.with_metrics = on])
  \/ \E on \in {"on", "off"} : Patch([draft EXCEPT !.smooth = on])
  \/ \E backend \in {"auto", "cpu", "gpu"} : Patch([draft EXCEPT !.backend = backend])
  \/ \E mode \in {"default", "jog", "moderate", "race"} : Patch([draft EXCEPT !.motionMode = mode])
  \/ \E id \in shelf \cup {"none"} : Patch([draft EXCEPT !.map = id])

ApplyRecipe == \E recipe \in Recipes : Patch(recipe)

-------------------------------------------------------------------------------
(* What the form sends.                                                    *)

Incomplete == [mode |-> "none", start |-> "blank", end |-> "blank", stops |-> <<>>, laps |-> 0]

Stops(points, at(_), sent(_)) ==
  LET complete == SelectSeq(points, LAMBDA point : IsCompletePoint(at(point)))
  IN  [i \in DOMAIN complete |-> sent(complete[i])]

(* routeSpecOf: only the fields of the mode on screen.  The duration goes  *)
(* with a dwell; a loop without a reference sends none.                    *)
RouteSpecOf(d) ==
  LET at(point) == point.at
      waypoint(w) == [at |-> w.at, how |-> w.how, radius |-> w.radius, issued |-> 0,
                      wait |-> IF w.how = "dwell" THEN w.wait ELSE 0]
      checkpoint(c) == [at |-> c.at, how |-> "checkpoint", radius |-> 0, wait |-> 0,
                        issued |-> Max2(0, c.issued)]
      ends(end) == [mode |-> d.mode, start |-> d.start, end |-> end, stops |-> <<>>, laps |-> 0]
  IN  IF ~IsCompletePoint(d.start) \/ (d.mode # "loop" /\ ~IsCompletePoint(d.goal))
        THEN Incomplete
      ELSE IF d.mode = "standard"
        THEN [ends(d.goal) EXCEPT !.stops = Stops(d.waypoints, at, waypoint)]
      ELSE IF d.mode = "loop"
        THEN [ends(IF IsCompletePoint(d.reference) THEN d.reference ELSE "none")
                EXCEPT !.laps = Max2(100, Trunc(d.laps))]
      ELSE [ends(d.goal) EXCEPT !.stops = Stops(d.checkpoints, at, checkpoint)]

(* filterOverrides: a field of the noise goes with the group as a whole.   *)
FilterOverrides(overrides, accepted) ==
  Restrict(overrides, {name \in DOMAIN overrides :
    name \in accepted \/ (name \in NoiseFields /\ "sensors" \in accepted)})

(* overridesOf: blank texts are left out.                                  *)
OverridesOf(overrides) ==
  Restrict(overrides, {name \in DOMAIN overrides : overrides[name] # <<"text", "">>})

(* sensorSettingsOf, settingsOf: a field of the service's own is left out. *)
SettingsOf(d) ==
  LET numbers == {f \in SensorNumbers : d.numbers[f] # Empty}
      choices == {f \in SensorChoices : d.choices[f] # "default"}
      backend == IF d.backend = "default" THEN {} ELSE {"backend"}
      mode == IF d.motionMode = "default" THEN {} ELSE {"mode"}
  IN  [f \in numbers \cup choices \cup backend \cup mode \cup {"with_metrics", "route.smooth"} |->
         CASE f \in numbers -> d.numbers[f]
           [] f \in choices -> d.choices[f]
           [] f = "backend" -> d.backend
           [] f = "mode" -> d.motionMode
           [] f = "with_metrics" -> d.with_metrics
           [] f = "route.smooth" -> d.smooth]

(* buildSimulationRequest; the preview passes the fields the presets name. *)
BuildSimulationRequest(d, accepted) ==
  LET overrides == IF accepted = {} THEN d.overrides ELSE FilterOverrides(d.overrides, accepted)
  IN  [map |-> IF d.map = "none" THEN [kind |-> "none"] ELSE [kind |-> "id", id |-> d.map],
       route |-> RouteSpecOf(d), preset |-> d.preset, overrides |-> OverridesOf(overrides),
       seed |-> Max2(0, Trunc(d.seed)), individual |-> Max2(0, Trunc(d.individual)),
       settings |-> SettingsOf(d)]

(* validateForm has nothing to say.                                        *)
Valid(d) ==
  /\ IsCompletePoint(d.start)
  /\ d.mode # "loop" => IsCompletePoint(d.goal) /\ d.goal # d.start
  /\ d.mode = "loop" => d.laps >= 100
  /\ d.mode = "dynamic" => d.checkpoints # <<>>
  /\ \A i \in DOMAIN d.waypoints :
       /\ IsCompletePoint(d.waypoints[i].at)
       /\ d.waypoints[i].how = "dwell" => d.waypoints[i].wait >= 0
       /\ d.waypoints[i].how = "slow" => d.waypoints[i].radius > 0
  /\ \A i \in DOMAIN d.checkpoints :
       IsCompletePoint(d.checkpoints[i].at) /\ d.checkpoints[i].issued >= 0
  /\ \A f \in Rates : d.numbers[f] = Empty \/ d.numbers[f] > 0
  /\ d.seed >= 0
  /\ d.individual >= 0 /\ IsInteger(d.individual)

-------------------------------------------------------------------------------
(* What the service makes of a body.                                       *)

(* serde: the widths of the integers, the types and names of the overrides.*)
Parses(body) ==
  /\ body.individual \in 0..U32 /\ body.seed \in 0..U64 /\ body.route.laps \in 0..U64
  /\ body.route.mode # "none"
  /\ \A name \in DOMAIN body.overrides :
       LET kind == body.overrides[name][1]  value == body.overrides[name][2]
       IN  \/ name \in PersonNumbers \cup NoiseNumbers /\ kind = "number"
           \/ name = "label" /\ kind = "text"
           \/ name = "pace_strategy" /\ kind = "text" /\ value \in Strategies
           \/ name = NoiseFlag /\ kind = "flag"

(* PersonSpec::resolve and PersonParams::validate.                         *)
PersonHolds(name, v) ==
  /\ name \in Exceeding => v > 50
  /\ name \in Positive => v > 0
  /\ name \in NotNegative => v >= 0
  /\ name = "k_down" => v >= 100
  /\ name = "critical_speed_ratio" => v >= 0 /\ v < 100

Resolves(body) ==
  /\ body.preset \in {"jog", "moderate", "race", ""}
  /\ \A name \in DOMAIN body.overrides \cap PersonNumbers : PersonHolds(name, body.overrides[name][2])

(* The person: an override replaces the value of the preset.               *)
Person(body) ==
  [preset |-> IF body.preset = "" THEN "moderate" ELSE body.preset,
   set |-> [name \in Offered |->
              IF name \in DOMAIN body.overrides THEN <<body.overrides[name]>> ELSE <<>>]]

(* The settings, by the structure they belong to.                          *)
TopSettings ==
  {"mode", "weight_override", "attention", "backend", "coarse_enabled", "coarse_max_size_m",
   "roadmap", "with_metrics"}
RouteSettings ==
  {"route.epsilon", "route.single_leg_epsilon", "route.turn_penalty", "route.max_expansions",
   "route.candidates_k", "route.penalty_mu", "route.max_overlap_ratio", "route.d_attach_m",
   "route.corner_radius_m", "route.smooth", "route.sample_spacing_m",
   "route.smoothing_iterations"}
MotionSettings ==
  {"motion.sample_rate_hz", "motion.start_stand_s", "motion.end_stand_s",
   "motion.maneuvers_enabled", "motion.profile_spacing_m", "motion.bounce_beta2",
   "motion.head_look_ahead_s", "motion.turn_alpha"}
OffsetSettings ==
  {"offset.mean_m", "offset.std_m", "offset.tau_s", "offset.smoothing_s", "offset.a_lat_max"}
LimitSettings ==
  {"limits.look_ahead_m", "limits.look_ahead_mode", "limits.a_lat_max", "limits.k_down",
   "limits.grade_clamp"}
SensorSettings == SensorNumbers \cup SensorChoices
Setting ==
  TopSettings \cup RouteSettings \cup MotionSettings \cup OffsetSettings \cup LimitSettings
    \cup SensorSettings

(* What a value becomes in the configuration: nothing when it is refused.  *)
If(condition, v) == IF condition THEN {v} ELSE {}
MaxRate == 100000

(* AttentionSettings::clip_bounds: a whole number of rows, ordered bounds. *)
GateHolds(gate) ==
  /\ gate.context > 0 /\ gate.w_q > 0 /\ gate.w_q % gate.context = 0
  /\ 0 < gate.clip_min /\ gate.clip_min <= gate.clip_max

(* RoadmapSettings::to_options.                                            *)
RoadmapHolds(roadmap) ==
  roadmap.kind = "generate" => roadmap.spacing > 0 /\ roadmap.radius > 0

TopApply(f, v) ==
  CASE f = "weight_override" -> If(\A i \in DOMAIN v : v[i] >= 0, v)
    [] f = "attention" -> If(GateHolds(v), v)
    [] f = "roadmap" -> If(RoadmapHolds(v), v)
    [] f = "coarse_max_size_m" -> If(v > 0, v)
    [] OTHER -> {v}

RouteApply(f, v) ==
  CASE f = "route.sample_spacing_m" -> If(v > 0, Max2(v, 1))
    [] f \in {"route.epsilon", "route.single_leg_epsilon", "route.penalty_mu",
              "route.d_attach_m", "route.corner_radius_m"} -> If(v > 0, v)
    [] f = "route.turn_penalty" -> If(v >= 0, v)
    [] f = "route.max_overlap_ratio" -> If(v >= 0 /\ v <= 100, v)
    [] f \in {"route.max_expansions", "route.candidates_k", "route.smoothing_iterations"} ->
         {Max2(v, 100)}
    [] OTHER -> {v}

MotionApply(f, v) ==
  CASE f = "motion.sample_rate_hz" -> If(v > 0 /\ v <= MaxRate, v)
    [] f \in {"motion.start_stand_s", "motion.end_stand_s", "motion.head_look_ahead_s"} ->
         {Max2(v, 0)}
    [] f = "motion.profile_spacing_m" -> {Max2(v, 5)}
    [] f = "motion.turn_alpha" -> If(v > 0, v)
    [] OTHER -> {v}

OffsetApply(f, v) ==
  CASE f = "offset.std_m" -> If(v >= 0, v)
    [] f \in {"offset.tau_s", "offset.a_lat_max"} -> If(v > 0, v)
    [] f = "offset.smoothing_s" -> {Max2(v, 0)}
    [] OTHER -> {v}

LimitApply(f, v) ==
  CASE f \in {"limits.a_lat_max", "limits.k_down", "limits.grade_clamp"} -> If(v > 0, v)
    [] f = "limits.look_ahead_m" -> {Max2(v, 0)}
    [] OTHER -> {v}

(* The jitter is raised before SensorConfig::validate sees it.             *)
SensorApply(f, v) ==
  CASE f \in Rates -> If(v > 0 /\ v <= MaxRate, v)
    [] f = "sensors.jitter_sigma_m" -> {Max2(v, 0)}
    [] f = "sensors.reference_pressure_pa" -> If(v > 100000, v)
    [] OTHER -> {v}

Lands(f, v) ==
  CASE f \in TopSettings -> TopApply(f, v)
    [] f \in RouteSettings -> RouteApply(f, v)
    [] f \in MotionSettings -> MotionApply(f, v)
    [] f \in OffsetSettings -> OffsetApply(f, v)
    [] f \in LimitSettings -> LimitApply(f, v)
    [] f \in SensorSettings -> SensorApply(f, v)
Landed(f, v) == CHOOSE landed \in Lands(f, v) : TRUE

DefaultRate == 10000

Bug_SettingsApply(settings) ==
  [f \in Setting |->
     IF f \in DOMAIN settings THEN <<Landed(f, settings[f])>> ELSE <<>>]

(* SimulationSettings::apply: <<>> is the simulator's own default.  A rate *)
(* of the timeline reaches the inertial sensor when that one is not set.   *)
SettingsApply(settings) ==
  [f \in Setting |->
     IF f \in DOMAIN settings THEN <<Landed(f, settings[f])>>
     ELSE IF f = "sensors.imu_rate_hz" /\ "motion.sample_rate_hz" \in DOMAIN settings
       THEN <<settings["motion.sample_rate_hz"]>>
     ELSE <<>>]

(* SimulatorBuilder::build pins the timeline to the inertial rate.         *)
ImuRate(config) ==
  IF config["sensors.imu_rate_hz"] = <<>> THEN DefaultRate ELSE config["sensors.imu_rate_hz"][1]
AlignRates(config) == [config EXCEPT !["motion.sample_rate_hz"] = <<ImuRate(config)>>]

(* standard_request, loop_request, dynamic_request: what the planner gets. *)
PlannerRequest(route) ==
  [route EXCEPT
     !.laps = IF route.mode = "loop" THEN Max2(@, 100) ELSE 0,
     !.stops = [i \in DOMAIN @ |-> [@[i] EXCEPT !.radius = Max2(@, 0), !.issued = Max2(@, 0)]]]

(* validate_request, which the worker repeats.                             *)
ValidateRequest(body) ==
  Resolves(body) /\ \A f \in DOMAIN body.settings : Lands(f, body.settings[f]) # {}

(* TaskRunner::resolve_map: what the task records.                         *)
ResolveMap(body, ids) ==
  CASE body.map.kind = "id" -> IF body.map.id \in ids THEN body.map.id ELSE "unknown"
    [] body.map.kind = "none" ->
         IF Cardinality(ids) = 1 THEN CHOOSE id \in ids : TRUE ELSE "unknown"
    [] OTHER -> "inline"

(* SyntheticSpec::to_spec: a preset fixes the extent.                      *)
ToSpec(spec) ==
  LET extent == CASE spec.preset = "compact" -> <<30000, 20000>>
                  [] spec.preset \in {"default", ""} -> <<60000, 40000>>
                  [] spec.preset = "wide" -> <<90000, 40000>>
                  [] OTHER -> <<Max2(spec.width, 5000), Max2(spec.height, 5000)>>
  IN  [width |-> extent[1], height |-> extent[2], resolution |-> Max2(spec.resolution, 10),
       chunk |-> Max2(spec.chunk, 8)]

(* SyntheticMapSpec::validate.                                             *)
SpecHolds(spec) ==
  LET cells(side) == (side + spec.resolution - 1) \div spec.resolution
  IN  /\ spec.resolution <= MaxResolution
      /\ spec.chunk > 0
      /\ cells(spec.width) * cells(spec.height) \in 1..MaxCells

(* map_source: an id is looked up again, a specification is checked and an *)
(* image decoded only here.                                                *)
MapSource(body, resolved, ids) ==
  CASE body.map.kind = "synthetic" -> SpecHolds(ToSpec(body.map.spec))
    [] body.map.kind = "inline" -> body.map.decodes
    [] OTHER -> resolved \in ids

(* run_simulation and build_simulator.                                     *)
Configured(body, resolved) ==
  [route |-> PlannerRequest(body.route), person |-> Person(body), map |-> resolved,
   seed |-> body.seed, individual |-> body.individual,
   config |-> AlignRates(SettingsApply(body.settings))]

-------------------------------------------------------------------------------
Nowhere == [from |-> "nobody", answer |-> "none"]

(* A submission from the form (RunView.submit) or by another client: what  *)
(* does not parse or validate is a bad request.                            *)
Answered(from, body, d) ==
  LET resolved == ResolveMap(body, shelf)
      answer == IF ~Parses(body) THEN "unreadable"
                ELSE IF ~ValidateRequest(body) THEN "refused"
                ELSE IF resolved = "unknown" THEN "no map" ELSE "queued"
  IN  posted' = [from |-> from, body |-> body, answer |-> answer, shown |-> d, map |-> resolved,
                 ids |-> shelf, ran |-> <<>>]

Submit ==
  /\ Valid(draft)
  /\ Answered("page", BuildSimulationRequest(draft, {}), draft)
  /\ UNCHANGED <<draft, edits, shelf>>

Post(body) ==
  /\ Answered("client", body, DefaultForm)
  /\ UNCHANGED <<draft, edits, shelf>>

(* The worker starts the task: it reads the same body again.               *)
RunTask ==
  /\ posted.answer = "queued"
  /\ posted' =
       IF MapSource(posted.body, posted.map, shelf) /\ ValidateRequest(posted.body)
         THEN [posted EXCEPT !.answer = "running", !.ran = <<Configured(posted.body, posted.map)>>]
         ELSE [posted EXCEPT !.answer = "failed"]
  /\ UNCHANGED <<draft, edits, shelf>>

(* Somebody adds or removes a map.                                         *)
ShelfMoves ==
  /\ \E id \in MapIds : shelf' = IF id \in shelf THEN shelf \ {id} ELSE shelf \cup {id}
  /\ UNCHANGED <<draft, edits, posted>>

RequestsInit ==
  /\ draft \in Recipes /\ edits = 0
  /\ shelf \in SUBSET MapIds
  /\ posted = Nowhere

RequestsNext ==
  \/ SetPoint \/ \E p \in Place : PlaceNext(p)
  \/ \E p \in Place \cup {"blank"} : AddWaypoint(p)
  \/ \E i \in DOMAIN draft.waypoints : SetWaypoint(i)
  \/ AddCheckpoint \/ \E i \in DOMAIN draft.checkpoints : SetCheckpoint(i)
  \/ RemovePoint \/ SetOverride \/ SetSensor \/ SetSwitch \/ ApplyRecipe
  \/ Submit \/ \E body \in Bodies : Post(body)
  \/ RunTask \/ ShelfMoves

RequestsSpec == RequestsInit /\ [][RequestsNext]_requestVars

-------------------------------------------------------------------------------
(* Properties.                                                             *)

(* What the form lets pass and the service still refuses.                  *)
KnownGap(d) ==
  \/ \E f \in Rates : d.numbers[f] > MaxRate
  \/ d.numbers["sensors.reference_pressure_pa"] \in 0..100000
  \/ d.individual > U32 \/ d.seed > U64 \/ (d.mode = "loop" /\ d.laps > U64)
  \/ NoiseFlag \in DOMAIN d.overrides
  \/ \E name \in DOMAIN d.overrides \cap PersonNumbers : ~PersonHolds(name, d.overrides[name][2])

(* What the reader saw is what runs: every stop of the mode in its order,  *)
(* every field that is set, nothing of the other modes.                    *)
RunsAsShown(d, run) ==
  /\ run.route.mode = d.mode /\ run.route.start = d.start
  /\ d.mode = "standard" =>
       /\ run.route.end = d.goal /\ Len(run.route.stops) = Len(d.waypoints)
       /\ \A i \in DOMAIN d.waypoints :
            /\ run.route.stops[i].at = d.waypoints[i].at /\ run.route.stops[i].how = d.waypoints[i].how
            /\ d.waypoints[i].how = "dwell" => run.route.stops[i].wait = d.waypoints[i].wait
            /\ d.waypoints[i].how = "slow" => run.route.stops[i].radius = d.waypoints[i].radius
  /\ d.mode = "dynamic" =>
       /\ run.route.end = d.goal /\ Len(run.route.stops) = Len(d.checkpoints)
       /\ \A i \in DOMAIN d.checkpoints :
            /\ run.route.stops[i].at = d.checkpoints[i].at
            /\ run.route.stops[i].issued = d.checkpoints[i].issued
  /\ d.mode = "loop" => run.route.stops = <<>> /\ run.route.laps = Trunc(d.laps)
  /\ d.mode = "loop" /\ IsCompletePoint(d.reference) => run.route.end = d.reference
  /\ run.seed = Trunc(d.seed) /\ run.individual = d.individual
  /\ d.map # "none" => run.map = d.map
  /\ run.person.preset = d.preset
  /\ \A name \in Offered :
       run.person.set[name] =
         IF name \in DOMAIN d.overrides /\ d.overrides[name] # <<"text", "">>
           THEN <<d.overrides[name]>> ELSE <<>>
  /\ \A f \in SensorNumbers : d.numbers[f] # Empty => run.config[f] = <<d.numbers[f]>>
  /\ \A f \in SensorChoices : d.choices[f] # "default" => run.config[f] = <<d.choices[f]>>
  /\ \A f \in Setting \ (SensorNumbers \cup SensorChoices \cup
                          {"with_metrics", "route.smooth", "backend", "mode",
                           "motion.sample_rate_hz"}) : run.config[f] = <<>>

(* The samples of a run come at one rate, the one that was asked for, and  *)
(* no number it divides by or counts with is one it cannot.                *)
Divisors ==
  Rates \cup {"motion.sample_rate_hz", "coarse_max_size_m", "route.epsilon", "route.single_leg_epsilon", "route.penalty_mu",
   "route.d_attach_m", "route.corner_radius_m", "route.sample_spacing_m", "route.max_expansions",
   "route.candidates_k", "route.smoothing_iterations", "motion.profile_spacing_m",
   "motion.turn_alpha", "offset.tau_s", "offset.a_lat_max", "limits.a_lat_max", "limits.k_down",
   "limits.grade_clamp"}
Durations ==
  {"motion.start_stand_s", "motion.end_stand_s", "motion.head_look_ahead_s", "offset.smoothing_s",
   "offset.std_m", "limits.look_ahead_m", "sensors.jitter_sigma_m", "route.turn_penalty"}

RunIsWalkable(body, run) ==
  LET asked == {f \in {"sensors.imu_rate_hz", "motion.sample_rate_hz"} : f \in DOMAIN body.settings}
      held(f) == run.config[f] # <<>>
  IN  /\ run.config["motion.sample_rate_hz"][1] = ImuRate(run.config)
      /\ asked # {} => \E f \in asked : ImuRate(run.config) = body.settings[f]
      /\ \A f \in Divisors : held(f) => run.config[f][1] > 0
      /\ \A f \in Durations : held(f) => run.config[f][1] >= 0
      /\ run.route.mode = "loop" => run.route.laps >= 100

(* A request means to the worker what it meant to whoever sent it.  A      *)
(* draft without issues is refused only for what the form is known not to  *)
(* check, and runs as it was shown; the preview asks for the same; a task  *)
(* that was accepted fails on its request only because its map is gone or  *)
(* is no map, never runs on another one, and its configuration can be      *)
(* walked (request.ts, api/simulations.rs::validate_request, `apply`).     *)
RequestsAreUnderstood ==
  LET body == posted.body  IN
  /\ posted.from = "page" /\ posted.answer \in {"unreadable", "refused"}
       => KnownGap(posted.shown)
  /\ posted.from = "page" /\ posted.answer = "no map" =>
       IF posted.shown.map = "none" THEN Cardinality(posted.ids) # 1
       ELSE posted.shown.map \notin posted.ids
  /\ posted.answer = "failed" => body.map.kind \in {"id", "none"} \/ ~MapSource(body, posted.map, {})
  /\ posted.answer = "running" /\ posted.from = "page" => RunsAsShown(posted.shown, posted.ran[1])
  /\ posted.answer = "running" =>
       /\ RunIsWalkable(body, posted.ran[1])
       /\ body.map.kind = "id" => posted.ran[1].map = body.map.id
       /\ body.map.kind = "none" => posted.ids = {posted.ran[1].map}
  /\ Valid(draft) =>
       BuildSimulationRequest(draft, AcceptedFields) = BuildSimulationRequest(draft, {})
===============================================================================
