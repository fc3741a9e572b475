------------------------------ MODULE MCRequests ------------------------------
(* Requests over two places and two maps; the bodies of other clients set   *)
(* every field once, at and beside its bounds, and some fields together.    *)
EXTENDS Requests, TLC

Places == {"here", "there"}
Ids == {"m1", "m2"}
Numbers == {0, 150, 200000}
Touched == {"target_speed", "k_down", "label", "pace_strategy", NoiseFlag,
            "sensors.gnss_white_sigma_m"}

Body ==
  [map |-> [kind |-> "id", id |-> "m1"],
   route |-> [mode |-> "standard", start |-> "here", end |-> "there", stops |-> <<>>, laps |-> 0],
   preset |-> "race", overrides |-> Nothing, seed |-> 100, individual |-> 0,
   settings |-> Nothing]

Stop(how, radius, issued) ==
  [at |-> "there", how |-> how, radius |-> radius, wait |-> 0, issued |-> issued]
Gating(context, w_q, low, high) ==
  [context |-> context, w_q |-> w_q, clip_min |-> low, clip_max |-> high]

Generated(preset, resolution) ==
  [preset |-> preset, width |-> 100, height |-> 90000, resolution |-> resolution, chunk |-> 0]

Beside == {-100, 0, 1, 50, 100, 3000, 100000, 200000}
Numeric == 
  (Setting \ (TopSettings \cup SensorChoices \cup
     {"route.smooth", "motion.maneuvers_enabled", "limits.look_ahead_mode"}))
  \cup {"coarse_max_size_m"}

Anyones ==
  {[Body EXCEPT !.settings = f :> v] : f \in Numeric, v \in Beside}
  \cup {[Body EXCEPT !.settings = "motion.sample_rate_hz" :> 5000 @@ "sensors.imu_rate_hz" :> v] :
          v \in {1, 100}}
  \cup {[Body EXCEPT !.settings = "weight_override" :> w] : w \in {<<>>, <<100, 0>>, <<100, -100>>}}
  \cup {[Body EXCEPT !.settings = "roadmap" :> r] :
          r \in {[kind |-> "none"], [kind |-> "generate", spacing |-> 100, radius |-> 0],
                 [kind |-> "generate", spacing |-> 100, radius |-> 300]}}
  \cup {[Body EXCEPT !.settings = "attention" :> Gating(context, w_q, 20, high)] :
          context \in {0, 2}, w_q \in {0, 3, 4}, high \in {10, 500}}
  \cup {[Body EXCEPT !.route.stops = <<Stop("slow", r, 0), Stop("pass", 500, 0)>>] : r \in {-100, 0}}
  \cup {[Body EXCEPT !.route.mode = "loop", !.route.laps = laps] : laps \in {0, 300, 200000}}
  \cup {[Body EXCEPT !.route.mode = "dynamic", !.route.stops = <<Stop("checkpoint", 0, t)>>] :
          t \in {-100, 300}}
  \cup {[Body EXCEPT !.map = m] :
          m \in {[kind |-> "none"], [kind |-> "id", id |-> "m2"]}
             \cup {[kind |-> "inline", decodes |-> yes] : yes \in BOOLEAN}
             \cup {[kind |-> "synthetic", spec |-> Generated(preset, resolution)] :
                     preset \in {"wide", "compact", "own"}, resolution \in {0, 100, 20000}}}
  \cup {[Body EXCEPT !.overrides = name :> <<"number", v>>] :
          name \in {"target_speed", "critical_speed_ratio", "k_down", "a_max", "look_ahead_m",
                    "lean_max_deg", "ghost", NoiseFlag}, v \in {-100, 0, 50, 100}}
  \cup {[Body EXCEPT !.overrides = NoiseFlag :> <<"flag", TRUE>>]}
  \cup {[Body EXCEPT !.preset = preset] : preset \in {"", "ghost"}}
===============================================================================
