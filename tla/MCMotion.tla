-------------------------------- MODULE MCMotion --------------------------------
(* The parts of the motion stage, one after the other (`focus`): the walk    *)
(* along the arc on three lengths, so that the last interval of the profile  *)
(* is whole, more than half a spacing and less than half of one; the         *)
(* placement beside the line, on strips that are open, walled on one side,   *)
(* narrow on the other, and blocked at the centre; and the run that          *)
(* checkpoints redirect (MCDynamicRun).                                      *)
EXTENDS MotionWalk, Placement, MCDynamicRun

VARIABLE focus

MCLengths == {9, 10, 11}

Ground(passable, clear) == [passable |-> passable, clear |-> clear]

Open == Ground(-Wide..Wide, -Wide..Wide)

PlainStrips ==
  {Open, Ground(-Wide..0, -Wide..0), Ground(-1..Wide, 0..Wide), Ground({0}, {})}

(* The clear ground to the left has a gap that the halving steps over.       *)
HoledStrips ==
  LET holed == -Wide..Wide \ {1} IN {Open, Ground(holed, holed), Ground(-Wide..0, -Wide..0)}

MCDrawn == {2, -1}

MCWalks ==
  {<<"stand", "move", "move", "move">>, <<"move", "turn", "turn", "move">>,
   <<"move", "move", "turn", "stand">>}

StraightOn == {<<"move", "move", "move">>, <<"move", "turn", "turn", "move">>}

OneRequest == [start |-> Centre(<<0, 1>>), goal |-> Centre(<<2, 1>>), checkpoints |-> <<>>]

MCInit ==
  /\ focus \in {"walk", "place", "run"}
  /\ focus = "walk" \/ (focus # "walk" /\ run = Run(9, "periodic", {}, {}))
  /\ focus = "place" \/ (focus # "place" /\ kind = <<"move", "turn", "turn", "move">>)
  /\ focus = "run" \/ (focus # "run" /\ request = OneRequest)
  /\ WalkInit /\ PlacementInit /\ Init

MCNext ==
  /\ \/ focus = "walk" /\ WalkNext /\ UNCHANGED <<placementVars, vars>>
     \/ focus = "place" /\ PlacementNext /\ UNCHANGED <<walkVars, vars>>
     \/ focus = "run" /\ Next /\ UNCHANGED <<walkVars, placementVars>>
  /\ UNCHANGED focus

MCSpec == MCInit /\ [][MCNext]_<<focus, walkVars, placementVars, vars>>
================================================================================
