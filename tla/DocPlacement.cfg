\* A straight walk of three samples over ground with a gap; the other half of the stage as in Motion.cfg.
CONSTANTS
  Spacing = 3
  Probe = 6
  MaxStep = 4
  Lengths <- MCLengths
  Durations = {2}
  MaxDwells = 2
  MaxTurns = 1
  TurnTicks = 2
  StartStand = 1
  EndStand = 1
  SampleBudget = 14
  Wide = 4
  Walks <- StraightOn
  Strips <- HoledStrips
  Drawn = {4}
  Bends = {4}
  Bound = 1
  Slope = 1
  Unit = 64
  Tick = 2
  Window = 8
  StandStart = 1
  StandEnd = 1
  Bisections = 4
  Close <- CloseBy
  Stride <- Reach
  Request <- Requests
  Routes <- RingRoutes
  Passable <- IsPassable
  Nearest <- NearestCells
SPECIFICATION MCSpec
INVARIANT TrajectoryOnPassableGround
CHECK_DEADLOCK FALSE
