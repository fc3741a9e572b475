\* Up to two dwells and one reversal anywhere on a path of three or four profile intervals; three
\* walks of four samples over four kinds of strips; a ring
\* of twelve cells and at most two checkpoints of twenty.
CONSTANTS
  Spacing = 3
  Probe = 6
  MaxStep = 4
  Lengths <- MCLengths
  Durations = {2}
  MaxDwells = 2
  MaxTurns = 1
  TurnTicks = 2
  StartStand = 1
  EndStand = 1
  SampleBudget = 14
  Wide = 2
  Walks <- MCWalks
  Strips <- PlainStrips
  Drawn <- MCDrawn
  Bends = {0, 2}
  Bound = 1
  Slope = 1
  Unit = 64
  Tick = 2
  Window = 8
  StandStart = 1
  StandEnd = 1
  Bisections = 4
  Close <- CloseBy
  Stride <- Reach
  Request <- Requests
  Routes <- RingRoutes
  Passable <- IsPassable
  Nearest <- NearestCells
SPECIFICATION MCSpec
INVARIANTS
  StandsAsAsked
  PlacedSoundly
  RedirectsRule
PROPERTIES
  StampsFollow
  PastIsKept
CHECK_DEADLOCK FALSE
