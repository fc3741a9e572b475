\* A ring of twelve cells, at most two checkpoints of twenty.
CONSTANTS
  Unit = 64
  Tick = 2
  Window = 8
  StandStart = 1
  StandEnd = 1
  Bisections = 4
  Close <- CloseBy
  Stride <- Reach
  Request <- Requests
  Routes <- RingRoutes
  Passable <- IsPassable
  Nearest <- NearestCells
SPECIFICATION Spec
INVARIANT TruthStaysPassable
CHECK_DEADLOCK FALSE
