\* Five nodes, 10368 jobs; eleven requests over two rooms, three iterations of the band, at most seven points;
\* drafts after five edits, three of the stops or two of the other fields, and 347 other bodies.
CONSTANTS
  s = s
  a = a
  b = b
  c = c
  t = t
  Node <- Nodes
  Start = s
  Goal = t
  Jobs <- AllJobs
  Heuristic <- ToGoal
  Turn <- Corner
  MaxWalk = 9
  Iterations = 3
  MaxPoints = 7
  Requests <- Asked
  Passable <- IsPassable
  Nearest <- NearestTo
  Clear <- IsClear
  Stored <- Library
  Searched <- Found
  Midpoint <- Middle
  Relaxed <- Pulled
  Pushed <- Project
  Resampled <- Along
  Distance <- Apart
  Place <- Places
  MapIds <- Ids
  Typed <- Numbers
  Knobs <- Touched
  Bodies <- Anyones
  U32 = 150000
  U64 = 150000
  MaxResolution = 10000
  MaxCells = 8000000
  MaxEdits = 5
  MaxStops = 2
SPECIFICATION MCSpec
INVARIANTS
  PricesCoverTheLinks
  OutcomeIsTrue
  WalkReachesStart
  BandKeepsItsJoints
  PlanEndsSoundly
  RequestsAreUnderstood
CHECK_DEADLOCK FALSE
