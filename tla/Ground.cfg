\* Four by four cells, five or six of which may be forbidden, with and without a stair, a roadmap and a patch;
\* the same ground, whole or in four chunks, with and without a distance layer.
CONSTANTS
  Width = 4
  Height = 4
  Worlds <- Maps
  Patched <- Later
  Draws <- Waypoints
  Starts <- Points
  MinLeaf = 2
  MaxLeaf = 4
  UniformPct = 80
  MaxBlock = 2
  MinDrill = 2
  Footprint = 1
  AttachRadius = 8
  SnapRadius = 16
  JoinRadius = 8
  AnchorRadius = 6
  Files <- MCFiles
  ChunkSide = 2
  SafeRadius = 4
  Rings = 3
  Big = 10000
SPECIFICATION MCSpec
INVARIANT GraphIsTheGround
INVARIANT ClearanceIsKnown
CHECK_DEADLOCK FALSE
