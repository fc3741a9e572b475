\* Four builds, two patches made and applied in any order onto up to three images; three requests of
\* the client and two drawings at a time; three calls of the writer, or two and a patch.
CONSTANTS
  x = x
  y = y
  c1 = c1
  i1 = i1
  i2 = i2
  Layer = {"elevation", "hard", "prm", "kpath"}
  Chunk = {c1}
  Content = {x, y}
  Info = {i1, i2}
  FirstInfo = i1
  Builds <- SomeBuilds
  CacheSlots = 1
  MaxPatches = 2
  MaxImages = 3
  Library <- MCLibrary
  Uploads <- MCUploads
  Scripts <- MCScripts
  PatchFiles <- MCPatchFiles
  Tags = {"tunnel"}
  Ends = {"stair"}
  MaxRef = 4
  MaxDrafts = 2
  MaxCalls = 3
  Byte = 8
  Contents <- MCContents
  Raws <- MCRaws
  Descs <- MCDescs
  Routes <- MCRoutes
  LayerDrafts <- MCDrafts
  Replacements <- MCReplacements
  Defaults <- MCDefaults
  WriteLimit = 3
  PatchLimit = 1
SPECIFICATION MCSpec
INVARIANTS
  EditsAreKept
  ReadsAreTrue
  EditsMeanWhatWasAsked
  StructureIsOfSource
  ImagesSayWhatWasSaid
CHECK_DEADLOCK FALSE
