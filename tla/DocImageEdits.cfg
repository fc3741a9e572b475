\* An image replaced while its edit is under way; the format as in MapImage.cfg.
CONSTANTS
  x = x
  y = y
  c1 = c1
  i1 = i1
  i2 = i2
  Layer = {"elevation", "hard", "prm", "kpath"}
  Chunk = {c1}
  Content = {x, y}
  Info = {i1, i2}
  FirstInfo = i1
  Builds <- SomeBuilds
  CacheSlots = 1
  MaxPatches = 2
  MaxImages = 3
  Library <- MCLibrary
  Uploads <- MCUploads
  Scripts <- MCScripts
  PatchFiles <- MCPatchFiles
  Tags = {"tunnel"}
  Ends = {"stair"}
  MaxRef = 4
  MaxDrafts = 2
  MaxCalls = 3
  Byte = 8
  Contents <- MCContents
  Raws <- MCRaws
  Descs <- MCDescs
  Routes <- MCRoutes
  LayerDrafts <- MCDrafts
  Replacements <- MCReplacements
  Defaults <- MCDefaults
  WriteLimit = 0
  PatchLimit = 0
SPECIFICATION MCSpec
INVARIANT EditedIsOfSource
CHECK_DEADLOCK FALSE
