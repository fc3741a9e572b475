\* Two requests at a time over two imports and one foreign file, with one restart, after which nothing is planned.
CONSTANTS
  m1 = m1
  m2 = m2
  f1 = f1
  x = x
  y = y
  c1 = c1
  c2 = c2
  Client = {c1, c2}
  Fresh = {m1, m2}
  Foreign = {f1}
  ImageOf <- SomeImages
  Size <- Sizes
  Slots = 2
  Budget = 4
  Keep = 1
  MaxRestarts = 1
SPECIFICATION MCSpec
INVARIANTS
  ListedOnce
  LibraryIsDurable
  AnswersAreTheMap
  CacheWithinBounds
SYMMETRY Symmetry
CHECK_DEADLOCK FALSE
