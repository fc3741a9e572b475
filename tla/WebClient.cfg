\* Two routes and two plans; two tickets, a tray of one entry; two timelines of two pages; two
\* sweeps of two; two fetches over connections that break.
CONSTANTS
  t1 = t1
  t2 = t2
  r1 = r1
  r2 = r2
  l1 = l1
  l2 = l2
  l3 = l3
  Route = {"k1", "k2"}
  Smooth = {1, 2}
  MaxPresses = 2
  MaxEdits = 2
  MaxPending = 2
  Ticket = {t1, t2}
  Own = {t1, t2}
  MaxConcurrent = 1
  Click = {c1}
  HistoryLimit = 1
  NoTicket = NoTicket
  RunId = {r1, r2}
  Length <- Lengths
  PageSize = 2
  Load = {l1, l2, l3}
  MaxJumps = 1
  NoRun = NoRun
  Individuals = 2
  SubmitAttempts = 2
  MaxSweeps = 2
  MaxProblems = 1
  Press = {p1}
  NoJob = NoJob
  Fetch <- Overlapping
  Total = 5
  FrameSamples = 3
  PageCap = 5
  ClientCap = 5
  QueueCap = 4
  MaxRetries = 1
  MaxBreaks = 3
  MaxEvents = 1
SPECIFICATION MCSpec
INVARIANTS
  KeptPlanIsOnScreen
  UserIsTold
  PanelEndsWhole
  RowsAreFollowed
  FetchesEndWhole
PROPERTIES
  NothingWithdrawnIsShown
  ClientSettles
CHECK_DEADLOCK FALSE
