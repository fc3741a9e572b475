\* One stream of any kind on one task: pumps do not interact, so one at a time is enough.
CONSTANTS
  sse = sse
  grpc = grpc
  ws = ws
  Watcher = {sse, grpc, ws}
  Sse = {sse}
  Grpc = {grpc}
  IsRun = TRUE
  Backlog = 2
  Filters <- SomeFilters
  MaxOpen = 1
  MaxStages = 1
  MaxLogs = 1
SPECIFICATION FairSpec
INVARIANTS
  ClientsAreTold
PROPERTY StreamEnds
CHECK_DEADLOCK FALSE
