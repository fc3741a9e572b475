\* A request reads the record while the worker stores into it; two calls, and four tasks,
\* of which three are kept in the table and one with its outcome.
CONSTANTS
  r1 = r1
  c1 = c1
  c2 = c2
  Reader = {r1}
  MaxStages = 2
  Caller = {c1, c2}
  Asks <- MCAsks
  MaxTickets = 4
  MaxCalls = 2
  Room = 2
  KeepResults = 1
  KeepTasks = 3
  PageSize = 1
SYMMETRY Alike
SPECIFICATION MCSpec
INVARIANTS
  AnswersFitTheEnd
  DoorsAgree
  AnswersMoveForward
  SweepMissesNothing
CHECK_DEADLOCK FALSE
