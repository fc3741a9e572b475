\* Four tasks, of which two may be cancelled, on one permit and one queue place: a full queue, results over the
\* bound, dropped entries and a fair executor.
CONSTANTS
  t1 = t1
  t2 = t2
  t3 = t3
  t4 = t4
  Task <- Tasks
  MaxConcurrent = 1
  QueueCapacity = 1
  KeepResults = 1
  KeepTasks = 3
SPECIFICATION MCSpec
INVARIANTS
  RetentionBound
  EarlyCancelSticks
  PermitsConserved
PROPERTIES
  LifecycleSpec
  AdmittedTaskEnds
CHECK_DEADLOCK FALSE
