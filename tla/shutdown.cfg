\* The queue is suspended at any point, not resumed, resized and shut down.
SPECIFICATION FairSpec
CONSTANTS
  a = a
  b = b
  c = c
  u1 = u1
  u2 = u2
  NoJob = NoJob
  Threads = {1, 2, 3, 4}
  Jobs = {a, c}
  Users = {u1, u2}
  Priority <- EqualPriority
  DependsOn <- OnA
  Restricted = {}
  Cap = 1
  InitialMax = 2
  Caps = {1, 2}
  Batches <- OneJobEach
  Outcomes = {"Success"}
  Calls <- ShutDownCalls
  CreateBound = 3
INVARIANTS
  DestructedLeavesOnlyExpired
PROPERTIES
  SuspendCompletes
  ShutDownCompletes
CHECK_DEADLOCK FALSE
