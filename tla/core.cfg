\* An urgent job, a dependency and a restriction, all queue calls and shutDown().
SPECIFICATION Spec
CONSTANTS
  a = a
  b = b
  c = c
  u1 = u1
  u2 = u2
  NoJob = NoJob
  Threads = {1, 2, 3, 4}
  Jobs = {a, b, c}
  Users = {u1, u2}
  Priority <- CIsUrgent
  DependsOn <- OnA
  Restricted = {a, b}
  Cap = 1
  InitialMax = 2
  Caps = {}
  Batches <- PairAndSingle
  Outcomes = {"Success", "Failed"}
  Calls <- AllCalls
  CreateBound = 0
INVARIANTS
  TypeOK
  ActiveCount
  ExclusiveExecution
  DependenciesRespected
  CapRespected
  SuspendedMeansIdle
  QueueSorted
PROPERTIES
  HandsOutOnlyWhileWorking
  QueueIsFair
  ImplementsJobQueue
CHECK_DEADLOCK FALSE
