\* The maximum number of threads changes while jobs are queued and run.
SPECIFICATION FairSpec
CONSTANTS
  a = a
  b = b
  c = c
  u1 = u1
  u2 = u2
  NoJob = NoJob
  Threads = {1, 2, 3, 4}
  Jobs = {a, b, c}
  Users = {u1, u2}
  Priority <- EqualPriority
  DependsOn <- Fork
  Restricted = {b, c}
  Cap = 1
  InitialMax = 1
  Caps = {0, 1, 2}
  Batches <- PairWithC
  Outcomes = {"Success"}
  Calls <- ResizeCalls
  CreateBound = 3
INVARIANTS
  AtMostOneExpired
  NoAbandonedJob
PROPERTIES
  InventoryBounded
  InventoryShrinks
  EveryReadyJobStarts
