\* A thread that is about to block misses the wake-up of resume().
SPECIFICATION FairSpec
CONSTANTS
  a = a
  b = b
  c = c
  u1 = u1
  u2 = u2
  NoJob = NoJob
  Threads = {1, 2, 3}
  Jobs = {a, b, c}
  Users = {u1, u2}
  Priority <- EqualPriority
  DependsOn <- None
  Restricted = {}
  Cap = 1
  InitialMax = 1
  Caps = {}
  Batches <- OneJobEach
  Outcomes = {"Success"}
  Calls <- ResumeCalls
  CreateBound = 0
PROPERTIES
  EveryReadyJobStarts
