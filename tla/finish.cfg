\* A user waits in finish() while another suspends, resumes and clears the queue.
SPECIFICATION FairSpec
CONSTANTS
  a = a
  b = b
  c = c
  u1 = u1
  u2 = u2
  NoJob = NoJob
  Threads = {1, 2, 3, 4}
  Jobs = {a, c}
  Users = {u1, u2}
  Priority <- EqualPriority
  DependsOn <- OnA
  Restricted = {a, c}
  Cap = 1
  InitialMax = 2
  Caps = {}
  Batches <- OneJobEach
  Outcomes = {"Success", "Failed"}
  Calls <- FinishCalls
  CreateBound = 0
PROPERTIES
  FinishReturns
