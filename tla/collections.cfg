SPECIFICATION FairSpec
CONSTANTS
  Workers = {w1, w2}
  Main = Main
  Second = Second
  Users = {Main, Second}
  Nobody = Nobody
  NoJob = NoJob
  Jobs <- MCJobs
  Programs <- TestsAndClients
CHECK_DEADLOCK FALSE
INVARIANTS
  CounterExact
  NoCircularWait
  TestsHold
  DependentsWait
  IdleMeansFinished
  KeepsItselfAlive
PROPERTIES
  ImplementsJobTree
  Terminates
