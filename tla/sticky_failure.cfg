SPECIFICATION Spec
CONSTANTS
  Workers = {w1, w2}
  Main = Main
  Second = Second
  Users = {Main, Second}
  Nobody = Nobody
  NoJob = NoJob
  Jobs <- MCJobs
  Programs <- FailingFirst
CHECK_DEADLOCK FALSE
INVARIANTS
  FailureSticks
