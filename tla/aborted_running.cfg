SPECIFICATION Spec
CONSTANTS
  Workers = {w1, w2}
  Main = Main
  Second = Second
  Users = {Main, Second}
  Nobody = Nobody
  NoJob = NoJob
  Jobs <- MCJobs
  Programs <- AbortBetween
CHECK_DEADLOCK FALSE
INVARIANTS
  IdleMeansFinished
