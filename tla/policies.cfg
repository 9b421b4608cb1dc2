SPECIFICATION FairSpec
CONSTANTS
  q1 = q1
  q2 = q2
  t1 = t1
  t2 = t2
  u1 = u1
  u2 = u2
  ja = ja
  jb = jb
  jc = jc
  jd = jd
  r = r
  dp = dp
  Queues = {q1, q2}
  Threads = {t1, t2}
  Users = {u1, u2}
  Jobs = {ja, jb, jc, jd}
  QueueOf <- OneEach
  Home <- ADThenBC
  DependencyPolicy = dp
  Restrictions = {r}
  InitialCap = 1
  InitialPolicies <- PoliciesInOrder
  DependsOn <- BOnA
  Outcomes <- AMayFail
  Clients <- MCClients
  NoJob = NoJob
  Nobody = Nobody
CHECK_DEADLOCK FALSE
INVARIANTS
  SlotsExact
  ResolvedUnlessLate
  NoCircularWait
PROPERTIES
  NoDependencyOverlooked
  HandlersComeFirst
  FinishReturns
