SPECIFICATION FairSpec
CONSTANTS
  shared = shared
  decorated = decorated
  raw = raw
  m = m
  u = u
  Users = {m, u}
  Main = m
  Global = global
  Local = local
  NoQueue = none
  Jobs = {shared, decorated, raw}
  KindOf <- MCKindOf
  Decorating = TRUE
  Threads = 2
  Clients <- MCClients
CHECK_DEADLOCK FALSE
INVARIANTS
  CompletedByShutDown
  QuietWhenDestructed
  StreamDelivers
  DeletedExactlyOnce
  NoDanglingJob
  InstanceUsable
PROPERTIES
  ShutDownReturns
