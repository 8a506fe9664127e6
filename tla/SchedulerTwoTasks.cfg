SPECIFICATION Spec
CONSTANTS
  t1 = t1
  t2 = t2
  th1 = th1
  th2 = th2
  Tasks <- MCTasks
  Threads <- MCThreads
  ThreadsOf <- OwnThreads
  Priorities = {0}
  Limits = {2}
  Clients = {c1}
  Runner = Runner
  NoCall = NoCall
  MaxCrashes = 1
  MaxFaults = 0
INVARIANTS
  BoundedRetry
  ApprovalRunsOwnCall
  RowsAreTrue
PROPERTIES
  LifecycleSpec
