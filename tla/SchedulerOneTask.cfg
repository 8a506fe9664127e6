SPECIFICATION FairSpec
CONSTANTS
  t1 = t1
  t2 = t2
  th1 = th1
  th2 = th2
  Tasks <- OneTask
  Threads = {th1}
  ThreadsOf <- OneThread
  Priorities = {0}
  Limits = {1}
  Clients = {c1, c2}
  Runner = Runner
  NoCall = NoCall
  MaxCrashes = 1
  MaxFaults = 1
INVARIANTS
  TypeOK
  PausedOnlyWhileStopped
  StopIsDurable
PROPERTIES
  NothingStartsWhileStopped
  ConfirmedOnce
  RequestServed
