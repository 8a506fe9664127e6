SPECIFICATION Spec
CONSTANTS
  t1 = t1
  t2 = t2
  th1 = th1
  th2 = th2
  Tasks <- OneTask
  Threads = {th1}
  ThreadsOf <- OneThread
  Priorities = {0}
  Limits = {1}
  Clients = {c1}
  Runner = Runner
  NoCall = NoCall
  MaxCrashes = 0
  MaxFaults = 0
PROPERTY
  InterruptPausesRunning
