SPECIFICATION LiveSpec
CONSTANTS
  t1 = t1
  t2 = t2
  t3 = t3
  NoThread = NoThread
  NCPU = 2
  Threads <- MCThreadSet
  MIGRATE_HARDCLOCKS = 1
  MaxCount = 1
  Calls = {"P", "fork"}
PROPERTIES ReadyRuns SemaphoreServes
