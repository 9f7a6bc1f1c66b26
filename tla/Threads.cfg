SPECIFICATION Spec
CONSTANTS
  t1 = t1
  t2 = t2
  t3 = t3
  NoThread = NoThread
  NCPU = 2
  Threads <- MCThreadSet
  MIGRATE_HARDCLOCKS = 1
  MaxCount = 2
  Calls = {"P", "clocksleep", "fork", "exit"}
SYMMETRY Perms
INVARIANTS OnePlace StacksExclusive IdleWorkIsSignalled NoLostWakeup
