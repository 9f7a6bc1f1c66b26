SPECIFICATION Spec
CONSTANTS
  t1 = t1
  t2 = t2
  t3 = t3
  o1 = o1
  o2 = o2
  NULL = NULL
  Threads <- ThreeThreads
  Readers <- OneReader
  Objs <- MCObjs
  Names = {"a"}
  Nums = {0, 1}
  UMOD = 3
  Amounts = {1, 2}
  Lengths = {0, 2}
  NoMem = {"sem", "dent", "vnode"}
SYMMETRY Perms
CONSTRAINT NoRemoveRace
INVARIANTS SemsAlive NoLeak RefsExact  NoLockCycle
CHECK_DEADLOCK FALSE
