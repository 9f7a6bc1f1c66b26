SPECIFICATION Spec
CONSTANTS
  e1 = e1  e2 = e2  e3 = e3  t1 = t1  t2 = t2
  NULL = NULL
  NPages = 6
  FirstPage = 2
  Entries <- MCEntries
  Threads <- MCThreads
  KernSizes = {1, 2, 3}
  MAX_ATTEMPTS = 2
  Slots = {0}
SYMMETRY Sym
INVARIANTS LoopsAgree BlocksTile ExclusiveFrames VictimsUnpinned
