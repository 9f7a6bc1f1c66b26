SPECIFICATION Spec
CONSTANTS
  p1 = p1
  p2 = p2
  k = k
  NULL = NULL
  NoThread = NoThread
  NPages = 5
  FirstPage = 1
  Procs <- TwoProcs
  Entries <- EntriesSmall
  KernelThread = k
  LastPage = 1
  SWAP_MAX = 2
  Values = {0, 1}
  Zero = 0
  Junk = Junk
  MaxKern = 1
  ForkResident = 2
  Exits <- TwoProcs
  Waiters <- AllThreads
  IOErrors = FALSE
CONSTRAINTS NoDestroyRace NoCopyRace
INVARIANTS FramesAccounted RefsExact
PROPERTIES ImplementsPrivateMemory
SYMMETRY Perms
