SPECIFICATION FairSpec
CONSTANTS
  p1 = p1
  p2 = p2
  k = k
  NULL = NULL
  NoThread = NoThread
  NPages = 4
  FirstPage = 1
  Procs <- TwoProcs
  Entries <- EntriesSmall
  KernelThread = k
  LastPage = 1
  SWAP_MAX = 3
  Values = {0, 1}
  Zero = 0
  Junk = Junk
  MaxKern = 1
  ForkResident = 0
  Exits <- None
  Waiters <- None
  IOErrors = TRUE
PROPERTIES ImplementsPrivateMemory FaultsEnd SwapOutsEnd
CHECK_DEADLOCK FALSE
