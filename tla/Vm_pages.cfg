SPECIFICATION Spec
CONSTANTS
  p1 = p1
  p2 = p2
  k = k
  NULL = NULL
  NoThread = NoThread
  NPages = 4
  FirstPage = 1
  Procs <- TwoProcs
  Entries <- EntriesTwo
  KernelThread = k
  LastPage = 2
  SWAP_MAX = 4
  Values = {0, 1}
  Zero = 0
  Junk = Junk
  MaxKern = 0
  ForkResident = 0
  Exits <- None
  Waiters <- None
  IOErrors = FALSE
INVARIANTS TlbCoherent SwapSpaceLeft
PROPERTIES ImplementsPrivateMemory
SYMMETRY Perms
