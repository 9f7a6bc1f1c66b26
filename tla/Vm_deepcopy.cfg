SPECIFICATION Spec
CONSTANTS
  p1 = p1
  p2 = p2
  k = k
  NULL = NULL
  NoThread = NoThread
  NPages = 4
  FirstPage = 1
  Procs <- TwoProcs
  Entries <- EntriesSmall
  KernelThread = k
  LastPage = 1
  SWAP_MAX = 2
  Values = {0, 1}
  Zero = 0
  Junk = Junk
  MaxKern = 0
  ForkResident = 1
  Exits <- None
  Waiters <- None
  IOErrors = FALSE
INVARIANT DeepCopy
