CONSTANTS
  t1 = t1
  t2 = t2
  na = na
  nb = nb
  None = None
  Threads <- TwoThreads
  Writers <- OneThread
  MaxFaulty = 1
  Names <- TwoNames
  NBLOCKS = 7
  SFS_NDIRECT = 1
  SFS_DBPERIDB = 1
  PERBLOCK = 2
  Lens = {0}
  Faults <- AllFaults
  Lost = FALSE
SPECIFICATION Spec
VIEW Seen
SYMMETRY Perms
INVARIANTS FreemapExact LinksExact RefsExact  
CHECK_DEADLOCK FALSE
