SPECIFICATION Spec
CONSTANTS
  t1 = t1
  t2 = t2
  Threads <- MCThreads
  NPages = 4
  PAGE_SIZE = 12
  sizes <- MCsizes
  Requests = {4, 5, 13}
  NUM_PAGEREFPAGES = 2
  NPAGEREFS_PER_PAGE = 2
SYMMETRY Perms
INVARIANTS FreelistsExact PagesAccounted PagerefsExact
