SPECIFICATION FairSpec
CONSTANTS
  k = k  a = a  b = b  c = c
  kproc = k
  NULL = NULL
  Structs <- Three
  MAX_PROC = 5
  WaitFor = "unused"
  LoadFails = TRUE
INVARIANTS TableExact OnlyReference PidsNotReused
PROPERTY WaitsEnd
CHECK_DEADLOCK FALSE
