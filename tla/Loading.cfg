SPECIFICATION Spec
CONSTANTS
  Programs <- TwoSegments
  N_SEGMENTS = 2
  PAGE_SIZE = 4
  NUM_TLB = 2
  BLOCK = 3
  STACK_MIN = 24
  TOP = 28
  Touched = {6, 9, 14, 16, 18, 21, 25}
INVARIANTS ImageLoaded TextProtected TlbUnique LoadSucceeds
CHECK_DEADLOCK FALSE
