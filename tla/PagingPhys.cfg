CONSTANTS
  PAGE = 64
  PER_TABLE = 12
  TABLES = 3
  NFRAMES = 64
  FRAME_MAX = 1048575
  END = 70
  DIRECTORY = 130
  HEAP_T = 36
  KHEAP = 24
  INITIAL = 3
  LOWEST = 25
  HIGHEST = 31
  Leftovers <- MCLeftovers
  Fallen = {2, 9}
SPECIFICATION Spec
INVARIANT PhysIsRight
