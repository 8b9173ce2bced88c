CONSTANTS
  HeapIds = {h1, h2, h3}
  HEAP_ARENA_SIZE = 3
  Sizes = {1, 2, 4}
  MaxLevel = 2
SPECIFICATION Spec
SYMMETRY PoolSymmetry
PROPERTY RegionContract
