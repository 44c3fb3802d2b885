\* The largest count of allocations that the index type allows, two variables to
\* move the allocator between, and a request that never fits.
CONSTANTS
  IndexBits = 3
  mantissa_bits = 1
  element_size = 2
  capacity = 7
  max_allocations = 3
  storage_size = 15
  Requests = {1, 4, 5, 8, 18}
  Allocators = {x, y}
SPECIFICATION HeapSpec
SYMMETRY Symmetry
INVARIANTS
  NodesTileTheHeap
  ExhaustedOnlyWhenFull
PROPERTY ImplementsRangeHeap
