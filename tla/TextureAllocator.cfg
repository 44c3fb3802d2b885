CONSTANTS
  IndexBits = 3
  mantissa_bits = 1
  element_size = 2
  capacity = 3
  max_allocations = 3
  Images = {i1, i2, i3}
  image_barrier_batch_size = 2
  Slots = {s1, s2, s3}
  TextureSizes = {2, 3}
  MaxRecording = 2
  MaxSubmits = 1
SPECIFICATION TextureSpec
INVARIANTS
  PendingListIsExact
  NothingToReport
  TexturesDoNotAlias
SYMMETRY Symmetry
