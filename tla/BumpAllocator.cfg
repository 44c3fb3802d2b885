\* Three workers and two allocators on 40 bytes and six-bit words: one request is
\* rounded up, and fills the end of the storage exactly, where its rounding is
\* capped; one needs no rounding; one can never fit and would wrap around if it
\* were rounded up.
CONSTANTS
  Workers = {w1, w2, w3}
  BumpAllocators = {a, b}
  Size = 40
  WordLimit = 64
  ByteSizes = {8, 32, 63}
SPECIFICATION BumpFairSpec
INVARIANTS
  RangesSound
  NoSpaceLost
PROPERTIES
  EmptyMeansExhausted
  CallsReturn
