\* Two frames in flight and two sizes of the window; five frames of the
\* deferred renderer, so that a row of its heap comes back twice.
\* Some copies have rows or slices of exactly UintLimit texels: not legal.
CONSTANTS
  frames_in_flight = 2
  Extents = {1, 2}
  UintLimit = 32
  MaxFrames <- MCMaxFrames
  OtherCalls <- MCOtherCalls
  Transfers <- MCTransfers
SPECIFICATION Spec
INVARIANTS
  FramesKeepTheirResources
  NothingRaces
  DrawsSeeWhatWasAsked
  CopiesPutTexelsInPlace
