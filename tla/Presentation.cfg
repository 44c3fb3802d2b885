\* Two present contexts, three swapchains alive at once.
CONSTANTS
  Handles = {h1, h2, h3}
  PresentContexts = 2
  Slots = 2
  MaxImages = 2
  Extents = {e1, e2}
  MaxSubmissions = 3
  MaxResizes = 2
SPECIFICATION Spec
SYMMETRY Interchangeable
INVARIANTS
  EveryViewHasOneOwner
  SlotsSuffice
  OldLayoutIsReal
  SemaphoresReusable
  DrainsCompletely
PROPERTIES
  DestroysOnlyUnused
  EmptyOnlyWhenMinimized
