\* A handle for every swapchain that a change of the window can cause.
CONSTANTS
  Handles = {h1, h2}
  PresentContexts = 2
  Slots = 2
  MaxImages = 1
  Extents = {e1, e2}
  MaxSubmissions = 2
  MaxResizes = 1
SPECIFICATION FairSpec
PROPERTIES
  CallsReturn
