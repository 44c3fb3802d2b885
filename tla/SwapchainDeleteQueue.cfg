\* Three handles with up to two images: the ring wraps around, grows to eight
\* cells, and handles come back under swapchains of another size.
CONSTANTS
  Swapchains = {s1, s2, s3}
  MaxViews = 2
  MaxValue = 3
SPECIFICATION Spec
PROPERTIES
  ImplementsDeferredDestruction
