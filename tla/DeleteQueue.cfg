\* The ring wraps around, is filled by callbacks while it collects, and is
\* used for more callbacks than it has cells.
CONSTANTS
  Capacity = 3
  MaxSubmissions = 3
  MaxCallbacks = 6
SPECIFICATION CallbacksSpec
INVARIANTS
  RunsInOrder
  RunsWhenDue
PROPERTIES
  NoneDueIsLeft
