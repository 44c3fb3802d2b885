\* Two initial contexts, growth to four, and twice as many submissions as may
\* be pending.
CONSTANTS
  InitialContexts = 2
  MaxDifference = 2
  MaxContexts = 4
  MaxSubmissions = 4
SPECIFICATION FairSpec
INVARIANTS
  TimelineDifferenceBounded
  BookkeepingExact
PROPERTIES
  PoolTouchedOnlyAfterExecution
  SubmitsOnlyExecutable
  GrowsOnlyWhenBusy
  CallsReturn
\* A destroyed device takes no further step.
CHECK_DEADLOCK FALSE
