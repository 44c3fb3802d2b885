CONSTANTS
  initial_command_context_count = 2
  PresentContexts = 2
  MaxContexts = 3
  MaxImages = 2
  max_queue_families = 2
  Installations <- MCInstallations
  InstanceExtensions <- MCInstanceExtensions
  MaxSubmissions = 1
SPECIFICATION Spec
INVARIANTS
  HandlesAreExact
  ReturnsDeviceOrNothing
PROPERTY DestroysInOrder
