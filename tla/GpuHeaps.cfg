CONSTANTS
  memory_type_count = 2
  memory_heap_count = 2
  PropertyFlags = {"DEVICE_LOCAL", "HOST_VISIBLE", "HOST_COHERENT", "HOST_CACHED"}
  Devices <- MCDevices
  Sizes = {1, 3}
  gpu_allocation_alignment = 2
  MaxHeaps = 2
  AddressLimit = 18
SPECIFICATION Spec
INVARIANTS
  AbortsOnlyWhenTooLarge
  HeapsStayApart
  BindsAreLegal
CHECK_DEADLOCK FALSE
