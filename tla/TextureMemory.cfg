CONSTANTS
  memory_type_count = 3
  memory_heap_count = 2
  PropertyFlags = {"DEVICE_LOCAL", "HOST_VISIBLE", "HOST_COHERENT", "HOST_CACHED", "LAZILY_ALLOCATED"}
  Devices <- MCDevices
  Queries <- MCQueries
  depth_stencil_formats <- MCFormats
  Combined = {"d24_unorm_s8_uint"}
SPECIFICATION Spec
INVARIANTS
  HoldsTheBest
  EverySupportedTextureFits
CHECK_DEADLOCK FALSE
