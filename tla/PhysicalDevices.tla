---------------------------- MODULE PhysicalDevices ----------------------------
(***************************************************************************)
(* What create_device asks of a physical device (inspect_candidate), and   *)
(* what it then enables on it. Extensions and features are sets of their   *)
(* names; those of no consequence but their presence are named once.       *)
(***************************************************************************)
EXTENDS Integers, Sequences, FiniteSetsExt

CONSTANTS
  max_queue_families, \* 64 in the code
  Installations,      \* sequences of physical devices, as the instance reports them
  InstanceExtensions  \* sets of instance extensions

Errors == {"unsupported", "device_lost", "driver_error"}

required_extensions ==
  {"VK_EXT_descriptor_heap", "VK_KHR_device_address_commands", "VK_KHR_shader_untyped_pointers",
   "VK_EXT_mesh_shader"}
surface_extensions ==
  {"VK_KHR_surface", "VK_KHR_win32_surface", "VK_KHR_get_surface_capabilities2"}

(***************************************************************************)
(* The features of the structures chained behind VkPhysicalDeviceFeatures2 *)
(* in every case, and those that are optional.                             *)
(***************************************************************************)
RequiredFeatures ==
  {"shaderInt16", "samplerAnisotropy", "depthBiasClamp", "independentBlend",
   "fragmentStoresAndAtomics", "vertexPipelineStoresAndAtomics",
   "shaderStorageImageReadWithoutFormat", "shaderStorageImageWriteWithoutFormat",
   "multiDrawIndirect", "drawIndirectFirstInstance",
   "storageBuffer16BitAccess", "storagePushConstant16", "shaderDrawParameters",
   "shaderFloat16", "scalarBlockLayout", "bufferDeviceAddress", "timelineSemaphore",
   "synchronization2", "dynamicRendering", "maintenance4", "maintenance5",
   "descriptorHeap", "deviceAddressCommands", "shaderUntypedPointers", "meshShader"}
OptionalFeatures ==
  {"imageCubeArray", "textureCompressionBC", "textureCompressionASTC_LDR",
   "textureCompressionETC2", "storageInputOutput16"}

\* The structures that are chained only sometimes hold one feature each.
QueriedFeatures(presentation, include_unified_image_layouts) ==
  RequiredFeatures \cup OptionalFeatures
    \cup (IF include_unified_image_layouts THEN {"unifiedImageLayouts"} ELSE {})
    \cup (IF presentation THEN {"swapchainMaintenance1"} ELSE {})

-----------------------------------------------------------------------------
(***************************************************************************)
(* A physical device is                                                    *)
(*   [error, discrete, vulkan_1_4, cpu_visible, extensions, features,      *)
(*    families]                                                            *)
(* where error is that of the enumeration of its extensions, cpu_visible   *)
(* says whether it has such a memory type, and a queue family is [queues,  *)
(* flags, presents], presents being what asking for it answers.            *)
(***************************************************************************)
QueueFamily ==
  [queues : Nat, flags : SUBSET STRING, presents : {"yes", "no"} \cup Errors]
PhysicalDevice ==
  [error : Errors \cup {"none"}, discrete : BOOLEAN, vulkan_1_4 : BOOLEAN, cpu_visible : BOOLEAN,
   extensions : SUBSET STRING, features : SUBSET STRING, families : Seq(QueueFamily)]

ASSUME InstallationsAssumption == \A gpus \in Installations : gpus \in Seq(PhysicalDevice)

khr_swapchain_maintenance1(gpu, instance) ==
  "VK_KHR_surface_maintenance1" \in instance /\ "VK_KHR_swapchain_maintenance1" \in gpu.extensions
ext_swapchain_maintenance1(gpu, instance) ==
  "VK_EXT_surface_maintenance1" \in instance /\ "VK_EXT_swapchain_maintenance1" \in gpu.extensions

Presents(gpu, instance) ==
  /\ "VK_KHR_swapchain" \in gpu.extensions
  /\ khr_swapchain_maintenance1(gpu, instance) \/ ext_swapchain_maintenance1(gpu, instance)

Features(gpu, presentation) ==
  gpu.features \cap QueriedFeatures(presentation, "VK_KHR_unified_image_layouts" \in gpu.extensions)

HasFeatures(gpu, presentation) ==
  /\ RequiredFeatures \subseteq Features(gpu, presentation)
  /\ {"textureCompressionBC", "textureCompressionASTC_LDR"} \cap Features(gpu, presentation) # {}
  /\ presentation => "swapchainMaintenance1" \in Features(gpu, presentation)

Capable(family) == family.queues # 0 /\ {"GRAPHICS", "COMPUTE"} \subseteq family.flags

\* Where the search for a queue family may end: one is found, or asking fails.
Ends(gpu, presentation) ==
  {k \in DOMAIN gpu.families :
     Capable(gpu.families[k]) /\ (presentation => gpu.families[k].presents # "no")}
queue_family(gpu, presentation) == Min(Ends(gpu, presentation))

inspect_candidate(gpu, presentation, instance) ==
  IF gpu.error # "none" THEN gpu.error
  ELSE IF \/ ~(required_extensions \subseteq gpu.extensions)
          \/ presentation /\ ~Presents(gpu, instance)
          \/ ~gpu.vulkan_1_4 \/ ~gpu.cpu_visible
          \/ ~HasFeatures(gpu, presentation)
          \/ Len(gpu.families) > max_queue_families
          \/ Ends(gpu, presentation) = {}
    THEN "unsupported"
  ELSE LET answer == gpu.families[queue_family(gpu, presentation)].presents
       IN IF presentation /\ answer \in Errors THEN answer ELSE "none"

-----------------------------------------------------------------------------
(* What is enabled when the device gpu is created                          *)

unified_image_layouts(gpu) ==
  "VK_KHR_unified_image_layouts" \in gpu.extensions /\ "unifiedImageLayouts" \in gpu.features

enabled_features(gpu, presentation) ==
  QueriedFeatures(presentation, unified_image_layouts(gpu))
    \cap (RequiredFeatures \cup (OptionalFeatures \cap Features(gpu, presentation))
            \cup {"unifiedImageLayouts", "swapchainMaintenance1"})

enabled_device_extensions(gpu, presentation, instance) ==
  required_extensions
    \cup (IF unified_image_layouts(gpu) THEN {"VK_KHR_unified_image_layouts"} ELSE {})
    \cup (IF ~presentation THEN {}
          ELSE {"VK_KHR_swapchain",
                IF khr_swapchain_maintenance1(gpu, instance)
                  THEN "VK_KHR_swapchain_maintenance1" ELSE "VK_EXT_swapchain_maintenance1"})

enabled_instance_extensions(instance) ==
  surface_extensions
    \cup (instance \cap {"VK_KHR_surface_maintenance1", "VK_EXT_surface_maintenance1"})

-----------------------------------------------------------------------------
(* What Vulkan wants of what is enabled: a feature of an extension comes   *)
(* with it, and swapchain maintenance with that of the surface.            *)
ExtensionsOf(feature) ==
  CASE feature = "descriptorHeap" -> {"VK_EXT_descriptor_heap"}
    [] feature = "deviceAddressCommands" -> {"VK_KHR_device_address_commands"}
    [] feature = "shaderUntypedPointers" -> {"VK_KHR_shader_untyped_pointers"}
    [] feature = "meshShader" -> {"VK_EXT_mesh_shader"}
    [] feature = "unifiedImageLayouts" -> {"VK_KHR_unified_image_layouts"}
    [] feature = "swapchainMaintenance1" ->
         {"VK_KHR_swapchain_maintenance1", "VK_EXT_swapchain_maintenance1"}

ExtensionFeatures ==
  {"descriptorHeap", "deviceAddressCommands", "shaderUntypedPointers", "meshShader",
   "unifiedImageLayouts", "swapchainMaintenance1"}

Valid(features, extensions, instance) ==
  /\ \A f \in features \cap ExtensionFeatures : ExtensionsOf(f) \cap extensions # {}
  /\ "VK_KHR_swapchain_maintenance1" \in extensions => "VK_KHR_surface_maintenance1" \in instance
  /\ "VK_EXT_swapchain_maintenance1" \in extensions => "VK_EXT_surface_maintenance1" \in instance
=============================================================================
