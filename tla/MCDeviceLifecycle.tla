--------------------------- MODULE MCDeviceLifecycle ---------------------------
(***************************************************************************)
(* Values of the constants of DeviceLifecycle for TLC: one machine for     *)
(* every way in which a physical device can fall short, and machines with  *)
(* several devices of a few kinds.                                         *)
(***************************************************************************)
EXTENDS DeviceLifecycle

Family(queues, flags, presents) == [queues |-> queues, flags |-> flags, presents |-> presents]
Graphics == {"GRAPHICS", "COMPUTE"}
General == Family(1, Graphics, "yes")

Complete ==
  [error |-> "none", discrete |-> FALSE, vulkan_1_4 |-> TRUE, cpu_visible |-> TRUE,
   extensions |-> required_extensions \cup
     {"VK_KHR_unified_image_layouts", "VK_KHR_swapchain", "VK_KHR_swapchain_maintenance1",
      "VK_EXT_swapchain_maintenance1"},
   features |-> QueriedFeatures(TRUE, TRUE),
   families |-> <<General>>]
Discrete == [Complete EXCEPT !.discrete = TRUE]
Lacks(features) == [Complete EXCEPT !.features = @ \ features]

Single ==
  {[Complete EXCEPT !.extensions = @ \ {e}] : e \in Complete.extensions}
  \cup {Lacks({f}) : f \in {"meshShader", "dynamicRendering", "unifiedImageLayouts", "imageCubeArray",
                            "swapchainMaintenance1", "textureCompressionBC"}}
  \cup {Lacks({"textureCompressionBC", "textureCompressionASTC_LDR"}),
        [Complete EXCEPT !.vulkan_1_4 = FALSE], [Complete EXCEPT !.cpu_visible = FALSE],
        [Complete EXCEPT !.families = <<>>],
        [Complete EXCEPT !.families = <<Family(1, {"COMPUTE"}, "yes"), Family(0, Graphics, "yes")>>],
        [Complete EXCEPT !.families = <<Family(1, Graphics, "no"), General>>],
        [Complete EXCEPT !.families = <<Family(1, Graphics, "device_lost"), General>>],
        [Complete EXCEPT !.families = <<General, General, General>>]}

Several == {Complete, Discrete, [Complete EXCEPT !.vulkan_1_4 = FALSE],
            [Complete EXCEPT !.error = "driver_error"]}

MCInstallations ==
  {<<>>} \cup {<<gpu>> : gpu \in Single} \cup UNION {[1..n -> Several] : n \in 1..3}

Full == surface_extensions \cup {"VK_KHR_surface_maintenance1", "VK_EXT_surface_maintenance1"}
MCInstanceExtensions == {Full \ missing : missing \in {{}, {"VK_KHR_win32_surface"},
  {"VK_KHR_surface_maintenance1"}, {"VK_EXT_surface_maintenance1"},
  {"VK_KHR_surface_maintenance1", "VK_EXT_surface_maintenance1"}}}
=============================================================================
