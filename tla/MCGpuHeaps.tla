---------------------------- MODULE MCGpuHeaps -----------------------------
(* Devices of two memory types, in memory heaps of 6 and 12 bytes, whose   *)
(* descriptor heaps differ in all their limits.                            *)
EXTENDS GpuHeaps, TLC

MCFlagSets ==
  {{"DEVICE_LOCAL"}, cpu_visible_memory_properties, cpu_visible_memory_properties \cup {"HOST_CACHED"}}

MCLayout(heap, descriptor, other, reserved) ==
  [heapAlignment |-> heap, descriptorAlignment |-> descriptor, otherDescriptorAlignment |-> other,
   reserved |-> reserved]

MCDevices ==
  {[types |-> (0 :> [flags |-> f0, heap |-> 0]) @@ (1 :> [flags |-> f1, heap |-> 1]),
    heaps |-> 0 :> [size |-> 6, flags |-> {}] @@ 1 :> [size |-> 12, flags |-> {}],
    bits |-> "universal" :> Types @@ "descriptor" :> b,
    granularity |-> "universal" :> 1 @@ "descriptor" :> 2,
    layout |-> "texture_descriptor_heap" :> MCLayout(4, 1, 2, 3)
            @@ "sampler_descriptor_heap" :> MCLayout(1, 2, 1, 1)] :
     f0 \in MCFlagSets, f1 \in MCFlagSets, b \in {{0}, {1}, {0, 1}}}
=============================================================================
