-------------------------- MODULE MCTextureMemory --------------------------
(***************************************************************************)
(* Three memory types in two heaps; a depth format and a combined one. The *)
(* devices vary in the features of their formats, in the images they have, *)
(* or in their memory; the queries are those of the callers of             *)
(* find_memory_type for buffers.                                           *)
(***************************************************************************)
EXTENDS TextureMemory, TLC

MCFormats == <<"d16_unorm", "d24_unorm_s8_uint">>

MCFeatures ==
  {{}, {"SAMPLED_IMAGE"}, {"DEPTH_STENCIL_ATTACHMENT"}, {"SAMPLED_IMAGE", "DEPTH_STENCIL_ATTACHMENT"},
   {"TRANSFER_SRC"}, {"TRANSFER_DST"}, {"STORAGE_IMAGE"}, StorageFeatures}

\* Features of rgba8_unorm and the color images supported
MCSampled == <<{"SAMPLED_IMAGE"}, {ColorSampled}>>
MCAttachment == <<{"SAMPLED_IMAGE", "COLOR_ATTACHMENT"}, {ColorAttachment, ColorSampled, BroadImage}>>
MCColors == {<<{}, {}>>, MCSampled, MCAttachment, <<MCAttachment[1], {ColorSampled, BroadImage}>>}

\* Images of a depth/stencil format supported
MCKinds == {{}, {"texel"}, {"texel", "both"}, {"texel", "large"}, {"texel", "large", "both"}}
MCAll == {"texel", "large", "both"}
MCKindsOf(k1, k2) == ({"d16_unorm"} \X k1) \cup ({"d24_unorm_s8_uint"} \X k2)

\* More texels and more usages ask for more
MCAlignment ==
  "attachment" :> 16 @@ "sampled" :> 8 @@ "broad" :> 32 @@ "texel" :> 8 @@ "large" :> 64 @@ "both" :> 128

MCType(flags, heap) == [flags |-> flags, heap |-> heap]
MCHeap(size, flags) == [size |-> size, flags |-> flags]

\* A host-visible type first, or last; and one that is only for tiles
MCCommonMemories ==
  {[types |-> 0 :> MCType(cpu_visible_memory_properties, 0) @@ 1 :> MCType({"DEVICE_LOCAL"}, 1)
              @@ 2 :> MCType({"DEVICE_LOCAL"}, 0),
    heaps |-> 0 :> MCHeap(2, {}) @@ 1 :> MCHeap(1, {})],
   [types |-> 0 :> MCType({"DEVICE_LOCAL"}, 1) @@ 1 :> MCType({"DEVICE_LOCAL"}, 0)
              @@ 2 :> MCType(cpu_visible_memory_properties, 0),
    heaps |-> 0 :> MCHeap(1, {}) @@ 1 :> MCHeap(2, {"TILE_MEMORY"})]}

MCFlagSets ==
  {{"DEVICE_LOCAL"}, cpu_visible_memory_properties, cpu_visible_memory_properties \cup {"HOST_CACHED"},
   {"DEVICE_LOCAL", "LAZILY_ALLOCATED"}}

MCMemories ==
  {[types |-> t, heaps |-> h] :
     t \in [Types -> [flags : MCFlagSets, heap : {0, 1}]],
     h \in {f \in [{0, 1} -> [size : {1, 2}, flags : {{}, {"TILE_MEMORY"}}]] :
              f[0].flags = {} /\ f[0].size + f[1].size > 2}}

MCDevice(memory, color, f1, f2, images, b1, b2) ==
  [types |-> memory.types, heaps |-> memory.heaps, images |-> color[2] \cup images, compression |-> {"bc"},
   format_features |-> "rgba8_unorm" :> color[1] @@ "bc7_rgba_unorm" :> color[1] \ {"COLOR_ATTACHMENT"}
     @@ "rgba32_float" :> StorageFeatures \cup {"SAMPLED_IMAGE", "TRANSFER_DST"}
     @@ "d16_unorm" :> f1 @@ "d24_unorm_s8_uint" :> f2,
   bits |-> [f \in ColorFormats |-> Types] @@ "d16_unorm" :> b1 @@ "d24_unorm_s8_uint" :> b2,
   alignment |-> [image \in Formats \X ImageKinds |-> MCAlignment[image[2]]]]

MCDevices ==
  {MCDevice(m, c, f1, f2, MCKindsOf(MCAll, MCAll), b1, b2) :
     m \in MCCommonMemories, c \in MCColors, f1 \in MCFeatures, f2 \in MCFeatures,
     b1 \in {{0}, {0, 1}, {1, 2}}, b2 \in {{0, 2}, {2}}}
  \cup {MCDevice(m, MCAttachment, f1, f2, MCKindsOf(k1, k2), b1, {2}) :
          m \in MCCommonMemories, f1 \in MCFeatures, f2 \in MCFeatures, k1 \in MCKinds,
          k2 \in {{}, {"texel"}}, b1 \in {{0}, {1, 2}}}
  \cup {MCDevice(m, MCSampled, {"SAMPLED_IMAGE"}, {}, MCKindsOf(MCAll, MCAll), {1, 2}, Types) : m \in MCMemories}

MCQuery(required, preferred, avoided) ==
  [bits : {Types, Types \ {1}}, required : {required}, preferred : {preferred},
   avoided : {avoided}, minimum : {1, 2}]

MCQueries ==
  MCQuery(cpu_visible_memory_properties, {}, {})
  \cup MCQuery({"DEVICE_LOCAL"}, {}, {"HOST_VISIBLE"})
  \cup MCQuery(cpu_visible_memory_properties, {"HOST_CACHED"}, {})
=============================================================================
