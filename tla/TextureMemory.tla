--------------------------- MODULE TextureMemory ---------------------------
(***************************************************************************)
(* The one memory type of all texture heaps, which create_device chooses   *)
(* by probing a few images (select_texture_memory_type), and the formats   *)
(* and usages supports_texture_format then allows.                         *)
(***************************************************************************)
EXTENDS FindMemoryType, Sequences

CONSTANTS
  depth_stencil_formats, \* the sequence of Formats that have a depth or a stencil aspect
  Combined               \* those that have both

DepthStencil == {depth_stencil_formats[n] : n \in DOMAIN depth_stencil_formats}
ColorFormats == {"rgba8_unorm", "rgba32_float", "bc7_rgba_unorm"}
Formats == ColorFormats \cup DepthStencil

(***************************************************************************)
(* A device d also has, for every format, d.format_features (the           *)
(* VkFormatFeatureFlags2); in d.images the images it supports, in          *)
(* d.alignment what each of them asks for, and in d.compression the kinds  *)
(* of compressed formats. The memory types of an image, d.bits, are a      *)
(* matter of its format: the specification of Vulkan makes them common to  *)
(* all color formats and to all images of one depth/stencil format. It     *)
(* says nothing of the kind of alignments.                                 *)
(***************************************************************************)
ImageKinds == {"attachment", "sampled", "broad", "texel", "large", "both"}

ASSUME TextureMemoryAssumption ==
  /\ depth_stencil_formats \in Seq(STRING)
  /\ Combined \subseteq DepthStencil /\ DepthStencil \cap ColorFormats = {}
  /\ {"DEVICE_LOCAL", "HOST_VISIBLE"} \subseteq PropertyFlags
  /\ \A d \in Devices :
       /\ d.bits \in [Formats -> SUBSET Types]
       /\ d.images \subseteq Formats \X ImageKinds
       /\ d.alignment \in [Formats \X ImageKinds -> Nat]
       /\ \A f, g \in ColorFormats : d.bits[f] = d.bits[g]

VARIABLES
  state,            \* "color" | "broad" | "depth" | "select" | "ready" | "refused"
  n,                \* depth/stencil formats probed
  memory_type_bits, \* types that suit every image probed
  texture_memory_type,
  texture_heap_alignment

selection == <<state, n, memory_type_bits, texture_memory_type, texture_heap_alignment>>
vars == <<find_vars, selection>>

TextureQuery(bits) ==
  [bits |-> bits, required |-> {"DEVICE_LOCAL"}, preferred |-> {}, avoided |-> {"HOST_VISIBLE"}, minimum |-> 1]

Init == /\ device \in Devices /\ state = "color" /\ n = 0 /\ memory_type_bits = {}
        /\ texture_memory_type = none /\ texture_heap_alignment = 16
        /\ query = TextureQuery({}) /\ i = 0 /\ best = none

Usages == {"sampled", "storage", "color_attachment", "depth_stencil_attachment",
           "transfer_source", "transfer_destination"}

Features(f) == device.format_features[f]

StorageFeatures == {"STORAGE_IMAGE", "STORAGE_READ_WITHOUT_FORMAT", "STORAGE_WRITE_WITHOUT_FORMAT"}

required_format_features(usage) ==
  UNION {CASE u = "sampled" -> {"SAMPLED_IMAGE"}
           [] u = "storage" -> StorageFeatures
           [] u = "color_attachment" -> {"COLOR_ATTACHMENT"}
           [] u = "depth_stencil_attachment" -> {"DEPTH_STENCIL_ATTACHMENT"}
           [] u = "transfer_source" -> {"TRANSFER_SRC"}
           [] u = "transfer_destination" -> {"TRANSFER_DST"} : u \in usage}

Supported(image) == image \in device.images

include_texture_heap_alignment(image) ==
  texture_heap_alignment' = IF device.alignment[image] > texture_heap_alignment
                              THEN device.alignment[image] ELSE texture_heap_alignment

Refuse == state' = "refused" /\ UNCHANGED <<n, memory_type_bits, texture_memory_type, texture_heap_alignment>>

-----------------------------------------------------------------------------
(* A sampled rgba8_unorm image, as an attachment too if that is supported  *)
ColorAttachment == <<"rgba8_unorm", "attachment">>
ColorSampled == <<"rgba8_unorm", "sampled">>
ColorImage ==
  IF "COLOR_ATTACHMENT" \in Features("rgba8_unorm") /\ Supported(ColorAttachment)
    THEN ColorAttachment ELSE ColorSampled

ProbeColor ==
  /\ state = "color"
  /\ IF "SAMPLED_IMAGE" \in Features("rgba8_unorm") /\ Supported(ColorImage)
       THEN /\ memory_type_bits' = device.bits["rgba8_unorm"]
            /\ include_texture_heap_alignment(ColorImage)
            /\ state' = "broad"
            /\ UNCHANGED <<n, texture_memory_type>>
       ELSE Refuse
  /\ UNCHANGED find_vars

BroadUsage == {"sampled", "storage", "transfer_destination"}

BroadImage == <<"rgba32_float", "broad">>

(* A 3D rgba32_float image, for its alignment only                         *)
ProbeBroad ==
  /\ state = "broad"
  /\ state' = "depth"
  /\ IF required_format_features(BroadUsage) \subseteq Features("rgba32_float") /\ Supported(BroadImage)
       THEN include_texture_heap_alignment(BroadImage)
       ELSE UNCHANGED texture_heap_alignment
  /\ UNCHANGED <<find_vars, n, memory_type_bits, texture_memory_type>>

(* Whether some usage of the format can be probed: compatibility_usage     *)
MutantNoTransfers(f) ==
  \/ "SAMPLED_IMAGE" \in Features(f)
  \/ "DEPTH_STENCIL_ATTACHMENT" \in Features(f)
  \/ StorageFeatures \subseteq Features(f)
HasCompatibilityUsage(f) ==
  \/ "SAMPLED_IMAGE" \in Features(f)
  \/ "DEPTH_STENCIL_ATTACHMENT" \in Features(f)
  \/ StorageFeatures \subseteq Features(f)
  \/ f \notin Combined /\ ("TRANSFER_SRC" \in Features(f) \/ "TRANSFER_DST" \in Features(f))

(* An image of one texel with the first of these usages                    *)
TexelImage(f) == <<f, "texel">>
Probed(f) == HasCompatibilityUsage(f) /\ Supported(TexelImage(f))

(***************************************************************************)
(* The image whose requirements are taken, of 512 by 512 texels if there   *)
(* is such a one: a sampled attachment if the format can be both, else one *)
(* with the usage above; else the image of one texel.                      *)
(***************************************************************************)
DepthStencilImage(f) ==
  IF {"SAMPLED_IMAGE", "DEPTH_STENCIL_ATTACHMENT"} \subseteq Features(f) /\ Supported(<<f, "both">>)
    THEN <<f, "both">>
    ELSE IF Supported(<<f, "large">>) THEN <<f, "large">> ELSE TexelImage(f)

ProbeDepthStencil ==
  /\ state = "depth" /\ n < Len(depth_stencil_formats)
  /\ n' = n + 1
  /\ LET f == depth_stencil_formats[n + 1]
     IN IF Probed(f)
          THEN /\ memory_type_bits' = memory_type_bits \cap device.bits[f]
               /\ include_texture_heap_alignment(DepthStencilImage(f))
          ELSE UNCHANGED <<memory_type_bits, texture_heap_alignment>>
  /\ UNCHANGED <<find_vars, state, texture_memory_type>>

(* find_memory_type is called with what is left of the memory types        *)
SelectType ==
  /\ state = "depth" /\ n = Len(depth_stencil_formats)
  /\ state' = "select"
  /\ Find(TextureQuery(memory_type_bits))
  /\ UNCHANGED <<n, memory_type_bits, texture_memory_type, texture_heap_alignment>>

TypeSelected ==
  /\ state = "select" /\ Found
  /\ IF best = none
       THEN Refuse
       ELSE /\ texture_memory_type' = best
            /\ state' = "ready"
            /\ UNCHANGED <<n, memory_type_bits, texture_heap_alignment>>
  /\ UNCHANGED find_vars

Searching == /\ state \in {"select", "ready"}
             /\ Iterate
             /\ UNCHANGED selection

(* The calls for every other kind of memory                                *)
FindOther == /\ state = "ready" /\ Found
             /\ \E q \in Queries : Find(q)
             /\ UNCHANGED selection

Next == \/ ProbeColor \/ ProbeBroad \/ ProbeDepthStencil
        \/ SelectType \/ TypeSelected \/ Searching \/ FindOther

Spec == Init /\ [][Next]_vars

-----------------------------------------------------------------------------
texture_compression(f) == IF f = "bc7_rgba_unorm" THEN {"bc"} ELSE {}

supports_texture_format(f, usage) ==
  /\ ~(f \in DepthStencil /\ "color_attachment" \in usage)
  /\ ~(f \notin DepthStencil /\ "depth_stencil_attachment" \in usage)
  /\ ~(f \in Combined /\ usage \cap {"transfer_source", "transfer_destination"} # {})
  /\ texture_compression(f) \subseteq device.compression
  /\ required_format_features(usage) \subseteq Features(f)

ValidUsages == (SUBSET Usages) \ {{}}

Usable(f) == \E usage \in ValidUsages : supports_texture_format(f, usage)

TypeOK ==
  /\ FindTypeOK
  /\ state \in {"color", "broad", "depth", "select", "ready", "refused"}
  /\ n \in 0 .. Len(depth_stencil_formats)
  /\ memory_type_bits \subseteq Types
  /\ texture_memory_type \in Types \cup {none} /\ (texture_memory_type # none <=> state = "ready")
  /\ texture_heap_alignment \in Nat

(* Whatever texture the device is said to support can live in the memory   *)
(* type chosen for all texture heaps, although neither its format nor its  *)
(* usage need have been probed (select_texture_memory_type against         *)
(* supports_texture_format). A depth/stencil format is skipped when the    *)
(* device has no image of one texel for the usage its features offer; one  *)
(* with other usages would be a surprise, and is not covered. Nothing is   *)
(* said of alignments: texture_heap_alignment is the largest one probed.   *)
(***************************************************************************)
EverySupportedTextureFits ==
  state = "ready" =>
    \A f \in Formats :
      Usable(f) /\ (f \in DepthStencil => Supported(TexelImage(f)))
        => texture_memory_type \in device.bits[f]
=============================================================================
