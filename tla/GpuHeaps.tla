------------------------------ MODULE GpuHeaps -----------------------------
(***************************************************************************)
(* The memory heaps an application creates and destroys                    *)
(* (create_gpu_heap, destroy_gpu_heap), the backing buffers under them,    *)
(* and what set_texture_descriptor_heap and set_sampler_descriptor_heap    *)
(* bind of them. Addresses and sizes are numbers of bytes.                 *)
(***************************************************************************)
EXTENDS MemoryTypes

CONSTANTS
  Devices,                 \* the physical devices
  Sizes,                   \* byte counts the application asks for
  gpu_allocation_alignment,
  MaxHeaps,                \* bound: heaps alive at once
  AddressLimit             \* bound: end of the device addresses

(***************************************************************************)
(* A device d also has d.bits and d.granularity: for the two usages        *)
(* buffers are created with, the memory types they can be bound to and the *)
(* number of bytes their size is rounded up to, and d.layout: for each     *)
(* descriptor heap the limits of VkPhysicalDeviceDescriptorHeapPropertiesEXT. *)
(***************************************************************************)
Usages == {"universal", "descriptor"}
DescriptorKinds == {"texture_descriptor_heap", "sampler_descriptor_heap"}
OrdinaryKinds == {"cpu_visible", "gpu_only", "readback"}
Kinds == OrdinaryKinds \cup DescriptorKinds

LayoutOK(l) ==
  l \in [heapAlignment : Nat \ {0}, descriptorAlignment : Nat \ {0}, otherDescriptorAlignment : Nat \ {0},
         reserved : Nat]

ASSUME HeapsAssumption ==
  /\ gpu_allocation_alignment \in Nat \ {0}
  /\ Sizes \subseteq Nat \ {0}
  /\ AddressLimit \in Nat
  /\ \A d \in Devices :
       /\ DeviceOK(d)
       /\ d.bits \in [Usages -> SUBSET Types]
       /\ d.granularity \in [Usages -> Nat \ {0}]
       /\ \A k \in DescriptorKinds : LayoutOK(d.layout[k])
       \* Vulkan alignments are powers of two: the larger is a multiple of the smaller
       /\ \A k \in DescriptorKinds :
            \/ gpu_allocation_alignment % d.layout[k].heapAlignment = 0
            \/ d.layout[k].heapAlignment > gpu_allocation_alignment

VARIABLES
  device,
  state, \* "created" | "supported" | "unsupported" | "aborted"
  heaps  \* the GpuHeaps alive

vars == <<device, state, heaps>>

Init == device \in Devices /\ state = "created" /\ heaps = {}

-----------------------------------------------------------------------------
align_up(value, alignment) == ((value + alignment - 1) \div alignment) * alignment

Larger(m, n) == IF m > n THEN m ELSE n

(* The driver's VkMemoryRequirements of a buffer                           *)
RequiredSize(usage, size) == align_up(size, device.granularity[usage])

Query(usage, size, required, preferred, avoided) ==
  [bits |-> device.bits[usage], required |-> required, preferred |-> preferred, avoided |-> avoided,
   minimum |-> RequiredSize(usage, size)]

Find(usage, size, required, preferred, avoided) ==
  find_memory_type(device, Query(usage, size, required, preferred, avoided))

MutantUniversalProbes ==
  /\ Find("universal", 1, cpu_visible_memory_properties, {}, {}) # none
  /\ Find("universal", 1, {"DEVICE_LOCAL"}, {}, {"HOST_VISIBLE"}) # none
supports_gpu_heap_memory ==
  /\ Find("universal", 1, cpu_visible_memory_properties, {}, {}) # none
  /\ Find("universal", 1, {"DEVICE_LOCAL"}, {}, {"HOST_VISIBLE"}) # none
  /\ Find("descriptor", 1, cpu_visible_memory_properties, {}, {}) # none

(* create_device refuses a device without the memory it needs              *)
ProbeMemory ==
  /\ state = "created"
  /\ state' = IF supports_gpu_heap_memory THEN "supported" ELSE "unsupported"
  /\ UNCHANGED <<device, heaps>>

-----------------------------------------------------------------------------
Usage(kind) == IF kind \in DescriptorKinds THEN "descriptor" ELSE "universal"

(* The required, preferred and avoided properties of each MemoryType       *)
RequiredFlags(kind) == IF kind = "gpu_only" THEN {"DEVICE_LOCAL"} ELSE cpu_visible_memory_properties
PreferredFlags(kind) == IF kind = "readback" THEN {"HOST_CACHED"} ELSE {}
AvoidedFlags(kind) == IF kind = "gpu_only" THEN {"HOST_VISIBLE"} ELSE {}

(* allocate_descriptor_heap                                                *)
Layout(kind) == device.layout[kind]

ReservedAlignment(kind) == Larger(Layout(kind).descriptorAlignment, Layout(kind).otherDescriptorAlignment)

ReservedOffset(kind, size) == align_up(size, ReservedAlignment(kind))

BindSize(kind, size) == ReservedOffset(kind, size) + Layout(kind).reserved

MutantOwnAlignment(kind) == gpu_allocation_alignment
AllocationAlignment(kind) == Larger(Layout(kind).heapAlignment, gpu_allocation_alignment)

MutantNoPadding(kind, size) == IF kind \in DescriptorKinds THEN BindSize(kind, size) ELSE size
BackingSize(kind, size) ==
  IF kind \in DescriptorKinds THEN BindSize(kind, size) + AllocationAlignment(kind) - 1 ELSE size

(* Where in the backing the range starts                                   *)
RangeAddress(kind, address) ==
  IF kind \in DescriptorKinds THEN align_up(address, AllocationAlignment(kind)) ELSE address

MemoryTypeOf(kind, size) ==
  Find(Usage(kind), BackingSize(kind, size), RequiredFlags(kind), PreferredFlags(kind), AvoidedFlags(kind))

(* create_backing_buffer maps what it requires to be visible to the host   *)
Mapped(kind) == "HOST_VISIBLE" \in RequiredFlags(kind)

(* cpu is an offset in the mapped backing, or none for a null pointer.     *)
Heap(kind, size, address) ==
  [kind |-> kind, size |-> size,
   gpu |-> RangeAddress(kind, address),
   cpu |-> IF Mapped(kind) THEN RangeAddress(kind, address) - address ELSE none,
   backing |-> [address |-> address, size |-> BackingSize(kind, size), type |-> MemoryTypeOf(kind, size)]]

(* The driver chooses any address whose buffer is free.                    *)
FreeAt(address, size) ==
  /\ address + size <= AddressLimit
  /\ \A h \in heaps : \/ address + size <= h.backing.address
                      \/ h.backing.address + h.backing.size <= address

create_gpu_heap(kind, size) ==
  /\ state = "supported"
  /\ MemoryTypeOf(kind, size) # none
  /\ Cardinality(heaps) < MaxHeaps
  /\ \E address \in 1 .. AddressLimit :
       /\ FreeAt(address, BackingSize(kind, size))
       /\ heaps' = heaps \cup {Heap(kind, size, address)}
  /\ UNCHANGED <<device, state>>

(* create_backing_buffer finds no memory type: the process aborts.         *)
CreateAborts(kind, size) ==
  /\ state = "supported"
  /\ MemoryTypeOf(kind, size) = none
  /\ state' = "aborted"
  /\ UNCHANGED <<device, heaps>>

destroy_gpu_heap(h) ==
  /\ state = "supported"
  /\ heaps' = heaps \ {h}
  /\ UNCHANGED <<device, state>>

Next == \/ ProbeMemory
        \/ \E kind \in Kinds, size \in Sizes : create_gpu_heap(kind, size) \/ CreateAborts(kind, size)
        \/ \E h \in heaps : destroy_gpu_heap(h)

Spec == Init /\ [][Next]_vars

-----------------------------------------------------------------------------
(* make_heap_bind_info, from the range of the heap h                       *)
BindInfo(h) ==
  LET reserved_offset == align_up(h.size, ReservedAlignment(h.kind))
  IN [address |-> h.gpu, size |-> reserved_offset + Layout(h.kind).reserved, reservedRangeOffset |-> reserved_offset]
-----------------------------------------------------------------------------
BackingOK(b) == b \in [address : Nat, size : Nat, type : Types]

TypeOK ==
  /\ device \in Devices
  /\ state \in {"created", "supported", "unsupported", "aborted"}
  /\ \A h \in heaps : /\ h.kind \in Kinds /\ h.size \in Sizes
                       /\ h.gpu \in Nat /\ h.cpu \in Nat \cup {none}
                       /\ BackingOK(h.backing)

(* On a device create_device has accepted, every kind of heap has a memory *)
(* type: a creation aborts only for want of a memory heap large enough     *)
(* (supports_gpu_heap_memory against allocate_gpu_heap).                   *)
TooLarge(kind, size) ==
  LET fitting == {t \in device.bits[Usage(kind)] :
                    RequiredFlags(kind) \subseteq Flags(device, t) /\ is_usable_memory_type(device, t)}
  IN /\ fitting # {}
     /\ \A t \in fitting : HeapSize(device, t) < RequiredSize(Usage(kind), BackingSize(kind, size))
AbortsOnlyWhenTooLarge ==
  state \in {"supported", "aborted"} =>
    \A kind \in Kinds, size \in Sizes : MemoryTypeOf(kind, size) = none => TooLarge(kind, size)

(* The bytes the GPU may touch through a heap: those of its range and, for *)
(* a descriptor heap, the reserved ones bound behind it.                   *)
Extent(h) == IF h.kind \in DescriptorKinds THEN BindInfo(h).size ELSE h.size

(* Wherever the driver places the buffers, they hold what is used of the   *)
(* heaps, and no two heaps share a byte (allocate_descriptor_heap).        *)
Inside(h) ==
  h.backing.address <= h.gpu /\ h.gpu + Extent(h) <= h.backing.address + h.backing.size
Apart(g, h) == g.gpu + Extent(g) <= h.gpu \/ h.gpu + Extent(h) <= g.gpu
HeapsStayApart == (\A h \in heaps : Inside(h)) /\ (\A g, h \in heaps : g # h => Apart(g, h))

(* What binding a descriptor heap hands to the driver is aligned as the    *)
(* device asks, and the driver's reserved bytes come after the caller's    *)
(* (make_heap_bind_info against allocate_descriptor_heap).                 *)
BindOK(h) ==
  LET info == BindInfo(h)
  IN /\ info.address % Layout(h.kind).heapAlignment = 0
     /\ info.reservedRangeOffset % ReservedAlignment(h.kind) = 0
     /\ h.size <= info.reservedRangeOffset
     /\ info.reservedRangeOffset + Layout(h.kind).reserved <= info.size
BindsAreLegal == \A h \in heaps : h.kind \in DescriptorKinds => BindOK(h)
=============================================================================
