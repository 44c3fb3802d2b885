---------------------------- MODULE MemoryTypes ----------------------------
(***************************************************************************)
(* The memory types and memory heaps of a physical device, and the choice  *)
(* Device::find_memory_type (src/src/NoGraphicsAPI.cpp) makes among them.  *)
(* A device d is a record: d.types[i] has the property flags and the heap  *)
(* of type i, d.heaps[h] the size and the flags of heap h. A query q has   *)
(* the arguments of find_memory_type.                                      *)
(***************************************************************************)
EXTENDS Integers, FiniteSets

CONSTANTS
  memory_type_count, \* VkPhysicalDeviceMemoryProperties::memoryTypeCount
  memory_heap_count, \* memoryHeapCount
  PropertyFlags      \* the VkMemoryPropertyFlagBits told apart

ASSUME MemoryAssumption ==
  /\ memory_type_count \in Nat
  /\ memory_heap_count \in Nat
  /\ IsFiniteSet(PropertyFlags)

Types == 0 .. memory_type_count - 1

none == -1 \* has_best == false

DeviceOK(d) ==
  /\ d.types \in [Types -> [flags : SUBSET PropertyFlags, heap : 0 .. memory_heap_count - 1]]
  /\ d.heaps \in [0 .. memory_heap_count - 1 -> [size : Nat, flags : SUBSET {"TILE_MEMORY"}]]

QueryOK(q) ==
  q \in [bits : SUBSET Types, required : SUBSET PropertyFlags, preferred : SUBSET PropertyFlags,
         avoided : SUBSET PropertyFlags, minimum : Nat]

cpu_visible_memory_properties == {"DEVICE_LOCAL", "HOST_VISIBLE", "HOST_COHERENT"}

forbidden_memory_properties ==
  {"LAZILY_ALLOCATED", "PROTECTED", "DEVICE_COHERENT_AMD", "DEVICE_UNCACHED_AMD"}

Flags(d, i) == d.types[i].flags
HeapSize(d, i) == d.heaps[d.types[i].heap].size

is_usable_memory_type(d, i) ==
  /\ Flags(d, i) \cap forbidden_memory_properties = {}
  /\ "TILE_MEMORY" \notin d.heaps[d.types[i].heap].flags

Qualifies(d, q, i) ==
  /\ i \in q.bits
  /\ q.required \subseteq Flags(d, i)
  /\ is_usable_memory_type(d, i)
  /\ HeapSize(d, i) >= q.minimum

IsAvoided(d, q, i) == Flags(d, i) \cap q.avoided # {}
Score(d, q, i) == Cardinality(Flags(d, i) \cap q.preferred)


(* The condition under which type i replaces the best one so far *)
MutantLastWins(d, q, i, b) ==
  \/ b = none
  \/ IsAvoided(d, q, b) /\ ~IsAvoided(d, q, i)
  \/ Score(d, q, i) > Score(d, q, b)
  \/ Score(d, q, i) = Score(d, q, b) /\ HeapSize(d, i) > HeapSize(d, b)
Improves(d, q, i, b) ==
  \/ b = none
  \/ IsAvoided(d, q, b) /\ ~IsAvoided(d, q, i)
  \/ /\ IsAvoided(d, q, b) = IsAvoided(d, q, i)
     /\ \/ Score(d, q, i) > Score(d, q, b)
        \/ Score(d, q, i) = Score(d, q, b) /\ HeapSize(d, i) > HeapSize(d, b)

(* One iteration of the loop *)
Scanned(d, q, i, b) == IF Qualifies(d, q, i) /\ Improves(d, q, i, b) THEN i ELSE b

(* The whole loop: the type returned, or none *)
find_memory_type(d, q) ==
  LET best[i \in 0 .. memory_type_count] == IF i = 0 THEN none ELSE Scanned(d, q, i - 1, best[i - 1])
  IN best[memory_type_count]

-----------------------------------------------------------------------------
(* What the loop is for: of the types S that qualify, those not to avoid,  *)
(* if there are any; of these the ones with most preferred flags; of these *)
(* the ones in the largest heap; of these the first.                       *)
NotAvoided(d, q, S) ==
  {i \in S : IsAvoided(d, q, i) => \A j \in S : IsAvoided(d, q, j)}
BestScored(d, q, S) == {i \in S : \A j \in S : Score(d, q, j) <= Score(d, q, i)}
InLargestHeap(d, S) == {i \in S : \A j \in S : HeapSize(d, j) <= HeapSize(d, i)}
First(S) == {i \in S : \A j \in S : i <= j}

Best(d, q, S) == First(InLargestHeap(d, BestScored(d, q, NotAvoided(d, q, S))))

Qualifying(d, q, n) == {i \in 0 .. n - 1 : Qualifies(d, q, i)}

=============================================================================
