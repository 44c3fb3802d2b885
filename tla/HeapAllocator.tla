--------------------------- MODULE HeapAllocator ---------------------------
(***************************************************************************)
(* HeapAllocator (src/utility/src/heap_allocator.cpp) over a storage of    *)
(* storage_size bytes, and the allocations its caller holds. Addresses are *)
(* offsets from the start of the storage. The caller may move the          *)
(* allocator between its variables, one of which is constructed first.     *)
(***************************************************************************)
EXTENDS RangeAllocator

CONSTANTS
  Allocators,   \* variables of type HeapAllocator
  storage_size, \* bytes
  Requests      \* byte sizes asked for

ASSUME StorageAssumption ==
  /\ storage_size \in Nat /\ capacity = storage_size \div element_size
  /\ Requests \subseteq Nat \ {0}

VARIABLES
  ranges_, \* the RangeAllocator of each variable
  held     \* the HeapAllocations the caller has not freed

heap_vars == <<ranges_, held>>

HeapInit ==
  /\ \E x \in Allocators : ranges_ = [y \in Allocators |-> IF y = x THEN ResetRanges ELSE MovedFrom]
  /\ held = {}

Allocation(offset, size, token) == [offset |-> offset, size |-> size, token |-> token]

Allocate(x, byte_size) ==
  LET n == Candidate(ranges_[x], byte_size)
  IN /\ n # unused_node
     /\ ranges_' = [ranges_ EXCEPT ![x] = Split(@, n, Uint32(Requested(byte_size)))]
     /\ held' = held \cup {Allocation(ranges_[x].nodes[n].offset * element_size, byte_size, n)}

(* The empty allocation *)
AllocateExhausted(x, byte_size) ==
  Candidate(ranges_[x], byte_size) = unused_node /\ UNCHANGED heap_vars

(* Only the allocator that has the nodes knows the token.                  *)
FreeAllocation(x, h) ==
  /\ ranges_[x] # MovedFrom
  /\ ranges_' = [ranges_ EXCEPT ![x] = Freed(@, h.token)]
  /\ held' = held \ {h}

(* Resetting what was moved from does nothing, to the caller's allocations too. *)
Reset(x) ==
  /\ ranges_[x] # MovedFrom
  /\ ranges_' = [ranges_ EXCEPT ![x] = ResetRanges]
  /\ held' = {}
ResetMovedFrom(x) == ranges_[x] = MovedFrom /\ UNCHANGED heap_vars

(* x = std::move(y): x gives up its nodes and takes those of y.            *)
MoveAssign(x, y) ==
  /\ x # y
  /\ ranges_' = [ranges_ EXCEPT ![x] = ranges_[y], ![y] = MovedFrom]
  /\ held' = IF ranges_[x] = MovedFrom THEN held ELSE {}
MoveToItself(x) == UNCHANGED heap_vars

HeapNext ==
  \E x \in Allocators :
    \/ \E b \in Requests : Allocate(x, b) \/ AllocateExhausted(x, b)
    \/ \E h \in held : FreeAllocation(x, h)
    \/ Reset(x) \/ ResetMovedFrom(x)
    \/ \E y \in Allocators : MoveAssign(x, y)
    \/ MoveToItself(x)

HeapSpec == HeapInit /\ [][HeapNext]_heap_vars

-----------------------------------------------------------------------------
Abstract == INSTANCE RangeHeap WITH
  Capacity <- capacity, MaxAllocations <- max_allocations,
  live <- {[offset |-> h.offset \div element_size, size |-> Requested(h.size)] : h \in held}

-----------------------------------------------------------------------------
Alive == {x \in Allocators : ranges_[x] # MovedFrom}

HeapTypeOK == \A x \in Alive : RangesTypeOK(ranges_[x])

(* The nodes in use are those the caller holds, at the addresses it was    *)
(* given and large enough for what it asked: no merge or split moves or    *)
(* shrinks an allocation that is held.                                     *)
HeldIsUsed(a) ==
  /\ {n \in LiveNodes(a) : a.nodes[n].used} = {h.token : h \in held}
  /\ a.allocation_count = Cardinality(held)
  /\ \A h \in held :
       /\ h.offset = a.nodes[h.token].offset * element_size
       /\ h.size <= a.nodes[h.token].size * element_size
       /\ h.offset + h.size <= storage_size

(* acquire_node has a node whenever allocate may need one for a remainder. *)
NodePoolSuffices(a) == a.allocation_count < max_allocations => a.free_nodes # <<>>

(* Through any sequence of allocations, frees, merges and moves the nodes  *)
(* tile the storage, no two free ones are neighbours, each of them is in   *)
(* its bin, with bitmaps that agree, those in use are what the caller      *)
(* holds, and the pool of nodes never runs dry (allocate, free,            *)
(* insert_free_node, remove_free_node, move_from); and one variable at     *)
(* most has the nodes, none only when they were overwritten.               *)
NodesTileTheHeap ==
  /\ HeapTypeOK
  /\ \A x \in Alive : /\ Tiled(ranges_[x]) /\ HeldIsUsed(ranges_[x]) /\ Binned(ranges_[x])
                       /\ NodePoolSuffices(ranges_[x])
  /\ Cardinality(Alive) <= 1
  /\ Alive = {} => held = {}

(* allocate fails only when the limit is reached or no gap between the     *)
(* allocations held is long enough, however often the allocator was moved: *)
(* the rounding of sizes to bins and the search through the bitmaps hide   *)
(* no free range; and what was moved from allocates nothing.               *)
ExhaustedOnlyWhenFull ==
  \A x \in Allocators, size \in 1..capacity :
    (Candidate(ranges_[x], size * element_size) = unused_node)
      = (x \notin Alive \/ Cardinality(held) = max_allocations \/ Abstract!Placements(size) = {})

(* Bins, lists and nodes implement a heap of disjoint ranges.              *)
ImplementsRangeHeap == Abstract!Spec
=============================================================================
