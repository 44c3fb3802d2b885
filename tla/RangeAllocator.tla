--------------------------- MODULE RangeAllocator ---------------------------
(***************************************************************************)
(* HeapAllocator::RangeAllocator (src/utility/src/heap_allocator.cpp): a   *)
(* heap cut into nodes that know their neighbours, the free ones in lists  *)
(* by size class and two levels of bitmaps over the lists. An allocator is *)
(* a record `a` of its fields; the operators return the record it becomes. *)
(***************************************************************************)
EXTENDS Integers, Sequences, FiniteSets, FiniteSetsExt, SequencesExt

CONSTANTS
  IndexBits,      \* width of an offset, a size or a node index, 32 in the code
  mantissa_bits,  \* 3 in the code
  element_size,   \* bytes
  capacity,       \* elements
  max_allocations

Bit[n \in 0..IndexBits] == IF n = 0 THEN 1 ELSE 2 * Bit[n - 1] \* 1 << n

unused_node == Bit[IndexBits] - 1
bins_per_leaf == Bit[mantissa_bits]
maximum_allocation_count == (unused_node - 1) \div 2
node_capacity == 2 * max_allocations + 1

ASSUME RangeAllocatorAssumption ==
  /\ IndexBits \in Nat \ {0} /\ mantissa_bits \in 1..IndexBits /\ element_size \in Nat \ {0}
  /\ capacity \in 1..unused_node
  /\ max_allocations \in 1..maximum_allocation_count

NodeIndex == 0..(node_capacity - 1)
Link == NodeIndex \cup {unused_node}
Tops == 0..(IndexBits - 1)
Leaves == 0..(bins_per_leaf - 1)
Node == [offset : 0..capacity, size : 0..capacity, used : BOOLEAN,
         bin_previous : Link, bin_next : Link, neighbor_previous : Link, neighbor_next : Link]
ClearedNode == [offset |-> 0, size |-> 0, used |-> FALSE,
                bin_previous |-> unused_node, bin_next |-> unused_node,
                neighbor_previous |-> unused_node, neighbor_next |-> unused_node]

-----------------------------------------------------------------------------
(* Size classes: a size class is an exponent and mantissa_bits of fraction *)

HighestBit(size) == Max({b \in 0..(IndexBits - 1) : Bit[b] <= size})
size_to_bin_round_down(size) ==
  IF size < bins_per_leaf THEN size
  ELSE LET start == HighestBit(size) - mantissa_bits
       IN (start + 1) * bins_per_leaf + ((size \div Bit[start]) % bins_per_leaf)

TopOf(bin) == bin \div bins_per_leaf
LeafOf(bin) == bin % bins_per_leaf
BitsFrom(bits, first_bit) == {b \in bits : b >= first_bit}

-----------------------------------------------------------------------------
(* Nodes and the lists of free nodes *)

AcquiredNode(a) == Last(a.free_nodes)
AcquireNode(a) == [a EXCEPT !.free_nodes = Front(@)]

ReleaseNode(a, n) == [a EXCEPT !.nodes[n] = ClearedNode, !.free_nodes = Append(@, n)]

Relinked(nodes, n, link, target) ==
  IF n = unused_node THEN nodes ELSE [nodes EXCEPT ![n][link] = target]

InsertFreeNode(a, n) ==
  LET bin == size_to_bin_round_down(a.nodes[n].size)
      next == a.bin_indices[bin]
      linked == [a.nodes EXCEPT ![n].used = FALSE, ![n].bin_previous = unused_node,
                                ![n].bin_next = next]
  IN [a EXCEPT !.nodes = Relinked(linked, next, "bin_previous", n),
               !.bin_indices[bin] = n,
               !.used_leaf_bins[TopOf(bin)] = @ \cup {LeafOf(bin)},
               !.used_top_bins = @ \cup {TopOf(bin)}]

Unlinked(nodes, n) ==
  LET previous == nodes[n].bin_previous
      next == nodes[n].bin_next
      around == Relinked(Relinked(nodes, previous, "bin_next", next), next, "bin_previous", previous)
  IN [around EXCEPT ![n].bin_previous = unused_node, ![n].bin_next = unused_node]
RemoveFreeNode(a, n) ==
  LET node == a.nodes[n]
      bin == size_to_bin_round_down(node.size)
      first == node.bin_previous = unused_node
      emptied == first /\ node.bin_next = unused_node
  IN [a EXCEPT !.nodes = Unlinked(@, n),
               !.bin_indices[bin] = IF first THEN node.bin_next ELSE @,
               !.used_leaf_bins[TopOf(bin)] = IF emptied THEN @ \ {LeafOf(bin)} ELSE @,
               !.used_top_bins = IF emptied /\ a.used_leaf_bins[TopOf(bin)] = {LeafOf(bin)}
                                 THEN @ \ {TopOf(bin)} ELSE @]

-----------------------------------------------------------------------------
(* allocate, free and reset *)

Requested(byte_size) == 1 + (byte_size - 1) \div element_size
Uint32(elements) == elements % Bit[IndexBits]
\* `nodes` is null; the other fields are not looked at.
MovedFrom == [nodes |-> <<>>]

FirstOfSize(a, bin, size) ==
  LET scan[n \in Link] == IF n = unused_node \/ a.nodes[n].size >= size THEN n
                          ELSE scan[a.nodes[n].bin_next]
  IN scan[a.bin_indices[bin]]

MutantSkipsLeaf(a, minimum_bin) ==
  LET tops == BitsFrom(a.used_top_bins, TopOf(minimum_bin) + 1)
  IN IF tops = {} THEN unused_node
     ELSE a.bin_indices[Min(tops) * bins_per_leaf + Min(a.used_leaf_bins[Min(tops)])]
NextBinHead(a, minimum_bin) ==
  LET top == TopOf(minimum_bin)
      leaves == IF top \in Tops THEN BitsFrom(a.used_leaf_bins[top], LeafOf(minimum_bin)) ELSE {}
      tops == BitsFrom(a.used_top_bins, top + 1)
  IN IF leaves # {} THEN a.bin_indices[top * bins_per_leaf + Min(leaves)]
     ELSE IF tops = {} THEN unused_node
     ELSE a.bin_indices[Min(tops) * bins_per_leaf + Min(a.used_leaf_bins[Min(tops)])]

FindNode(a, size) ==
  LET bin == size_to_bin_round_down(size)
      near == FirstOfSize(a, bin, size)
  IN IF near # unused_node THEN near ELSE NextBinHead(a, bin + 1)

MutantTruncatesFirst(a, byte_size) ==
  IF a = MovedFrom THEN unused_node
  ELSE IF a.allocation_count = max_allocations \/ Uint32(Requested(byte_size)) > capacity
  THEN unused_node
  ELSE FindNode(a, Uint32(Requested(byte_size)))
Candidate(a, byte_size) ==
  IF a = MovedFrom THEN unused_node
  ELSE IF a.allocation_count = max_allocations \/ Requested(byte_size) > capacity
  THEN unused_node
  ELSE FindNode(a, Uint32(Requested(byte_size)))

Taken(a, n, size) ==
  [RemoveFreeNode(a, n) EXCEPT !.nodes[n].size = size, !.nodes[n].used = TRUE,
                               !.allocation_count = @ + 1]
MutantForgetsNeighbor(a, n, size) ==
  LET taken == Taken(a, n, size)
      r == AcquiredNode(taken)
      remainder == [ClearedNode EXCEPT !.offset = a.nodes[n].offset + size,
                                       !.size = a.nodes[n].size - size,
                                       !.neighbor_previous = n,
                                       !.neighbor_next = a.nodes[n].neighbor_next]
  IN IF a.nodes[n].size = size THEN taken
     ELSE InsertFreeNode([AcquireNode(taken) EXCEPT
            !.nodes = [@ EXCEPT ![r] = remainder, ![n].neighbor_next = r]], r)
Split(a, n, size) ==
  LET taken == Taken(a, n, size)
      r == AcquiredNode(taken)
      next == a.nodes[n].neighbor_next
      remainder == [ClearedNode EXCEPT !.offset = a.nodes[n].offset + size,
                                       !.size = a.nodes[n].size - size,
                                       !.neighbor_previous = n, !.neighbor_next = next]
  IN IF a.nodes[n].size = size THEN taken
     ELSE InsertFreeNode([AcquireNode(taken) EXCEPT
            !.nodes = Relinked([@ EXCEPT ![r] = remainder, ![n].neighbor_next = r],
                               next, "neighbor_previous", r)], r)

MutantKeepsOffset(a, token) ==
  LET p == a.nodes[token].neighbor_previous
      previous == a.nodes[p]
  IN IF p = unused_node THEN a
     ELSE IF previous.used THEN a
     ELSE ReleaseNode([RemoveFreeNode(a, p) EXCEPT
            !.nodes[token].size = @ + previous.size,
            !.nodes[token].neighbor_previous = previous.neighbor_previous], p)
MergedPrevious(a, token) ==
  LET p == a.nodes[token].neighbor_previous
      previous == a.nodes[p]
  IN IF p = unused_node THEN a
     ELSE IF previous.used THEN a
     ELSE ReleaseNode([RemoveFreeNode(a, p) EXCEPT
            !.nodes[token].offset = previous.offset,
            !.nodes[token].size = @ + previous.size,
            !.nodes[token].neighbor_previous = previous.neighbor_previous], p)
MergedNext(a, token) ==
  LET q == a.nodes[token].neighbor_next
      next == a.nodes[q]
  IN IF q = unused_node THEN a
     ELSE IF next.used THEN a
     ELSE ReleaseNode([RemoveFreeNode(a, q) EXCEPT
            !.nodes[token].size = @ + next.size,
            !.nodes[token].neighbor_next = next.neighbor_next], q)
Freed(a, token) ==
  LET merged == MergedNext(MergedPrevious(a, token), token)
      node == merged.nodes[token]
      linked == Relinked(Relinked(merged.nodes, node.neighbor_previous, "neighbor_next", token),
                         node.neighbor_next, "neighbor_previous", token)
  IN InsertFreeNode([merged EXCEPT !.nodes = linked, !.allocation_count = @ - 1], token)

Blank ==
  [allocation_count |-> 0, used_top_bins |-> {}, used_leaf_bins |-> [t \in Tops |-> {}],
   bin_indices |-> [b \in 0..(IndexBits * bins_per_leaf - 1) |-> unused_node],
   nodes |-> [n \in NodeIndex |-> ClearedNode],
   free_nodes |-> [i \in 1..node_capacity |-> i - 1]]
ResetRanges ==
  LET n == AcquiredNode(Blank)
  IN InsertFreeNode([AcquireNode(Blank) EXCEPT !.nodes[n].size = capacity], n)

-----------------------------------------------------------------------------
(* What the fields say together *)

LiveNodes(a) == NodeIndex \ ToSet(a.free_nodes)
FreeOnes(a) == {n \in LiveNodes(a) : ~a.nodes[n].used}
BinList(a, bin) ==
  LET walk[n \in Link] == IF n = unused_node THEN {} ELSE {n} \cup walk[a.nodes[n].bin_next]
  IN walk[a.bin_indices[bin]]

RangesTypeOK(a) ==
  /\ a.allocation_count \in 0..max_allocations
  /\ a.used_top_bins \subseteq Tops
  /\ a.used_leaf_bins \in [Tops -> SUBSET Leaves]
  /\ DOMAIN a.bin_indices = 0..(IndexBits * bins_per_leaf - 1)
  /\ \A b \in DOMAIN a.bin_indices : a.bin_indices[b] \in Link
  /\ DOMAIN a.nodes = NodeIndex /\ \A n \in NodeIndex : a.nodes[n] \in Node
  /\ IsInjective(a.free_nodes) /\ ToSet(a.free_nodes) \subseteq NodeIndex

(* The live nodes tile the heap from its first element to its last, each   *)
(* linked with the one before it and the one after it, and no two free     *)
(* nodes touch: what free's merging is for.                                *)
Tiled(a) ==
  /\ \E n \in LiveNodes(a) : a.nodes[n].offset = 0
  /\ \A n \in LiveNodes(a) :
       LET node == a.nodes[n]
           next == node.neighbor_next
       IN /\ node.size > 0
          /\ (node.neighbor_previous = unused_node) = (node.offset = 0)
          /\ IF next = unused_node THEN node.offset + node.size = capacity
             ELSE /\ next \in LiveNodes(a)
                  /\ a.nodes[next].offset = node.offset + node.size
                  /\ a.nodes[next].neighbor_previous = n
                  /\ node.used \/ a.nodes[next].used

(* The list of a bin holds exactly the free nodes of its size class, every *)
(* list is doubly linked, and the bitmaps say exactly which are not empty. *)
Binned(a) ==
  /\ \A b \in DOMAIN a.bin_indices :
       /\ BinList(a, b) = {n \in FreeOnes(a) : size_to_bin_round_down(a.nodes[n].size) = b}
       /\ (a.bin_indices[b] # unused_node) = (LeafOf(b) \in a.used_leaf_bins[TopOf(b)])
  /\ a.used_top_bins = {t \in Tops : a.used_leaf_bins[t] # {}}
  /\ \A n \in FreeOnes(a) :
       LET previous == a.nodes[n].bin_previous
       IN IF previous = unused_node
          THEN a.bin_indices[size_to_bin_round_down(a.nodes[n].size)] = n
          ELSE a.nodes[previous].bin_next = n
=============================================================================
