------------------------------ MODULE RangeHeap ------------------------------
(***************************************************************************)
(* What a heap of Capacity elements promises: a range it hands out lies in *)
(* the heap and overlaps no range still held, and every range returns to   *)
(* it whole. Where a range is placed is left open.                         *)
(***************************************************************************)
EXTENDS Integers, FiniteSets

CONSTANTS
  Capacity,      \* elements
  MaxAllocations \* ranges held at a time

VARIABLE live \* the ranges held

Range(offset, size) == [offset |-> offset, size |-> size]
Disjoint(r, s) == r.offset + r.size <= s.offset \/ s.offset + s.size <= r.offset
Placements(size) == {o \in 0..(Capacity - size) : \A r \in live : Disjoint(r, Range(o, size))}

Init == live = {}

Allocate(size) ==
  /\ Cardinality(live) < MaxAllocations
  /\ \E o \in Placements(size) : live' = live \cup {Range(o, size)}
Free(r) == live' = live \ {r}
Reset == live' = {}

Next == \/ \E size \in 1..Capacity : Allocate(size)
        \/ \E r \in live : Free(r)
        \/ Reset

Spec == Init /\ [][Next]_live

-----------------------------------------------------------------------------
(* No two ranges held at once share an element, and none leaves the heap:  *)
(* what RangeAllocator::allocate owes to its callers.                      *)
RangesAreDisjoint ==
  /\ \A r \in live : r.offset >= 0 /\ r.size > 0 /\ r.offset + r.size <= Capacity
  /\ \A r, s \in live : r # s => Disjoint(r, s)
=============================================================================
