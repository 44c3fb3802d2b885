--------------------------- MODULE MCHeapAllocator ---------------------------
(* HeapAllocator with variables that are interchangeable.                  *)
EXTENDS HeapAllocator

Symmetry == Permutations(Allocators)
=============================================================================
