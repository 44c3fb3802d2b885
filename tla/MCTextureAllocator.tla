-------------------------- MODULE MCTextureAllocator --------------------------
(* Image handles and the caller's variables are interchangeable.           *)
EXTENDS TextureAllocator, TLC

Symmetry == Permutations(Images) \cup Permutations(Slots)
=============================================================================
