--------------------------- MODULE MCPresentation ---------------------------
(***************************************************************************)
(* Presentation for TLC.  The handles the driver gives out are             *)
(* interchangeable, and so are the extents of the window.                  *)
(***************************************************************************)
EXTENDS Presentation, TLC

Interchangeable == Permutations(Handles) \union Permutations(Extents)
=============================================================================
