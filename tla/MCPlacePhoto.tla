---------------------------- MODULE MCPlacePhoto ----------------------------
(***************************************************************************)
(* Instances of PlacePhoto; handlers and places are interchangeable.       *)
(***************************************************************************)
EXTENDS PlacePhoto, TLC

Symmetry == Permutations(Handlers) \cup Permutations(PlaceIDs)
=============================================================================
