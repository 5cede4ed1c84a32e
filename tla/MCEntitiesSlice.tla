-------------------------- MODULE MCEntitiesSlice --------------------------
(***************************************************************************)
(* EntitiesSlice for TLC: two slices, elements that hold 0 or 1.           *)
(***************************************************************************)
EXTENDS EntitiesSlice, TLC

CONSTANTS s1, s2

TwoSlices     == {s1, s2}
TwoValues     == {0, 1}
SliceSymmetry == Permutations(TwoSlices)
=============================================================================
