---------------------------- MODULE MCNameTags ----------------------------
(* DrawableNameTags on three players, a heap of three addresses, the tile of *)
(* new tags and one to its left, and two system graphics.                    *)
EXTENDS NameTags, TLC

MCXs == {-1, 0}
MCYs == {0}
Symmetry == Permutations(Uids) \cup Permutations(Ptrs) \cup Permutations(Systems)
=============================================================================
