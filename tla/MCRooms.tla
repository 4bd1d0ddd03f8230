------------------------------ MODULE MCRooms ------------------------------
(* Two other players, two maps. One tile and one speed: where the players    *)
(* stand does not matter to who is on the screen.                            *)
EXTENDS Rooms

Origin == {0}
OneSpeed == {1}
Symmetry == Permutations(Uids) \cup Permutations(Ptrs) \cup Permutations(RoomIds)
============================================================================
