------------------------------ MODULE TagBoard ------------------------------
(***************************************************************************)
(* What DrawableNameTags promises, without a heap: every player of the     *)
(* room has one tag, which stands in the stack of one tile; a tag that     *)
(* arrives somewhere goes on top of the stack, and the tags it leaves      *)
(* behind or joins keep their order. NameTags implements it.               *)
(***************************************************************************)
EXTENDS Sequences, SequencesExt

CONSTANTS Uids,   \* player ids
          Tiles,
          Home    \* the tile of a tag that was not moved yet

VARIABLE board    \* tile -> players whose tags stand there, bottom of the stack first

Standing(tile) == ToSet(board[tile])
Shown == UNION {Standing(tile) : tile \in Tiles}

\* The board without the tag of u.
Without(u) == [tile \in Tiles |-> RemoveFirst(board[tile], u)]

OnTop(b, u, tile) == [b EXCEPT ![tile] = Append(@, u)]

BoardInit == board = [tile \in Tiles |-> <<>>]

Arrive(u) == u \notin Shown /\ board' = OnTop(board, u, Home)
Leave(u)  == u \in Shown /\ board' = Without(u)
MoveTo(u, tile) == u \in Shown /\ board' = OnTop(Without(u), u, tile)
Clear == board' = [tile \in Tiles |-> <<>>]

BoardNext ==
    \/ \E u \in Uids : Arrive(u)
    \/ \E u \in Uids : Leave(u)
    \/ \E u \in Uids, tile \in Tiles : MoveTo(u, tile)
    \/ Clear

BoardSpec == BoardInit /\ [][BoardNext]_board
=============================================================================
