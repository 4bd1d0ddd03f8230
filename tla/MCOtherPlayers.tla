-------------------------- MODULE MCOtherPlayers --------------------------
(* The players of a room on a strip of three tiles, the last one out of      *)
(* reach of a step from the first two. Sizes are scaled down: a step is 8    *)
(* long and speeds 0, 1 and 2 cover 2, 4 and 8 of it per frame. And, as the  *)
(* other thing that frame after frame must bring about in the end, the       *)
(* session of this client: two websockets, one map, one place.               *)
EXTENDS OtherPlayers, MCParts

VARIABLES state, heard, socket, connected, elapsed, room_id, roomFirstUpdate, shouldsync, named,
          crowd, scene, mapId, spot, silent

sessionVars == <<state, heard, socket, connected, elapsed, room_id, roomFirstUpdate, shouldsync,
                 named, crowd, scene, mapId, spot, silent>>

Session == INSTANCE Connection WITH
    Sockets <- {"s1", "s2"}, NoSocket <- "none", Maps <- {"m1"}, NoMap <- "none",
    Spots <- {"a1"}, NoSpot <- "none", ReconnectInterval <- 1

MCXs == {0, 1, 3}
MCYs == {0}
MCSpeeds == {1}

-----------------------------------------------------------------------------
WalkInit == part \in {"walk", "session"} /\ Init /\ Session!ConnectionInit

WalkNext ==
    \/ part = "walk" /\ PlayersNext /\ UNCHANGED <<part, sessionVars>>
    \/ part = "session" /\ Session!Next /\ UNCHANGED <<part, vars>>

\* Of each part, as its module has it.
WalkFairness ==
    /\ WF_vars(part = "walk" /\ Frame) /\ WF_vars(part = "walk" /\ AskSystem)
    /\ WF_sessionVars(part = "session" /\ Session!Update)
    /\ WF_sessionVars(part = "session" /\ Session!Tick)
    /\ SF_sessionVars(part = "session" /\ Session!Accepted)

WalkSpec == WalkInit /\ [][WalkNext]_<<part, vars, sessionVars>> /\ WalkFairness

-----------------------------------------------------------------------------
(* Properties, as the modules state them; all others are those of          *)
(* OtherPlayers.                                                           *)

\* A player who stays in the game is in the room of its map again and again, however often
\* the connection is lost, refused or abandoned (game_multiplayer_connection.cpp).
ComesOnline == part = "session" => Session!ComesOnline
============================================================================
