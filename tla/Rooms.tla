------------------------------- MODULE Rooms -------------------------------
(***************************************************************************)
(* The players of a room as the client sees them against the players the   *)
(* server has there, while both change rooms and packets are in flight:    *)
(* OtherPlayers composed with the room change of the client                *)
(* (Game_Map::Setup and SetupFromSave, which end in ConnectToRoom), with  *)
(* connections that are lost and come back, and with a server.             *)
(*                                                                         *)
(* A websocket delivers in order, until it is lost with all it had not     *)
(* delivered; Connection models how the next one comes up. The server is   *)
(* not part of the repository: it is modelled from the packets the client  *)
(* handles. It keeps the room each session last asked for, answers a room  *)
(* change with the state of everyone there, and tells a session what       *)
(* happens in its room: a player moves, comes ("objectSync") or leaves     *)
(* ("disconnect").                                                         *)
(***************************************************************************)
EXTENDS OtherPlayers

CONSTANTS RoomIds,      \* map ids
          Lobby,        \* the room before the first map
          MaxInFlight   \* bound of the model: packets in flight, each way

ASSUME RoomsAssumption ==
    /\ Lobby \notin RoomIds
    /\ IsFiniteSet(Uids) /\ MaxInFlight \in Nat

VARIABLES connected, \* ConnectionData::connected
          room_id,   \* ConnectionData::room_id
          up,        \* room packets in flight to the server
          down,      \* packets in flight to the client
          session,   \* the room the server has this client in
          peers      \* uid -> the room that player is in

netVars == <<connected, room_id, up, down, session, peers>>
allVars == <<vars, netVars>>

-----------------------------------------------------------------------------
Sync(uid) == [type |-> "objectSync", uid |-> uid]
Gone(uid) == [type |-> "disconnect", uid |-> uid]
Packet == [type : {"objectSync", "disconnect"}, uid : Uids]

RoomsInit ==
    /\ Init
    /\ connected = FALSE
    /\ room_id = Lobby /\ session = Lobby
    /\ up = <<>> /\ down = <<>>
    /\ peers \in [Uids -> RoomIds]

Here == {u \in Uids : peers[u] = session}

-----------------------------------------------------------------------------
\* TrySend: what is sent without a connection is dropped.
TrySend(packet) == up' = IF connected THEN Append(up, packet) ELSE up

\* Wrong variants: a room that is entered again is not asked for again, the client does
\* not note its new room.
ConnectToRoom_lazy(map) ==
    /\ room_id' = map
    /\ ClearPlayers
    /\ IF map = room_id THEN UNCHANGED up ELSE TrySend(map)

ConnectToRoom_unnoted(map) == ClearPlayers /\ TrySend(map) /\ UNCHANGED room_id

\* ConnectToRoom: players first, then the room packet.
ConnectToRoom(map) ==
    /\ room_id' = map
    /\ ClearPlayers
    /\ TrySend(map)

\* Game_Map::Setup and SetupFromSave. Each clears the players several more times
\* on its way; the packets that arrived meanwhile are handled after it.
ChangeMap(map) ==
    /\ Idle /\ Len(up) < MaxInFlight
    /\ ConnectToRoom(map)
    /\ UNCHANGED <<connected, down, session, peers>>

\* Wrong variant: the room is left to the next map change.
onopen_roomless ==
    /\ Idle /\ ~connected
    /\ connected' = TRUE
    /\ ClearPlayers
    /\ UNCHANGED <<room_id, up, down, session, peers>>

\* onopen: the players of the last connection go, and the room of the map is asked for.
onopen ==
    /\ Idle /\ ~connected
    /\ connected' = TRUE
    /\ ClearPlayers
    /\ up' = <<room_id>>
    /\ UNCHANGED <<room_id, down, session, peers>>

\* onclose: what was in flight is lost, and the server forgets the session.
onclose ==
    /\ Idle /\ connected
    /\ connected' = FALSE
    /\ up' = <<>> /\ down' = <<>> /\ session' = Lobby
    /\ UNCHANGED <<vars, room_id, peers>>

\* onmessage, HandleReceivedPacket. A sync says where its player stands.
onmessage ==
    /\ Idle /\ down # <<>>
    /\ down' = Tail(down)
    /\ LET uid == Head(down).uid IN
       \/ /\ Head(down).type = "objectSync"
          /\ \E at \in Pos, speed \in Speeds :
                ObjectSync(uid, <<at>>, speed, NoFile, at, speed)
       \/ /\ Head(down).type = "disconnect"
          /\ Disconnect(uid)
    /\ UNCHANGED <<packets, connected, room_id, up, session, peers>>

\* A frame of the map scene.
PlayFrame == Frame /\ UNCHANGED netVars

-----------------------------------------------------------------------------
\* The server takes up a room packet: everyone there is described to us.
ServerMovesUs ==
    /\ up # <<>> /\ Len(down) + Cardinality(Uids) <= MaxInFlight
    /\ up' = Tail(up)
    /\ session' = Head(up)
    /\ \E all \in SetToSeqs({u \in Uids : peers[u] = Head(up)}) :
          down' = down \o [i \in DOMAIN all |-> Sync(all[i])]
    /\ UNCHANGED <<vars, connected, room_id, peers>>

\* A player in our room does something.
PeerActs(uid) ==
    /\ peers[uid] = session /\ Len(down) < MaxInFlight
    /\ down' = Append(down, Sync(uid))
    /\ UNCHANGED <<vars, connected, room_id, up, session, peers>>

\* A player changes rooms: we hear of it if it leaves ours or comes to ours.
PeerMoves(uid, room) ==
    /\ room # peers[uid] /\ Len(down) < MaxInFlight
    /\ peers' = [peers EXCEPT ![uid] = room]
    /\ down' = CASE peers[uid] = session -> Append(down, Gone(uid))
                 [] room = session       -> Append(down, Sync(uid))
                 [] OTHER                -> down
    /\ UNCHANGED <<vars, connected, room_id, up, session>>

RoomsNext ==
    \/ \E map \in RoomIds : ChangeMap(map)
    \/ onopen \/ onclose \/ onmessage
    \/ PlayFrame
    \/ ServerMovesUs
    \/ \E uid \in Uids : PeerActs(uid)
    \/ \E uid \in Uids, room \in RoomIds : PeerMoves(uid, room)

RoomsSpec == RoomsInit /\ [][RoomsNext]_allVars

-----------------------------------------------------------------------------
\* Nothing in flight in either direction and no handler half way.
Quiet == Idle /\ up = <<>> /\ down = <<>>

\* Until all packets are handled, a player missing from the screen is on its way to it: the packets
\* in flight end in one that shows it, or a room change of ours is yet to be answered.
MissingIsOnItsWay ==
    ~aborted => \A u \in Here \ Present :
        \/ up # <<>>
        \/ \E i \in DOMAIN down : /\ down[i] = Sync(u)
                                  /\ \A j \in i + 1 .. Len(down) : down[j] # Gone(u)

\* The client and the server agree on the room once all packets are handled, however often
\* the connection was lost in between.
SameRoom == connected /\ Quiet => room_id = session

\* "prevent deleting non existent nametag" (game_multiplayer_nametags.cpp:97).
NoAssertionFails == ~aborted

=============================================================================
