----------------------------- MODULE Connection -----------------------------
(***************************************************************************)
(* The websocket session of the client                                     *)
(* (src/src/game_multiplayer_connection.cpp), the part of                  *)
(* Game_Multiplayer::Update that keeps it alive and announces the player   *)
(* (game_multiplayer_main_loop.cpp), and the events of the game that       *)
(* change rooms, move the player or reconnect.                             *)
(*                                                                         *)
(* ConnectToGame makes a new websocket and forgets the old one, whose      *)
(* callbacks stay installed and act on the same globals: a late answer to  *)
(* an abandoned attempt is part of the model, and so is the player who     *)
(* changes rooms before it comes. Websocket callbacks run between frames.  *)
(*                                                                         *)
(* What is sent on a websocket is kept as what a server that reads it in   *)
(* order knows (heard), not as the list of packets.                        *)
(***************************************************************************)
EXTENDS Integers, FiniteSets

CONSTANTS Sockets,            \* websockets alive at one time (bound of the model)
          NoSocket,
          Maps,               \* map ids
          NoMap,              \* the map id of a game that has not started
          Spots,              \* places on a map
          NoSpot,
          ReconnectInterval   \* seconds between two connection attempts

ASSUME ConnectionAssumption ==
    /\ NoSocket \notin Sockets /\ IsFiniteSet(Sockets)
    /\ NoMap \notin Maps
    /\ NoSpot \notin Spots
    /\ ReconnectInterval \in Nat

VARIABLES
    \* the browser
    state,            \* websocket -> its readyState; closed ones may be made anew
    heard,            \* websocket -> what was sent on it
    \* ConnectionData and MyData
    socket,           \* ConnectionData::socket
    connected,        \* ConnectionData::connected
    elapsed,          \* seconds since lastConnect, counted up to ReconnectInterval + 1
    room_id,          \* ConnectionData::room_id
    roomFirstUpdate,  \* ConnectionData::roomFirstUpdate
    shouldsync,       \* MyData::shouldsync
    named,            \* MyData::username is not empty
    crowd,            \* other_players is not empty
    \* the game
    scene,            \* "title", "loading" a save, "map" (its Update runs) or "menu"
                      \* (anything on top of the map)
    mapId,            \* Game_Map::GetMapId()
    spot,             \* where the main player is
    silent            \* it got there without a packet (history)

browserVars == <<state, heard>>
roomVars == <<room_id, roomFirstUpdate, crowd>>
sessionVars == <<socket, connected, elapsed>>
gameVars == <<scene, mapId, spot, silent>>
vars == <<browserVars, sessionVars, roomVars, shouldsync, named, gameVars>>

-----------------------------------------------------------------------------
(* Packets, and what a server that reads them knows.                       *)

Facts == {"sprite", "name", "movementAnimationSpeed"}

Game == [type |-> "game"]                     \* game name followed by "game"
Room(map) == [type |-> "room", room |-> map]
Movement(at) == [type |-> "movement", at |-> at]
Fact(f) == [type |-> f]
SyncMe == [type |-> "syncme"]
Effect == [type |-> "effect"]                 \* facing, animframe, sound, system, ...

\* first: the type of the first packet; room: the last room packet; at, facts: what
\* was announced since then; unsynced: a packet came after the last syncme.
Nothing == [first |-> "none", room |-> NoMap, at |-> NoSpot, facts |-> {}, unsynced |-> FALSE]

Hear(h, m) ==
    [first    |-> IF h.first = "none" THEN m.type ELSE h.first,
     room     |-> IF m.type = "room" THEN m.room ELSE h.room,
     at       |-> IF m.type = "room" THEN NoSpot
                  ELSE IF m.type = "movement" THEN m.at ELSE h.at,
     facts    |-> IF m.type = "room" THEN {}
                  ELSE h.facts \cup (Facts \cap {m.type}),
     unsynced |-> m.type # "syncme"]

\* SendMainPlayerName says nothing while there is no name.
HearName(h) == IF named THEN Hear(h, Fact("name")) ELSE h

\* SendPlayerData, and the same packets in Update: position, sprite, name, speed.
HearPlayer(h, at) ==
    Hear(HearName(Hear(Hear(h, Movement(at)), Fact("sprite"))), Fact("movementAnimationSpeed"))

\* The current websocket is open. The ready state of a handle that no longer exists
\* is read uninitialised; sending on such a handle fails, so it counts as not open.
OpenIn(st) == socket # NoSocket /\ st[socket] = "open"
Online == OpenIn(state)

\* TrySend, for the packets of one handler: st are the ready states by then, after is
\* what a server that knew h knows once it got the packets.
TrySend(st, after) ==
    heard' = IF OpenIn(st) THEN [heard EXCEPT ![socket] = after] ELSE heard

Known == IF socket = NoSocket THEN Nothing ELSE heard[socket]

-----------------------------------------------------------------------------
ConnectionInit ==
    /\ state = [s \in Sockets |-> "closed"]
    /\ heard = [s \in Sockets |-> Nothing]
    /\ socket = NoSocket
    /\ connected = FALSE
    /\ elapsed = ReconnectInterval + 1
    /\ room_id = NoMap
    /\ roomFirstUpdate = TRUE
    /\ shouldsync = FALSE
    /\ named = FALSE
    /\ crowd = FALSE
    /\ scene = "title" /\ mapId = NoMap
    /\ spot \in Spots /\ silent = TRUE

-----------------------------------------------------------------------------
(* The websocket callbacks.                                                 *)

\* Wrong variant: the player was announced once, in the first room.
JoinRoom_quiet(map) == room_id' = map /\ crowd' = FALSE /\ UNCHANGED roomFirstUpdate

\* ConnectToRoom, without the packet it sends.
JoinRoom(map) ==
    /\ roomFirstUpdate' = TRUE
    /\ room_id' = map
    /\ crowd' = FALSE

\* Wrong variant: the room comes before the game.
onopen_roomFirst(s) ==
    /\ state[s] = "connecting"
    /\ state' = [state EXCEPT ![s] = "open"]
    /\ connected' = TRUE
    /\ JoinRoom(mapId)
    /\ TrySend(state', HearPlayer(Hear(Hear(Known, Room(mapId)), Game), spot))
    /\ shouldsync' = TRUE
    /\ silent' = FALSE
    /\ UNCHANGED <<socket, elapsed, named, scene, mapId, spot>>

\* onopen of any websocket: what it sends goes to the current one, which need not be
\* the one that opened.
onopen(s) ==
    /\ state[s] = "connecting"
    /\ state' = [state EXCEPT ![s] = "open"]
    /\ connected' = TRUE
    /\ JoinRoom(mapId)
    /\ TrySend(state', HearPlayer(Hear(Hear(Known, Game), Room(mapId)), spot))
    /\ shouldsync' = TRUE
    /\ silent' = FALSE
    /\ UNCHANGED <<socket, elapsed, named, scene, mapId, spot>>

\* emscripten_websocket_deinitialize: every websocket is closed, and its callbacks
\* are removed first.
Deinitialize == state' = [s \in Sockets |-> "closed"]

\* Wrong variants: the other websockets live on, the flag is not reset.
onclose_others(s) ==
    /\ state[s] # "closed"
    /\ connected' = FALSE
    /\ state' = [state EXCEPT ![s] = "closed"]
    /\ UNCHANGED <<heard, socket, elapsed, roomVars, shouldsync, named, gameVars>>

onclose_flag(s) ==
    /\ state[s] # "closed"
    /\ Deinitialize
    /\ UNCHANGED <<heard, sessionVars, roomVars, shouldsync, named, gameVars>>

\* onclose: a refused or lost connection, whichever websocket it is.
onclose(s) ==
    /\ state[s] # "closed"
    /\ connected' = FALSE
    /\ Deinitialize
    /\ UNCHANGED <<heard, socket, elapsed, roomVars, shouldsync, named, gameVars>>

\* onmessage: a packet about another player, on a websocket the server was told to
\* play the game on.
onmessage(s) ==
    /\ state[s] = "open" /\ heard[s].first # "none"
    /\ crowd' = TRUE
    /\ UNCHANGED <<browserVars, gameVars, sessionVars, room_id, roomFirstUpdate, shouldsync, named>>

-----------------------------------------------------------------------------
(* The frame.                                                               *)

\* Wrong variant: only the time counts.
MustReconnect_always == elapsed > ReconnectInterval

MustReconnect == ~connected /\ elapsed > ReconnectInterval

\* ConnectToGame: the new websocket replaces whatever the current one was.
ConnectToGame(s) ==
    /\ state[s] = "closed"
    /\ socket' = s
    /\ state' = [state EXCEPT ![s] = "connecting"]
    /\ heard' = [heard EXCEPT ![s] = Nothing]
    /\ elapsed' = 0

\* What Update sends when no connection attempt is due: syncme if something was sent
\* since the last frame, the player if this is the first frame in a room.
HearFrame(h) ==
    LET synced == IF shouldsync THEN Hear(h, SyncMe) ELSE h
    IN  IF roomFirstUpdate THEN HearPlayer(synced, spot) ELSE synced

\* Wrong variant: shouldsync is reset at the end.
Update_syncLast ==
    /\ scene = "map"
    /\ \/ MustReconnect /\ \E s \in Sockets : ConnectToGame(s)
       \/ /\ ~MustReconnect
          /\ TrySend(state, HearFrame(Known))
          /\ UNCHANGED <<state, socket, elapsed>>
    /\ shouldsync' = FALSE
    /\ roomFirstUpdate' = FALSE
    /\ silent' = (silent /\ ~roomFirstUpdate)
    /\ UNCHANGED <<connected, room_id, named, crowd, scene, mapId, spot>>

\* Game_Multiplayer::Update. What it sends in a frame that reconnects is dropped.
Update ==
    /\ scene = "map"
    /\ \/ MustReconnect /\ \E s \in Sockets : ConnectToGame(s)
       \/ /\ ~MustReconnect
          /\ TrySend(state, HearFrame(Known))
          /\ UNCHANGED <<state, socket, elapsed>>
    /\ shouldsync' = roomFirstUpdate
    /\ roomFirstUpdate' = FALSE
    /\ silent' = (silent /\ ~roomFirstUpdate)
    /\ UNCHANGED <<connected, room_id, named, crowd, scene, mapId, spot>>

\* time() advances.
Tick ==
    /\ elapsed <= ReconnectInterval
    /\ elapsed' = elapsed + 1
    /\ UNCHANGED <<browserVars, socket, connected, roomVars, shouldsync, named, gameVars>>

-----------------------------------------------------------------------------
(* The game.                                                                *)

\* ConnectToRoom.
ConnectToRoom(map) ==
    /\ JoinRoom(map)
    /\ TrySend(state, Hear(Known, Room(map)))
    /\ shouldsync' = TRUE

\* Game_Player::MoveTo on another map: a new game, a teleport (Game_Map::Setup).
ChangeMap(map) ==
    /\ scene \in {"title", "map"} /\ map # mapId
    /\ mapId' = map
    /\ spot' \in Spots
    /\ ConnectToRoom(map)
    /\ scene' = "map" /\ silent' = TRUE
    /\ UNCHANGED <<state, sessionVars, named>>

\* Player::LoadSavegame: the player is on the map of the save before that map's file
\* has arrived and its room is joined.
LoadSavegame(map) ==
    /\ scene # "loading"
    /\ mapId' = map
    /\ spot' \in Spots
    /\ crowd' = FALSE
    /\ scene' = "loading" /\ silent' = TRUE
    /\ UNCHANGED <<browserVars, sessionVars, room_id, roomFirstUpdate, shouldsync, named>>

\* Wrong variant: a loaded game does not join its room.
MapSaveFileReady_unjoined ==
    /\ scene = "loading"
    /\ scene' = "map"
    /\ UNCHANGED <<browserVars, sessionVars, roomVars, shouldsync, named, mapId, spot, silent>>

\* OnMapSaveFileReady, Game_Map::SetupFromSave.
MapSaveFileReady ==
    /\ scene = "loading"
    /\ ConnectToRoom(mapId)
    /\ scene' = "map"
    /\ UNCHANGED <<state, sessionVars, named, mapId, spot, silent>>

\* Scene_Title::Continue, Player::ResetGameObjects: the session stays as it is.
ReturnToTitle ==
    /\ scene \in {"map", "menu"}
    /\ scene' = "title"
    /\ mapId' = NoMap
    /\ spot' \in Spots
    /\ crowd' = FALSE /\ silent' = TRUE
    /\ UNCHANGED <<browserVars, sessionVars, room_id, roomFirstUpdate, shouldsync, named>>

OpenOrCloseMenu ==
    /\ \/ scene = "map" /\ scene' = "menu"
       \/ scene = "menu" /\ scene' = "map"
    /\ UNCHANGED <<browserVars, sessionVars, roomVars, shouldsync, named, mapId, spot, silent>>

\* Reconnect, of the settings scene.
Reconnect ==
    /\ scene = "menu"
    /\ connected' = FALSE
    /\ Deinitialize
    /\ UNCHANGED <<heard, socket, elapsed, roomVars, shouldsync, named, gameVars>>

\* Game_Character::Move of the main player tells the server.
Walk(to) ==
    /\ scene = "map" /\ to # spot
    /\ spot' = to
    /\ TrySend(state, Hear(Known, Movement(to)))
    /\ shouldsync' = TRUE
    /\ silent' = FALSE
    /\ UNCHANGED <<state, sessionVars, roomVars, named, scene, mapId>>

\* Jump, and MoveTo on the same map, do not.
Jump(to) ==
    /\ scene = "map" /\ to # spot
    /\ spot' = to
    /\ silent' = TRUE
    /\ UNCHANGED <<browserVars, sessionVars, roomVars, shouldsync, named, scene, mapId>>

\* Every other sender: a turn, an animation frame, a sound, a system graphic.
SendEffect ==
    /\ scene = "map"
    /\ TrySend(state, Hear(Known, Effect))
    /\ shouldsync' = TRUE
    /\ UNCHANGED <<state, sessionVars, roomVars, named, gameVars>>

\* ChangeName, called from the page at any time.
ChangeName ==
    /\ ~named
    /\ named' = TRUE
    /\ TrySend(state, Hear(Known, Fact("name")))
    /\ shouldsync' = TRUE
    /\ UNCHANGED <<state, sessionVars, roomVars, gameVars>>

-----------------------------------------------------------------------------
Network == \E s \in Sockets : onopen(s) \/ onclose(s) \/ onmessage(s)

Play ==
    \/ \E map \in Maps : ChangeMap(map)
    \/ \E map \in Maps : LoadSavegame(map)
    \/ MapSaveFileReady
    \/ ReturnToTitle
    \/ OpenOrCloseMenu
    \/ Reconnect
    \/ \E to \in Spots : Walk(to)
    \/ \E to \in Spots : Jump(to)
    \/ SendEffect
    \/ ChangeName

Next == Network \/ Update \/ Tick \/ Play

\* Player::MainLoop runs frame after frame, time passes, and a server that is asked
\* again and again answers some time.
Accepted == \E s \in Sockets : s = socket /\ onopen(s)

Fairness == WF_vars(Update) /\ WF_vars(Tick) /\ SF_vars(Accepted)

SafeSpec == ConnectionInit /\ [][Next]_vars
Spec == SafeSpec /\ Fairness

-----------------------------------------------------------------------------
Heard == [first : {"none", "game"}, room : Maps \cup {NoMap}, at : Spots \cup {NoSpot},
          facts : SUBSET Facts, unsynced : BOOLEAN]

\* Types. The first packet of a session is the game header, whatever is sent
\* while websockets open, close and are replaced.
ConnectionTypeOK ==
    /\ state \in [Sockets -> {"closed", "connecting", "open"}]
    /\ heard \in [Sockets -> Heard]
    /\ socket \in Sockets \cup {NoSocket}
    /\ connected \in BOOLEAN
    /\ elapsed \in 0 .. ReconnectInterval + 1
    /\ room_id \in Maps \cup {NoMap}
    /\ roomFirstUpdate \in BOOLEAN /\ shouldsync \in BOOLEAN
    /\ named \in BOOLEAN /\ crowd \in BOOLEAN
    /\ scene \in {"title", "loading", "map", "menu"}
    /\ mapId \in Maps \cup {NoMap}
    /\ spot \in Spots /\ silent \in BOOLEAN

\* The flag Update goes by tells whether the browser holds an open websocket, which
\* only the latest event of any of them decides: a dead session is noticed and a live
\* one never replaced.
ConnectedMeansOpen == connected <=> \E s \in Sockets : state[s] = "open"

\* Only the current websocket ever carries a session: one that opened after it was
\* replaced was told nothing and gets nothing.
OneSession ==
    \A s \in Sockets : state[s] = "open" /\ heard[s].first # "none" => s = socket

\* "if we're not connected yet then it would be dropped and that's fine since we call
\* this function again in websocket onopen callback" (game_multiplayer_connection.cpp:75):
\* an open session was told the game first and is in the room of the map being
\* played, whenever the connection came up and went down.
RoomAgreement ==
    /\ Online => heard[socket].first = "game" /\ heard[socket].room = room_id
    /\ scene \in {"map", "menu"} => room_id = mapId

\* From the first frame in a room on, the room knows the player's sprite, speed and
\* name, and where it stands unless it got there silently.
Announced ==
    Online /\ ~roomFirstUpdate =>
        /\ Facts \ heard[socket].facts \subseteq IF named THEN {} ELSE {"name"}
        /\ heard[socket].at # NoSpot
        /\ silent \/ heard[socket].at = spot

\* No packet is sent that the next frame does not follow up with syncme.
SyncFollows == Online /\ heard[socket].unsynced => shouldsync

\* A player who stays in the game is in the room of its map again and again, however
\* often the connection is lost, refused or abandoned.
ComesOnline ==
    <>[](scene = "map") => []<>(scene = "map" /\ Online /\ heard[socket].room = mapId)

=============================================================================
