------------------------- MODULE Connection_proofs -------------------------
(***************************************************************************)
(* Theorems about Connection, for any number of websockets, maps and       *)
(* places and any reconnect interval: what an open session was told.       *)
(***************************************************************************)
EXTENDS Connection, TLAPS

-----------------------------------------------------------------------------
(* What a server that knows h knows after one more packet.                  *)

Told(h) == h \in Heard /\ h.first = "game"

Rooms == Maps \cup {NoMap}

\* The game header opens a session.
LEMMA HearGame == ASSUME NEW h \in Heard PROVE Told(Hear(h, Game))
  BY DEF Hear, Game, Told, Heard, Facts

\* A room packet makes the server forget what it knew of the player.
LEMMA HearRoom ==
    ASSUME NEW h, Told(h), NEW map \in Rooms
    PROVE  Told(Hear(h, Room(map))) /\ Hear(h, Room(map)).room = map
  BY DEF Hear, Room, Told, Heard, Facts, Rooms

LEMMA HearSync ==
    ASSUME NEW h, Told(h)
    PROVE  LET k == Hear(h, SyncMe) IN
           Told(k) /\ k.room = h.room /\ k.at = h.at /\ k.facts = h.facts /\ k.unsynced = FALSE
  BY DEF Hear, SyncMe, Told, Heard, Facts

LEMMA HearEffect ==
    ASSUME NEW h, Told(h)
    PROVE  LET k == Hear(h, Effect) IN
           Told(k) /\ k.room = h.room /\ k.at = h.at /\ k.facts = h.facts
  BY DEF Hear, Effect, Told, Heard, Facts

LEMMA HearMovement ==
    ASSUME NEW h, Told(h), NEW at \in Spots
    PROVE  LET k == Hear(h, Movement(at)) IN
           Told(k) /\ k.room = h.room /\ k.at = at /\ k.facts = h.facts
  BY DEF Hear, Movement, Told, Heard, Facts

LEMMA HearFact ==
    ASSUME NEW h, Told(h), NEW f \in Facts
    PROVE  LET k == Hear(h, Fact(f)) IN
           Told(k) /\ k.room = h.room /\ k.at = h.at /\ k.facts = h.facts \cup {f}
  BY DEF Hear, Fact, Told, Heard, Facts

\* SendPlayerData tells everything there is to tell, and nothing about the room.
LEMMA HearPlayerFacts ==
    ASSUME NEW h, Told(h), NEW at \in Spots
    PROVE  LET k == HearPlayer(h, at) IN
           /\ Told(k) /\ k.room = h.room /\ k.at = at
           /\ Facts \ k.facts \subseteq IF named THEN {} ELSE {"name"}
<1> DEFINE m == Hear(h, Movement(at))
           s == Hear(m, Fact("sprite"))
           n == HearName(s)
           k == Hear(n, Fact("movementAnimationSpeed"))
<1>0. /\ "sprite" \in Facts /\ "name" \in Facts /\ "movementAnimationSpeed" \in Facts
      /\ Facts = {"sprite", "name", "movementAnimationSpeed"}
  BY DEF Facts
<1>1. Told(m) /\ m.room = h.room /\ m.at = at
  BY HearMovement
<1>2. Told(s) /\ s.room = h.room /\ s.at = at /\ "sprite" \in s.facts
  <2> HIDE DEF m
  <2> QED BY <1>0, <1>1, HearFact
<1>3. /\ Told(n) /\ n.room = h.room /\ n.at = at /\ "sprite" \in n.facts
      /\ named => "name" \in n.facts
  <2> HIDE DEF s
  <2> QED BY <1>0, <1>2, HearFact DEF HearName
<1>4. /\ Told(k) /\ k.room = h.room /\ k.at = at
      /\ "sprite" \in k.facts /\ "movementAnimationSpeed" \in k.facts
      /\ named => "name" \in k.facts
  <2> HIDE DEF n
  <2> QED BY <1>0, <1>3, HearFact
<1>5. HearPlayer(h, at) = k
  BY DEF HearPlayer
<1> HIDE DEF k
<1> QED
  BY <1>0, <1>4, <1>5

-----------------------------------------------------------------------------
(* The inductive invariant. A websocket that is still connecting was told    *)
(* nothing: this is why a late answer to an abandoned attempt does not make   *)
(* a second session.                                                          *)

Fresh == \A s \in Sockets : state[s] = "connecting" => heard[s].first = "none"

SessionInv ==
    /\ ConnectionTypeOK
    /\ Fresh
    /\ ConnectedMeansOpen
    /\ OneSession
    /\ RoomAgreement

LEMMA InitSession == ConnectionInit => SessionInv
<1> SUFFICES ASSUME ConnectionInit PROVE SessionInv
  OBVIOUS
<1>1. Nothing \in Heard
  BY DEF Nothing, Heard
<1>2. ConnectionTypeOK
  <2>1. state \in [Sockets -> {"closed", "connecting", "open"}] /\ heard \in [Sockets -> Heard]
    BY <1>1 DEF ConnectionInit
  <2>2. elapsed \in 0 .. ReconnectInterval + 1
    BY ConnectionAssumption DEF ConnectionInit
  <2>3. connected \in BOOLEAN /\ roomFirstUpdate \in BOOLEAN /\ shouldsync \in BOOLEAN
    BY Zenon DEF ConnectionInit
  <2>4. named \in BOOLEAN /\ crowd \in BOOLEAN /\ silent \in BOOLEAN
    BY Zenon DEF ConnectionInit
  <2> QED
    BY <2>1, <2>2, <2>3, <2>4 DEF ConnectionInit, ConnectionTypeOK
<1>3. Fresh /\ ConnectedMeansOpen /\ OneSession /\ RoomAgreement
  BY ConnectionAssumption
     DEF ConnectionInit, Fresh, ConnectedMeansOpen, OneSession, RoomAgreement, Online, OpenIn
<1> QED
  BY <1>2, <1>3 DEF SessionInv

\* The packets of one handler, on whatever the current websocket is.
LEMMA Sends ==
    ASSUME SessionInv, NEW after, TrySend(state, after), UNCHANGED <<state, socket>>,
           Online => Told(after)
    PROVE  /\ heard' \in [Sockets -> Heard] /\ Fresh' /\ OneSession'
           /\ Online' <=> Online
           /\ Online => heard'[socket'] = after /\ Told(after)
<1>1. Online => socket \in Sockets
  BY DEF SessionInv, ConnectionTypeOK, Online, OpenIn
<1>2. heard' = IF Online THEN [heard EXCEPT ![socket] = after] ELSE heard
  BY DEF TrySend, Online
<1>3. heard' \in [Sockets -> Heard]
  BY <1>1, <1>2 DEF SessionInv, ConnectionTypeOK, Told
<1>4. Online' <=> Online
  BY DEF Online, OpenIn
<1>5. Fresh'
  BY <1>1, <1>2, <1>3 DEF SessionInv, ConnectionTypeOK, Fresh, Online, OpenIn
<1>6. OneSession'
  BY <1>1, <1>2, <1>3 DEF SessionInv, ConnectionTypeOK, OneSession, Online, OpenIn
<1> QED
  BY <1>1, <1>2, <1>3, <1>4, <1>5, <1>6 DEF SessionInv, ConnectionTypeOK

\* What the current websocket was told, if it is open.
LEMMA KnownIsTold == ASSUME SessionInv, Online PROVE Told(Known) /\ Known = heard[socket] /\ Known.room = room_id
  BY DEF SessionInv, ConnectionTypeOK, RoomAgreement, Online, OpenIn, Known, Told

-----------------------------------------------------------------------------
(* One lemma per action: it keeps the invariant.                            *)

\* What a step that leaves the websockets and the rooms alone has to show.
LEMMA QuietKeeps ==
    ASSUME SessionInv, ConnectionTypeOK',
           UNCHANGED <<browserVars, socket, connected, room_id>>,
           scene' \in {"map", "menu"} => scene \in {"map", "menu"} /\ mapId' = mapId
    PROVE  SessionInv'
<1>1. Fresh' /\ ConnectedMeansOpen' /\ OneSession'
  BY DEF browserVars, SessionInv, Fresh, ConnectedMeansOpen, OneSession
<1>2. RoomAgreement'
  BY DEF browserVars, SessionInv, RoomAgreement, Online, OpenIn
<1> QED
  BY <1>1, <1>2 DEF SessionInv

\* The same for a step that sends something in the room the session is in.
LEMMA SenderKeeps ==
    ASSUME SessionInv, NEW after, TrySend(state, after),
           UNCHANGED <<state, socket, connected, room_id>>,
           Online => Told(after) /\ after.room = room_id,
           heard' \in [Sockets -> Heard] => ConnectionTypeOK',
           scene' \in {"map", "menu"} => scene \in {"map", "menu"} /\ mapId' = mapId
    PROVE  SessionInv'
<1>1. /\ heard' \in [Sockets -> Heard] /\ Fresh' /\ OneSession'
      /\ Online' <=> Online
      /\ Online => heard'[socket'] = after /\ Told(after)
  BY Sends
<1>2. ConnectedMeansOpen'
  BY DEF SessionInv, ConnectedMeansOpen
<1>3. RoomAgreement'
  BY <1>1 DEF SessionInv, RoomAgreement, Told
<1> QED
  BY <1>1, <1>2, <1>3 DEF SessionInv

LEMMA OpenKeeps == ASSUME SessionInv, NEW s \in Sockets, onopen(s) PROVE SessionInv'
<1> DEFINE g == Hear(Known, Game)
           r == Hear(g, Room(mapId))
           after == HearPlayer(r, spot)
<1>1. /\ state' = [state EXCEPT ![s] = "open"] /\ state'[s] = "open" /\ state[s] = "connecting"
      /\ \A t \in Sockets : t # s => state'[t] = state[t]
      /\ state' \in [Sockets -> {"closed", "connecting", "open"}]
      /\ socket' = socket /\ connected' = TRUE /\ mapId' = mapId /\ room_id' = mapId
  BY DEF onopen, JoinRoom, SessionInv, ConnectionTypeOK
<1>2. ASSUME OpenIn(state')
      PROVE  socket \in Sockets /\ state'[socket] = "open" /\ Told(after) /\ after.room = mapId
  <2>1. socket \in Sockets /\ state'[socket] = "open" /\ Known \in Heard
    BY <1>2 DEF SessionInv, ConnectionTypeOK, OpenIn, Known
  <2>2. Told(g)
    BY <2>1, HearGame
  <2>3. mapId \in Rooms /\ spot \in Spots
    BY DEF SessionInv, ConnectionTypeOK, Rooms
  <2>4. Told(r) /\ r.room = mapId
    <3> HIDE DEF g
    <3> QED BY <2>2, <2>3, HearRoom
  <2>5. Told(after) /\ after.room = r.room
    <3> HIDE DEF r
    <3> QED BY <2>3, <2>4, HearPlayerFacts
  <2> QED
    BY <2>1, <2>4, <2>5
<1>3. heard' = IF OpenIn(state') THEN [heard EXCEPT ![socket] = after] ELSE heard
  BY DEF onopen, TrySend
<1> HIDE DEF after
<1>4. heard' \in [Sockets -> Heard]
  BY <1>2, <1>3 DEF SessionInv, ConnectionTypeOK, Told
<1>5. ConnectionTypeOK'
  BY <1>1, <1>4 DEF onopen, JoinRoom, SessionInv, ConnectionTypeOK
<1>6. Fresh'
  BY <1>1, <1>2, <1>3 DEF SessionInv, ConnectionTypeOK, Fresh
<1>7. ConnectedMeansOpen'
  BY <1>1 DEF ConnectedMeansOpen
<1>8. OneSession'
  BY <1>1, <1>2, <1>3 DEF SessionInv, ConnectionTypeOK, OneSession, Fresh
<1>9. RoomAgreement'
  <2>1. Online' <=> OpenIn(state')
    BY <1>1 DEF Online, OpenIn
  <2>2. OpenIn(state') => heard'[socket'] = after
    BY <1>1, <1>2, <1>3 DEF SessionInv, ConnectionTypeOK
  <2> QED
    BY <2>1, <2>2, <1>1, <1>2 DEF RoomAgreement, Told
<1> QED
  BY <1>5, <1>6, <1>7, <1>8, <1>9 DEF SessionInv

\* onclose and Reconnect close every websocket and say so.
LEMMA CloseKeeps ==
    ASSUME SessionInv, Deinitialize, connected' = FALSE,
           UNCHANGED <<heard, socket, elapsed, roomVars, shouldsync, named, gameVars>>
    PROVE  SessionInv'
<1>1. /\ state' = [s \in Sockets |-> "closed"]
      /\ \A s \in Sockets : state'[s] = "closed"
      /\ state' \in [Sockets -> {"closed", "connecting", "open"}]
  BY DEF Deinitialize
<1>2. ConnectionTypeOK'
  BY <1>1 DEF SessionInv, ConnectionTypeOK, roomVars, gameVars
<1>3. ~Online'
  BY <1>1, <1>2 DEF ConnectionTypeOK, Online, OpenIn
<1>4. Fresh' /\ ConnectedMeansOpen' /\ OneSession'
  BY <1>1 DEF Fresh, ConnectedMeansOpen, OneSession
<1>5. RoomAgreement'
  BY <1>3 DEF SessionInv, RoomAgreement, roomVars, gameVars
<1> QED
  BY <1>2, <1>4, <1>5 DEF SessionInv

\* ConnectToGame is only called while nothing is open.
LEMMA DialKeeps ==
    ASSUME SessionInv, NEW s \in Sockets, MustReconnect, ConnectToGame(s),
           UNCHANGED <<connected, room_id, scene, mapId>>, ConnectionTypeOK'
    PROVE  SessionInv'
<1>1. /\ \A t \in Sockets : state[t] # "open"
      /\ state'[s] = "connecting" /\ heard'[s] = Nothing /\ socket' = s
      /\ \A t \in Sockets : t # s => state'[t] = state[t] /\ heard'[t] = heard[t]
  BY DEF SessionInv, ConnectionTypeOK, ConnectedMeansOpen, MustReconnect, ConnectToGame
<1>2. \A t \in Sockets : state'[t] # "open"
  BY <1>1
<1>3. Fresh' /\ OneSession'
  BY <1>1, <1>2 DEF SessionInv, Fresh, OneSession, Nothing
<1>4. ConnectedMeansOpen'
  BY <1>2 DEF MustReconnect, ConnectedMeansOpen
<1>5. RoomAgreement'
  BY <1>1, <1>2 DEF SessionInv, RoomAgreement, Online, OpenIn
<1> QED
  BY <1>3, <1>4, <1>5 DEF SessionInv

LEMMA UpdateKeeps == ASSUME SessionInv, Update PROVE SessionInv'
<1>1. CASE MustReconnect
  <2>1. PICK s \in Sockets : ConnectToGame(s)
    BY <1>1 DEF Update
  <2>2. /\ state' \in [Sockets -> {"closed", "connecting", "open"}]
        /\ heard' \in [Sockets -> Heard] /\ socket' \in Sockets
        /\ elapsed' \in 0 .. ReconnectInterval + 1
    <3>1. Nothing \in Heard
      BY DEF Nothing, Heard
    <3>2. elapsed' = 0 /\ 0 \in 0 .. ReconnectInterval + 1
      BY <2>1, ConnectionAssumption DEF ConnectToGame
    <3> QED
      BY <2>1, <3>1, <3>2 DEF ConnectToGame, SessionInv, ConnectionTypeOK
  <2>3. shouldsync' \in BOOLEAN /\ roomFirstUpdate' \in BOOLEAN /\ silent' \in BOOLEAN
    BY DEF Update, SessionInv, ConnectionTypeOK
  <2>4. ConnectionTypeOK'
    BY <2>2, <2>3 DEF Update, SessionInv, ConnectionTypeOK
  <2>5. UNCHANGED <<connected, room_id, scene, mapId>>
    BY DEF Update
  <2> QED
    BY <1>1, <2>1, <2>4, <2>5, DialKeeps
<1>2. CASE ~MustReconnect
  <2> DEFINE synced == IF shouldsync THEN Hear(Known, SyncMe) ELSE Known
             after == HearFrame(Known)
  <2>1. /\ TrySend(state, after)
        /\ UNCHANGED <<state, socket, connected, room_id, elapsed, named, crowd, scene, mapId, spot>>
    BY <1>2 DEF Update
  <2>2. ASSUME Online PROVE Told(after) /\ after.room = room_id
    <3>1. Told(synced) /\ synced.room = room_id
      BY <2>2, KnownIsTold, HearSync
    <3>2. after = IF roomFirstUpdate THEN HearPlayer(synced, spot) ELSE synced
      BY DEF HearFrame
    <3> HIDE DEF synced, after
    <3>3. spot \in Spots
      BY DEF SessionInv, ConnectionTypeOK
    <3> QED
      BY <3>1, <3>2, <3>3, HearPlayerFacts
  <2>3. shouldsync' \in BOOLEAN /\ roomFirstUpdate' \in BOOLEAN /\ silent' \in BOOLEAN
    BY DEF Update, SessionInv, ConnectionTypeOK
  <2>4. heard' \in [Sockets -> Heard] => ConnectionTypeOK'
    BY <2>1, <2>3 DEF SessionInv, ConnectionTypeOK
  <2> HIDE DEF after
  <2> QED
    BY <2>1, <2>2, <2>4, SenderKeeps
<1> QED
  BY <1>1, <1>2

\* A new room: what the session is told and what the client notes agree.
LEMMA RoomKeeps ==
    ASSUME SessionInv, NEW map \in Rooms, ConnectToRoom(map), mapId' = map,
           UNCHANGED <<state, sessionVars, named>>,
           heard' \in [Sockets -> Heard] => ConnectionTypeOK'
    PROVE  SessionInv'
<1> DEFINE after == Hear(Known, Room(map))
<1>1. TrySend(state, after) /\ room_id' = map /\ UNCHANGED <<state, socket, connected>>
  BY DEF ConnectToRoom, JoinRoom, sessionVars
<1>2. Online => Told(after) /\ after.room = map
  BY KnownIsTold, HearRoom
<1> HIDE DEF after
<1>3. /\ heard' \in [Sockets -> Heard] /\ Fresh' /\ OneSession'
      /\ Online' <=> Online
      /\ Online => heard'[socket'] = after /\ Told(after)
  BY <1>1, <1>2, Sends
<1>4. ConnectedMeansOpen'
  BY <1>1 DEF SessionInv, ConnectedMeansOpen
<1>5. RoomAgreement'
  BY <1>1, <1>2, <1>3 DEF RoomAgreement, Told
<1> QED
  BY <1>3, <1>4, <1>5 DEF SessionInv

LEMMA ChangeMapKeeps == ASSUME SessionInv, NEW map \in Maps, ChangeMap(map) PROVE SessionInv'
<1>1. map \in Rooms /\ ConnectToRoom(map) /\ mapId' = map /\ UNCHANGED <<state, sessionVars, named>>
  BY DEF ChangeMap, Rooms
<1>2. heard' \in [Sockets -> Heard] => ConnectionTypeOK'
  BY DEF ChangeMap, ConnectToRoom, JoinRoom, sessionVars, SessionInv, ConnectionTypeOK
<1> QED
  BY <1>1, <1>2, RoomKeeps

LEMMA MapSaveKeeps == ASSUME SessionInv, MapSaveFileReady PROVE SessionInv'
<1>1. /\ mapId \in Rooms /\ ConnectToRoom(mapId) /\ mapId' = mapId
      /\ UNCHANGED <<state, sessionVars, named>>
  BY DEF MapSaveFileReady, Rooms, SessionInv, ConnectionTypeOK
<1>2. heard' \in [Sockets -> Heard] => ConnectionTypeOK'
  BY DEF MapSaveFileReady, ConnectToRoom, JoinRoom, sessionVars, SessionInv, ConnectionTypeOK
<1> QED
  BY <1>1, <1>2, RoomKeeps

LEMMA WalkKeeps == ASSUME SessionInv, NEW to \in Spots, Walk(to) PROVE SessionInv'
<1> DEFINE after == Hear(Known, Movement(to))
<1>1. TrySend(state, after) /\ UNCHANGED <<state, sessionVars, roomVars, named, scene, mapId>>
  BY DEF Walk
<1>2. Online => Told(after) /\ after.room = room_id
  BY KnownIsTold, HearMovement
<1>3. heard' \in [Sockets -> Heard] => ConnectionTypeOK'
  BY DEF Walk, sessionVars, roomVars, SessionInv, ConnectionTypeOK
<1> HIDE DEF after
<1> QED
  BY <1>1, <1>2, <1>3, SenderKeeps DEF sessionVars, roomVars

LEMMA EffectKeeps == ASSUME SessionInv, SendEffect PROVE SessionInv'
<1> DEFINE after == Hear(Known, Effect)
<1>1. TrySend(state, after) /\ UNCHANGED <<state, sessionVars, roomVars, named, gameVars>>
  BY DEF SendEffect
<1>2. Online => Told(after) /\ after.room = room_id
  BY KnownIsTold, HearEffect
<1>3. heard' \in [Sockets -> Heard] => ConnectionTypeOK'
  BY DEF SendEffect, sessionVars, roomVars, gameVars, SessionInv, ConnectionTypeOK
<1> HIDE DEF after
<1> QED
  BY <1>1, <1>2, <1>3, SenderKeeps DEF sessionVars, roomVars, gameVars

LEMMA NameKeeps == ASSUME SessionInv, ChangeName PROVE SessionInv'
<1> DEFINE after == Hear(Known, Fact("name"))
<1>1. TrySend(state, after) /\ UNCHANGED <<state, sessionVars, roomVars, gameVars>>
  BY DEF ChangeName
<1>2. Online => Told(after) /\ after.room = room_id
  <2>1. "name" \in Facts
    BY DEF Facts
  <2> QED
    BY <2>1, KnownIsTold, HearFact
<1>3. heard' \in [Sockets -> Heard] => ConnectionTypeOK'
  BY DEF ChangeName, sessionVars, roomVars, gameVars, SessionInv, ConnectionTypeOK
<1> HIDE DEF after
<1> QED
  BY <1>1, <1>2, <1>3, SenderKeeps DEF sessionVars, roomVars, gameVars

\* Steps that send nothing.
LEMMA SilentKeeps ==
    ASSUME SessionInv,
           \/ \E s \in Sockets : onmessage(s)
           \/ Tick
           \/ \E map \in Maps : LoadSavegame(map)
           \/ ReturnToTitle
           \/ OpenOrCloseMenu
           \/ \E to \in Spots : Jump(to)
    PROVE  SessionInv'
<1> USE DEF SessionInv, ConnectionTypeOK, browserVars, sessionVars, roomVars, gameVars
<1>1. ASSUME NEW s \in Sockets, onmessage(s) PROVE SessionInv'
  BY <1>1, QuietKeeps DEF onmessage
<1>2. CASE Tick
  <2>1. elapsed' \in 0 .. ReconnectInterval + 1
    BY <1>2, ConnectionAssumption DEF Tick
  <2> QED
    BY <1>2, <2>1, QuietKeeps DEF Tick
<1>3. ASSUME NEW map \in Maps, LoadSavegame(map) PROVE SessionInv'
  BY <1>3, QuietKeeps DEF LoadSavegame
<1>4. CASE ReturnToTitle
  BY <1>4, QuietKeeps DEF ReturnToTitle
<1>5. CASE OpenOrCloseMenu
  BY <1>5, QuietKeeps DEF OpenOrCloseMenu
<1>6. ASSUME NEW to \in Spots, Jump(to) PROVE SessionInv'
  BY <1>6, QuietKeeps DEF Jump
<1> QED
  BY <1>1, <1>2, <1>3, <1>4, <1>5, <1>6

LEMMA SessionKept == SessionInv /\ [Next]_vars => SessionInv'
<1> SUFFICES ASSUME SessionInv, [Next]_vars PROVE SessionInv'
  OBVIOUS
<1>1. CASE UNCHANGED vars
  <2>1. UNCHANGED <<browserVars, socket, connected, room_id>> /\ UNCHANGED <<scene, mapId>>
    BY <1>1 DEF vars, sessionVars, roomVars, gameVars
  <2>2. ConnectionTypeOK'
    BY <1>1 DEF vars, browserVars, sessionVars, roomVars, gameVars, SessionInv, ConnectionTypeOK
  <2> QED
    BY <2>1, <2>2, QuietKeeps
<1>2. CASE Next
  <2>1. ASSUME NEW s \in Sockets, onopen(s) PROVE SessionInv'
    BY <2>1, OpenKeeps
  <2>2. ASSUME NEW s \in Sockets, onclose(s) PROVE SessionInv'
    BY <2>2, CloseKeeps DEF onclose
  <2>3. CASE Reconnect
    BY <2>3, CloseKeeps DEF Reconnect
  <2>4. CASE Update
    BY <2>4, UpdateKeeps
  <2>5. ASSUME NEW map \in Maps, ChangeMap(map) PROVE SessionInv'
    BY <2>5, ChangeMapKeeps
  <2>6. CASE MapSaveFileReady
    BY <2>6, MapSaveKeeps
  <2>7. ASSUME NEW to \in Spots, Walk(to) PROVE SessionInv'
    BY <2>7, WalkKeeps
  <2>8. CASE SendEffect
    BY <2>8, EffectKeeps
  <2>9. CASE ChangeName
    BY <2>9, NameKeeps
  <2> QED
    BY <1>2, <2>1, <2>2, <2>3, <2>4, <2>5, <2>6, <2>7, <2>8, <2>9, SilentKeeps
       DEF Next, Network, Play
<1> QED
  BY <1>1, <1>2

LEMMA SessionInvariant == SafeSpec => []SessionInv
  BY InitSession, SessionKept, PTL DEF SafeSpec

-----------------------------------------------------------------------------
(* What the room knows of the player. Nothing has to be added to these two,  *)
(* given SessionInv.                                                        *)

PlayerInv == Announced /\ SyncFollows

LEMMA SentIsHeard ==
    ASSUME SessionInv, NEW after, TrySend(state, after), UNCHANGED <<state, socket>>
    PROVE  (Online' <=> Online) /\ (Online => heard'[socket'] = after)
  BY DEF SessionInv, ConnectionTypeOK, TrySend, Online, OpenIn

\* A step that enters a room, or after which nothing is open, owes nothing.
LEMMA NewRoomOwesNothing ==
    ASSUME roomFirstUpdate' = TRUE, shouldsync' = TRUE PROVE PlayerInv'
  BY DEF PlayerInv, Announced, SyncFollows

LEMMA OfflineOwesNothing == ASSUME ~Online' PROVE PlayerInv'
  BY DEF PlayerInv, Announced, SyncFollows

\* A step that sends nothing and moves the player at most silently.
LEMMA SilenceOwesNothing ==
    ASSUME PlayerInv, UNCHANGED <<browserVars, socket, roomFirstUpdate, shouldsync, named>>,
           silent' = TRUE \/ UNCHANGED <<spot, silent>>
    PROVE  PlayerInv'
<1>1. Online' <=> Online
  BY DEF Online, OpenIn, browserVars
<1>2. Announced'
  BY <1>1 DEF PlayerInv, Announced, browserVars
<1>3. SyncFollows'
  BY <1>1 DEF PlayerInv, SyncFollows, browserVars
<1> QED
  BY <1>2, <1>3 DEF PlayerInv

LEMMA UpdateAnnounces == ASSUME SessionInv, PlayerInv, Update PROVE PlayerInv'
<1>1. CASE MustReconnect
  <2>1. PICK s \in Sockets : ConnectToGame(s)
    BY <1>1 DEF Update
  <2>2. ~Online'
    BY <2>1 DEF ConnectToGame, Online, OpenIn, SessionInv, ConnectionTypeOK
  <2> QED
    BY <2>2, OfflineOwesNothing
<1>2. CASE ~MustReconnect
  <2> DEFINE synced == IF shouldsync THEN Hear(Known, SyncMe) ELSE Known
             after == HearFrame(Known)
  <2>1. /\ TrySend(state, after) /\ UNCHANGED <<state, socket, named, spot>>
        /\ shouldsync' = roomFirstUpdate /\ silent' = (silent /\ ~roomFirstUpdate)
    BY <1>2 DEF Update
  <2>2. SUFFICES ASSUME Online, Online' PROVE PlayerInv'
    BY <2>1, OfflineOwesNothing, SentIsHeard
  <2>3. heard'[socket'] = after
    BY <2>1, <2>2, SentIsHeard
  <2>4. after = IF roomFirstUpdate THEN HearPlayer(synced, spot) ELSE synced
    BY DEF HearFrame
  <2>5. /\ Told(synced) /\ synced.at = heard[socket].at /\ synced.facts = heard[socket].facts
        /\ synced.unsynced => ~shouldsync /\ heard[socket].unsynced
    BY <2>2, KnownIsTold, HearSync
  <2>6. spot \in Spots /\ spot # NoSpot
    BY ConnectionAssumption DEF SessionInv, ConnectionTypeOK
  <2> HIDE DEF synced, after
  <2>7. CASE roomFirstUpdate
    <3>1. after.at = spot /\ Facts \ after.facts \subseteq IF named THEN {} ELSE {"name"}
      BY <2>4, <2>5, <2>6, <2>7, HearPlayerFacts
    <3>2. Announced'
      BY <3>1, <2>1, <2>3, <2>6 DEF Announced
    <3>3. SyncFollows'
      BY <2>1, <2>7 DEF SyncFollows
    <3> QED
      BY <3>2, <3>3 DEF PlayerInv
  <2>8. CASE ~roomFirstUpdate
    <3>1. Announced'
      BY <2>1, <2>2, <2>3, <2>4, <2>5, <2>8 DEF PlayerInv, Announced
    <3>2. SyncFollows'
      BY <2>2, <2>3, <2>4, <2>5, <2>8 DEF PlayerInv, SyncFollows
    <3> QED
      BY <3>1, <3>2 DEF PlayerInv
  <2> QED
    BY <2>7, <2>8
<1> QED
  BY <1>1, <1>2

LEMMA WalkAnnounces == ASSUME SessionInv, PlayerInv, NEW to \in Spots, Walk(to) PROVE PlayerInv'
<1> DEFINE after == Hear(Known, Movement(to))
<1>1. /\ TrySend(state, after) /\ UNCHANGED <<state, socket, roomFirstUpdate, named>>
      /\ spot' = to /\ shouldsync' = TRUE
  BY DEF Walk, sessionVars, roomVars
<1>2. SUFFICES ASSUME Online, Online' PROVE PlayerInv'
  BY OfflineOwesNothing, <1>1, SentIsHeard
<1>3. after.at = to /\ after.facts = heard[socket].facts
  BY <1>2, KnownIsTold, HearMovement
<1>4. heard'[socket'] = after
  BY <1>1, <1>2, SentIsHeard
<1> HIDE DEF after
<1>5. to # NoSpot
  BY ConnectionAssumption
<1> QED
  BY <1>1, <1>2, <1>3, <1>4, <1>5 DEF PlayerInv, Announced, SyncFollows

LEMMA EffectAnnounces == ASSUME SessionInv, PlayerInv, SendEffect PROVE PlayerInv'
<1> DEFINE after == Hear(Known, Effect)
<1>1. /\ TrySend(state, after) /\ shouldsync' = TRUE
      /\ UNCHANGED <<state, socket, roomFirstUpdate, named, spot, silent>>
  BY DEF SendEffect, sessionVars, roomVars, gameVars
<1>2. SUFFICES ASSUME Online, Online' PROVE PlayerInv'
  BY OfflineOwesNothing, <1>1, SentIsHeard
<1>3. after.at = heard[socket].at /\ after.facts = heard[socket].facts
  BY <1>2, KnownIsTold, HearEffect
<1>4. heard'[socket'] = after
  BY <1>1, <1>2, SentIsHeard
<1> HIDE DEF after
<1> QED
  BY <1>1, <1>2, <1>3, <1>4 DEF PlayerInv, Announced, SyncFollows

LEMMA NameAnnounces == ASSUME SessionInv, PlayerInv, ChangeName PROVE PlayerInv'
<1> DEFINE after == Hear(Known, Fact("name"))
<1>1. /\ TrySend(state, after) /\ shouldsync' = TRUE /\ named' = TRUE /\ named = FALSE
      /\ UNCHANGED <<state, socket, roomFirstUpdate, spot, silent>>
  BY DEF ChangeName, sessionVars, roomVars, gameVars, SessionInv, ConnectionTypeOK
<1>2. SUFFICES ASSUME Online, Online' PROVE PlayerInv'
  BY OfflineOwesNothing, <1>1, SentIsHeard
<1>3. after.at = heard[socket].at /\ after.facts = heard[socket].facts \cup {"name"}
  BY <1>2, KnownIsTold, HearFact DEF Facts
<1>4. heard'[socket'] = after
  BY <1>1, <1>2, SentIsHeard
<1> HIDE DEF after
<1>5. Announced'
  BY <1>1, <1>2, <1>3, <1>4 DEF PlayerInv, Announced
<1>6. SyncFollows'
  BY <1>1 DEF SyncFollows
<1> QED
  BY <1>5, <1>6 DEF PlayerInv

LEMMA PlayerKept == SessionInv /\ PlayerInv /\ [Next]_vars => PlayerInv'
<1> SUFFICES ASSUME SessionInv, PlayerInv, [Next]_vars PROVE PlayerInv'
  OBVIOUS
<1>1. CASE UNCHANGED vars
  BY <1>1, SilenceOwesNothing DEF vars, sessionVars, roomVars, gameVars
<1>2. CASE Next
  <2>1. ASSUME NEW s \in Sockets, onopen(s) PROVE PlayerInv'
    BY <2>1, NewRoomOwesNothing DEF onopen, JoinRoom
  <2>2. ASSUME Deinitialize, UNCHANGED socket PROVE PlayerInv'
    <3>1. ~Online'
      BY <2>2 DEF Deinitialize, Online, OpenIn, SessionInv, ConnectionTypeOK
    <3> QED
      BY <3>1, OfflineOwesNothing
  <2>3. ASSUME NEW s \in Sockets, onclose(s) PROVE PlayerInv'
    BY <2>2, <2>3 DEF onclose
  <2>4. CASE Reconnect
    BY <2>2, <2>4 DEF Reconnect
  <2>5. CASE Update
    BY <2>5, UpdateAnnounces
  <2>6. ASSUME NEW map \in Maps, ChangeMap(map) PROVE PlayerInv'
    BY <2>6, NewRoomOwesNothing DEF ChangeMap, ConnectToRoom, JoinRoom
  <2>7. CASE MapSaveFileReady
    BY <2>7, NewRoomOwesNothing DEF MapSaveFileReady, ConnectToRoom, JoinRoom
  <2>8. ASSUME NEW to \in Spots, Walk(to) PROVE PlayerInv'
    BY <2>8, WalkAnnounces
  <2>9. CASE SendEffect
    BY <2>9, EffectAnnounces
  <2>10. CASE ChangeName
    BY <2>10, NameAnnounces
  <2>11. ASSUME \/ \E s \in Sockets : onmessage(s)
                \/ Tick
                \/ \E map \in Maps : LoadSavegame(map)
                \/ ReturnToTitle
                \/ OpenOrCloseMenu
                \/ \E to \in Spots : Jump(to)
         PROVE  PlayerInv'
    BY <2>11, SilenceOwesNothing
       DEF onmessage, Tick, LoadSavegame, ReturnToTitle, OpenOrCloseMenu, Jump,
           browserVars, sessionVars, roomVars, gameVars
  <2> QED
    BY <1>2, <2>1, <2>3, <2>4, <2>5, <2>6, <2>7, <2>8, <2>9, <2>10, <2>11
       DEF Next, Network, Play
<1> QED
  BY <1>1, <1>2

LEMMA PlayerInvariant == SafeSpec => []PlayerInv
<1>1. ConnectionInit => PlayerInv
  BY ConnectionAssumption DEF ConnectionInit, PlayerInv, Announced, SyncFollows, Online, OpenIn
<1> QED
  BY <1>1, SessionInvariant, PlayerKept, PTL DEF SafeSpec

-----------------------------------------------------------------------------
(* The theorems.                                                            *)

\* The types of Connection hold in every state; the first packet of every session is
\* the game header (game_multiplayer_connection.cpp:115).
THEOREM ConnectionTypeCorrect == SafeSpec => []ConnectionTypeOK
<1>1. SessionInv => ConnectionTypeOK
  BY DEF SessionInv
<1> QED
  BY <1>1, SessionInvariant, PTL

\* ConnectionData::connected is set exactly while the browser holds an open websocket,
\* however the callbacks of current and abandoned websockets interleave.
THEOREM FlagIsTrue == SafeSpec => []ConnectedMeansOpen
<1>1. SessionInv => ConnectedMeansOpen
  BY DEF SessionInv
<1> QED
  BY <1>1, SessionInvariant, PTL

\* No abandoned websocket ever carries a session, for any number of them
\* (game_multiplayer_connection.cpp:48-67).
THEOREM SessionIsSingle == SafeSpec => []OneSession
<1>1. SessionInv => OneSession
  BY DEF SessionInv
<1> QED
  BY <1>1, SessionInvariant, PTL

\* An open session was told the game first and is in the room of the map being played
\* (game_multiplayer_connection.cpp:69-79, 109-121).
THEOREM RoomIsRight == SafeSpec => []RoomAgreement
<1>1. SessionInv => RoomAgreement
  BY DEF SessionInv
<1> QED
  BY <1>1, SessionInvariant, PTL

\* From the first frame in a room on, the room knows the player: what was dropped while
\* nothing was open is told again (game_multiplayer_main_loop.cpp:114-124).
THEOREM PlayerIsAnnounced == SafeSpec => []Announced
<1>1. PlayerInv => Announced
  BY DEF PlayerInv
<1> QED
  BY <1>1, PlayerInvariant, PTL

\* Every packet is followed by a syncme in the next frame
\* (game_multiplayer_connection.cpp:45, game_multiplayer_main_loop.cpp:56-59).
THEOREM SyncIsDue == SafeSpec => []SyncFollows
<1>1. PlayerInv => SyncFollows
  BY DEF PlayerInv
<1> QED
  BY <1>1, PlayerInvariant, PTL
=============================================================================
