---------------------------- MODULE OtherPlayers ----------------------------
(***************************************************************************)
(* Game_Multiplayer::other_players: the players the server reports in our  *)
(* room (src/src/game_multiplayer_other_player.{h,cpp}), the packets that  *)
(* create, feed and erase them (game_multiplayer_receive_handler.cpp) and  *)
(* the per-frame loop that walks each of them along its queue of reported  *)
(* positions (Game_Multiplayer::Update, game_multiplayer_main_loop.cpp).   *)
(*                                                                         *)
(* Packets arrive in websocket callbacks, which the browser runs between   *)
(* two frames and never inside one. A callback or a frame that takes more  *)
(* than one step here keeps the rest of its work in todo and asking, and   *)
(* nothing else happens before both are empty again (Idle).                *)
(*                                                                         *)
(* The build modelled has its assertions enabled: one that fails stops the *)
(* program (aborted).                                                      *)
(***************************************************************************)
EXTENDS NameTags, FiniteSets

CONSTANTS TileSize,    \* SCREEN_TILE_SIZE, the length of one step
          Speeds,      \* movement speeds a player may have
          FastSpeed,   \* the speed of a player that lags behind its queue
          FastAbove,   \* queue length above which FastSpeed is used
          TrimAbove,   \* queue length above which positions are skipped
          MaxQueue,    \* bound of the model: positions waiting for one player
          MaxPackets   \* bound of the model: packets ever received

ASSUME OtherPlayersAssumption ==
    /\ Speeds \subseteq Nat /\ FastSpeed \in Nat /\ TileSize \in Nat \ {0}
    /\ FastAbove \in Nat /\ TrimAbove \in Nat /\ FastAbove <= TrimAbove
    /\ TrimAbove >= 2   \* a trimmed queue keeps its last position
    /\ MaxQueue \in Nat /\ MaxPackets \in Nat

\* Frames add up to a step at every speed, the 0 of a new MPPlayer included.
ASSUME StepAssumption ==
    \A s \in Speeds \cup {FastSpeed, 0} : \E k \in 1 .. TileSize : TileSize = k * 2 ^ (1 + s)

VARIABLES other_players,  \* uid -> MPPlayer, for the players in our room
          todo,           \* players the loop of the current frame has yet to visit
          asking,         \* the system graphic the current packet has yet to request
          aborted,        \* an assertion failed
          packets,        \* packets received so far (bound)
          reported        \* uid -> what was last reported of it (history)

playerVars == <<other_players, todo, asking, aborted, packets, reported>>
vars == <<tagVars, playerVars>>

-----------------------------------------------------------------------------
Present == DOMAIN other_players

Ask == [uid : Uids, file : Systems]
NoAsk == [file |-> NoFile]

Pos == Xs \X Ys

\* MPPlayer with its character: the queue mvq of reported positions, the tile the
\* character is on, what remains of its current step, the speed it walks at and
\* moveSpeed, the speed it returns to.
MPPlayer == [mvq : Seq(Pos), at : Pos, remaining : Int, speed : Nat, moveSpeed : Nat]

\* History: the last position reported (<<>> before the first one), and the speed
\* the player is known to have.
Report == [pos : Pos \cup {<<>>}, speed : Nat]

PlayersInit ==
    /\ other_players = [u \in {} |-> u]
    /\ todo = {}
    /\ asking = NoAsk
    /\ aborted = FALSE
    /\ packets = 0
    /\ reported = [u \in {} |-> u]

\* No handler and no frame is half way.
Idle == todo = {} /\ asking = NoAsk /\ ~aborted

IsStopping(ch) == ch.remaining <= 0

\* Wrong variant: the character is not updated.
Advance_frozen(ch) == ch

\* Game_Character::Update of another player's character: a moving character gets
\* 2^(1 + speed) closer to the end of its step.
Advance(ch) ==
    IF IsStopping(ch) THEN ch ELSE [ch EXCEPT !.remaining = @ - 2 ^ (1 + ch.speed)]

-----------------------------------------------------------------------------
\* CreatePlayer: the new character starts where the main player is (at) with its
\* speed; the other fields of MPPlayer are zero.
NewPlayer(at, speed) ==
    [mvq |-> <<>>, at |-> at, remaining |-> 0, speed |-> speed, moveSpeed |-> 0]

GetPlayerOrCreate(uid, at, speed) ==
    IF uid \in Present THEN other_players[uid] ELSE NewPlayer(at, speed)

KnownOf(uid, speed) ==
    IF uid \in Present THEN reported[uid] ELSE [pos |-> <<>>, speed |-> speed]

\* Wrong variant: the nametags stay.
ClearPlayers_keepsTags ==
    /\ other_players' = [u \in {} |-> u]
    /\ reported' = [u \in {} |-> u]
    /\ UNCHANGED <<tagVars, todo, asking, aborted, packets>>

ClearPlayers ==
    /\ other_players' = [u \in {} |-> u]
    /\ reported' = [u \in {} |-> u]
    /\ clearNameTags
    /\ UNCHANGED <<todo, asking, aborted, packets>>

\* Wrong variant: the speed is stored without a look at the type of its node.
ObjectSync_noSpeed(uid, path, speed, system, hereAt, hereSpeed) ==
    LET p == GetPlayerOrCreate(uid, hereAt, hereSpeed)
        r == KnownOf(uid, hereSpeed)
    IN  /\ Len(p.mvq) + Len(path) <= MaxQueue
        /\ other_players' = [u \in Present \cup {uid} |->
              IF u = uid THEN [p EXCEPT !.mvq = @ \o path, !.moveSpeed = speed]
                         ELSE other_players[u]]
        /\ reported' = [u \in Present \cup {uid} |-> IF u = uid THEN r ELSE reported[u]]
        /\ IF uid \in Present THEN UNCHANGED tagVars ELSE createNameTag(uid)
        /\ asking' = IF system = NoFile THEN NoAsk ELSE [uid |-> uid, file |-> system]
        /\ UNCHANGED <<todo, aborted>>

\* ResolveObjectSyncPacket: path holds the positions of its "pos" or "path",
\* speed is its movementAnimationSpeed (-1 when absent), system its system
\* graphic (NoFile when absent); hereAt and hereSpeed are the main player's.
ObjectSync(uid, path, speed, system, hereAt, hereSpeed) ==
    LET p == GetPlayerOrCreate(uid, hereAt, hereSpeed)
        r == KnownOf(uid, hereSpeed)
    IN  /\ Len(p.mvq) + Len(path) <= MaxQueue
        /\ other_players' = [u \in Present \cup {uid} |->
              IF u = uid
              THEN [p EXCEPT !.mvq = @ \o path,
                             !.moveSpeed = IF speed = -1 THEN @ ELSE speed]
              ELSE other_players[u]]
        /\ reported' = [u \in Present \cup {uid} |->
              IF u = uid
              THEN [pos   |-> IF path = <<>> THEN r.pos ELSE Last(path),
                    speed |-> IF speed = -1 THEN r.speed ELSE speed]
              ELSE reported[u]]
        /\ IF uid \in Present THEN UNCHANGED tagVars ELSE createNameTag(uid)
        /\ asking' = IF system = NoFile THEN NoAsk ELSE [uid |-> uid, file |-> system]
        /\ UNCHANGED <<todo, aborted>>

\* The end of ResolveObjectSyncPacket.
AskSystem ==
    /\ asking # NoAsk
    /\ setTagSystem(asking.uid, asking.file)
    /\ asking' = NoAsk
    /\ UNCHANGED <<other_players, todo, aborted, packets, reported>>

\* HandleDisconnect, ErasePlayer: the tag first (its assertion included), then
\* the player.
Disconnect(uid) ==
    /\ IF uid \in Tagged
       THEN /\ deleteNameTag(uid)
            /\ other_players' = [u \in Present \ {uid} |-> other_players[u]]
            /\ reported' = [u \in Present \ {uid} |-> reported[u]]
            /\ UNCHANGED aborted
       ELSE /\ aborted' = TRUE
            /\ UNCHANGED <<tagVars, other_players, reported>>
    /\ UNCHANGED <<todo, asking>>

-----------------------------------------------------------------------------
\* Update enters its loop over other_players.
StartFrame ==
    /\ Idle /\ Present # {}
    /\ todo' = Present
    /\ UNCHANGED <<tagVars, other_players, asking, aborted, packets, reported>>

\* MovePlayerToPos on a stopped character: a step to a neighbouring tile (Move,
\* which never fails on a tile of the map, other players being able to walk
\* through everything), anything else sets the position.
MovePlayerToPos(ch, pos) ==
    LET dx == pos[1] - ch.at[1]
        dy == pos[2] - ch.at[2]
    IN  IF dx \notin -1..1 \/ dy \notin -1..1 \/ (dx = 0 /\ dy = 0)
        THEN [ch EXCEPT !.at = pos]
        ELSE [ch EXCEPT !.at = pos, !.remaining = TileSize]

\* Wrong variants: the newest positions are dropped, one position too many is.
Trimmed_newest(q) == IF Len(q) > TrimAbove THEN SubSeq(q, 1, TrimAbove) ELSE q
Trimmed_oneMore(q) == IF Len(q) > TrimAbove THEN SubSeq(q, Len(q) - TrimAbove + 2, Len(q)) ELSE q

\* Positions the loop drops unseen when the queue is too long. The front is
\* dropped after it was applied.
Trimmed(q) == IF Len(q) > TrimAbove THEN SubSeq(q, Len(q) - TrimAbove + 1, Len(q)) ELSE q

\* The next reported position is taken up.
Follow(ch) ==
    LET q     == ch.mvq
        lags  == Len(q) > FastAbove
        moved == MovePlayerToPos(ch, Head(q))
    IN  [moved EXCEPT !.speed = IF lags THEN FastSpeed ELSE ch.moveSpeed,
                      !.mvq   = Tail(IF lags THEN Trimmed(q) ELSE q)]

\* Wrong variant: a position is taken up in the middle of a step.
UpdatePlayer_busy(uid) ==
    /\ uid \in todo
    /\ todo' = todo \ {uid}
    /\ LET ch == other_players[uid]
           follows == ch.mvq # <<>>
       IN  /\ other_players' = [other_players EXCEPT
                 ![uid] = Advance(IF follows THEN Follow(ch) ELSE ch)]
           /\ IF follows
              THEN moveNameTag(uid, Head(ch.mvq)[1], Head(ch.mvq)[2])
              ELSE UNCHANGED tagVars
    /\ UNCHANGED <<asking, aborted, packets, reported>>

\* One iteration of the loop: the player takes up a position if it stands still
\* and one is waiting (its tag moves along), then its character is updated.
UpdatePlayer(uid) ==
    /\ uid \in todo
    /\ todo' = todo \ {uid}
    /\ LET ch == other_players[uid]
           follows == ch.mvq # <<>> /\ IsStopping(ch)
       IN  /\ other_players' = [other_players EXCEPT
                 ![uid] = Advance(IF follows THEN Follow(ch) ELSE ch)]
           /\ IF follows
              THEN moveNameTag(uid, Head(ch.mvq)[1], Head(ch.mvq)[2])
              ELSE UNCHANGED tagVars
    /\ UNCHANGED <<asking, aborted, packets, reported>>

-----------------------------------------------------------------------------
\* A packet reports no position, one ("pos") or several ("path").
Paths == SeqOf(Pos, 2)

ReceivePacket ==
    /\ Idle /\ packets < MaxPackets
    /\ packets' = packets + 1
    /\ \E uid \in Uids :
        \/ \E path \in Paths, speed \in Speeds \cup {-1},
              system \in Systems \cup {NoFile}, at \in Pos, hereSpeed \in Speeds :
              ObjectSync(uid, path, speed, system, at, hereSpeed)
        \/ Disconnect(uid)

\* A new room, a new map, a new connection.
LeaveRoom == Idle /\ ClearPlayers

FileArrives ==
    /\ Idle
    /\ \E f \in Systems : DownloadDone(f)
    /\ UNCHANGED playerVars

PlayersNext ==
    \/ ReceivePacket
    \/ AskSystem
    \/ LeaveRoom
    \/ FileArrives
    \/ StartFrame
    \/ \E uid \in Uids : UpdatePlayer(uid)

Frame == StartFrame \/ \E uid \in Uids : UpdatePlayer(uid)

\* Player::MainLoop calls Update frame after frame; a callback runs to its end.
PlayersFairness == WF_vars(Frame) /\ WF_vars(AskSystem)

Init == TagsInit /\ PlayersInit

PlayersSpec == Init /\ [][PlayersNext]_vars /\ PlayersFairness

-----------------------------------------------------------------------------
PlayersTypeOK ==
    /\ TagsTypeOK
    /\ other_players \in [Present -> MPPlayer] /\ Present \subseteq Uids
    /\ todo \subseteq Present
    /\ asking \in Ask \cup {NoAsk}
    /\ aborted \in BOOLEAN
    /\ packets \in 0..MaxPackets
    /\ reported \in [Present -> Report]

\* Every player has a tag and every tag a player, whatever packets, room changes
\* and disconnects do: what the assertions of moveNameTag, setTagSystem and
\* createNameTag rest on.
PlayersHaveTags ==
    /\ Present = Tagged
    /\ asking # NoAsk => asking.uid \in Tagged

\* No report is forgotten: the last reported position either waits at the end of
\* the queue, or the character and its tag are there. Skipping positions, speeding
\* up, jumping or stepping never loses the place a player stopped at.
LastReportKept ==
    \A u \in Present : reported[u].pos # <<>> =>
        LET p == other_players[u]
            t == tags[nameTags[u]]
        IN  IF p.mvq = <<>>
            THEN p.at = reported[u].pos /\ <<t.x, t.y>> = p.at
            ELSE Last(p.mvq) = reported[u].pos

\* A step ends exactly on a tile: the speed of a character never changes in the
\* middle of a step, so the steps of 2^(1 + speed) add up.
StepEndsOnTile == \A u \in Present : other_players[u].remaining >= 0

\* Positions are taken up in the order reported, one at a time; only a player with
\* more than TrimAbove positions waiting skips any.
NextOf(q, r) ==
    /\ IsSuffix(r, q)
    /\ Len(r) = Len(q) - 1 \/ (Len(q) > TrimAbove /\ Len(r) = TrimAbove - 1)

WalksInOrder ==
    [][\A u \in Uids : u \in Present /\ u \in Present' =>
         \/ IsPrefix(other_players[u].mvq, other_players'[u].mvq)
         \/ NextOf(other_players[u].mvq, other_players'[u].mvq)]_vars

\* Once no more packets arrive, every player gets to the end of its queue.
CatchesUp ==
    \A u \in Uids : []<>(aborted \/ u \notin Present \/ other_players[u].mvq = <<>>)
=============================================================================
