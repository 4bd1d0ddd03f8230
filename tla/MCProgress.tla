----------------------------- MODULE MCProgress -----------------------------
(***************************************************************************)
(* What must happen in the end, in every part of the game, under the       *)
(* fairness of its module; on small settings.                              *)
(***************************************************************************)
EXTENDS MCParts, MCSettings

VARIABLES state, important, graphic, listeners, stack, erased, asked, hidden, answers, shown,
          askedAgain,
          switches, weather, nextWeather, weatherT, npc, acquainted, inbox, together,
          eventSwitches, needRefresh, openPage, present, waiting, paused, interp, message,
          requested, doing, place, loops, asyncOp, stopped, updated, aborted,
          ch, routeSwitches, done, routeTurn, busy, calls, moved, disturbed,
          game, p, places, lift, bgm, before,
          scenes, sceneBudget,
          pictures, filesReady, battle, saved, pictureBudget, gone, asksForAll, blind,
          current, stopping, pending, request, ready, channels, budget, refused,
          fighters, battleState, step, previousState, chooserIndex, chooser, order, action, strike,
          eventPage, whereabouts, outcome, turnCount,
          atbFighters, full, atbState, atbChooser, atbOrder, atbAction, atbPage, phase,
          atbPlace, atbResult, atbTurns, begun

fileVars == <<state, important, graphic, listeners, stack, erased, asked, hidden, answers, shown,
              askedAgain>>
sharedVars == <<switches, weather, nextWeather, weatherT, npc, acquainted, inbox, together>>
eventVars == <<eventSwitches, needRefresh, openPage, present, waiting, paused, interp, message,
               requested, doing, place, loops, asyncOp, stopped, updated, aborted>>
routeVars == <<ch, routeSwitches, done, routeTurn, busy, calls, moved, disturbed>>
rideVars == <<game, p, places, lift, bgm, before>>
sceneVars == <<scenes, sceneBudget>>
pictureVars == <<pictures, filesReady, battle, saved, pictureBudget, gone, asksForAll, blind>>
musicVars == <<current, stopping, pending, request, ready, channels, budget, refused>>
turnVars == <<fighters, battleState, step, previousState, chooserIndex, chooser, order, action,
              strike, eventPage, whereabouts, outcome, turnCount>>
atbVars == <<atbFighters, full, atbState, atbChooser, atbOrder, atbAction, atbPage, phase, atbPlace,
             atbResult, atbTurns, begun>>

-----------------------------------------------------------------------------
(* A download and a file of the program, with two owners.                  *)
Fetched == INSTANCE AsyncFiles WITH
    Files <- {"f1", "f2"}, Owners <- {"o1", "o2"}, Embedded <- {"f2"}, GraphicOwners <- {},
    ImportantOwners <- {"o1", "o2"}, NoFile <- "none", NoOwner <- "nobody", Expired <- "expired",
    SelfAsks <- FALSE, MaxListeners <- 2, MaxDepth <- 2

(* A weather that one of two clients changes.                              *)
Rain == INSTANCE SharedWorld WITH
    Clients <- {"c1", "c2"}, Writers <- {"c1"}, Switches <- {}, Whitelist <- [c \in {"c1", "c2"} |-> {}], Ranges <- {},
    Weathers <- {"fair", "rain"}, Fair <- "fair", NoWeather <- "none",
    SyncNpc <- FALSE, Spots <- {"a"}, Start <- "a", Delay <- 2, MaxPackets <- 2

(* Events that suspend the frame, or never end.                            *)
SuspendingPages ==
    ("c1" :> <<OpensOn("always", "parallel", "fade")>>)
    @@ ("e1" :> <<OpensOn("always", "parallel", "save")>>)
    @@ ("e2" :> <<OpensOn("always", "action", "fade"), OpensOn("t", "parallel", "wait"),
                  OpensOn("saved", "auto", "forever")>>)
Suspending == INSTANCE MapUpdate WITH
    Code <- EventLists, MaxIndent <- 2, Always <- "always", NoEvent <- "none",
    Foreground <- "foreground", CallStackLimit <- 2, CommonEvents <- <<"c1">>,
    MapEvents <- <<"e1", "e2">>, Pages <- SuspendingPages, Switches <- EventSwitches,
    Shared <- {"t"}, LoopLimit <- 4, switches <- eventSwitches, page <- openPage,
    active <- present, window <- message, turn <- place, async <- asyncOp
EndlessPages ==
    ("c1" :> <<OpensOn("w", "auto", "set")>>)
    @@ ("e1" :> <<OpensOn("always", "action", "set"), OpensOn("v", "auto", "leave")>>)
    @@ ("e2" :> <<OpensOn("v", "auto", "deeper"), OpensOn("w", "parallel", "forever")>>)
Endless == INSTANCE MapUpdate WITH
    Code <- EventLists, MaxIndent <- 2, Always <- "always", NoEvent <- "none",
    Foreground <- "foreground", CallStackLimit <- 2, CommonEvents <- <<"c1">>,
    MapEvents <- <<"e1", "e2">>, Pages <- EndlessPages, Switches <- EventSwitches,
    Shared <- {"v"}, LoopLimit <- 6, switches <- eventSwitches, page <- openPage,
    active <- present, window <- message, turn <- place, async <- asyncOp

(* Forced routes, one at a time; one of them jumps, if the way is free.    *)
ForcedRoutes ==
    {Route(<<W, L, Sets("a", TRUE), R>>, FALSE, TRUE), Route(<<R, J, L, E, W>>, FALSE, TRUE)}
Patient == INSTANCE Characters WITH
    Events <- <<"e1", "e2">>, Row <- 3, Standing <- ("e1" :> 0) @@ ("e2" :> 2),
    RoutePages <- TurningRoutes, Forced <- ForcedRoutes, NoCondition <- "always",
    RouteSwitches <- {"a", "b"}, Tile <- 2, MoveAmount <- 1, JumpAmount <- 2, StepRest <- 1,
    WaitRest <- 2, StopBound <- 3

(* A player who boards while he steps.                                     *)
Hasty == INSTANCE Vehicles WITH
    Maps <- {"m1"}, Width <- 5, Ground <- Shore, Ships <- {"ship"}, Airship <- "airship",
    None <- "none", Start <- Moored({"ship"}), Music <- Tunes({"m1"}, {"ship"}),
    OnFoot <- 4, VehicleSpeed <- 5, StepTime <- 2, Lift <- 2, at <- places

(* Scenes; without the game over and what only shows the screen or waits   *)
(* no longer than one frame; then without an event that waits for the      *)
(* teleport.                                                               *)
FewOutcomes == {o \in AllOutcomes : o.op \notin {"show", "save", "title"} /\ o.call # "gameover"}
Settling == INSTANCE Scenes WITH
    Outcomes <- FewOutcomes, SceneBudget <- 3, StartDelay <- 1, TitleDelay <- 1
NoWaiting == {o \in FewOutcomes : o.tele # "fg"}
Seen == INSTANCE Scenes WITH
    Outcomes <- NoWaiting, SceneBudget <- 2, StartDelay <- 1, TitleDelay <- 1

(* One picture; music that fades in.                                       *)
Drawn == INSTANCE Pictures WITH
    Ids <- {1}, Files <- {"f1", "f2"}, NoName <- "", NoFile <- "none", PictureNames <- {"f1", "f2"},
    Sheets <- {"still", "once"}, PictureBudget <- 2, erased <- gone
Fading == INSTANCE Music WITH
    Songs <- {"s1", "s2"}, Missing <- {"missing"}, Links <- {"link"}, Broken <- {"broken"},
    Off <- "off", Volumes <- {32, 64}, FadeIns <- {2}, FadeTime <- 2, Budget <- 3

(* Battles of one actor and one enemy.                                     *)
Duel == INSTANCE Battle WITH
    Actors <- {"hero"}, Troop <- <<"slime">>, Parties <- {<<"hero">>},
    Inflicted <- {"poisoned", "stone"}, MaxSp <- 1, MaxItems <- 1, Autos <- {},
    ActorKinds <- {"attack", "skill", "heal"}, EnemyKinds <- {"attack", "explode", "escape"}, Hits <- 2,
    Pages <- <<"turn", "dead">>, PageLength <- 1, Timers <- TRUE, MaxTurns <- 1,
    Commands <- {"kill", "cure"},
    w <- fighters, state <- battleState, sub <- step, previous <- previousState,
    index <- chooserIndex, active <- chooser, queue <- order, act <- action, page <- eventPage,
    place <- whereabouts, result <- outcome, turns <- turnCount
AtbDuel == INSTANCE Battle2k3 WITH
    Actors <- {"hero"}, Troop <- <<"slime">>, FirstParty <- <<"hero">>,
    Inflicted <- {"asleep"}, MaxSp <- 0, MaxItems <- 1, ActorKinds <- {"attack"},
    EnemyKinds <- {"attack", "explode"}, Hits <- 2, ActiveAtb <- TRUE, AutoAllowed <- FALSE,
    Pages <- <<"after">>, Commands <- {"kill", "cure"}, PageLength <- 1, Timers <- FALSE,
    MaxTurns <- 2,
    w <- atbFighters, s <- atbState, active <- atbChooser, queue <- atbOrder, act <- atbAction,
    page <- atbPage, place <- atbPlace, result <- atbResult, turns <- atbTurns

-----------------------------------------------------------------------------
worldVars == <<fileVars, sharedVars>>
mapVars == <<eventVars, routeVars, rideVars>>
screenVars == <<sceneVars, pictureVars, musicVars>>
battleVars == <<turnVars, atbVars>>

ProgressInit ==
    /\ part \in {"asks", "weather", "suspending", "endless", "routes", "rides", "settling", "seen",
                 "drawn", "fading", "duel", "atb"}
    /\ Fetched!FilesInit /\ Rain!Init
    /\ IF part = "endless" THEN Endless!EventsInit ELSE Suspending!EventsInit
    /\ Patient!RoutesInit /\ Hasty!Init /\ ~game.parallel
    /\ IF part = "seen" THEN Seen!ScenesInit ELSE Settling!ScenesInit
    /\ Drawn!PicturesInit /\ Fading!MusicInit
    /\ Duel!Init /\ AtbDuel!Init
    /\ part # "asks" => ~erased            \* idle
    /\ part # "rides" => ~game.settled     \* idle
    /\ part # "duel" => ~strike            \* idle
    /\ part # "atb" => full = {}           \* idle

ProgressNext ==
    \/ /\ \/ part = "asks" /\ Fetched!FilesNext /\ UNCHANGED sharedVars
          \/ part = "weather" /\ Rain!Next /\ UNCHANGED fileVars
       /\ UNCHANGED <<part, mapVars, screenVars, battleVars>>
    \/ /\ \/ /\ \/ part = "suspending" /\ Suspending!EventsNext
                \/ part = "endless" /\ Endless!EventsNext
             /\ UNCHANGED <<routeVars, rideVars>>
          \/ part = "routes" /\ Patient!PatientNext /\ UNCHANGED <<eventVars, rideVars>>
          \/ part = "rides" /\ Hasty!Next /\ UNCHANGED <<eventVars, routeVars>>
       /\ UNCHANGED <<part, worldVars, screenVars, battleVars>>
    \/ /\ \/ /\ \/ part = "settling" /\ Settling!ScenesNext
                \/ part = "seen" /\ Seen!ScenesNext
             /\ UNCHANGED <<pictureVars, musicVars>>
          \/ part = "drawn" /\ Drawn!PicturesNext /\ UNCHANGED <<sceneVars, musicVars>>
          \/ part = "fading" /\ Fading!MusicNext /\ UNCHANGED <<sceneVars, pictureVars>>
       /\ UNCHANGED <<part, worldVars, mapVars, battleVars>>
    \/ /\ \/ part = "duel" /\ Duel!Next /\ UNCHANGED atbVars
          \/ part = "atb" /\ AtbDuel!Next /\ UNCHANGED turnVars
       /\ UNCHANGED <<part, worldVars, mapVars, screenVars>>

(* The fairness of the modules. As part never changes, conditions of       *)
(* different parts are put together.                                       *)

mine ==
    CASE part = "asks" -> fileVars
      [] part = "weather" -> sharedVars
      [] part \in {"suspending", "endless"} -> eventVars
      [] part = "routes" -> routeVars
      [] part = "rides" -> rideVars
      [] part \in {"settling", "seen"} -> sceneVars
      [] part = "drawn" -> pictureVars
      [] part = "fading" -> musicVars
      [] part = "duel" -> turnVars
      [] part = "atb" -> atbVars

First ==
    \/ part = "asks" /\ Fetched!CallStep
    \/ part = "weather" /\ Rain!Update("c1")
    \/ part = "suspending" /\ Suspending!Step
    \/ part = "endless" /\ Endless!Step
    \/ part = "routes" /\ Patient!RouteFrame
    \/ part = "rides" /\ Hasty!Frame
    \/ part = "settling" /\ Settling!QuietStep
    \/ part = "seen" /\ Seen!QuietStep
    \/ part = "drawn" /\ Drawn!ImageArrives("f1")
    \/ part = "fading" /\ Fading!Arrive
    \/ part = "duel" /\ Duel!Proceed
    \/ part = "atb" /\ AtbDuel!Frame
Second ==
    \/ part = "weather" /\ Rain!Update("c2")
    \/ part = "settling" /\ Settling!FileArrives
    \/ part = "seen" /\ Seen!FileArrives
    \/ part = "drawn" /\ Drawn!ImageArrives("f2")
    \/ part = "fading" /\ Fading!Mix
    \/ part = "atb" /\ AtbDuel!Over
Third == part = "weather" /\ Rain!Receive("c1")
Fourth == part = "weather" /\ Rain!Receive("c2")
Strong ==
    \/ part = "asks" /\ Fetched!BrowserEnds("f1")
    \/ part = "atb" /\ AtbDuel!Act
AlsoStrong == part = "asks" /\ Fetched!BrowserEnds("f2")

Fairness ==
    /\ WF_mine(UNCHANGED part /\ First) /\ WF_mine(UNCHANGED part /\ Second)
    /\ WF_mine(UNCHANGED part /\ Third) /\ WF_mine(UNCHANGED part /\ Fourth)
    /\ SF_mine(UNCHANGED part /\ Strong) /\ SF_mine(UNCHANGED part /\ AlsoStrong)

ProgressSpec == ProgressInit /\ [][ProgressNext]_<<part, worldVars, mapVars, screenVars, battleVars>> /\ Fairness

-----------------------------------------------------------------------------
(* Properties, as the modules state them.                                  *)

\* An owner of a file is called once for the last one it asked for and for nothing else, and
\* in the end (async_handler.cpp).
EveryAskAnswered == Fetched!EveryAskAnswered

\* A weather that one player makes is seen by all, or replaced: the delay ends
\* (Game_Multiplayer::Update, game_multiplayer_senders.cpp).
WeatherArrives == part = "weather" => Rain!WeatherArrives

\* A frame of the map ends, whatever suspends it and whatever loops its events have
\* (Game_Map::Update).
FramesEnd ==
    /\ part = "suspending" => Suspending!FramesEnd
    /\ part = "endless" => Endless!FramesEnd

\* A forced route ends though others stand in its way or jump, unless its event has landed a
\* jump, which UpdateMovement never ends (game_character.cpp), and so do boarding and the lift
\* of the airship: the events that wait for them go on (Game_Interpreter::Update).
MovesEnd ==
    /\ part = "routes" => Patient!RoutesEnd
    /\ part = "rides" => Hasty!WaitsEnd

\* When nothing happens any more, teleports and scenes that were asked for have come and the
\* map, its pictures and its music are there (scene_map.cpp, game_pictures.cpp,
\* game_system.cpp).
ScreenSettles ==
    /\ part = "settling" => Settling!Settles
    /\ part = "seen" => Seen!MapIsSeen
    /\ part = "drawn" => Drawn!PicturesAppear
    /\ part = "fading" => Fading!MusicPlays

\* A turn of a battle ends, whatever the actions in it become (scene_battle_rpg2k.cpp,
\* scene_battle_rpg2k3.cpp).
BattlesGoOn ==
    /\ part = "duel" => Duel!TurnsEnd
    /\ part = "atb" => AtbDuel!ActionsEnd

=============================================================================
