# Verification of ynoclient

ynoclient is EasyRPG Player, an interpreter for RPG Maker 2000/2003 games,
compiled to WebAssembly and extended with a multiplayer mode
(`src/src/game_multiplayer_*.cpp`): everyone who plays the same game on the same
server sees the others walk over the map. This directory holds TLA+ models of
that client and of the engine under it, the TLC configurations that check them
and TLAPS proofs about them.

Paths below are relative to the repository's `src/`.

## 1. Inventory

### What runs when

The browser calls `Player::MainLoop` once per frame. `Scene::MainFunction` sets up
or updates the scene on top; `Scene_Map` updates `Game_Map::Update`, which runs the
parallel events, calls `Game_Multiplayer::Update` (`game_map.cpp:1037`) and runs the
foreground events, and which any of these may suspend in the middle until a
transition or a save is over. Everything else is a callback: websocket
`onopen`/`onclose`/`onmessage`, finished downloads, and functions the page exports
(`ChangeName`, ...). WebAssembly is single-threaded but for audio: a callback runs
to its end, between two frames (the main loop yields in `emscripten_sleep`,
`player.cpp:318,332`). So there are no data races, but any number of callbacks, in
any order, may run between any two frames, and every request is answered in some
later frame, if at all. The audio callback mixes between any two calls of the game.

### Components, their state and their operations

The multiplayer client:

| component | state | operations | what makes it correct |
|---|---|---|---|
| nametag renderer (`game_multiplayer_nametags`) | `nameTags` (owning, by uid), `nameStacks` (raw pointers, by tile), `systemRequest` | create, delete, clear, move, set name, set system graphic, draw | no dangling or missing pointer on any stack; tags stack in order of arrival; system graphics reach the tags they were asked for |
| other players (`..._other_player`) | `other_players`: queue, character, speed, sprite | create, erase, clear, get-or-create | a player has a tag exactly as long as it exists |
| packet receiver (`..._receive_handler`) | none of its own | `objectSync`, `disconnect`, `switchsync`, `weather`, `npcmove`, `rngSeed` | packets of a room that was left change nothing; reports are never lost |
| frame (`..._main_loop`) | `shouldsync`, `nextWeather*` | send `syncme`, delayed weather, walk the queues, reconnect, announce the player | players end where they were last reported; a session is announced and followed by `syncme`; a lost connection comes back |
| session (`..._connection`) | `socket`, `connected`, `lastConnect`, `room_id`, `roomFirstUpdate` | `ConnectToGame`, `ConnectToRoom`, `TrySend`, `onopen`, `onclose`, `onmessage` | an open session is told the game, then the right room, then the player; `connected` says whether there is one |
| senders (`..._senders`, `..._my_data`) | weather, flash pause, switch whitelist | one packet each | the worlds of two players agree in what they share |
| page interface, settings scene | options | `ChangeName`, toggles, `Reconnect` | an option does what it says |
| map changes (`game_map`, `game_player`) | current map, positions | `Setup`, `SetupFromSave`, `MoveTo` | changes rooms exactly when the map changes |
| savegames, main loop (`player`, `scene_title`) | `save_request_id` | `LoadSavegame`, `OnMapSaveFileReady`, `Continue` | the room follows the map after a load |

The engine:

| component | state | operations | what makes it correct |
|---|---|---|---|
| asynchronous files (`async_handler`) | requests, listeners, bindings | `RequestFile`, `Bind`, `Start`, `DownloadDone` | every bound listener is called once, an unbound one never; only what is on its way blocks |
| variables, switches (`game_variables`, `game_switches`) | a vector that grows | single, range, by pointer, random; ten operators | a range is written as a loop would; only products wrap |
| map update (`game_map`, `game_event`, `game_commonevent`) | one interpreter per event, the foreground one, pages, a resume place | `Update`, `Refresh`, `UpdateForegroundEvents` | each event has its turn once a frame; what was suspended resumes; pages do not leave interpreters behind |
| interpreter (`game_interpreter`) | a stack of frames with subcommand indices | commands of control flow | only arms that were chosen run; answers find the frame that asked |
| characters (`game_character`, `game_event`) | position, remaining step, move route, jump | `Update`, `Move`, `Jump`, `MakeWay`, `ForceMoveRoute` | nobody stands on another or moves twice; routes without a landed jump end |
| vehicles (`game_player`, `game_vehicle`) | who rides what, lift, music, speed | board, leave, fly, land, teleport, Escape | the airship never flies alone; speed and music come back |
| scenes (`scene`, `scene_map`, `transition`) | stack, one asynchronous continuation, one transition | push, pop, teleport in three phases, pre-updates, inn | only what is set up is updated; no continuation is lost; the screen is shown again |
| pictures (`game_pictures`, `sprite_picture`) | pictures with one request each | show, erase, load, save | shows what it names, and nothing once erased, whenever files arrive |
| music (`game_system`, `audio_generic`, `audio_decoder`) | current music, one request, two channels | play, stop, fade, memorize; mix | what is heard is the current music; there is always a channel |
| battle of 2000 (`scene_battle_rpg2k`, `game_battlealgorithm`, `enemyai`) | menu state, queue of actions, running action | choose, step back, act, pages, timers, end | the queue is the party; targets exist; the battle goes on and ends as it should |
| battle of 2003 (`scene_battle_rpg2k3`) | the same with gauges | the same while gauges fill | nobody has two actions; a menu never keeps one who may not choose |

What is left of the program (menus, windows, rendering, fonts, file systems, the
chat window, platforms) is listed in `PROJECT.json` with the reason it is not
modelled, see section 5. Vendored code (`src/external`, `src/platform`, `builds`,
`lcf`) is left aside.

### How they interact

    page --ChangeName--> senders --TrySend--> session <--callbacks--> websocket
    game (walk, map change, load) --> senders, ConnectToRoom
    websocket --onmessage--> receiver --> other players --> nametag renderer --> files
                                      \-> switches (turn pages over), weather, events
    frame --> queues of other players --> characters, moveNameTag
    frame --> syncme, announcement, ConnectToGame
    ConnectToRoom, Setup, Dispose, onopen --> ClearPlayers --> clearNameTags
    scene --> map update --> interpreters --> switches, variables, routes, pictures,
                                              music, teleports, scenes, battles
    sprites, pictures, music, maps <--> files

### What is hard

* Callbacks of an abandoned websocket act on the same globals as those of the
  current one (`game_multiplayer_connection.cpp:109-130`).
* Packets sent before the connection is up are dropped; the code relies on
  sending them again (`:75-79`).
* Packets of the room just left arrive after the players were cleared
  (`game_map.cpp:140`), and room changes of the client cross those of others.
* Tags are shared by raw pointer between a map that owns them, the stacks that
  draw them and callbacks that outlive them.
* Queues of positions are trimmed while a character is in the middle of a step.
* Between a loaded savegame and its map file the position and the room disagree.
* Switches, by packet or by another event, turn over the page of an event while
  its interpreter runs, asks or is suspended, or while its route moves it.
* A file arrives when its owner has already asked for another one, or from inside
  the call of another listener.
* Screens are erased, games saved and scenes left in the middle of an update that
  has to be resumed, also in the updates that are run before a map is shown.
* Pages, timers, states and party changes strike between the moment a battler's
  action is chosen and the moment it is executed, and while a menu is open for him.

The full list, with the line where each bites and the property that covers it,
is under `hazards` in `PROJECT.json`.

## 2. Modules

    CoordHash  <--  NameTags  <--  OtherPlayers  <--  Rooms
                       |
                    TagBoard  (refined by NameTags)
    Connection
    AsyncFiles (refines FileAsks)   SharedWorld   Variables
    Interpreter  <--  MapUpdate     Characters    Vehicles
    Scenes   Pictures   Music       Battlers  <--  Battle, Battle2k3
    Rooms_proofs (NameTags, OtherPlayers, Rooms)   Connection_proofs   (section 4)
    World_proofs (AsyncFiles, SharedWorld, Variables)   Map_proofs (Vehicles, Characters,
                                                       MapUpdate)
    Screen_proofs (Music, Pictures, Scenes)
    Battlers_proofs  <--  Battle_proofs, Battle2k3_proofs

| module | models | state and actions |
|---|---|---|
| `CoordHash` | `coordHash` | pure operators, unsigned arithmetic of width w (`Word` = 2^w) |
| `NameTags` | `DrawableNameTags` | `tags` is the heap of tags, addresses are reused; `nameTags`, `nameStacks`, `systemRequest` as in the header; `files` the state of each request. One action per method, `DownloadDone` for the file layer. `asked` and `lastAsk` are history |
| `TagBoard` | what `DrawableNameTags` promises, without heap and keys | one stack of players per tile; a tag that arrives goes on top |
| `OtherPlayers` | `other_players`, the receiver, the walking loop of `Update` | `ObjectSync`, `Disconnect`, `ClearPlayers`; `StartFrame` and one `UpdatePlayer` per player. `ObjectSync` is two steps when a system graphic comes with it (`AskSystem`), a frame is one step per player; `todo` and `asking` hold what is left of a callback or frame, and nothing else happens before they are empty. A failed assertion sets `aborted` |
| `Rooms` | `OtherPlayers` with `ConnectToRoom`, packets in flight to and from a server, and connections that are lost and come back | `ChangeMap`, `onopen`, `onclose`, `onmessage`, frames; `connected` is that of `Connection`, without its flags and retries; the server (external) moves the session, reports and moves other players |
| `Connection` | the session, the other half of `Update`, and the game events that touch it | callbacks of every websocket alive, `Update`, `Tick` (the clock), map change, load, return to the title, menu, `Reconnect`, steps and jumps of the player, other senders, `ChangeName` |
| `AsyncFiles` | `FileRequestAsync`, its bindings and the calls of its listeners | `stack` is the C++ call stack of `CallListeners`; a listener may ask again from inside of it. `asked`, `answers`, `shown` and `askedAgain` are history; the specification is `FilesSpec` |
| `FileAsks` | what it promises to an owner of a binding | ask, be called once, let go |
| `SharedWorld` | the switches, weather and moved events that clients tell each other, the delay of the weather | one writer or several; `inbox` the packets on their way to a client |
| `Variables` | `Game_Variables` | every operation as a function on the vector, a loop that reads a variable again each time as a recursive function along its range (`WriteLoop`); a word of 2 x `Half` values |
| `Interpreter` | `Game_Interpreter`'s commands of control flow | operators on a stack of frames: branches, choices, loops, labels, calls, `EndEventProcessing` |
| `MapUpdate` | `Game_Map::Update` with all its interpreters, pages, messages, suspension | one step is one turn of the loop of `Game_Interpreter::Update`; packets come between frames and while suspended |
| `Characters` | events on their routes, `MakeWay` | `calls` is the C++ call stack of `Game_Character::Update`: whoever needs a tile waits in it until the one who stands there has acted; one step is a command of a route, a question to somebody, or an answer. `busy` is the foreground interpreter; `moved` and `disturbed` are history |
| `Vehicles` | the player, ships and the airship | a frame, keys, event commands, the menu, teleports; `game`, chosen in the beginning, says whether parallel events command too and whether events let the player stand first |
| `Scenes` | `Scene::MainFunction`, `Scene_Map`, transitions | `scenes` is the stack of scenes, the game, the call of `MainFunction` that runs, and the history; one action per part of the function and per continuation, which call each other to any depth; what the events of a map do in one update is chosen from `Outcomes` |
| `Pictures` | `Game_Pictures`, `Sprite_Picture` | `ShowPicture`, erase, scenes, files, savegames; `asksForAll`, `blind` and `erased` are history |
| `Music` | the music of `Game_System`, `GenericAudio`, decoders | commands, `Arrive`, `Mix` (the audio thread) |
| `Battlers` | battlers, states, targets, effects of an algorithm | operators that return the set of outcomes |
| `Battle` | `Scene_Battle_Rpg2k` | one step per state of the scene, or per phase of an action |
| `Battle2k3` | `Scene_Battle_Rpg2k3` | the frame in the three phases `events`, `gauges`, `scene` |

What is sent on a websocket is kept in `Connection` as what a reader of the
packets knows (`heard`: the first packet, the room, where the player is, which of
its facts were announced since, whether a `syncme` is due), not as a list.

`MCOtherPlayers`, `MCWorld`, `MCMap`, `MCScreen`, `MCBattles` and `MCProgress` put components
side by side that share no state (the code calls them one after the other). `part` (module
`MCParts`), chosen in the initial state, says which of them runs and with which
constants; the others keep their initial state. So the behaviours are those of each
component. Where the theorems of section 4 are about a component, the MC module EXTENDS
it and checks its invariant as it is: what TLC checks and what is proved is one
definition. Where a module is used with several settings, as `Battle2k3` is, a property has
the form "if it is this part, then", for the instance with each setting; `AtbInv` in
`MCScreen` is that of `Battle2k3` where nothing breaks off an action, `GaugedInv` that of the
instance in which actors are confused and leave. `MCSettings` holds the commands, routes, coast
and outcomes that several runs use. In `MCEvents` `part` is the game that is played: the pages of all games
are those of the same events, and each game has switches of its own.

Operators named `..._<word>` that stand just before a definition
(`onclose_flag`, `Trimmed_oneMore`, ...) are wrong variants of it. No
specification uses them; they record which mistake each property is there to
find. Replacing the definition by its variant makes the run named in
`PROJECT.json` (`mutants`) fail. A property made of several named parts has
several variants, for its different parts.

The websocket and the server are not in the repository. They are modelled from
the packets and calls in `src/`: a websocket delivers in order and opens at most
once; `emscripten_websocket_deinitialize` closes every websocket and removes its
callbacks; a server keeps a session in the room it last asked for and tells it
about that room.

### What the engine's modules leave out

* `AsyncFiles`: the index that maps names to files, directories, the cache of the browser.
* `SharedWorld`: the room changes (they are in `Rooms`), flashes and their pause.
* `MapUpdate`: an event that is started by touch or by key is one choice
  (`GetThisEventId` for nested calls follows the frame); typesetting of messages.
* `Characters`: the map is one row of tiles, so directions are left and right; no
  frequencies, random moves or approaching the hero, no animation.
* `Vehicles`: one row of tiles with land, sea and peaks; no jumps, damage by terrain
  or encounters.
* `Scenes`: title, map, a scene on top and the game over; a transition takes one
  frame, teleports fade.
* `Pictures`: colours and movement; a sheet has two frames.
* `Music`: tempo and balance; a fade is `FadeTime` mixes; sound effects.
* `Battlers` and both battles: damage is only whether it kills; a battler has one
  state, the significant one; attacks on all, reflection, silence and the debug
  scene are left out; messages and animations are "some frames" (`Pause`).
* `Battle`: `SelectNextActor` calls itself; here every call is a step, and timers may
  expire between any two.
* `Battle2k3`: conditions of pages are free choices; no movement of sprites, combos,
  row and special commands.

## 3. Runs

| run | question | bounds |
|---|---|---|
| `nametags` | do tags, stacks and callbacks stay consistent in every order of calls, and do they draw the board of `TagBoard` | 3 players, 3 addresses (every address can be freed and reused while others stay), the tile of new tags and one at a negative coordinate, 2 files; symmetric |
| `walk` | are a player and the tag in step while the player comes, goes and walks; in order, on tiles, to where it was last reported; does who stays on the map come online again and again | 1 player, 2 addresses, tiles 0, 1, 3 (steps and jumps), thresholds 1 and 2 for 8 and 16, steps of 8 for 256, queues up to 4, so two positions are dropped at once; for the session, which is the other part of this run, the bounds of `connection` with 1 map and place |
| `rooms` | is everyone in the room on the screen, however room changes cross packets and connections are lost and regained | 2 other players, 2 rooms, 4 packets in flight: a leave, a return and the answer to a room change together; any connection may close between two steps and a new one open, in the lobby or in a room |
| `connection` | is an open session told the right things in the right order | 2 websockets, current and abandoned (a closed one is used again, a third attempt waits until one is), 2 maps, 2 places, an interval of 1 second |
| `world` | do files reach those who asked; do two clients agree in what they share; are ranges of variables written right | files: 2 downloads and a file of the program, 2 owners, 2 listeners of a file, nesting 2, listeners that ask again for their own file; sharing: 2 clients of whom one writes, 3 switches on whitelists that overlap in one, a range of which not all is announced, weather with a delay, an event that both move, 2 packets on the way; variables: a word of 16 values, clamped to -3 .. 3, 3 variables, ranges over each of them |
| `events` | do pages, interpreters, questions and the frame keep their places while pages turn over | 3 common events and 2 of the map, which share their pages among four games: pages turned over by packets and by the events, questions asked in the foreground and by a parallel event, screens erased and games saved in the middle of a frame, commands without an end, which mix with the first and the third; loops of 5 commands before the limit, calls nested twice. No page is turned over under a question or a suspended frame: that is `answer` |
| `map` | do routes and vehicles keep their promises while others push and teleports come | routes of three events side by side on four tiles, a step of two frames, one switch that turns over the pages of two of them, also of one who is asking, and a route that may be forced at any time (three updates inside each other, all that three events can have); rides on 5 tiles, 2 maps, two ships and an airship, in the three ways a game can be written |
| `screen` | do scenes and music stay right in whatever frame something happens and whenever files arrive; do battles with gauges keep gauges, menus, queue and outcome right | 5 keys or map updates in which something happens; 5 names of music (2 songs, a missing file, a link, a broken file), 2 volumes, 4 commands; 2 actors and 1 enemy or the other way round, one page command at a time, 2 actions |
| `battles` | do battles in turns keep queue, menus and outcome right while pages, timers and states strike; do pictures show what they name | 1 actor and 2 enemies while the turn runs; up to 3 actors who leave, join and fall asleep and 1 enemy while the player chooses; one page command at a time, 1 turn; 1 picture with every kind of sheet or 2 with two kinds, 2 files (symmetric), 3 commands |
| `progress` | what must happen in the end | smaller settings of `world`, `events`, `map`, `screen` and `battles`; two events that meet on three tiles, one of them forced to go a route with a wait and a switch, or one with a jump, which may fail |
| `rooms_assert`, `answer` | an assertion of the repository that can fail | the bounds of `rooms`; one event that asks in parallel, with two pages, and a common event |

Deadlock is checked where the system cannot stop. In `walk` and the `rooms` runs a
failed assertion stops the program and the packet bound stops the senders; in `events`, `map`,
`screen`, `battles` and `progress` a budget or a bound ends the commands, a battle
ends, and an interpreter that has exceeded the call stack stops the program. These
configurations switch the check off.

Scaled sizes: a step of 256 units, speeds 0 to 6 and thresholds 8 and 16 became 8,
1 and 2, 1 and 2. What matters is kept: a frame covers 2^(1 + speed), the step is
a multiple of it, the speed of a lagging player is higher, the second threshold
is above the first and the queue can exceed it. `loop_limit` (10000) and
`call_stack_limit` (1000) became 4 to 6 and 2: both are reached. A 32-bit word
became one of 16 values, with a smaller range to clamp to, as the limits of the
games lie inside of the word; products wrap in both.

### What the passing runs show

* Stacks: every pointer is live, on the stack of its own tile, once; no tag is
  missing; arrivals go on top and the others keep their order (`StacksHoldTags`,
  `TagsAreStacked`, `OneOwner`, `DrawsTheBoard`). The system graphic asked for
  last always arrives (`LastAskIsServed`).
* Players: a player has a tag exactly while it exists (`PlayersHaveTags`), so the
  assertions of `createNameTag`, `moveNameTag` and `setTagSystem` hold. That of
  `deleteNameTag` does not, see below. The last reported place survives trimming
  (`LastReportKept`), steps end on tiles (`StepEndsOnTile`), positions are taken
  in order (`WalksInOrder`), queues empty (`CatchesUp`).
* Rooms: whoever is in the room and is not on the screen is on its way there
  (`MissingIsOnItsWay`: once the packets are handled nobody is missing), and both
  sides agree on the room (`SameRoom`), also after a connection was lost with packets
  in flight and the game went on to other rooms before the next one opened.
* Session: `connected` is exactly "some websocket is open" (`ConnectedMeansOpen`),
  only the current websocket carries a session (`OneSession`), which was told the
  game first and is in the current room (`RoomAgreement`), knows the player
  (`Announced`) and gets a `syncme` after everything (`SyncFollows`).
* Files (`FilesInv`): an owner shows the file it asked for last once that is there;
  a graphic is there before it is used and an erased screen waits for it; only a
  download that runs blocks the game. One call per ask (`OneShot`) as long as no
  listener asks again for the file it is called for.
* Sharing (`SharedInv`): where one player writes, the newest packet on its way sets every
  differing switch on both whitelists right, but for those a range left out (divergence
  8); switches off the list never change from outside; weathers agree once the delay is
  over and the packets are handled; so do events that were moved while the players knew
  each other.
* Variables (`VariablesInv`): a range written with a variable that lies in it is
  split exactly where the variable changes; no operation but the product wraps.
* Events (`EventsInv`): only chosen arms run, whatever comes between a decision and
  its arm; a parallel common event always runs; what runs in the background belongs
  to the open page; an answer finds its frame unless the page of a parallel event
  that asks is turned over; who talks to the hero stands still only until it has acted, unless
  an automatic common event interferes.
  `EventsInOrder`: one turn per event and frame, and a suspended frame resumes where
  it stopped unless a page was turned over.
* Routes (`CharactersInv`, `OneStepPerFrame`): nobody comes to stand on another, unless one
  of them goes through everything; nobody moves twice in a frame; a route's index stays in
  the route unless its page was turned over while its event asked for a tile
  (`disturbed`, divergence 12).
* Rides (`VehiclesInv`): the airship flies exactly while it is ridden; the player's
  own speed comes back; the music fits unless parallel events command too; ships are
  at sea and who walks is on land if, besides, events wait for the player to stand.
* Scenes (`ScenesInv`): one transition at a time; no continuation is lost or
  overwritten; a teleport is asked for before its phases run; only a scene that was
  set up is updated, unless an event has returned to the title while the map was being
  set up (`exited`, divergence 15).
* Pictures (`PicturesInv`), music (`MusicInv`): as in the table of section 1, for pictures
  that ask for what they name and music that does not fade in; the audio thread always has a channel.
* Battles (`BattleInv`, `AtbInv`): the queue of actions has each battler once and
  follows the order of choice; who acts is in the battle, and so is the target unless
  it is an actor who has left the party; nobody is in the queue twice, and the menu is never
  open for somebody who cannot choose; an action is executed once unless its battler is
  confused in the middle, or a page of several commands takes the chooser away and then
  flees or undoes the end of the battle (`Undisturbed`); the result of a battle is what
  happened in it. `GaugedInv` is the same in the setting with confusion.
* `ComesOnline`, `EveryAskAnswered` (the refinement of `FileAsks` with its liveness),
  `WeatherArrives`, `FramesEnd`, `MovesEnd`, `ScreenSettles`, `BattlesGoOn`: liveness,
  under the fairness below. `MovesEnd` says of a forced route that it ends unless its event
  has landed a jump, which never ends (`ComesByJump`, divergence 13).

The conditions ("unless ...") are constants of the modules: the runs have settings on
both sides of them, and what happens on the other side is told under the divergences.

### Fairness

* `WF(Update)`, `WF(Frame)`, `WF(AskSystem)`, and of the engine `Step`, `Proceed`,
  `QuietStep`, `RouteFrame`, `CallStep`, `Over`: the main loop runs frame after frame, and a
  callback, a frame or an update that has begun ends.
* `WF(Tick)`: `time()` advances.
* `WF(Receive)`, `WF(Arrive)`, `WF(FileArrives)`: what is on the way arrives.
  `SF(BrowserEnds)`: the browser ends every download, well or not, and gets its turn
  however often the game keeps it busy. `WF(Mix)`: the audio thread runs.
* `SF(Act)` of a gauge battle: the animation an action waits for (`Pause`) ends.
* `SF(Accepted)`: of the attempts that are made again and again, the server
  accepts one some time. This is an assumption on the environment, not on the
  client; without it nothing can be said about coming online. It is strong
  fairness because every attempt that fails disables it.

Nothing is assumed of the player, who may open menus or load saves as often as they
like: `ComesOnline` promises something only to one who stays on the map. In
`MCProgress` the conditions of all modules are put together, action by action
(`First`, `Second`, ...): as `part` never changes, each of them is the condition of
the one module that runs.

### What the code does differently from what it says

With a run of its own:

1. `rooms_assert`: a `disconnect` of the room just left names a cleared player, and
   the assertion "prevent deleting non existent nametag" fails.
2. `answer`: while the choices of a parallel event are on the screen, its page is
   turned over and its interpreter cleared; the answer finds no frame, and
   `assert(frame)` (`game_interpreter.h:344`) fails.

Met while modelling. Where a property could be stated with an exception it is stated
so, and the exception is this case:

3. "we disconnect from the room before loading the map" (`game_map.cpp:140`), but
   nothing is sent; a late `objectSync` creates a player of the old room who stays.
4. `moveSpeed` is "used to save player speed" (`game_multiplayer_other_player.h:53`)
   but is never saved: a new player's first step is at speed 0.
5. "Disconnect, clear players & connect again" (`game_multiplayer_settings_scene.cpp:78`)
   clears nobody.
6. "Render nametags with system colors that player is using" (`:76`): a second request
   drops the first, and a callback that outlives its tag colours another player's.
7. "Lets you and other players see NPC at same positions" (`:74`): an event moved while
   a player knows nobody is announced to nobody (`game_multiplayer_senders.cpp:174`).
8. "Adds posibility of switch sync" (`README.md:15`): after a range of switches was set,
   the loop from start to end announces the switches start + i (`game_interpreter.cpp:1042`).
9. "The event handler is only invoked once" (`async_handler.h:165`): a listener that asks
   again for its own file makes the list be called once more from inside
   (`async_handler.cpp:325`). `SelfAsks` of `AsyncFiles`.
10. "and then resume from the suspension point" (`async_op.h:30`): pages are refreshed
    before, and one that was turned over starts from its beginning, even if it is not
    parallel (`game_event.cpp:609`). `events` and the
    theorems about events leave this step out (`Overtaken`).
11. "Event returns to its original direction before talking to the hero"
    (`game_event.h:105`): if an automatic common event was pushed before it, its frame is
    not the base frame and it stays paused (`game_interpreter.cpp:814`). `StandsStillToAct`.
12. "in case any bug causes this to happen still" (`game_character.cpp:260`): one who is
    asked to make way turns the asker's page over, whose loop goes on with the old route
    and leaves an index past the end of the new one. `IndexInRoute` exempts the event's own
    route from when this has happened to it (`disturbed`, history), and nothing else.
13. "If the last command of a move route is a move or jump, RPG_RT cancels the entire move
    route immediately" (`game_character.cpp:178`), but `UpdateMovement` has returned before
    (`:165`): a jump does not end its route, and no rest follows a step, where
    `tests/move_route.cpp:228` counts one. Nor does the jump end (`SetJumping(false)`, `:169`,
    is never reached): an event that has landed one jumps for ever, its forced route stays
    pending, and the interpreter that waits for it (`game_interpreter.cpp:408`) waits for ever.
    `MovesEnd` exempts those, and nobody else: the run's routes have a jump that may fail, and
    without the exception TLC finds the route that is pending for ever.
14. "EraseScreen commands performed during pre-update don't stick" (`scene_map.cpp:426`):
    only the flag does not; the foreground events after a teleport (`:363`) leave the
    screen black. `MapIsSeen` is checked without them.
15. `Continue` "is executed when returning from a nested scene" (`scene.h:98`): a return to
    the title in the update before a map is shown makes `MainFunction` take the title for
    set up (`scene.cpp:188`). `SetUpBeforeUpdate` exempts what follows that (`exited`, history).
16. "If not the file can't be expected to exist -> bug" (`cache.cpp:243`): the binding of an
    earlier name survives a picture without a name or with a frame its sheet does not have
    (`game_pictures.cpp:326`, `:225`), which is then loaded without having been asked for;
    it also replaces the image that is to be reused (`:238`), and shows a frame that is to stay hidden (`:215`, `:225`).
17. "Same music: Only adjust volume and speed" (`game_system.cpp:98`): a fade-in that runs
    goes on with its old step (`audio_decoder.cpp:184`). "Fades out the current BGM"
    (`game_system.h:127`): music whose file is on the way is not faded (`game_system.cpp:130`).
18. Battles of 2000: actions of those "removed from the battle" are dropped
    (`scene_battle_rpg2k.cpp:702`), but not what they are the target of
    (`game_battlealgorithm.cpp:624`, a null pointer); "If we can no longer perform the action"
    (`scene_battle.cpp:514`) is asked before `ApplyConditions` takes SP
    (`scene_battle_rpg2k.cpp:978`); "EndBattle called multiple times!" (`scene_battle.cpp:552`)
    fails when a timer runs out in the frame of a game over (`:240`).
19. Battles of 2003: "If interpreter or something else changed the battle state, cleanup"
    (`scene_battle_rpg2k3.cpp:1637`) sees only changes of the same frame, so an action
    interrupted by a confused actor begins again (`:2763`). So does one during which a page
    first kills or removes the actor who chooses and then forces an escape or undoes the end:
    `:1007-1014` cancels not only menus but that escape too. This was
    found when the proof that actions are executed once failed; TLC shows it with a page of
    two commands, and the runs have one. "immediately cancel out of menu
    states" (`:1007`) also leaves the defeat (`:1011`). A skill hits a removed actor (`:2524`)
    whose sprite is gone (`:2815`).

## 4. Proofs

Every theorem has the form `Spec => []Inv`, but for three action properties and two
refinements, and holds for every value of the constants that satisfies the module's
named assumption, which is a hypothesis of the theorem where the module is used with
several settings or beside others. The two theorems about events have one hypothesis more,
about the behaviour, which excludes exactly divergences 2 and 10. None uses fairness.

### Nametags: `Rooms_proofs`, first part

For any sets of players, addresses, tiles and system
graphics and any word width, from `NameTagsAssumption` and `WordAssumption`:

* `TagsTypeCorrect`: `TagsSpec => []TagsTypeOK`
* `TagsHaveOneOwner`: `TagsSpec => []OneOwner`
* `StacksAreExact`: `TagsSpec => []StacksExact`, that is `StacksHoldTags /\ TagsAreStacked`
* `NothingDangles`: `TagsSpec => []StacksHoldTags`
* `LastAskServed`: `TagsSpec => []LastAskIsServed`

The inductive invariant is `TagsInv`: types, `OneOwner`, and `Stacked`, which says
for each tile that its stack has no pointer twice and that a pointer is on it
if and only if it is a live tag of that tile. `StacksHoldTags` alone is not
inductive: deleting a tag removes one occurrence from one stack, so nothing
dangles only because no pointer is anywhere else, which is what the "if and only
if" keeps. The lemmas `RemoveAtFacts`, `EraseFacts` and `AppendFacts` say what
erasing from and appending to a vector do to its elements; `StackedMeans` leads
back to the checked properties; there is one `...Keeps` lemma per action. The
proof never uses that `coordHash` is injective: two tiles with the same key would
share a stack, but no pointer would be lost.

`LastAskServed` rests on `Serving`: `LastAskIsServed`, and once the tag that asked last
was served, no callback is left. Without that, a callback of an earlier ask could still
arrive and write over what was served. Nothing is promised to a tag that takes the
address of a deleted one: an old callback may still colour it (divergence 6).

The refinement is `TagsDrawTheBoard`: `TagsSpec => DrawsTheBoard`.
By `TagsInv` every pointer of a stack is live and has exactly one owner, so `Owners`
turns a stack of pointers into a stack of players (`OwnerFacts`, `OwnersFacts`);
appending a pointer appends its owner, and erasing the first occurrence of a pointer
removes its owner (`OwnersOfAppend` and the lemmas on removal, which need that no stack
has a pointer twice). Creating and deleting a tag changes who owns what, yet no other
stack as it is read. Steps that touch no stack are stutters of the board.

### Players: `Rooms_proofs`, second part

For any number of players and packets, any map, any speeds and any thresholds:

* `PlayersTypeCorrect`: `PlayersSpec => []PlayersTypeOK`
* `PlayersAlwaysHaveTags`: `PlayersSpec => []PlayersHaveTags`
* `ReportsAreKept`: `PlayersSpec => []LastReportKept`
* `StepsEndOnTiles`: `PlayersSpec => []StepEndsOnTile`
* `PlayersWalkInOrder`: `PlayersSpec => WalksInOrder`, an action property

The inductive invariant is `PlayersInv`: `TagsInv`, the types, `PlayersHaveTags` and
`AllKept` (`LastReportKept`, player by player). The operations on tags keep `TagsInv`
by the lemmas on tags; the lemmas `...MovesNone` and `MoveMovesOne` add
which tags they move. `TrimmedFacts`, `TailFacts` and `FollowFacts` follow the last
position through trimming and taking up, `QueuedFacts` through the arrival of a path.
The report of a player is kept on its tag once its queue is empty, so the proof needs
that players never share a tag (`OneOwner`): moving one would lose the place of the
other. It also needs `TrimAbove >= 2`, which `OtherPlayersAssumption` states (the code
has 16): with 1 a trimmed queue would be emptied with the position still to come.

`StepsEndOnTiles` needs an invariant on arithmetic, `AllOnSchedule`: what remains of a
step is a whole number of frames at the character's speed. A frame takes one off
(`AdvanceOnTime`); a step begins with `TileSize`, of which `StepAssumption` says that it
is a multiple of the frame at every speed there is (256 = 2^8, speeds up to 6); and the
speed changes only where a step begins. `PlayersWalkInOrder` compares the queue before
and after each step: `PrefixFacts` for what a path appends, `SuffixFacts` and
`FollowFacts` for what trimming drops before the head is taken.

### Rooms: `Rooms_proofs`, third part

For any number of rooms, packets in flight and lost connections, and any finite set of
other players (`RoomsAssumption`):

* `RoomsAgree`: `[]SameRoom`
* `NobodyStaysMissing`: `[]MissingIsOnItsWay`

The inductive invariant `RoomsInv` is the types, `Agreement` and `ShownOrComing`.
`Agreement`: the last room packet in flight names the client's room, and without one the
server has the session there; without a connection nothing is in flight and the session
is nowhere. `ShownOrComing`: when no room packet is in flight, each player of the room
has a packet on the way that shows him and none behind it that removes him, or stands on
the screen and no packet on the way removes him. `MissingIsOnItsWay` alone says nothing
of a player on the screen whom a packet on the way will remove, and is not inductive.
The lemmas `OneMore` and its like say what a packet put behind or taken from the front
does to those who are coming.

### Session: `Connection_proofs`

For any number of websockets, maps and places and any interval, from `SafeSpec`
(the specification without its fairness):

* `ConnectionTypeCorrect`: `[]ConnectionTypeOK`
* `FlagIsTrue`: `[]ConnectedMeansOpen`
* `SessionIsSingle`: `[]OneSession`
* `RoomIsRight`: `[]RoomAgreement`
* `PlayerIsAnnounced`: `[]Announced`
* `SyncIsDue`: `[]SyncFollows`

The inductive invariant comes in two layers. `SessionInv` is the types,
`ConnectedMeansOpen`, `OneSession`, `RoomAgreement` and `Fresh`: a websocket that is
still connecting was told nothing. Without `Fresh` an opening websocket could bring a
session of its own. `PlayerInv` adds `Announced` and `SyncFollows`, whose steps need to
know which websocket is the session. What each packet does to what a session knows is a
lemma (`HearRoom`, `HearMovement`, `HearPlayerFacts`, ...).

### Files: `World_proofs`, first part

For any number of files, owners, listeners of a file and nested calls
(`AsyncFilesAssumption`):

* `FilesServeOwners`: `FilesSpec => []FilesInv`
* `FilesImplementAsks`: `~SelfAsks => (FilesSpec => Asks!Spec)`, the safety part of the
  refinement `EveryAskAnswered`

The inductive invariant is `FilesAreRight`. An entry of a vector, or of what a loop has
left, that has not expired stands for the last ask of its owner (`Current`); a request was
made with the flags its owners asked for (`Requested`); who was not called is bound
(`Bound`), who was called was called for the right file (`Served`); who waits for a file
that is there has his call before him in a loop that is not stale (`Due`), and of the
loops of one file only the innermost is not (`OneLive`). The last two are what makes
`listeners.clear()` at the end of a loop harmless, also when a listener asked again for
its own file (`EndKeeps`): somebody in the vector who still waits would have to be in a
live loop that is further out, and there is none. As long as that did not happen
(`askedAgain`, history) nothing is stale and no owner is called twice (`Single`): this is
`OneShot`, and what the refinement needs, for a second call would be an answer to nobody.
The lemmas on vectors say what expiring, binding and taking the first listener do
(`ExpireFacts`, `AddFacts`, `RestFacts`), those on the stack of calls what an ask and a
step of the innermost call do to all of them (`AskCalls`, `TopMoves`).

### Sharing: `World_proofs`, second part

For any finite number of players and switches, any whitelists, ranges, kinds of weather,
places, delay and number of packets on the way (`SharedWorldAssumption`):

* `WorldsFollow`: `Spec => []SharedInv`

The inductive invariant `WorldInv` says, of each thing that is shared, that what the
writer has is `Due` at every other: the newest packet about it says so, or there is none
and it is there. `SwitchesFollow` speaks of the next packet to come as well, and of two
states at once; it follows from `SwitchesDue`. It needs that nobody tells the writer
anything (`Alone`), that a weather which waits for its delay is the one the writer sees
(`WeatherDue`), and that, once an event was moved by way of the server while all knew
each other, nobody moves it alone any more (`NpcDue`). A range is announced packet by
packet: `Missed` is the set of the switches it changes and does not announce, and
everything else is proved for the loop as it is written (`Nth`, `Announced`).
The proof is the one place where the whitelists of two players meet: a packet of a switch
that is not on the list of the one who receives it is dropped, so `Due` is claimed for the
intersection only.

### Variables: `World_proofs`, third part

For any width of the word, any limits that lie twice inside of it on both sides, any
vector and any range (`VariablesAssumption`; the limits of the games are 999999 and
9999999, the word 2^31):

* `VariablesAreRight`: `VariablesSpec => []VariablesInv`

`VariablesTypeOK` is inductive, and the other two parts follow from it in every state, by
induction over the range. `SplitIsALoop` equates `WriteRangeVariable`, which writes up to
the variable with its old value and the rest with the new one, and the loop that reads
the variable before each write. The loop is a recursive function: `LoopExists` shows that
one satisfies its equation (`Begins`, `GoesOn`), `LeastNumber` takes the least place at
which the two would differ (a well-founded subset order in `WellFoundedInduction`), and
`LoopIsSplit` excludes it: before the variable nothing has changed it, at it the old value
is still there, behind it nothing touches it any more. `OnlyProductsWrap` is arithmetic:
the sum and difference of two values, their quotient and remainder stay inside of the
word (`ExactFits`), where wrapping is the identity (`WrapFacts`).

### Rides: `Map_proofs`, first part

For any maps, any row of tiles, any number of ships, any height of the lift, and all the
ways in which events may command (`VehiclesAssumption`):

* `RidesEndWell`: `Spec => []VehiclesInv`

A frame is a composition of operators on worlds, records of what the module's variables
hold, so the proof has one lemma per operator (`MoveToKeeps`, `LiftKeeps`,
`GetOnOffKeeps`, ...) and the frame composes them. The inductive invariant is `RidesInv`,
made of `Good` and `Fits`. `Good` holds in every game: next to `NobodyFliesAlone` and
`SpeedComesBack` it keeps what they rest on, that the speed to come back to is the
player's own as long as he is on board or boards (`Pace`), and that who boards is on his
way to a ship (`Boards`). One case was not expected: an event that teleports the player
while he boards may let him get into the airship instead, and then the boarding ends only
with the ascent (`Ascends`). Within a frame the ascent is over before the boarding is
cleared, so the lemmas on the parts of a frame assume and keep `InFrame`, which is `Good`
without `Ascends`.

`Fits` depends on the game. Where only foreground events command, the music is that of
what the player rides, the music before it that of the map (`Tune`), whoever has a vehicle
is on board or on the way (`Mounted`, `OnTheWay`); together `Calm`. `OnItsGround` needs
that and that events wait for the player to stand: then ships and riders are at sea and
walkers on land (`Dry`), and what carries the player is where he is (`Carried`). The proof
of `OnItsGround` failed with the second condition alone: a parallel event that teleports a
player who boards leaves him in his ship on land. So the property has both conditions.

### Characters: `Map_proofs`, second part

For any row of tiles, any number of events, pages, switches and forced routes, and any
length of steps, jumps and rests (`CharactersAssumption`: the events stand on different
tiles in the beginning, and the stop count a forced route starts with is above the rests):

* `CharactersDoNotCollide`: `RoutesSpec => []CharactersInv`
* `NobodyMovesTwice`: `RoutesSpec => OneStepPerFrame`

The difficulty is that `MakeWay` finds the events on a tile one after the other to be gone,
or through, and each of them acts when it is asked, so that what the first one was found to
be may have changed when the last one has answered. `NoOverlap` and `IndexInRoute` are not
inductive: they say nothing of who waits in the middle of a question. The inductive
invariant `RouteInv` has three parts. `People` is about every event: types, `Alone` (this is
`NoOverlap`), `Inside` (`IndexInRoute`), and `Shown`: who has no page is through, and nobody
else. `Others` keeps types and that whoever moved was processed. `Stacked` is about every
call that runs:

* `Follows`: its commands are those of the character's route, unless its page was turned over
  in between, and then of the same kinds;
* `AtCommand`: a character that asks is at the command it asks for;
* `Moves`: who came to a tile in this frame has nothing left to ask for;
* `Clear`: of those it has asked, none that is in its way stands on the tile any more;
* `Linked`: a call was made by the one below it, for the tile its character stood on, and
  stands on still unless it has moved;
* nobody is called twice.

Whoever comes to a tile keeps all that (`LandingFacts`), because the tile is none that
somebody further out has found free. Take one who waits, f, and whom it asked, g. If g is the
one who lands, f asks about it only now. If not, g waits itself, so it has not moved in this
frame (`Moves`) and still stands on the tile that f asks for (`Linked`); nobody who is in the
way stands on the tile that is landed on, so this is another one. A switch that a route sets
turns pages over anywhere in the stack (`SwitchCommandKeeps`, the longest proof): what it
does to those who wait is `CallAfter`, and those who wait with a route of their own
are the reason for `disturbed`. `OneStepPerFrame` follows: only `Land` changes a tile, and
by `Moves` who lands has not moved before.

`NoOverlap` has a hypothesis, `Lasting`: each event has a page without a condition, or none at
all. One that vanishes is through, so that others may come to its tile, and when a page opens again
the code looks at nobody (`RefreshPage`).

### Events: `Map_proofs`, third part

For any common and map events, pages, switches, limits of loops and calls, and any lists of
commands that are laid out as the editor lays them out (`InterpreterAssumption`,
`MapUpdateAssumption`):

* `EventsKeepTheirPlaces`: `EventsSpec /\ [][~Overtaken]_eventVars => []EventsInv`
* `FramesGoOnInOrder`: `EventsSpec /\ [][~Overtaken]_eventVars => EventsInOrder`

`Overtaken` is a step that empties the parallel interpreter of an event while it asks the
player or is suspended: the page is turned over under it. These are divergences 2 and 10,
and without the hypothesis both theorems are false (run `answer`). Whatever else turns pages
over, at any other time, is allowed.

The layout: an arm is further in than its head and the next option or the end follows it,
nothing between a decision and its options is further out, a loop that is closed was opened.
The editor writes nothing else. Besides, labels and the ends of loops do not lead into an arm
or behind the question of a choice (`StaysInside`): the code would follow such a jump, and
the arm would run without having been chosen. `BreakLoop` goes to the next `EndLoop` of
whatever loop, so this is a condition on lists where another loop follows in the same one.

The inductive invariant `EventsIInv` is `Core` and `Flow`. `OnlyChosenArms` says that every
arm around a command was chosen by the last decision for it. It is not inductive, because a
decision leaves its mark in the subcommand index of its level, and options further on are
entered by that index. `FramesSound` adds what is needed (`Indexed`): for each option ahead
whose decision is behind, the index of its level is the sentinel or the choice that was made,
but for the question that is on the screen, which is not decided. One lemma per command then
says that its frame stays sound: `BranchTaken`, `OptionTaken`, `JumpTaken`, `QuestionPassed`,
`AnswerTaken`. They rest on what the layout gives: an arm ends where its end is found
(`ArmEnds`), and skipping enters no arm (`SkipInside`).

`QuestionOpen`: the frame of an open question is on top of an interpreter that waits, and a
parallel one waits by its `show_message` flag only, so that nothing is pushed above it and
the index goes to the right frame (`AnswerKeepsCore`). `ReleasedByFrame`: who stands still
has commands that wait, or that are the first on the foreground's stack; `StandsStillToAct`
would be content with any place, but only the first one releases. `PagesOpen`: who waits has
a page, which is why what is pushed is a list of commands (`PushedFacts`). `Flow` is about
the frame: `TurnsInOrder`, only events before the one whose turn it is have had theirs, and
none is in the order twice; `SuspendedOnTop`, what was suspended is still on top when the
frame resumes. From these `NoTurnTwice` and `GoesOnWhereItStopped` follow for every step.
There is one lemma per action; `TopRuns` and `CommandKeeps` are what all commands share.

### Pictures: `Screen_proofs`, second part

For any picture numbers, files, names, sheets and number of commands
(`PicturesAssumption`):

* `PicturesAreRight`: `PicturesSpec => []PicturesInv`

The inductive invariant `IInv` says of each picture that it is `Right` (`ShowsWhatItNames`)
and, if erased, `Gone`: without an image and also without a name and a binding, for a
binding left behind would bring the image back. A stored picture has neither sprite nor
binding, so loading starts afresh. `Asks` says that a binding is to the file the picture
names; it holds as long as no picture was shown under a name it did not ask for
(`asksForAll`, history), the condition of divergence 16: the proof of `ShowKeeps` fails
without it. There is one lemma per operator on a picture and one per action; `GrownFacts`
says what growing the vector adds.

### Music: `Screen_proofs`, first part

For any songs, links, missing and broken files, any volumes with a loudest, any length of a
fade and any number of commands and mixes (`MusicAssumption`):

* `MusicIsRight`: `MusicSpec => []MusicInv`

The inductive invariant `Inv` is about what sounds, `Awaits` and `InTune`. While a file is
awaited no channel has a song, so one of the two is unused when it comes
(`AlwaysAChannel`: the audio thread frees a channel that was stopped only with its next
mix, which is why there are two and why the request that is pending matters). What the
request is bound to is the current music, and a channel that is not stopped, also a paused
one, has the current music, and its volume where none fades in. `HearsCurrent` speaks of
channels that sound; it is not inductive, as a paused channel goes on. There is one lemma
per operation of `Game_System` and one per kind of mix.

### Scenes: `Screen_proofs`, third part

For any outcomes of the map updates, any delays and any number of keys and updates
(`ScenesAssumption`):

* `ScenesAreSetUp`: `ScenesSpec => []ScenesInv`

Continuations call each other, and each relies on what the one that kept it has left behind:
`FinishPendingTeleport` on a teleport that is still asked for, the inn on what it has
interrupted. The inductive invariant `Sane` says what that is at every point of a call of
`MainFunction`. `FrameOf` is the shape of the call; `OneCont`: there is one continuation at
a time, the one that runs or the one that waits, and one that waits on the map has an
operation to wait for; `Ready`: what each of them relies on is there (`Has`), and the inn
keeps something that can go on (`InnKept`); `Settled`: nothing is left to do on a map that
another scene covers. These are what `NothingLost` and `TeleportsAreAskedFor` need, which
alone only speak of the step that goes wrong. `OneTransition` needs that the map is set up
on a black screen, also by what an event interrupts meanwhile (`SettingUp`, `Opening`);
`SetUpBeforeUpdate` needs that the scene on the top, the one whose function runs and the one
that is drawn are the same (`Drawn`), which fails after a return to the title in the middle
of it: that is divergence 15, and the reason for `exited`. There is one lemma per action.

### Battles in turns: `Battlers_proofs`, `Battle_proofs`

For any actors, any troop in which no enemy is twice, any parties, any kinds of action and
states that are inflicted, any pages and commands of theirs, any number of blows and turns
(`BattleAssumption`):

* `BattlesAreFought`: `Spec => []BattleInv`

The inductive invariant `TurnInv` has four parts besides the types and `QueueIsAParty`.
`InOrder` follows the choices through all menus: whoever comes before `actor_index` is in
the queue, in the order of the party, and nobody else; so that whoever is put into it was
not there yet (`Joins`), and stepping back, over any number of actors who did not choose,
takes away as many as it steps over (`SelectPreviousActorKeeps`). It needs that no page runs
while the player chooses (`Scheduled`): a page may remove an actor from the party, and then
the queue would no longer be its beginning. `Acting` is what carries an attack to its
target: from the check at which the battle goes on to the moment the targets are sought, both
sides have somebody, for nothing in between kills or hides. Then either the target
is still there, or `NextActive` comes around to another one (`Around`, `StandsIn`,
`TargetFound`), except for an actor who left the party after he was aimed at, for whom it
does not even begin; this is divergence 18 again, from the side of what holds. `Ended` says
that the state of a scene that is won or lost is what `EndOf` still finds, when the frame
that ends the battle comes. What pages, blows and states do is one lemma per operator of
`Battlers` in `Battlers_proofs` (`Adds`, `Removes`, `Strikes`, ...), for both kinds of battle: whoever has an action has one
afterwards, be it none (`NoAction`), which is why a queue is never without one.
`Shuffled` is the random order of the turn.

### Battles with gauges: `Battle2k3_proofs`

For any actors, any troop in which no enemy is twice, any party, any kinds of action, states,
pages and commands of theirs, with gauges that wait or do not (`AtbAssumption`):

* `BattlesWithGauges`: `Spec => []AtbInv`

The inductive invariant `AtbIInv` has four parts that hold in every game. `Sound` is about
what the scene keeps apart: nobody is in the queue twice, whoever is in it has an action and
an empty gauge, nobody in it has the menu, only the living have full gauges, and a menu that
is open leads back only to menus of an actor. `Typed` is the types; `InTurn` says that what is
executed belongs to the first of the queue; `Settled`, that a victory or defeat is true, not
only where it is left but from when the scene shows it.

`ActsOnce` needs `Undisturbed`, and under it three more parts. `Begun`: whoever began to act is
the first of the queue and still at it, or the battle ends before he could begin again. `Sane`:
nobody loses control. `Steady`: a chooser who is gone is noticed before a page goes on, and
nobody returns from an escape that a page forces. With confusion or provocation, or with
pages that take the chooser away and go on, it does not hold, neither in the model nor in the
code: the second condition was found where the proof failed (divergence 19).

A frame composes operators on records, as in the rides, so there is one lemma per operator
(`MenusGoOn`, `ActionsGoOn`, `RemovedKeeps`, ...) and one per action. `CreateBattleActions` goes
through troop and party and everybody may put an action into the queue that the next one
finds: it is a recursive function. `RunExists` shows that one satisfies its equation,
`StepKeeps` that one battler keeps `Sound`, and the least counterexample
(`CreateActionsKeeps`) that all of them do.

### Only model-checked

Of the safety properties none but `GaugedInv`, which is `AtbInv`, which is proved, in another
setting. The run `events` takes the steps that the theorems about events allow, those that are
not `Overtaken`; `answer` takes them all.

Out of the prover's reach is all liveness under fairness, that of `FileAsks` included, and
induction as a rule: the library's induction theorems take an operator. The inductions
above are made one at a time, with the least counterexample.

## 5. Not modelled, and what is left

Not modelled, by what would be gained:

* Rendering, fonts, bitmaps, windows and menus, the chat window: no state that
  outlives a frame in a way one could get wrong by order, but pixels and layout. The
  tables of glyphs and of file names (`bitmapfont_*.h`, `shinonome_*.h`,
  `rtp_table.cpp`) are a quarter of the lines of the repository.
* File systems, archives, the platform layer, decoders: I/O and formats.
* Inventory, levels, equipment, formulas of damage: sequential arithmetic with limits,
  which unit tests reach (`tests/algo.cpp`, `tests/game_actor.cpp`).
* Commands of the interpreter that set one field of the database or of the screen.
* Tone, flash, shake and weather particles: they change how a frame is drawn.
* Shared random numbers: a function of a seed and a position, without state.
* The dungeon generator, which the client does not call.

Possible next steps, most valuable first:

1. `Connection` composed with `Rooms` and `SharedWorld`, so that several websockets, not
   one that is lost and comes back, interleave with players on the screen, and lost
   connections with shared switches.
2. `MapUpdate` composed with `Characters` (pages turned over between route and
   interpreter of one event) and with `Scenes` (the outcomes of a frame derived).
3. The pointers from players to the map scene at the title
   (`game_multiplayer_other_player.cpp:71`) and the saved speed
   (`game_multiplayer_main_loop.cpp:85`): the two hazards without a property.
4. A listener's request for its own file, put off to the next frame (`Single` hints that it
   could be): whether `OneShot` then holds without its exception.
