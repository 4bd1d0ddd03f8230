------------------------------- MODULE Scenes -------------------------------
(***************************************************************************)
(* The stack of scenes and its main function (src/src/scene.cpp), the map  *)
(* scene with its teleports, suspensions and the inn (scene_map.cpp), the  *)
(* screen transitions (transition.cpp) and Player::Update.                 *)
(*                                                                         *)
(* What the events of the map do in one update of it is an outcome         *)
(* [op, tele, call]: the async operation that suspends it, a teleport that *)
(* it reserves and a scene that it requests.                               *)
(*                                                                         *)
(* A frame is one call of MainFunction. Continuations call each other to   *)
(* any depth; every call is a step, and until the function has returned    *)
(* nothing else happens (me, run, due, at are its call stack).             *)
(***************************************************************************)
EXTENDS Integers, Sequences

CONSTANTS Outcomes,     \* what may happen in a map update, beside nothing
          SceneBudget,  \* bound on the keys and on the map updates in which something happens
          StartDelay, TitleDelay    \* kStartGameDelayFrames, kReturnTitleDelayFrames

\* scenes, the game as one record of records.
\* st, the stack: types of scenes; of every type the fields of its Scene, started (initialized),
\*     cont (async_continuation) and delay; init, pushpop: statics of scene.cpp; current: the
\*     scene that is drawn.
\* game: tr, the transition; erased: screen_erased_by_event; inn: [on, started, cont]; tele,
\*     requested: the teleport and the scene asked for; file: an important file is pending.
\* main: me, the scene whose MainFunction runs; run: the continuation that is called next; due:
\*     a ScheduleTransitionIn comes after it; at: how far MainFunction is.
\* past, the history of the run: twice, lost, unseen, unasked, exited.
VARIABLES scenes, sceneBudget

sceneVars == <<scenes, sceneBudget>>

Called == {"menu", "gameover"}    \* scenes that the map calls
SceneTypes == {"title", "map"} \cup Called
AsyncOps == {"none", "title", "erase", "show", "inn", "inn_asked", "quick", "save"}
Quiet == [op |-> "none", tele |-> "none", call |-> "none"]

ScenesAssumption ==
    /\ Outcomes \subseteq [op : AsyncOps, tele : {"none", "fg", "par"}, call : {"none"} \cup Called]
    /\ SceneBudget \in Nat /\ StartDelay \in Nat /\ TitleDelay \in Nat

NoCont == [fn |-> "none"]
NoInn == [on |-> FALSE, started |-> FALSE, cont |-> NoCont]
Returned == [me |-> "none", run |-> NoCont, due |-> FALSE, at |-> "idle"]

ScenesInit ==
    /\ scenes = [st |-> [stack |-> <<"title">>, started |-> {},
                        cont |-> [t \in SceneTypes |-> NoCont], delay |-> [t \in SceneTypes |-> 0],
                        init |-> FALSE, pushpop |-> "pushed", current |-> "none"],
                 game |-> [tr |-> [to |-> TRUE, frames |-> 0], erased |-> FALSE, inn |-> NoInn,
                           tele |-> "none", requested |-> "none", file |-> FALSE],
                 main |-> Returned,
                 past |-> [twice |-> FALSE, lost |-> FALSE, unseen |-> FALSE, unasked |-> FALSE,
                           exited |-> FALSE]]
    /\ sceneBudget = SceneBudget

Top(g) == g.st.stack[Len(g.st.stack)]

-----------------------------------------------------------------------------
(* Transitions.                                                            *)

IsActive(g) == g.game.tr.frames > 0
IsErasedNotActive(g) == g.game.tr.to /\ ~IsActive(g)

\* Transition::Init. An erase of a screen that is erased already takes no time.
Transit(g, erase) ==
    [g EXCEPT !.past.twice = @ \/ IsActive(g),
              !.game.tr = [to |-> erase, frames |-> IF g.game.tr.to /\ erase THEN 0 ELSE 1]]
InitShow(g) == Transit(g, FALSE)
InitErase(g) == Transit(g, TRUE)

-----------------------------------------------------------------------------
(* The stack.                                                              *)

\* IsAsyncPending looks at the scene on the top, whichever asks.
IsAsyncPending(g) == IsActive(g) \/ g.game.file \/ g.st.delay[Top(g)] > 0

\* A scene that is pushed is a new one.
Push(g, t) ==
    [g EXCEPT !.st.stack = Append(@, t), !.st.pushpop = "pushed", !.st.started = @ \ {t},
              !.st.cont[t] = NoCont, !.st.delay[t] = IF t = "map" THEN StartDelay ELSE 0]

PopUntil(g, t) ==
    [g EXCEPT !.st.stack = SubSeq(@, 1, CHOOSE i \in DOMAIN @ : @[i] = t), !.st.pushpop = "popped"]

ReturnToTitleScene(g) ==
    IF Top(g) = "title" THEN g ELSE PopUntil([g EXCEPT !.st.delay["title"] = TitleDelay], "title")

MapUpdate(g, o) ==
    [g EXCEPT !.game.tele = IF o.tele = "none" THEN @ ELSE o.tele,
              !.game.file = @ \/ o.tele # "none",
              !.game.requested = IF o.call = "none" THEN @ ELSE o.call]

\* Game_Player::PerformTeleport.
PerformTeleport(g) == [g EXCEPT !.past.unasked = @ \/ g.game.tele = "none", !.game.tele = "none"]

\* AsyncNext: at once, or when nothing is pending any more. A continuation is lost when another
\* one takes its place, and when it was moved away before.
AsyncNext_drops(g, cont) ==
    IF IsAsyncPending(g)
      THEN [g EXCEPT !.st.cont[g.main.me] = cont,
                     !.past.lost = @ \/ cont = NoCont \/ g.st.cont[g.main.me] # NoCont]
      ELSE g

AsyncNext(g, cont) ==
    IF IsAsyncPending(g)
      THEN [g EXCEPT !.st.cont[g.main.me] = cont,
                     !.past.lost = @ \/ cont = NoCont \/ g.st.cont[g.main.me] # NoCont]
      ELSE [g EXCEPT !.main.run = cont, !.past.lost = @ \/ cont = NoCont]

ScheduleTransitionIn_early(g) ==
    IF ~IsErasedNotActive(g) THEN g ELSE AsyncNext(g, [fn |-> "transition_in"])

ScheduleTransitionIn(g) ==
    IF ~IsErasedNotActive(g) THEN g
    ELSE IF g.st.cont[g.main.me] # NoCont
      THEN AsyncNext([g EXCEPT !.st.cont[g.main.me] = NoCont],
                     [fn |-> "then", first |-> g.st.cont[g.main.me]])
      ELSE AsyncNext(g, [fn |-> "transition_in"])

TransitionOut(g) ==
    InitErase(IF g.main.me = "map" THEN [g EXCEPT !.game.erased = FALSE] ELSE g)

-----------------------------------------------------------------------------
(* The map scene. tp: [fg, erase, default, defer] are the TeleportParams.  *)

FinishInn(g) ==
    AsyncNext([InitShow(g) EXCEPT !.game.erased = FALSE, !.game.inn = NoInn], g.game.inn.cont)

UpdateInn_hangs(g) ==
    IF g.game.inn.started THEN g
    ELSE AsyncNext([InitErase(g) EXCEPT !.game.inn.started = TRUE], g.game.inn.cont)

\* UpdateInn: the screen goes black, the music plays, and the map goes on.
UpdateInn(g) ==
    IF g.game.inn.started THEN FinishInn(g)
    ELSE AsyncNext([InitErase(g) EXCEPT !.game.inn.started = TRUE], [fn |-> "start_inn"])

CallInn(cont) == [on |-> TRUE, started |-> FALSE, cont |-> cont]

OnAsyncSuspend_now(g, cont, op, pre) ==
    CASE op = "title" -> ReturnToTitleScene(g)
      [] op = "erase" -> [InitErase(g) EXCEPT !.game.erased = @ \/ ~pre, !.main.run = cont]
      [] op = "show" -> [InitShow(g) EXCEPT !.game.erased = FALSE, !.main.run = cont]
      [] OTHER -> AsyncNext(g, cont)

\* What is to be done before cont. "inn_asked": the message of the inn is still there.
OnAsyncSuspend(g, cont, op, pre) ==
    CASE op = "title" -> [ReturnToTitleScene(g) EXCEPT !.past.exited = @ \/ g.main.at = "setup"]
      [] op = "erase" -> AsyncNext([InitErase(g) EXCEPT !.game.erased = @ \/ ~pre], cont)
      [] op = "show" -> AsyncNext([InitShow(g) EXCEPT !.game.erased = FALSE], cont)
      [] op = "inn" -> UpdateInn([g EXCEPT !.game.inn = CallInn(cont)])
      [] op = "inn_asked" -> [g EXCEPT !.game.inn = CallInn(cont)]
      [] op = "quick" ->
           AsyncNext([g EXCEPT !.game.inn.cont = cont, !.game.tele = "quick", !.game.file = TRUE],
                     [fn |-> "quick", orig |-> g.game.tele])
      [] OTHER -> AsyncNext(g, cont)

Params(g, erase, default, defer) ==
    [fg |-> g.game.tele = "fg", erase |-> erase, default |-> default, defer |-> defer]

StartPendingTeleport(g, tp) ==
    AsyncNext(IF ~IsErasedNotActive(g) /\ tp.erase THEN InitErase(g) ELSE g,
              [fn |-> "finish", tp |-> tp])

UpdateSceneCalling(g) ==
    IF g.game.requested = "none" THEN g
    ELSE Push([g EXCEPT !.game.requested = "none"], g.game.requested)

\* What follows the map update in Start2, UpdateStage2 and FinishPendingTeleport2 and 3.
Start2(g) ==
    IF g.game.tele # "none" THEN StartPendingTeleport(g, Params(g, FALSE, TRUE, FALSE))
    ELSE AsyncNext(IF IsErasedNotActive(g) THEN InitShow(g) ELSE g, [fn |-> "calling"])

Stage2(g) ==
    IF g.game.tele # "none" THEN StartPendingTeleport(g, Params(g, TRUE, FALSE, FALSE))
    ELSE UpdateSceneCalling(g)

Recursive(g, tp) == ~tp.defer /\ g.game.tele # "none"

Finish2_black(g, tp) ==
    IF Recursive(g, tp) THEN StartPendingTeleport(g, [tp EXCEPT !.erase = FALSE])
    ELSE AsyncNext(IF tp.default /\ IsErasedNotActive(g) THEN InitShow(g) ELSE g,
                   [fn |-> "finish3", tp |-> tp])

Finish2(g, tp) ==
    IF Recursive(g, tp) THEN StartPendingTeleport(g, [tp EXCEPT !.erase = FALSE])
    ELSE AsyncNext(IF IF tp.default THEN IsErasedNotActive(g) ELSE ~g.game.erased
                     THEN InitShow(g) ELSE g,
                   [fn |-> "finish3", tp |-> tp])

Finish3(g, tp) ==
    IF tp.fg /\ Recursive(g, tp) THEN StartPendingTeleport(g, [tp EXCEPT !.erase = FALSE])
    ELSE AsyncNext(g, [fn |-> "calling"])

-----------------------------------------------------------------------------
(* The continuations: what Start, Continue, AsyncNext and OnFinishAsync    *)
(* call, one step each.                                                    *)

Taken == [scenes EXCEPT !.main.run = NoCont]
Calls(fn) == scenes.main.run.fn = fn
Free == UNCHANGED sceneBudget

\* Something happens in a map update, or nothing.
MapUpdates(o) ==
    /\ o \in Outcomes \cup {Quiet}
    /\ sceneBudget' = IF o = Quiet THEN sceneBudget ELSE sceneBudget - 1
    /\ sceneBudget' >= 0

\* It suspends the map, which goes on with what was called; or it is done.
Updated(g, o, pre, done) ==
    scenes' = IF o.op = "none" THEN done ELSE OnAsyncSuspend(g, scenes.main.run, o.op, pre)

CallStart2(o) ==
    /\ Calls("start2") /\ MapUpdates(o)
    /\ LET g == MapUpdate(Taken, o) IN Updated(g, o, TRUE, Start2(g))

CallStage1(o) ==
    /\ Calls("stage1") /\ MapUpdates(o)
    /\ LET g == MapUpdate(Taken, o) IN Updated(g, o, FALSE, AsyncNext(g, [fn |-> "stage2"]))

CallStage2 == Calls("stage2") /\ scenes' = Stage2(Taken) /\ Free
CallCalling == Calls("calling") /\ scenes' = UpdateSceneCalling(Taken) /\ Free

CallFinish ==
    /\ Calls("finish") /\ Free
    /\ scenes' = [PerformTeleport(scenes) EXCEPT
                    !.main.run = [fn |-> "finish2", tp |-> scenes.main.run.tp]]

CallFinish2(o) ==
    /\ Calls("finish2") /\ MapUpdates(o)
    /\ LET g == MapUpdate(Taken, o) IN Updated(g, o, TRUE, Finish2(g, scenes.main.run.tp))

CallFinish3(o) ==
    /\ Calls("finish3") /\ MapUpdates(o)
    /\ IF scenes.main.run.tp.fg
         THEN LET g == MapUpdate(Taken, o) IN Updated(g, o, TRUE, Finish3(g, scenes.main.run.tp))
         ELSE o = Quiet /\ scenes' = Finish3(Taken, scenes.main.run.tp)

CallQuick ==
    /\ Calls("quick") /\ Free
    /\ LET g == PerformTeleport(Taken) IN
       scenes' = AsyncNext([g EXCEPT !.game.tele = scenes.main.run.orig, !.game.inn.cont = NoCont],
                           g.game.inn.cont)

\* There is music for the inn, or none.
CallStartInn == Calls("start_inn") /\ scenes' \in {Taken, FinishInn(Taken)} /\ Free

CallTransitionIn ==
    /\ Calls("transition_in") /\ Free
    /\ scenes' = IF scenes.main.me = "map" /\ (IsActive(scenes) \/ scenes.game.erased) THEN Taken
                 ELSE InitShow(Taken)

\* The continuation that ScheduleTransitionIn has wrapped.
CallThen ==
    /\ Calls("then") /\ Free
    /\ scenes' = [scenes EXCEPT !.main.run = scenes.main.run.first, !.main.due = TRUE]

\* Called by UpdateScene, MainFunction and the continuation of ScheduleTransitionIn.
CallSchedule ==
    /\ Calls("none") /\ scenes.main.due /\ Free
    /\ scenes' = ScheduleTransitionIn([scenes EXCEPT !.main.due = FALSE])

Call(o) ==
    \/ CallStart2(o) \/ CallStage1(o) \/ CallFinish2(o) \/ CallFinish3(o)
    \/ /\ o = Quiet
       /\ \/ CallStage2 \/ CallCalling \/ CallFinish \/ CallQuick \/ CallStartInn
          \/ CallTransitionIn \/ CallThen \/ CallSchedule

-----------------------------------------------------------------------------
(* Start, Continue and Update of the scenes.                               *)

StartScene(g) == IF g.main.me = "map" THEN [g EXCEPT !.main.run = [fn |-> "start2"]] ELSE g

ContinueScene_always(g) ==
    IF g.main.me = "map"
      THEN [g EXCEPT !.main.run =
                [fn |-> "finish", tp |-> Params(g, FALSE, TRUE, g.game.tele = "skill")]]
      ELSE g

ContinueScene(g) ==
    IF g.main.me = "map" /\ g.game.tele # "none"
      THEN [g EXCEPT !.main.run =
                [fn |-> "finish", tp |-> Params(g, FALSE, TRUE, g.game.tele = "skill")]]
      ELSE g

\* A new game has its own player and its own map scene.
NewGame(g) ==
    [g EXCEPT !.game.tele = "none", !.game.requested = "none", !.game.erased = FALSE,
              !.game.inn = NoInn]

\* What the player does in a scene: on the map only the inn can be seen to.
UpdateScene(g, key) ==
    CASE Top(g) = "map" ->
           IF g.game.inn.on THEN (IF key = "wait" THEN g ELSE UpdateInn(g))
           ELSE [g EXCEPT !.main.run = [fn |-> "stage1"]]
      [] Top(g) = "title" -> IF key = "play" THEN Push(NewGame(g), "map") ELSE g
      [] Top(g) = "menu" ->
           (CASE key = "pop" -> PopUntil(g, "map")
              [] key = "skill" ->
                   PopUntil([g EXCEPT !.game.tele = "skill", !.game.file = TRUE], "map")
              [] key = "quit" -> ReturnToTitleScene(g)
              [] OTHER -> g)
      [] Top(g) = "gameover" -> IF key = "quit" THEN ReturnToTitleScene(g) ELSE g

PlayerUpdate_counts(g, update, key) ==
    LET g1 == IF IsActive(g) THEN [g EXCEPT !.game.tr.frames = @ - 1]
              ELSE [g EXCEPT !.st.delay[Top(g)] = @ - 1]
    IN IF update THEN UpdateScene([g1 EXCEPT !.past.unseen = @ \/ g1.st.current # Top(g1)], key)
       ELSE g1

\* Player::Update: the transition, the delay of the scene and, unless something is pending,
\* the scene itself.
PlayerUpdate(g, update, key) ==
    LET reset == key = "reset" /\ ~IsAsyncPending(g) /\ Top(g) # "title"
        g1 == IF reset THEN ReturnToTitleScene(g) ELSE g
        g2 == IF IsActive(g1) THEN [g1 EXCEPT !.game.tr.frames = @ - 1]
              ELSE [g1 EXCEPT !.st.delay[Top(g1)] = IF @ > 0 THEN @ - 1 ELSE 0]
    IN IF update /\ ~reset
         THEN UpdateScene([g2 EXCEPT !.past.unseen = @ \/ g2.st.current # Top(g2)], key)
         ELSE g2

-----------------------------------------------------------------------------
(* MainFunction: OnFinishAsync and what it calls ("finished"), then the    *)
(* scene is set up ("setup") or updated ("updated").                       *)

Keys == {"none", "wait", "play", "pop", "skill", "quit", "reset"}

Returns(stage) == scenes.main.at = stage /\ Calls("none") /\ ~scenes.main.due

\* What is pending: only the transition and the delay go on.
Tick ==
    /\ scenes.main.at = "idle" /\ IsAsyncPending(scenes) /\ Free
    /\ scenes' = PlayerUpdate(scenes, FALSE, "none")

OnFinishAsync ==
    /\ scenes.main.at = "idle" /\ ~IsAsyncPending(scenes) /\ Free
    /\ LET t == Top(scenes) IN
       scenes' = [scenes EXCEPT
                    !.st.cont[t] = NoCont,
                    !.main = [me |-> t, run |-> scenes.st.cont[t], due |-> FALSE,
                              at |-> "finished"]]

MaySetUp(g) == ~IsAsyncPending(g) /\ Top(g) = g.main.me

\* A scene that has come to the top is started, or continued if it was started before.
SetUp ==
    /\ Returns("finished") /\ MaySetUp(scenes) /\ ~scenes.st.init /\ Free
    /\ LET g == [scenes EXCEPT !.st.current = scenes.main.me,
                                !.main.at = "setup", !.main.due = TRUE]
           started == g.main.me \in g.st.started
       IN scenes' = CASE g.st.pushpop = "pushed" \/ (g.st.pushpop = "popped" /\ ~started) ->
                           StartScene(g)
                      [] g.st.pushpop = "popped" /\ started -> ContinueScene(g)
                      [] g.st.pushpop = "none" -> g

IsSetUp ==
    /\ Returns("setup") /\ Free
    /\ scenes' = [scenes EXCEPT !.st.started = @ \cup {scenes.main.me}, !.st.pushpop = "none",
                               !.st.init = TRUE, !.main = Returned]

UpdatesScene(key) ==
    /\ Returns("finished") /\ MaySetUp(scenes) /\ scenes.st.init
    /\ sceneBudget' = (IF key = "none" THEN sceneBudget ELSE sceneBudget - 1) /\ sceneBudget' >= 0
    /\ scenes' = PlayerUpdate([scenes EXCEPT !.main.at = "updated"], TRUE, key)

LeaveScene_ready(g) ==
    IF Top(g) = g.main.me THEN g
    ELSE IF IsActive(g) THEN [g EXCEPT !.st.init = FALSE] ELSE TransitionOut(g)

LeaveScene(g) ==
    IF Top(g) = g.main.me THEN g
    ELSE [IF IsActive(g) THEN g ELSE TransitionOut(g) EXCEPT !.st.init = FALSE]

Leaves ==
    /\ Returns("updated") \/ (Returns("finished") /\ ~MaySetUp(scenes))
    /\ scenes' = [LeaveScene(scenes) EXCEPT !.main = Returned] /\ Free

\* An important file arrives, between two frames.
FileArrives ==
    /\ scenes.main.at = "idle" /\ scenes.game.file /\ Free
    /\ scenes' = [scenes EXCEPT !.game.file = FALSE]

\* The main function, in which the player and the events may do something, or nothing.
Step(o, key) ==
    \/ Call(o)
    \/ o = Quiet /\ UpdatesScene(key)
    \/ o = Quiet /\ key = "none" /\ (Tick \/ OnFinishAsync \/ SetUp \/ IsSetUp \/ Leaves)
QuietStep == Step(Quiet, "none")

ScenesNext == FileArrives \/ \E o \in Outcomes \cup {Quiet}, key \in Keys : Step(o, key)

ScenesSpec == ScenesInit /\ [][ScenesNext]_sceneVars

\* Frames go on and files arrive.
FairScenesSpec == ScenesSpec /\ WF_sceneVars(QuietStep) /\ WF_sceneVars(FileArrives)

-----------------------------------------------------------------------------
(* Properties.                                                             *)

TeleportParams == [fg : BOOLEAN, erase : BOOLEAN, default : BOOLEAN, defer : BOOLEAN]
Teles == {"none", "fg", "par", "quick", "skill"}
PlainConts ==
    [fn : {"none", "start2", "stage1", "stage2", "calling", "start_inn", "transition_in"}]
    \cup [fn : {"finish", "finish2", "finish3"}, tp : TeleportParams]
    \cup [fn : {"quick"}, orig : Teles]
Conts == PlainConts \cup [fn : {"then"}, first : PlainConts]
Stacks == {<<"title">>, <<"title", "map">>} \cup {<<"title", "map", t>> : t \in Called}
StackStates ==
    [stack : Stacks, started : SUBSET SceneTypes, cont : [SceneTypes -> Conts],
     delay : [SceneTypes -> 0..(StartDelay + TitleDelay)], init : BOOLEAN,
     pushpop : {"none", "pushed", "popped"}, current : SceneTypes \cup {"none"}]
GameStates ==
    [tr : [to : BOOLEAN, frames : 0..1], erased : BOOLEAN,
     inn : [on : BOOLEAN, started : BOOLEAN, cont : PlainConts], tele : Teles,
     requested : {"none"} \cup Called, file : BOOLEAN]
MainStates ==
    [me : SceneTypes \cup {"none"}, run : Conts, due : BOOLEAN,
     at : {"idle", "finished", "setup", "updated"}]
Pasts == [twice : BOOLEAN, lost : BOOLEAN, unseen : BOOLEAN, unasked : BOOLEAN, exited : BOOLEAN]

\* Type correctness: the title is under everything and a called scene is on the map, no delay
\* and no transition runs below zero, and what is wrapped in a transition is not wrapped again.
ScenesTypeOK ==
    /\ scenes \in [st : StackStates, game : GameStates, main : MainStates, past : Pasts]
    /\ sceneBudget \in 0..SceneBudget

\* "Triggering multiple transitions on a single frame is a bug" (assert(!IsActive()) of
\* Transition::Init), whatever suspends the map, and wherever.
OneTransition == ~scenes.past.twice

\* There is one place for what is to be done after an async operation, and one more for an inn
\* or a quick teleport: neither is overwritten by something else, nor is it empty when its turn
\* has come (Scene::AsyncNext, map_async_continuation).
NothingLost == ~scenes.past.lost

\* assert(IsPendingTeleport()) of PerformTeleport.
TeleportsAreAskedFor == ~scenes.past.unasked

\* A scene is only updated when it was started or continued before, and is what is drawn:
\* Continue "is executed when returning from a nested scene". The one exception: an event
\* has returned to the title while the map was being set up.
SetUpBeforeUpdate == scenes.past.unseen => scenes.past.exited

\* All of these.
ScenesInv ==
    /\ ScenesTypeOK
    /\ OneTransition /\ NothingLost /\ TeleportsAreAskedFor /\ SetUpBeforeUpdate

\* When nothing happens any more, every teleport is performed, every scene that was
\* requested is called and the night in the inn is over: the continuations that AsyncNext
\* keeps all come to an end.
Settles ==
    <>[](Top(scenes) = "map" =>
           scenes.game.tele = "none" /\ scenes.game.requested = "none" /\ ~scenes.game.inn.on)

\* "EraseScreen commands performed during pre-update don't stick" (Scene_Map::OnAsyncSuspend):
\* when nothing happens any more, the map can be seen, unless an event has erased the screen
\* in a frame that was no pre-update.
MapIsSeen == <>[](Top(scenes) = "map" => scenes.game.erased \/ ~scenes.game.tr.to)

=============================================================================
