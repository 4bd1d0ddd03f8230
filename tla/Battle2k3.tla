----------------------------- MODULE Battle2k3 -----------------------------
(***************************************************************************)
(* A battle of RPG Maker 2003: src/src/scene_battle_rpg2k3.cpp on top of    *)
(* scene_battle.cpp. Gauges fill; whoever has a full one acts as soon as it *)
(* is chosen for, and interrupts the menus. A frame is: events, timers, the *)
(* check for the end, the gauges (phases "events" and "gauges"), then steps *)
(* of the scene until one of them waits (phase "scene"). The battlers and   *)
(* their actions are in Battlers.                                          *)
(***************************************************************************)
EXTENDS Battlers, FiniteSets

CONSTANTS FirstParty,    \* sequence of the actors at the start
          ActorKinds, EnemyKinds,   \* what the two sides may do
          Hits,          \* blows of one attack
          ActiveAtb,     \* AtbMode_atb_active: the gauges fill behind the menus
          AutoAllowed,   \* the option AutoBattle is there
          Pages,         \* sequence of "before" and "after": when each page may run
          Commands,      \* what the pages may do
          PageLength,    \* bound: commands of one page
          Timers,        \* whether a battle timer may run out
          MaxTurns       \* bound: actions of the battle

VARIABLES w,             \* the battlers, see Battlers
          full,          \* battlers with a full gauge
          s,             \* [state, previous, sub, auto]: state, previous_state, substate, auto_battle
          active,        \* active_actor
          queue,         \* battle_actions
          act,           \* pending_battle_action and its state: [src, algo, targets, at, hit, step]
          page,          \* the interpreter: [left, executed, flee]
          phase,
          place,         \* "battle" or "left"
          result,        \* what on_battle_end was told
          turns,         \* Game_Party::GetTurns
          begun          \* history: battlers whose action has been started

combat == <<w, full, active, queue>>
ending == <<place, result>>
history == <<turns, begun>>
vars == <<combat, s, act, page, phase, ending, history>>

AtbAssumption ==
    /\ BattlersAssumption /\ "none" \notin All
    /\ FirstParty \in Seq(Actors) /\ IsInjective(FirstParty)
    /\ ActorKinds \subseteq {"attack", "skill", "item", "defend", "escape"}
    /\ EnemyKinds \subseteq {"attack", "skill", "explode", "escape", "defend"}
    /\ Hits \in Nat /\ PageLength \in Nat /\ MaxTurns \in Nat
    /\ Pages \in Seq({"before", "after"}) /\ {ActiveAtb, AutoAllowed, Timers} \subseteq BOOLEAN

Menus == {"command", "skill", "item", "enemytarget", "allytarget"}
NoAct == [src |-> "none", algo |-> Null, targets |-> <<>>, at |-> 0, hit |-> 0, step |-> "none"]

Init ==
    /\ w = [status |-> [b \in All |-> "fine"], hidden |-> {}, party |-> FirstParty,
            sp |-> [b \in All |-> MaxSp], items |-> MaxItems, algo |-> [b \in All |-> Null]]
    /\ full \in {{}, ToSet(FirstParty), Enemies}
    /\ s = [state |-> "option", previous |-> "start", sub |-> "begin", auto |-> FALSE]
    /\ active = "none" /\ queue = <<>> /\ act = NoAct
    /\ page = [left |-> 0, executed |-> {}, flee |-> FALSE]
    /\ phase = "events" /\ place = "battle" /\ result = "none"
    /\ turns = 0 /\ begun = {}

-----------------------------------------------------------------------------
SetState(t, new) ==
    [state |-> new, previous |-> t.state, sub |-> "begin",
     auto |-> new = "auto" \/ (t.auto /\ new # "actor")]

ReturnToMain(t) == SetState(t, IF t.auto THEN "auto" ELSE "actor")

\* AddState: who dies loses its gauge.
GaugesOfTheLiving_all(gauges, v) == gauges

GaugesOfTheLiving(gauges, v) == {b \in gauges : v.status[b] # "dead"}

Ready(v, gauges, b) == b \in gauges /\ Exists(v, b) /\ CanAct(v, b)

FirstReady(v, gauges) ==
    LET ready == {i \in DOMAIN v.party : Ready(v, gauges, v.party[i])}
    IN IF ready = {} THEN "none" ELSE v.party[CHOOSE i \in ready : \A j \in ready : i <= j]

\* ActionSelectedCallback for b with algo; d is the battle [w, full, active, queue, s].
ActionSelected_keepsGauge(d, b, algo) ==
    [w |-> [d.w EXCEPT !.algo[b] = algo], full |-> d.full,
     active |-> IF b = d.active THEN FirstReady(d.w, d.full \ {b}) ELSE d.active,
     queue |-> Append(d.queue, b),
     s |-> IF b \in Actors THEN ReturnToMain(d.s) ELSE d.s]

ActionSelected(d, b, algo) ==
    LET gauges == d.full \ {b}
    IN [w |-> [d.w EXCEPT !.algo[b] = algo], full |-> gauges,
        active |-> IF b = d.active THEN FirstReady(d.w, gauges) ELSE d.active,
        queue |-> Append(d.queue, b),
        s |-> IF b \in Actors THEN ReturnToMain(d.s) ELSE d.s]

Now == [w |-> w, full |-> full, active |-> active, queue |-> queue, s |-> s]

Becomes(d) ==
    /\ w' = d.w /\ full' = d.full /\ active' = d.active /\ queue' = d.queue /\ s' = d.s

\* CheckBattleEndConditions: the state it leaves t in.
Ended(t, v) ==
    IF t.state = "defeat" THEN t
    ELSE IF CheckLose(v) THEN SetState(t, "defeat")
    ELSE IF t.state = "victory" \/ ~CheckWin(v) THEN t
    ELSE SetState(t, "victory")

EndBattle(how) == place' = "left" /\ result' = how

-----------------------------------------------------------------------------
(* UpdateBattleState: nothing of it happens any more once the battle is    *)
(* decided.                                                                *)

Decided(t) == t.state \in {"victory", "defeat"}

Skip ==
    /\ place = "battle" /\ phase = "events" /\ Decided(s)
    /\ phase' = "scene"
    /\ UNCHANGED <<combat, s, act, page, ending, history>>

\* UpdateEvents, UpdateTimers and CheckBattleEndConditions.
Events ==
    /\ place = "battle" /\ phase = "events" /\ ~Decided(s)
    /\ \E c \in IF page.left > 0 THEN Commands \cup {"nothing"} ELSE {"nothing"}, out \in {FALSE, Timers} :
       LET flee == page.flee \/ c = "forceflee"
           fled == IF flee /\ s.state # "escape" THEN SetState(s, "escape") ELSE s
       IN /\ w' \in Ran(w, c)
          /\ full' = GaugesOfTheLiving(full, w')
          /\ page' = [page EXCEPT !.left = IF @ > 0 THEN @ - 1 ELSE 0, !.flee = flee]
          /\ IF c = "terminate" \/ out
             THEN EndBattle("abort") /\ s' = fled /\ UNCHANGED phase
             ELSE s' = Ended(fled, w') /\ phase' = "gauges" /\ UNCHANGED ending
    /\ UNCHANGED <<active, queue, act, history>>

Accumulating ==
    s.state \in {"actor", "auto"} \/ (ActiveAtb /\ s.state \in Menus)

\* UpdateAtbGauges: the gauges that grow.
Gaining ==
    {b \in All \ full : /\ Accumulating
                        /\ w.algo[b] = Null /\ Exists(w, b)
                        /\ CanAct(w, b) \/ b \in Enemies}

\* Who an action is created for: every enemy, not even the dead are left out, actors who have lost
\* control, and in auto battle all of them.
Chooses(d, b) ==
    /\ b \in d.full /\ d.w.algo[b] = Null
    /\ b \in Actors =>
         /\ d.s.state \in {"actor", "auto", "battle"} /\ Ready(d.w, d.full, b)
         /\ IsControllable(d.w, b) => d.s.state = "auto"

\* CreateEnemyActions and CreateActorAutoActions; chosen is what the AI chooses for each.
CreateActions(d, chosen) ==
    LET order == Troop \o d.w.party
        after[i \in 0..Len(order)] ==
            IF i = 0 THEN d
            ELSE IF Chooses(after[i - 1], order[i]) THEN ActionSelected(after[i - 1], order[i], chosen[order[i]])
            ELSE after[i - 1]
    IN after[Len(order)]

\* UpdateAtb
Gauges ==
    /\ place = "battle" /\ phase = "gauges"
    /\ phase' = "scene"
    /\ IF page.left > 0 THEN UNCHANGED <<combat, s>>
       ELSE \E gained \in SUBSET Gaining :
            LET later == [Now EXCEPT !.full = @ \cup gained]
                open == {b \in later.full : w.algo[b] = Null}
                Kinds(b) == IF b \in Enemies THEN EnemyKinds ELSE {"attack", "skill"}
                May(b) == AiActions(w, b, Kinds(b))
            IN \E chosen \in {f \in [open -> UNION {May(b) : b \in open}] : \A b \in open : f[b] \in May(b)} :
               Becomes(CreateActions(later, chosen))
    /\ UNCHANGED <<act, page, ending, history>>

-----------------------------------------------------------------------------
(* ProcessSceneAction, as long as nothing makes the scene wait for the next *)
(* frame.                                                                  *)

Turn == place = "battle" /\ phase = "scene" /\ (page.left = 0 \/ Decided(s))

ActiveGone == active # "none" /\ ~Exists(w, active)

WaitFrame == phase' = "events"
Continue == phase' = "scene"

\* A page is running: the rest of the frame is skipped.
Blocked ==
    /\ place = "battle" /\ phase = "scene" /\ page.left > 0 /\ ~Decided(s)
    /\ WaitFrame
    /\ UNCHANGED <<combat, s, act, page, ending, history>>

\* The active actor was killed or removed: out of the menus.
CancelMenus ==
    /\ Turn /\ ActiveGone
    /\ active' = "none"
    /\ s' = IF s.state = "battle" THEN s ELSE ReturnToMain(s)
    /\ UNCHANGED <<w, full, queue, act, page, phase, ending, history>>

At(state) == Turn /\ ~ActiveGone /\ s.state = state

\* ProcessSceneActionFightAutoEscape
Option ==
    /\ At("option")
    /\ active' = "none" /\ WaitFrame
    /\ \/ s' = [s EXCEPT !.sub = "input"]
       \/ s' = SetState(s, "actor")
       \/ AutoAllowed /\ s' = SetState(s, "auto")
       \/ turns = 0 /\ s' = SetState(s, "escape")
    /\ UNCHANGED <<w, full, queue, act, page, ending, history>>

\* ProcessSceneActionActor, ProcessSceneActionAutoBattle and ProcessSceneActionCommand: an action
\* that waits comes first.
ToBattle ==
    /\ \/ At("actor") /\ active' \in {FirstReady(w, full)} \cup {a \in ToSet(w.party) : Ready(w, full, a)}
       \/ At("auto") /\ active' = "none"
       \/ At("command") /\ ActiveAtb /\ UNCHANGED active
    /\ queue # <<>> /\ turns < MaxTurns
    /\ s' = SetState(s, "battle") /\ Continue
    /\ UNCHANGED <<w, full, queue, act, page, ending, history>>

SelectActor ==
    /\ At("actor") /\ queue = <<>>
    /\ WaitFrame
    /\ \/ /\ active' \in {FirstReady(w, full)} \cup {a \in ToSet(w.party) : Ready(w, full, a)}
          /\ s' \in {s} \cup (IF active' = "none" THEN {} ELSE {SetState(s, "command")})
       \/ active' = "none" /\ s' = SetState(s, "option")
    /\ UNCHANGED <<w, full, queue, act, page, ending, history>>

AutoBattle ==
    /\ At("auto") /\ queue = <<>>
    /\ active' = "none" /\ WaitFrame
    /\ s' = [s EXCEPT !.sub = "input"] \/ s' = SetState(s, "option")
    /\ UNCHANGED <<w, full, queue, act, page, ending, history>>

InMenu(state) == At(state) /\ (state = "command" => ~ActiveAtb \/ queue = <<>>) /\ WaitFrame

Browse ==
    /\ \/ /\ InMenu("command")
          /\ \E new \in {"skill", "item", "option"} \cup (IF "attack" \in ActorKinds THEN {"enemytarget"} ELSE {}) :
             s' = SetState(s, new)
       \/ InMenu("skill") /\ "skill" \in ActorKinds /\ w.sp[active] > 0 /\ s' = SetState(s, "enemytarget")
       \/ InMenu("item") /\ "item" \in ActorKinds /\ w.items > 0 /\ s' = SetState(s, "allytarget")
       \/ (InMenu("skill") \/ InMenu("item")) /\ s' = SetState(s, "command")
       \/ (InMenu("enemytarget") \/ InMenu("allytarget")) /\ s' = SetState(s, s.previous)
       \/ (\E state \in Menus : InMenu(state)) /\ UNCHANGED s
    /\ UNCHANGED <<combat, act, page, ending, history>>

\* DefendSelected, EscapeSelected, EnemySelected and AllySelected
Select ==
    /\ \E algo \in [type : {"attack", "skill", "item", "defend", "escape"} \cap ActorKinds, target : All] :
       /\ \/ /\ InMenu("command") /\ algo.type \in {"defend", "escape"} /\ algo.target = active
          \/ /\ InMenu("enemytarget") /\ algo.target \in Active(w, "enemies")
             /\ algo.type = IF s.previous = "command" THEN "attack" ELSE s.previous
          \/ InMenu("allytarget") /\ algo.target \in ToSet(w.party) /\ algo.type = s.previous
       /\ Becomes(ActionSelected(Now, active, algo))
    /\ UNCHANGED <<act, page, ending, history>>

-----------------------------------------------------------------------------
(* ProcessSceneActionBattle                                                *)

InAction(step) == At("battle") /\ s.sub = "action" /\ act.step = step

\* RemoveCurrentAction: the front of the queue has acted, whatever became of it.
Removed ==
    /\ w' = [w EXCEPT !.algo[Head(queue)] = Null]
    /\ queue' = Tail(queue) /\ act' = NoAct
    /\ begun' = begun \ {Head(queue)}

\* The same when something in the middle of an action changed the battle state.
Aborted_kept == act' = NoAct /\ UNCHANGED <<w, queue, begun>>

Aborted == Removed

\* ProcessBattleActionBegin, PrepareBattleAction and NextTurn
BeginAction ==
    /\ At("battle") /\ s.sub = "begin" /\ queue # <<>>
    /\ \E algo \in Prepared(w, Head(queue)) :
       /\ w' = [w EXCEPT !.algo[Head(queue)] = algo]
       /\ act' = [NoAct EXCEPT !.src = Head(queue), !.algo = algo, !.step = "preevents"]
    /\ s' = [s EXCEPT !.sub = "action"]
    /\ turns' = turns + 1 /\ page' = [page EXCEPT !.executed = {}]
    /\ Continue
    /\ UNCHANGED <<full, active, queue, ending, begun>>

\* Pages that have not run since the turn began; whether one's condition is met is not modelled.
Due(kind) == {i \in DOMAIN Pages \ page.executed : Pages[i] = kind}

SchedulePage ==
    \E kind \in {"before", "after"} :
       /\ InAction(IF kind = "before" THEN "preevents" ELSE "postevents")
       /\ Ended(s, w) = s
       /\ \E i \in Due(kind) :
          page' = [page EXCEPT !.left = PageLength, !.executed = @ \cup {i}]
       /\ UNCHANGED <<combat, s, act, phase, ending, history>>

\* The battle is decided before or after the action: cleanup, then the new state.
Decide ==
    /\ InAction("preevents") \/ InAction("postevents")
    /\ Ended(s, w) # s
    /\ s' = Ended(s, w) /\ Continue
    /\ Aborted
    /\ UNCHANGED <<full, active, page, ending, turns>>

\* ProcessBattleActionPreEvents: what has become impossible is replaced, those who cannot act are
\* skipped.
PreEvents ==
    /\ InAction("preevents") /\ Ended(s, w) = s
    /\ \E algo \in Prepared(w, act.src) :
       LET skip == \/ act.src \in w.hidden \/ ~CanActOrRecoverable(w, act.src)
                   \/ act.src \in Actors /\ act.src \notin ToSet(w.party)
       IN /\ w' = [w EXCEPT !.algo[act.src] = algo]
          /\ act' = [act EXCEPT !.algo = algo, !.step = IF skip THEN "finished" ELSE "conditions"]
    /\ Continue
    /\ UNCHANGED <<full, active, queue, s, page, ending, history>>

\* ProcessBattleActionConditions and ProcessBattleActionNotify, which waits if there is a message. What
\* a state does to its battler concerns nobody else.
Conditions ==
    /\ InAction("conditions")
    /\ \E healed \in SUBSET {b \in All : Exists(w, b) /\ w.status[b] \notin {"fine", "stone", "dead"}} :
       LET After(b) == IF Exists(w, b)
                       THEN ApplyConditions(IF b \in healed THEN RemoveState(w, b) ELSE w, b) ELSE w
       IN w' = [w EXCEPT !.status = [b \in All |-> After(b).status[b]],
                         !.sp = [b \in All |-> After(b).sp[b]],
                         !.algo = [b \in All |-> After(b).algo[b]]]
    /\ act' = [act EXCEPT !.step = "start"]
    /\ begun' = begun \cup {act.src}
    /\ phase' \in {"scene", "events"}
    /\ UNCHANGED <<full, active, queue, s, page, ending, turns>>

\* An animation is still shown, or the actor's sprite is not idle yet.
Pause ==
    /\ \E step \in {"preevents", "conditions", "start", "execute", "postevents", "finished"} : InAction(step)
    /\ act.src \in Actors \/ (act.algo.type # "attack" /\ act.step = "execute")
    /\ WaitFrame
    /\ UNCHANGED <<combat, s, act, page, ending, history>>

\* After the last blow: pages run after every enemy, of the actors only after attacks and skills.
AfterBlows(a) ==
    IF a.src \in Enemies \/ a.algo.type \in {"attack", "skill", "heal"} THEN "postevents" ELSE "finished"

\* ProcessBattleActionStartAlgo. An actor who escapes leaves the battle state.
StartAction ==
    /\ InAction("start")
    /\ IF act.src \in Actors /\ act.algo.type = "escape"
       THEN s' = SetState(s, "escape") /\ Aborted /\ Continue
       ELSE /\ act' = IF act.algo = NoAction THEN [act EXCEPT !.step = AfterBlows(act)]
                      ELSE LET found == Targets(w, act.algo)
                           IN [act EXCEPT !.targets = found.targets, !.at = found.at, !.step = "execute"]
            /\ w' = IF act.algo = NoAction THEN w ELSE Paid(w, act.src, act.algo)
            /\ WaitFrame /\ UNCHANGED <<s, queue, begun>>
    /\ UNCHANGED <<full, active, page, ending, turns>>

\* RepeatNext: the next of the blows.
Repeated_uncounted(a) == [a EXCEPT !.step = "start"]

Repeated(a) ==
    IF a.algo.type = "attack" /\ a.hit + 1 < Hits THEN [a EXCEPT !.hit = @ + 1, !.step = "start"]
    ELSE [a EXCEPT !.step = AfterBlows(a)]

\* ProcessBattleActionExecute and ProcessBattleActionApply: the next target, the next blow, or the end.
ExecuteAction ==
    /\ InAction("execute")
    /\ IF act.at = 0 \/ ~IsTargetValid(w, act.algo, act.targets[act.at])
       THEN act' = [act EXCEPT !.step = AfterBlows(act)] /\ UNCHANGED w
       ELSE /\ w' \in Struck(Gone(w, act.src, act.algo), act.src, act.algo, act.targets[act.at])
            /\ LET next == NextValid(w', act.algo, act.targets, act.at)
               IN act' = IF next # 0 THEN [act EXCEPT !.at = next]
                         ELSE Repeated(act)
    /\ full' = GaugesOfTheLiving(full, w') /\ Continue
    /\ UNCHANGED <<active, queue, s, page, ending, history>>

PostEvents ==
    /\ InAction("postevents") /\ Ended(s, w) = s
    /\ act' = [act EXCEPT !.step = "finished"] /\ Continue
    /\ UNCHANGED <<combat, s, page, ending, history>>

\* The action is over, or its battler is dead and did nothing.
FinishAction ==
    /\ At("battle") /\ s.sub = "action"
    /\ act.step = "finished" \/ (act.algo = NoAction /\ w.status[act.src] = "dead")
    /\ Removed
    /\ s' = IF Ended(s, w) # s THEN Ended(s, w) ELSE [s EXCEPT !.sub = "begin"]
    /\ Continue
    /\ UNCHANGED <<full, active, page, ending, turns>>

\* ePost: back to the menu that was interrupted, if there still is somebody to choose for.
LeaveBattle_back ==
    /\ At("battle") /\ s.sub = "begin" /\ queue = <<>>
    /\ s' = SetState(s, s.previous) /\ WaitFrame
    /\ UNCHANGED <<combat, act, page, ending, history>>

LeaveBattle ==
    /\ At("battle") /\ s.sub = "begin" /\ queue = <<>>
    /\ s' = IF active = "none" THEN ReturnToMain(s) ELSE SetState(s, s.previous)
    /\ WaitFrame
    /\ UNCHANGED <<combat, act, page, ending, history>>

-----------------------------------------------------------------------------
(* The ends.                                                               *)

\* ProcessSceneActionEscape: an escape chosen with the options always succeeds.
TryEscape ==
    /\ At("escape") /\ s.sub = "begin"
    /\ \E sub \in {"success"} \cup (IF s.previous = "option" \/ page.flee THEN {} ELSE {"failure"}) :
       s' = [s EXCEPT !.sub = sub]
    /\ WaitFrame
    /\ UNCHANGED <<combat, act, page, ending, history>>

Escaped ==
    /\ At("escape") /\ s.sub # "begin"
    /\ IF s.sub = "success" THEN EndBattle("escape") /\ UNCHANGED <<s, phase>>
       ELSE s' = ReturnToMain(s) /\ Continue /\ UNCHANGED ending
    /\ UNCHANGED <<combat, act, page, history>>

\* ProcessSceneActionVictory and ProcessSceneActionDefeat: messages, then the end.
Finish ==
    /\ At("victory") \/ At("defeat")
    /\ IF s.sub = "begin" THEN s' = [s EXCEPT !.sub = "end"] /\ WaitFrame /\ UNCHANGED ending
       ELSE EndBattle(s.state) /\ UNCHANGED <<s, phase>>
    /\ UNCHANGED <<combat, act, page, history>>

-----------------------------------------------------------------------------
Frame == Skip \/ Events \/ Gauges \/ Blocked \/ CancelMenus

Choose == Option \/ ToBattle \/ SelectActor \/ AutoBattle \/ Browse \/ Select

Act == BeginAction \/ SchedulePage \/ Decide \/ PreEvents \/ Conditions \/ StartAction \/ ExecuteAction
       \/ PostEvents \/ FinishAction \/ LeaveBattle

Over == TryEscape \/ Escaped \/ Finish

Next == Frame \/ Choose \/ Act \/ Pause \/ Over

Spec == Init /\ [][Next]_vars

\* The scene is updated at every frame, and an animation ends: what waits for one goes on some time.
FairSpec == Spec /\ WF_vars(Frame) /\ SF_vars(Act) /\ WF_vars(Over)

-----------------------------------------------------------------------------
(* Properties.                                                             *)

\* Types of the variables; the dead have no full gauge.
TypeOK ==
    /\ w.status \in [All -> Statuses] /\ w.hidden \subseteq Enemies /\ ToSet(w.party) \subseteq Actors
    /\ full \subseteq {b \in All : w.status[b] # "dead"} /\ ToSet(queue) \subseteq All /\ active \in Actors \cup {"none"}
    /\ s.state \in Menus \cup {"option", "actor", "auto", "battle", "victory", "defeat", "escape"}
    /\ act.src \in All \cup {"none"} /\ phase \in {"events", "gauges", "scene"}
    /\ page.left \in 0..PageLength

\* Whoever is in the queue is there once, has an action and a gauge that is not full, so that it is
\* not chosen for again before it acted.
OneActionEach ==
    /\ IsInjective(queue)
    /\ \A b \in ToSet(queue) : w.algo[b] # Null /\ b \notin full

\* A menu always belongs to an actor (assert(active_actor != nullptr)), and never to one who has
\* chosen already (assert(battler != active_actor)).
ChooserIsFree ==
    /\ Turn /\ ~ActiveGone /\ s.state \in Menus => active # "none"
    /\ active \notin ToSet(queue)

\* "If interpreter or something else changed the battle state, cleanup before we abort": an action
\* that was started is not begun again from its beginning, paid for and executed a second time.
ActsOnce == act.step = "conditions" => act.src \notin begun

\* A battle that is left as won or lost was: no enemy is left, or nobody of the party.
ResultIsTrue ==
    /\ result = "victory" => CheckWin(w) /\ ~CheckLose(w)
    /\ result = "defeat" => CheckLose(w)

\* Nothing breaks off an action that is under way: nobody loses control while he waits, and no page
\* first takes the actor away for whom the player chooses, so that the menus are cancelled, and then
\* goes on to flee or to undo the end of the battle.
Undisturbed ==
    /\ Inflicted \cap {"confused", "provoked"} = {}
    /\ PageLength <= 1 \/ Commands \cap {"kill", "remove"} = {}

\* What holds at every frame of a battle with gauges (Scene_Battle_Rpg2k3): all of these, the
\* fourth as long as nothing breaks off an action.
AtbInv ==
    /\ TypeOK
    /\ OneActionEach /\ ChooserIsFree
    /\ Undisturbed => ActsOnce
    /\ ResultIsTrue

\* Once actions are executed, the battle goes back to the menus or ends.
ActionsEnd == (s.state = "battle") ~> (s.state # "battle" \/ place # "battle")

=============================================================================
