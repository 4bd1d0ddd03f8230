------------------------------- MODULE Battle -------------------------------
(***************************************************************************)
(* A battle of RPG Maker 2000: src/src/scene_battle_rpg2k.cpp on top of     *)
(* scene_battle.cpp, with the troop's event pages of                       *)
(* game_interpreter_battle.cpp. The player chooses for the actors one after *)
(* the other and may step back; then all battlers act in a random order.    *)
(* Pages run before each of them acts, a battle timer may run out at any    *)
(* frame. The battlers themselves are in Battlers.                         *)
(***************************************************************************)
EXTENDS Battlers, FiniteSets

CONSTANTS Parties,       \* sequences of actors a battle may start with
          Autos,         \* actors who choose by themselves
          ActorKinds, EnemyKinds,   \* what the two sides may do
          Hits,          \* blows of one attack
          Pages,         \* sequence of "turn" and "dead": when each page runs
          Commands,      \* what the pages may do
          PageLength,    \* bound: commands of one page
          Timers,        \* whether a battle timer may run out
          MaxTurns       \* bound: turns of the battle

BattleAssumption ==
    /\ BattlersAssumption
    /\ Parties \subseteq {party \in Seq(Actors) : IsInjective(party)}
    /\ Pages \in Seq({"turn", "dead"}) /\ Timers \in BOOLEAN /\ Hits \in Nat
    /\ PageLength \in Nat /\ MaxTurns \in Nat

VARIABLES w,             \* the battlers, see Battlers
          state, sub, previous,     \* state, scene_action_substate, previous_state
          index, active,            \* actor_index, active_actor
          queue,         \* battle_actions
          act,           \* pending_battle_action: [src, algo, targets, at, hit]
          strike,        \* first_strike
          page,          \* the interpreter: [left, executed, flee]
          place,         \* "battle", "gameover" (a scene above it) or "left"
          result,        \* what on_battle_end was told
          turns          \* Game_Party::GetTurns

choosing == <<index, active, queue>>
ending == <<place, result>>
vars == <<w, state, sub, previous, choosing, act, strike, page, ending, turns>>

NoAct == [src |-> "none", algo |-> Null, targets |-> <<>>, at |-> 0, hit |-> 0]

\* Some enemies may be invisible at first.
Init ==
    /\ \E party \in Parties, hidden \in SUBSET Enemies :
          w = [status |-> [b \in All |-> "fine"], hidden |-> hidden, party |-> party,
               sp |-> [b \in All |-> MaxSp], items |-> MaxItems, algo |-> [b \in All |-> Null]]
    /\ state = "option" /\ sub = "begin" /\ previous = "start"
    /\ index = 0 /\ active = "none" /\ queue = <<>> /\ act = NoAct
    /\ strike \in BOOLEAN
    /\ page = [left |-> 0, executed |-> {}, flee |-> FALSE]
    /\ place = "battle" /\ result = "none"
    /\ turns = 0

SetState(new) == state' = new /\ previous' = state /\ sub' = "begin"
Stay == UNCHANGED <<state, previous>>

EndBattle(how) == place' = "left" /\ result' = how

\* ProcessSceneAction is reached: this scene is on top and no page is running.
At(s, b) == place = "battle" /\ page.left = 0 /\ state = s /\ sub = b

-----------------------------------------------------------------------------
(* The player's choices.                                                   *)

\* The options Battle, AutoBattle and Escape.
Option ==
    /\ At("option", "input")
    /\ \E new \in {"actor", "auto", "escape"} : SetState(new)
    /\ UNCHANGED <<w, choosing, act, strike, page, ending, turns>>

NextTurn == turns' = turns + 1 /\ page' = [page EXCEPT !.executed = {}]

\* NextTurn, CreateEnemyActions and CreateExecutionOrder.
StartTurn ==
    /\ SetState("battle") /\ NextTurn
    /\ \E chosen \in {f \in [Enemies -> UNION {AiActions(w, e, EnemyKinds) : e \in Enemies}] :
                          \A e \in Enemies : f[e] \in AiActions(w, e, EnemyKinds)} :
       w' = IF strike THEN w
            ELSE [w EXCEPT !.algo = [b \in All |-> IF b \in Enemies THEN chosen[b] ELSE @[b]]]
    /\ LET every == IF strike THEN queue ELSE queue \o Troop IN
       \E order \in Bijection(DOMAIN every, DOMAIN every) : queue' = [i \in DOMAIN every |-> every[order[i]]]
    /\ UNCHANGED <<index, active, act, strike, ending>>

\* SelectNextActor decides for those who cannot; its call of itself is the next step.
SelectNextActor ==
    /\ \E s \in {"actor", "auto"} : At(s, "begin")
    /\ index < Len(w.party)
    /\ LET actor == w.party[index + 1]
           own == IF Forced(w, actor) # {} THEN Forced(w, actor)
                  ELSE IF state = "auto" \/ actor \in Autos
                       THEN AiActions(w, actor, {"attack", "skill"}) ELSE {}
       IN /\ index' = index + 1 /\ active' = actor
          /\ IF own = {} THEN SetState("command") /\ UNCHANGED <<w, queue>>
             ELSE /\ \E algo \in own : w' = [w EXCEPT !.algo[actor] = algo]
                  /\ queue' = Append(queue, actor)
                  /\ UNCHANGED sub /\ Stay
    /\ UNCHANGED <<act, strike, page, ending, turns>>

AllDecided ==
    /\ \E s \in {"actor", "auto"} : At(s, "begin")
    /\ index = Len(w.party)
    /\ StartTurn

\* Opening the skills, the items or the targets of an attack, and leaving them again.
Browse ==
    /\ \/ /\ At("command", "begin")
          /\ \/ SetState("skill")
             \/ SetState("item")
             \/ "attack" \in ActorKinds /\ SetState("enemytarget")
       \/ At("skill", "begin") /\ "skill" \in ActorKinds /\ w.sp[active] > 0 /\ SetState("enemytarget")
       \/ At("skill", "begin") /\ "heal" \in ActorKinds /\ w.sp[active] > 0 /\ SetState("allytarget")
       \/ At("item", "begin") /\ "item" \in ActorKinds /\ w.items > 0 /\ SetState("allytarget")
       \/ (At("skill", "begin") \/ At("item", "begin")) /\ SetState("command")
       \/ (At("enemytarget", "begin") \/ At("allytarget", "begin")) /\ SetState(previous)
    /\ UNCHANGED <<w, choosing, act, strike, page, ending, turns>>

\* ActionSelectedCallback
Select(algo) ==
    /\ w' = [w EXCEPT !.algo[active] = algo]
    /\ queue' = Append(queue, active)
    /\ SetState("actor")
    /\ UNCHANGED <<index, active, act, strike, page, ending, turns>>

DefendSelected ==
    At("command", "begin") /\ "defend" \in ActorKinds /\ Select([type |-> "defend", target |-> active])

EnemySelected ==
    /\ At("enemytarget", "begin")
    /\ \E t \in Active(w, "enemies") :
       Select([type |-> IF previous = "command" THEN "attack" ELSE previous, target |-> t])

AllySelected ==
    /\ At("allytarget", "begin")
    /\ \E t \in ToSet(w.party) :
       Select([type |-> IF previous = "skill" THEN "heal" ELSE previous, target |-> t])

-----------------------------------------------------------------------------
\* SelectPreviousActor with actor_index one less than for the active actor: back over those
\* who did not choose.
Backed_unpopped(at) ==
    /\ queue' = queue /\ w' = w

\* Nobody of S has an action any more.
Idle(v, S) == [v EXCEPT !.algo = [b \in All |-> IF b \in S THEN Null ELSE @[b]]]

Backed(at) ==
    /\ queue' = SubSeq(queue, 1, at)
    /\ w' = Idle(w, {queue[k] : k \in at + 1..Len(queue)})

SelectPreviousActor_here ==
    /\ At("command", "begin")
    /\ SetState("actor") /\ UNCHANGED <<index, w, queue, active>>
    /\ UNCHANGED <<act, strike, page, ending, turns>>

SelectPreviousActor ==
    /\ At("command", "begin")
    /\ LET free(k) == Restriction(w.status[w.party[k + 1]]) = "normal" /\ w.party[k + 1] \notin Autos
           before == {k \in 0..(index - 2) : k = 0 \/ free(k)}
           back == CHOOSE k \in before : \A l \in before : l <= k
       IN IF active = w.party[1]
          THEN SetState("option") /\ index' = 0 /\ UNCHANGED <<w, queue, active>>
          ELSE /\ index' = back /\ active' = w.party[back + 1]
               /\ Backed(back)
               /\ SetState(IF free(back) THEN "actor" ELSE "option")
    /\ UNCHANGED <<act, strike, page, ending, turns>>

-----------------------------------------------------------------------------
(* The points where the battle may end and pages may start.                *)

EndOf_winFirst(v) == IF CheckWin(v) THEN "victory" ELSE IF CheckLose(v) THEN "defeat" ELSE "none"

EndOf(v) == IF CheckLose(v) THEN "defeat" ELSE IF CheckWin(v) THEN "victory" ELSE "none"

\* Actions of battlers that are dead or gone are taken from the front of the queue.
Standing_one(q) == IF q # <<>> /\ ~Exists(w, Head(q)) THEN Tail(q) ELSE q

Standing(q) ==
    LET there == {i \in DOMAIN q : Exists(w, q[i])}
    IN IF there = {} THEN <<>> ELSE SubSeq(q, CHOOSE i \in there : \A j \in there : i <= j, Len(q))

Ready(v) ==
    {i \in DOMAIN Pages \ page.executed :
        Pages[i] = "dead" => \E b \in All : v.status[b] = "dead"}

\* All of these are preceded by it: the queue and the battlers without the actions of those that
\* are gone.
Checking == At("option", "begin") \/ At("battle", "begin")
Left == IF state = "battle" THEN Standing(queue) ELSE queue
Cleared == Idle(w, {queue[k] : k \in 1..(Len(queue) - Len(Left))})
GoesOn == EndOf(w) = "none" /\ Ready(w) = {}

BattleIsOver ==
    /\ Checking
    /\ EndOf(w) # "none" /\ SetState(EndOf(w))
    /\ w' = Cleared /\ queue' = Left
    /\ UNCHANGED <<index, active, act, strike, page, ending, turns>>

ScheduleNextPage ==
    /\ Checking
    /\ EndOf(w) = "none" /\ Ready(w) # {}
    /\ LET first == CHOOSE i \in Ready(w) : \A j \in Ready(w) : i <= j
       IN page' = [page EXCEPT !.left = PageLength, !.executed = @ \cup {first}]
    /\ w' = Cleared /\ queue' = Left /\ UNCHANGED sub /\ Stay
    /\ UNCHANGED <<index, active, act, strike, ending, turns>>

ShowOptions ==
    /\ Checking /\ GoesOn
    /\ state = "option" /\ turns < MaxTurns
    /\ IF \E a \in ToSet(w.party) : IsControllable(w, a) /\ a \notin Autos
       THEN sub' = "input" /\ Stay ELSE SetState("actor")
    /\ UNCHANGED <<w, choosing, act, strike, page, ending, turns>>

\* Everybody acted.
TurnEnds ==
    /\ Checking /\ GoesOn
    /\ state = "battle" /\ Left = <<>>
    /\ w' = Cleared /\ queue' = <<>>
    /\ index' = 0 /\ strike' = FALSE /\ SetState("option")
    /\ UNCHANGED <<active, act, page, ending, turns>>

BeginAction ==
    /\ Checking /\ GoesOn
    /\ state = "battle" /\ Left # <<>>
    /\ LET src == Head(Left) IN
       \E algo \in Prepared(Cleared, src) :
          /\ w' = [Cleared EXCEPT !.algo[src] = algo]
          /\ act' = [NoAct EXCEPT !.src = src, !.algo = algo]
    /\ queue' = Left /\ sub' = "start" /\ Stay
    /\ UNCHANGED <<index, active, strike, page, ending, turns>>

-----------------------------------------------------------------------------
(* One action.                                                             *)

\* ProcessBattleActionBegin: states end, conditions hurt.
StartAction ==
    /\ At("battle", "start")
    /\ \E healed \in BattleStateHeal(w, act.src) : w' = ApplyConditions(healed, act.src)
    /\ sub' = IF act.algo = NoAction THEN "finished" ELSE "usage"
    /\ Stay /\ UNCHANGED <<choosing, act, strike, page, ending, turns>>

\* ProcessBattleActionUsage: the targets are found, the cost is paid.
UseAction ==
    /\ At("battle", "usage")
    /\ LET found == Targets(w, act.algo)
       IN act' = [act EXCEPT !.targets = found.targets, !.at = found.at]
    /\ w' = Paid(w, act.src, act.algo)
    /\ sub' = "execute"
    /\ Stay /\ UNCHANGED <<choosing, strike, page, ending, turns>>

\* ProcessBattleActionExecute, then the effects on the target.
ExecuteAction ==
    /\ At("battle", "execute")
    /\ w' \in IF act.at = 0 THEN {Gone(w, act.src, act.algo)}
              ELSE Struck(Gone(w, act.src, act.algo), act.src, act.algo, act.targets[act.at])
    /\ sub' = "finished"
    /\ Stay /\ UNCHANGED <<choosing, act, strike, page, ending, turns>>

\* ProcessBattleActionFinished: the next blow, the next target, or the end.
Following_same ==
    LET next == IF act.at = 0 THEN 0 ELSE NextValid(w, act.algo, act.targets, act.at - 1)
    IN [act EXCEPT !.at = next, !.hit = 0]

Following ==
    LET more == /\ act.algo.type = "attack" /\ act.hit + 1 < Hits
                /\ act.at # 0 /\ IsTargetValid(w, act.algo, act.targets[act.at])
        next == IF act.at = 0 THEN 0 ELSE NextValid(w, act.algo, act.targets, act.at)
    IN IF more THEN [act EXCEPT !.hit = @ + 1] ELSE [act EXCEPT !.at = next, !.hit = 0]

NextTarget ==
    /\ At("battle", "finished") /\ Following.at # 0
    /\ act' = Following /\ sub' = "execute"
    /\ Stay /\ UNCHANGED <<w, choosing, strike, page, ending, turns>>

RemoveCurrentAction ==
    /\ At("battle", "finished") /\ Following.at = 0
    /\ w' = [w EXCEPT !.algo[Head(queue)] = Null]
    /\ queue' = Tail(queue) /\ act' = NoAct /\ sub' = "begin"
    /\ Stay /\ UNCHANGED <<index, active, strike, page, ending, turns>>

-----------------------------------------------------------------------------
(* The ends.                                                               *)

\* ProcessSceneActionVictory and ProcessSceneActionDefeat
Finish ==
    /\ At("victory", "begin") \/ At("defeat", "begin")
    /\ EndBattle(state)
    /\ Stay /\ UNCHANGED <<w, sub, choosing, act, strike, page, turns>>

Escape ==
    /\ At("escape", "begin")
    /\ \/ /\ EndBattle("escape")
          /\ Stay /\ UNCHANGED <<w, sub, choosing, act, strike, page, turns>>
       \/ ~strike /\ ~page.flee /\ StartTurn

-----------------------------------------------------------------------------
(* Frames: a page runs its next command, a timer may run out.              *)

\* UpdateEvents and UpdateTimers: the scene asked for is pushed before the timers are looked at.
Frame ==
    /\ place = "battle" /\ page.left > 0
    /\ \E c \in Commands \cup {"nothing"}, out \in {FALSE, Timers} :
       LET top == IF c = "gameover" THEN "gameover" ELSE place
           flee == page.flee \/ c = "forceflee"
       IN /\ w' \in Ran(w, c)
          /\ page' = [page EXCEPT !.left = @ - 1, !.flee = flee]
          /\ IF flee /\ state # "escape" THEN SetState("escape") ELSE UNCHANGED sub /\ Stay
          /\ IF c = "terminate" \/ out THEN EndBattle("abort")
             ELSE place' = top /\ UNCHANGED result
    /\ UNCHANGED <<choosing, act, strike, turns>>

TimerExpires ==
    /\ Timers /\ place = "battle" /\ page.left = 0
    /\ EndBattle("abort")
    /\ UNCHANGED <<w, state, sub, previous, choosing, act, strike, page, turns>>

-----------------------------------------------------------------------------
Choose == Option \/ Browse \/ DefendSelected \/ EnemySelected \/ AllySelected \/ SelectPreviousActor

Check == BattleIsOver \/ ScheduleNextPage \/ ShowOptions \/ TurnEnds \/ BeginAction

Act == StartAction \/ UseAction \/ ExecuteAction \/ NextTarget \/ RemoveCurrentAction

Proceed == SelectNextActor \/ AllDecided \/ Check \/ Act \/ Finish \/ Escape \/ Frame

Next == Choose \/ Proceed \/ TimerExpires

Spec == Init /\ [][Next]_vars

\* The scene is updated at every frame; the player may idle.
FairSpec == Spec /\ WF_vars(Proceed)

-----------------------------------------------------------------------------
(* Properties.                                                             *)

\* Types of the variables.
TypeOK ==
    /\ w.status \in [All -> Statuses] /\ w.hidden \subseteq Enemies
    /\ ToSet(w.party) \subseteq Actors /\ w.sp \in [All -> 0..MaxSp] /\ w.items \in 0..MaxItems
    /\ state \in {"option", "actor", "auto", "command", "skill", "item", "enemytarget", "allytarget",
                  "battle", "victory", "defeat", "escape"}
    /\ sub \in {"begin", "input", "start", "usage", "execute", "finished"}
    /\ index \in 0..Len(w.party) \/ state \in {"battle", "victory", "defeat", "escape"}
    /\ ToSet(queue) \subseteq All /\ turns \in 0..MaxTurns
    /\ page.left \in 0..PageLength /\ page.executed \subseteq DOMAIN Pages

\* Nobody has two actions in one turn, and everybody in the queue has one: the warnings "has
\* multiple battle actions" and "Invalid battle action" ("Please report a bug!") never appear.
QueueIsAParty ==
    /\ IsInjective(queue)
    /\ \A b \in ToSet(queue) : w.algo[b] # Null

\* While the player chooses for an actor, exactly the actors before it have an action, however
\* often the player stepped back and whoever was decided for by a state.
ChoosesInOrder ==
    state \in {"command", "skill", "item", "enemytarget", "allytarget"}
        => /\ index \in DOMAIN w.party /\ active = w.party[index]
           /\ queue = SubSeq(w.party, 1, index - 1)

\* A battler that starts to act is in the battle: assert(src->Exists()) in ProcessBattleActionBegin.
SourcesExist == sub = "start" => Exists(w, act.src)

\* An attack has a target when it is executed, unless it is aimed at an actor who has left the
\* party: Normal::vExecute and Skill::vExecute dereference GetTarget().
TargetsThere ==
    sub = "execute" /\ act.algo.type \in {"attack", "explode", "skill"} /\ act.at = 0
        => act.algo.target \in Actors \ ToSet(w.party)

\* A battle is only won when no enemy is left and the party is not beaten, and only lost when it is.
ResultIsTrue ==
    /\ result = "victory" => CheckWin(w) /\ ~CheckLose(w)
    /\ result = "defeat" => CheckLose(w)

\* What holds at every frame of a battle in turns (Scene_Battle_Rpg2k and the state machine of its
\* battle action): the queue and the choice agree, who acts and is acted on is there, and the
\* result is the truth.
BattleInv ==
    /\ TypeOK
    /\ QueueIsAParty /\ ChoosesInOrder
    /\ SourcesExist
    /\ TargetsThere
    /\ ResultIsTrue

\* A turn that began ends: the player chooses again, or the battle is over.
TurnsEnd == (state = "battle") ~> (state # "battle" \/ place # "battle")

=============================================================================
