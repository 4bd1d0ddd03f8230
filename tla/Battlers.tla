------------------------------ MODULE Battlers ------------------------------
(***************************************************************************)
(* The battlers of a battle, what can happen to them, and the choice and    *)
(* pursuit of their targets: src/src/game_battler.cpp, state.cpp,          *)
(* game_party_base.cpp, game_battlealgorithm.cpp and enemyai.cpp. Damage is *)
(* only whether it kills; a battler has one state at a time, the           *)
(* significant one. Operators on w: [status, hidden, party, sp, items,      *)
(* algo]; those with several outcomes return the set of them.              *)
(***************************************************************************)
EXTENDS Integers, Sequences, SequencesExt

CONSTANTS Actors,        \* actors of the game, in the party or not
          Troop,         \* sequence of the enemies
          Inflicted,     \* states that attacks and events inflict
          MaxSp, MaxItems

Enemies == ToSet(Troop)
All == Actors \cup Enemies
Statuses == {"fine", "poisoned", "asleep", "stone", "confused", "provoked", "dead"}

Sides == {"allies", "enemies"}

BattlersAssumption ==
    /\ Troop \in Seq(Enemies) /\ IsInjective(Troop)
    /\ Actors \cap Enemies = {} /\ Sides \cap All = {}
    /\ Inflicted \subseteq Statuses \ {"fine", "dead"} /\ MaxSp \in Nat /\ MaxItems \in Nat

Null == [type |-> "null"]
NoAction == [type |-> "none"]        \* Game_BattleAlgorithm::None

-----------------------------------------------------------------------------
Restriction(status) ==
    CASE status \in {"asleep", "stone", "dead"} -> "do_nothing"
      [] status = "provoked" -> "attack_enemy"
      [] status = "confused" -> "attack_ally"
      [] OTHER -> "normal"

CanAct(w, b) == Restriction(w.status[b]) # "do_nothing"
CanActOrRecoverable(w, b) == w.status[b] \notin {"stone", "dead"}
IsControllable(w, b) == Restriction(w.status[b]) = "normal"

Exists(w, b) ==
    b \notin w.hidden /\ w.status[b] # "dead" /\ (b \in Actors => b \in ToSet(w.party))

Battle(w, side) == IF side = "allies" THEN w.party ELSE Troop
SideOf(b) == IF b \in Actors THEN "allies" ELSE "enemies"
Other(side) == IF side = "allies" THEN "enemies" ELSE "allies"
Active(w, side) == {b \in ToSet(Battle(w, side)) : Exists(w, b)}

CheckWin(w) == Active(w, "enemies") = {}
CheckLose(w) == \A a \in ToSet(w.party) : a \in w.hidden \/ ~CanActOrRecoverable(w, a)

-----------------------------------------------------------------------------
(* States. A battler that is restricted, or no longer is, loses its action. *)

Interrupt(w, b) == IF w.algo[b] \in {Null, NoAction} THEN w ELSE [w EXCEPT !.algo[b] = NoAction]

AddState(w, b, status) ==
    IF w.status[b] = "dead" THEN w
    ELSE LET added == [w EXCEPT !.status[b] = status]
         IN IF Restriction(status) = "normal" THEN added ELSE Interrupt(added, b)

RemoveState(w, b) ==
    LET removed == [w EXCEPT !.status[b] = "fine"]
    IN IF Restriction(w.status[b]) = "normal" THEN removed ELSE Interrupt(removed, b)

\* BattleStateHeal: a state may end by itself when its battler's turn comes.
BattleStateHeal(w, b) ==
    {w} \cup (IF w.status[b] \in {"fine", "stone", "dead"} THEN {} ELSE {RemoveState(w, b)})

\* ApplyConditions: the poison of this model takes SP, never life.
ApplyConditions(w, b) ==
    IF w.status[b] = "poisoned" /\ w.sp[b] > 0 THEN [w EXCEPT !.sp[b] = @ - 1] ELSE w

-----------------------------------------------------------------------------
(* Actions. [type, target]; the target is a battler or a side.              *)

Cost(algo) == IF algo.type \in {"skill", "heal"} THEN 1 ELSE 0

\* IsTargetValid of Skill and Item do not ask whether the target is still in the party.
IsTargetValid(w, algo, b) ==
    CASE algo.type = "skill" -> b \notin w.hidden /\ w.status[b] # "dead"
      [] algo.type = "heal" -> b \notin w.hidden
      [] algo.type = "item" -> TRUE
      [] OTHER -> Exists(w, b)

ActionIsPossible(w, b, algo) ==
    /\ algo.type = "item" => w.items > 0
    /\ Cost(algo) <= w.sp[b]

\* GetNextActiveBattler: from the one after b around; nobody (an empty sequence) if b is not in
\* its party.
NextActive(w, b) ==
    LET p == Battle(w, SideOf(b))
        Around(i) == LET at == CHOOSE k \in DOMAIN p : p[k] = b
                     IN p[((at + i - 1) % Len(p)) + 1]
        found == {i \in 1..(Len(p) - 1) : Exists(w, Around(i))}
    IN IF b \notin ToSet(p) \/ found = {} THEN <<>>
       ELSE <<Around(CHOOSE i \in found : \A j \in found : i <= j)>>

\* The first valid target after position i, 0 for none.
NextValid(w, algo, targets, i) ==
    LET valid == {k \in DOMAIN targets : k > i /\ IsTargetValid(w, algo, targets[k])}
    IN IF valid = {} THEN 0 ELSE CHOOSE k \in valid : \A l \in valid : k <= l

\* AlgorithmBase::Start with vStart: [targets, at]. A single target that is gone is replaced.
Targets_noRetarget(w, algo) ==
    LET targets == IF algo.target \in All THEN <<algo.target>> ELSE Battle(w, algo.target)
    IN [targets |-> targets, at |-> NextValid(w, algo, targets, 0)]

Targets(w, algo) ==
    LET targets == IF algo.target \in All THEN <<algo.target>> ELSE Battle(w, algo.target)
        at == NextValid(w, algo, targets, 0)
        instead == IF at = 0 /\ algo.target \in All THEN NextActive(w, algo.target) ELSE <<>>
        extended == targets \o instead
    IN [targets |-> extended, at |-> IF at # 0 THEN at ELSE NextValid(w, algo, extended, 0)]

Paid(w, b, algo) ==
    IF algo.type = "item" THEN [w EXCEPT !.items = IF @ = 0 THEN 0 ELSE @ - 1]
    ELSE [w EXCEPT !.sp[b] = IF Cost(algo) > @ THEN 0 ELSE @ - Cost(algo)]

\* Execute and the effects that are applied after it: what can become of the target t.
Struck(w, b, algo, t) ==
    CASE algo.type \in {"attack", "explode", "skill"} ->
           {w} \cup {AddState(w, t, "dead")}
           \cup (IF w.status[t] = "asleep" THEN {RemoveState(w, t)} ELSE {})
           \cup (IF algo.type = "explode" THEN {} ELSE {AddState(w, t, s) : s \in Inflicted})
      [] algo.type \in {"heal", "item"} ->
           {w} \cup (IF w.status[t] = "fine" THEN {} ELSE {RemoveState(w, t)})
      [] OTHER -> {w}

\* ApplyCustomEffect of Escape and SelfDestruct: an enemy disappears.
Gone(w, b, algo) ==
    IF algo.type \in {"escape", "explode"} /\ b \in Enemies THEN [w EXCEPT !.hidden = @ \cup {b}] ELSE w

-----------------------------------------------------------------------------
(* What a command of a page does.                                          *)

Without(party, a) == RemoveAt(party, CHOOSE i \in DOMAIN party : party[i] = a)

Ran(w, c) ==
    CASE c = "kill" -> {AddState(w, b, "dead") : b \in All}
      [] c = "inflict" -> {AddState(w, b, s) : b \in All, s \in Inflicted}
      [] c = "cure" -> {RemoveState(w, b) : b \in {x \in All : w.status[x] # "fine"}}
      [] c = "flee" -> {[w EXCEPT !.hidden = @ \cup {e}] : e \in Active(w, "enemies")}
      [] c = "show" -> {[w EXCEPT !.hidden = @ \ {e}] : e \in w.hidden}
      [] c = "remove" -> {[w EXCEPT !.party = Without(@, a)] : a \in ToSet(w.party)}
      [] c = "add" -> {[w EXCEPT !.party = Append(@, a)] : a \in Actors \ ToSet(w.party)}
      [] OTHER -> {w}

-----------------------------------------------------------------------------
(* What a battler that cannot choose does: SetStateRestrictedAction,        *)
(* SelectNextActor and PrepareBattleAction agree on it.                    *)

Forced(w, b) ==
    CASE ~CanAct(w, b) -> {NoAction}
      [] Restriction(w.status[b]) = "attack_ally" ->
           {[type |-> "attack", target |-> t] : t \in Active(w, SideOf(b))}
      [] Restriction(w.status[b]) = "attack_enemy" ->
           {[type |-> "attack", target |-> t] : t \in Active(w, Other(SideOf(b)))}
      [] OTHER -> {}

\* The choices of an enemy, or of an actor that chooses by itself.
Chosen(w, b, kinds) ==
    {[type |-> k, target |-> t] : k \in kinds \cap {"attack", "skill"},
                                  t \in Active(w, Other(SideOf(b)))}
    \cup {[type |-> "explode", target |-> Other(SideOf(b))] : k \in kinds \cap {"explode"}}
    \cup {[type |-> k, target |-> b] : k \in kinds \cap {"escape", "defend"}}

AiActions(w, b, kinds) ==
    LET possible == {c \in Chosen(w, b, kinds) : ActionIsPossible(w, b, c)}
    IN IF Forced(w, b) # {} THEN Forced(w, b) ELSE IF possible = {} THEN {NoAction} ELSE possible

\* PrepareBattleAction, just before the turn of b: the algorithms it may leave b with.
Prepared(w, b) ==
    IF Forced(w, b) # {} THEN Forced(w, b)
    ELSE IF ActionIsPossible(w, b, w.algo[b]) THEN {w.algo[b]} ELSE {NoAction}

=============================================================================
