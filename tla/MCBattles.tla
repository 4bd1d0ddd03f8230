----------------------------- MODULE MCBattles ------------------------------
(***************************************************************************)
(* Battles in turns, of RPG Maker 2000: one actor against two enemies, and *)
(* pages that kill, cure, hide and show; then three actors, one of whom    *)
(* decides for himself, against one enemy, who leave and join the party    *)
(* and fall asleep while the player chooses. And the pictures, which a     *)
(* battle hides or erases: those of two files, with images that are used   *)
(* again, one picture with every kind of sheet or two with sheets whose    *)
(* frame is wrong or that play once and then vanish.                       *)
(***************************************************************************)
EXTENDS Battle, Pictures, MCParts

SlimeAndBat == <<"slime", "bat">>
OneOrTwo == {<<"hero">>, <<"hero", "mage">>}
TurnAndDead == <<"turn", "dead">>

TwoIds == 1..2
FileSymmetry == Permutations(Files)    \* the files of pictures

-----------------------------------------------------------------------------
\* What a page may do to the battlers, by their statuses.
PageMakes(statuses) ==
    page.left > 0 => \A b \in All : w'.status[b] \in {w.status[b]} \cup statuses

AsFought ==
    /\ w.party = <<"hero">>
    /\ \A b \in All : w.status[b] \in (IF b \in {"mage", "thief"} THEN {"fine"} ELSE Statuses \ {"asleep"})

AsChosen ==
    /\ w.hidden = {"bat"} /\ w.status["bat"] = "fine"
    /\ state \notin {"skill", "item"} /\ place # "gameover" /\ ~page.flee /\ result # "abort"
    /\ \A b \in All : w.status[b] \in {"fine", "asleep", "dead"} /\ w.algo[b].type # "explode"

\* The turns are not what it is about: the enemies act alike.
EnemiesAgree ==
    state # "battle" /\ state' = "battle" /\ CanAct(w, "slime")
        => w'.algo["bat"] = w'.algo["slime"]

-----------------------------------------------------------------------------
ASSUME BattleAssumption /\ PicturesAssumption

BattleInit ==
    /\ part \in {"fight", "choices", "picture", "pictures"} /\ Init /\ PicturesInit
    /\ IF part = "choices" THEN AsChosen /\ Len(w.party) = 2 ELSE AsFought /\ w.hidden = {}
    /\ part \in {"picture", "pictures"} => ~strike    \* idle

FightNext ==
    /\ part \in {"fight", "choices"} /\ Next
    /\ \/ part = "fight" /\ AsFought' /\ PageMakes({"fine", "dead"})
       \/ part = "choices" /\ AsChosen' /\ PageMakes({"asleep"}) /\ EnemiesAgree

ShowNext ==
    /\ part \in {"picture", "pictures"} /\ PicturesNext
    /\ \/ part = "picture" /\ Len(pictures') <= 1
       \/ part = "pictures"
          /\ \A i \in DOMAIN pictures' :
                 pictures'[i].sheet \in {"wrong", "once"} \/ pictures'[i] = Empty

BattleNext ==
    \/ FightNext /\ UNCHANGED <<part, pictureVars>>
    \/ ShowNext /\ UNCHANGED <<part, vars>>

BattleSpec == BattleInit /\ [][BattleNext]_<<part, vars, pictureVars>>

\* BattleInv is that of Battle, PicturesInv that of Pictures.

=============================================================================
