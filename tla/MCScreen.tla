------------------------------ MODULE MCScreen ------------------------------
(***************************************************************************)
(* What the player sees and hears of his own game: the scenes with their   *)
(* transitions; the music, two songs, a file that is missing, one that     *)
(* links to another and one that cannot be played; and the scene of a      *)
(* battle with gauges.                                                     *)
(***************************************************************************)
EXTENDS Scenes, Music, Battle2k3, MCSettings, MCParts

VARIABLES atbFighters, atbFull, atbState, atbChooser, atbOrder, atbAction, atbPage, atbPhase,
          atbPlace, atbResult, atbTurns, atbBegun

atbVars == <<atbFighters, atbFull, atbState, atbChooser, atbOrder, atbAction, atbPage, atbPhase,
             atbPlace, atbResult, atbTurns, atbBegun>>

(* With gauges, where nothing breaks off an action that is under way: one  *)
(* who fights two enemies with double attacks, and pages in the middle of  *)
(* actions.                                                                *)

SlimeAndBat == <<"slime", "bat">>
HeroAlone == <<"hero">>
BeforeAndAfter == <<"before", "after">>

(* Two actors, an enemy that confuses them, and pages that kill, remove    *)
(* and add actors behind the menus.                                        *)

Gauged == INSTANCE Battle2k3 WITH
    Actors <- {"hero", "mage"}, Troop <- <<"slime">>, FirstParty <- <<"hero", "mage">>,
    Inflicted <- {"confused"}, MaxSp <- 0, MaxItems <- 1, ActorKinds <- {"attack", "escape"},
    EnemyKinds <- {"attack"}, Hits <- 1, ActiveAtb <- TRUE, AutoAllowed <- TRUE,
    Pages <- <<"after">>, Commands <- {"kill", "remove", "add"}, PageLength <- 1, Timers <- FALSE,
    MaxTurns <- 2,
    w <- atbFighters, full <- atbFull, s <- atbState, active <- atbChooser, queue <- atbOrder,
    act <- atbAction, page <- atbPage, phase <- atbPhase, place <- atbPlace, result <- atbResult,
    turns <- atbTurns, begun <- atbBegun

ASSUME ScenesAssumption /\ MusicAssumption /\ AtbAssumption /\ Gauged!AtbAssumption

-----------------------------------------------------------------------------
ScreenInit ==
    /\ part \in {"scenes", "music", "gauged", "alone"}
    /\ ScenesInit /\ MusicInit /\ Init /\ Gauged!Init
    /\ part # "alone" => full = {}    \* idle
    /\ part # "gauged" => atbFull = {}

ScreenNext ==
    \/ part = "scenes" /\ ScenesNext /\ UNCHANGED <<part, musicVars, vars, atbVars>>
    \/ part = "music" /\ MusicNext /\ UNCHANGED <<part, sceneVars, vars, atbVars>>
    \/ part = "alone" /\ Next /\ UNCHANGED <<part, sceneVars, musicVars, atbVars>>
    \/ part = "gauged" /\ Gauged!Next /\ UNCHANGED <<part, sceneVars, musicVars, vars>>

ScreenSpec == ScreenInit /\ [][ScreenNext]_<<part, sceneVars, musicVars, vars, atbVars>>

-----------------------------------------------------------------------------
(* Properties: ScenesInv is that of Scenes, MusicInv that of Music, AtbInv *)
(* that of Battle2k3.                                                      *)

\* Where actors lose their minds or leave while they choose, gauges, menus and the queue of a
\* battle still agree (scene_battle_rpg2k3.cpp).
GaugedInv == part = "gauged" => Gauged!AtbInv

=============================================================================
