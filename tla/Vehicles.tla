------------------------------ MODULE Vehicles ------------------------------
(***************************************************************************)
(* The player, the ships and the airship (src/src/game_player.cpp,         *)
(* game_vehicle.cpp): getting on and off by key, by event command and by   *)
(* the menu, the lift of the airship, teleports and the music, on maps     *)
(* that are one row of tiles.                                              *)
(***************************************************************************)
EXTENDS Integers

CONSTANTS Maps, Width,
          Ground,        \* tile -> "land", "sea" or "peak" (where only the airship goes)
          Ships,         \* the boat and the ship
          Airship, None,
          Start,         \* None (the player) or vehicle -> [map, x]
          Music,         \* map or vehicle -> its music
          OnFoot, VehicleSpeed,  \* move speeds
          StepTime, Lift     \* frames of a step; of an ascent or a descent

Tiles == 0..Width - 1
Vehicles == Ships \cup {Airship}

VehiclesAssumption ==
    /\ Width \in Nat \ {0} /\ Ground \in [Tiles -> {"land", "sea", "peak"}]
    /\ Airship \notin Ships /\ None \notin Ships \cup {Airship}
    /\ Start \in [Vehicles \cup {None} -> [map : Maps, x : Tiles]]
    /\ Ground[Start[None].x] = "land" /\ \A s \in Ships : Ground[Start[s].x] = "sea"
    /\ Maps \cap Vehicles = {} /\ DOMAIN Music = Maps \cup Vehicles
    /\ OnFoot # VehicleSpeed
    /\ StepTime \in Nat \ {0, 1} /\ Lift \in Nat \ {0}

VARIABLES p,       \* the player
          at,      \* vehicle -> its map and tile
          lift,    \* the airship: [flying, ascent, descent]
          bgm,     \* current music
          before,  \* music before the vehicle
         game     \* how the events of the game are written: whether parallel ones command
                  \* too, and whether they wait for the player to stand before they let him
                  \* get on or off; it is what it is from the beginning

vars == <<p, at, lift, bgm, before, game>>

TypeOK ==
    /\ p \in [map : Maps, x : Tiles, dir : {-1, 1}, rem : 0..StepTime, speed : {OnFoot, VehicleSpeed},
              preboard : {OnFoot, VehicleSpeed}, vehicle : Vehicles \cup {None}, aboard : BOOLEAN,
              boarding : BOOLEAN, unboarding : BOOLEAN, flying : BOOLEAN]
    /\ at \in [Vehicles -> [map : Maps, x : Tiles]]
    /\ lift \in [flying : BOOLEAN, ascent : 0..Lift, descent : 0..Lift]
    /\ {bgm, before} \subseteq {Music[m] : m \in DOMAIN Music}
    /\ game \in [parallel : BOOLEAN, settled : BOOLEAN]

Init ==
    /\ p = [map |-> Start[None].map, x |-> Start[None].x, dir |-> 1, rem |-> 0, speed |-> OnFoot,
            preboard |-> OnFoot, vehicle |-> None, aboard |-> FALSE, boarding |-> FALSE,
            unboarding |-> FALSE, flying |-> FALSE]
    /\ at = [v \in Vehicles |-> Start[v]]
    /\ lift = [flying |-> FALSE, ascent |-> 0, descent |-> 0]
    /\ bgm = Music[p.map] /\ before = bgm
    /\ game \in [parallel : BOOLEAN, settled : BOOLEAN]

-----------------------------------------------------------------------------
(* A world is a record of the variables; an operator gives the next one.   *)

World == [p |-> p, at |-> at, lift |-> lift, bgm |-> bgm, before |-> before]
Becomes(w) ==
    /\ p' = w.p /\ at' = w.at /\ lift' = w.lift /\ bgm' = w.bgm /\ before' = w.before
    /\ UNCHANGED game

Stopping(w) == w.p.rem = 0
Ascending(w) == w.lift.ascent > 0 \/ w.lift.descent > 0   \* IsAscendingOrDescending
IsInPosition(w, v, x) == w.at[v] = [map |-> w.p.map, x |-> x]
InFront(w) == w.p.x + w.p.dir

\* IsPassableTile for a walker, a ship or the airship.
Passable(v, x) ==
    /\ x \in Tiles
    /\ CASE v = None -> Ground[x] = "land" [] v \in Ships -> Ground[x] = "sea" [] OTHER -> TRUE

ShipsAt(w, x) == {s \in Ships : IsInPosition(w, s, x)}
CanLand(w) == Passable(None, w.at[Airship].x) /\ ShipsAt(w, w.at[Airship].x) = {}

\* Move(GetDirection()) with SetThrough: nothing happens to one who is moving.
MoveThrough(w) ==
    IF Stopping(w) /\ InFront(w) \in Tiles
      THEN [w EXCEPT !.p.x = InFront(w), !.p.rem = StepTime] ELSE w

\* GetOnVehicle, with the music of the vehicle.
PlayVehicleMusic(w) == [w EXCEPT !.before = w.bgm, !.bgm = Music[w.p.vehicle]]

StartAscent(w) ==
    IF w.lift.flying THEN w ELSE [w EXCEPT !.lift.flying = TRUE, !.lift.ascent = Lift]

GetOnAirship(w) ==
    PlayVehicleMusic(StartAscent(
        [w EXCEPT !.p.vehicle = Airship, !.p.aboard = TRUE, !.p.preboard = w.p.speed,
                  !.p.speed = VehicleSpeed, !.p.flying = TRUE]))

GetOnShip(w, s) ==
    PlayVehicleMusic([MoveThrough(w) EXCEPT !.p.vehicle = s, !.p.preboard = w.p.speed,
                                            !.p.boarding = TRUE])

GetOnVehicle(w) ==
    IF IsInPosition(w, Airship, w.p.x) /\ Stopping(w) THEN GetOnAirship(w)
    ELSE IF ShipsAt(w, InFront(w)) # {} /\ Passable(None, w.p.x)
      THEN GetOnShip(w, CHOOSE s \in ShipsAt(w, InFront(w)) : TRUE)
      ELSE w

\* GetOffVehicle: the airship begins its descent, a ship is left at once.
Leave_fast(w) ==
    [w EXCEPT !.p.aboard = FALSE, !.p.unboarding = TRUE, !.p.vehicle = None, !.bgm = w.before]

Leave(w) ==
    [w EXCEPT !.p.aboard = FALSE, !.p.unboarding = TRUE, !.p.vehicle = None,
              !.p.speed = w.p.preboard, !.bgm = w.before]

GetOffVehicle(w) ==
    IF w.p.vehicle = Airship
      THEN IF Ascending(w) \/ ~w.lift.flying THEN w ELSE [w EXCEPT !.lift.descent = Lift]
      ELSE IF Passable(None, InFront(w)) THEN MoveThrough(Leave(w)) ELSE w

GetOnOffVehicle(w) == IF w.p.aboard THEN GetOffVehicle(w) ELSE GetOnVehicle(w)

\* ForceGetOffVehicle and ForceLand.
ForceGetOffVehicle_aloft(w) == IF w.p.aboard THEN Leave(w) ELSE w

ForceGetOffVehicle(w) ==
    IF w.p.aboard
      THEN [Leave(w) EXCEPT !.p.flying = FALSE,
                            !.lift = IF w.p.vehicle = Airship
                                       THEN [flying |-> FALSE, ascent |-> 0, descent |-> 0] ELSE @]
      ELSE w

\* MoveTo, with the vehicle, aboard or not; PlayBgm on another map.
MoveTo_music(w, m, x) ==
    [w EXCEPT !.p.map = m, !.p.x = x, !.p.rem = 0,
              !.at = IF w.p.vehicle = None THEN @
                     ELSE [@ EXCEPT ![w.p.vehicle] = [map |-> m, x |-> x]],
              !.bgm = IF m # w.p.map THEN Music[m] ELSE @]

MoveTo(w, m, x) ==
    [w EXCEPT !.p.map = m, !.p.x = x, !.p.rem = 0,
              !.at = IF w.p.vehicle = None THEN @
                     ELSE [@ EXCEPT ![w.p.vehicle] = [map |-> m, x |-> x]],
              !.bgm = IF m # w.p.map /\ ~w.p.aboard THEN Music[m] ELSE @,
              !.before = IF m # w.p.map /\ w.p.aboard THEN Music[m] ELSE @]

-----------------------------------------------------------------------------
(* Game_Player::Update.                                                    *)

\* UpdateAirship and AnimateAscentDescent: a landing that fails is an ascent.
UpdateAirship_anywhere(w) ==
    IF w.lift.ascent > 0 THEN [w EXCEPT !.lift.ascent = @ - 1]
    ELSE IF w.lift.descent > 1 THEN [w EXCEPT !.lift.descent = @ - 1]
    ELSE [w EXCEPT !.lift = [flying |-> FALSE, ascent |-> 0, descent |-> 0],
                   !.p.flying = FALSE, !.p.aboard = FALSE, !.p.vehicle = None,
                   !.p.speed = w.p.preboard, !.bgm = w.before]

UpdateAirship_stuck(w) ==
    IF w.lift.ascent > 0 THEN [w EXCEPT !.lift.ascent = @ - 1]
    ELSE IF w.lift.descent > 1 THEN [w EXCEPT !.lift.descent = @ - 1]
    ELSE IF ~CanLand(w) THEN w
    ELSE [w EXCEPT !.lift = [flying |-> FALSE, ascent |-> 0, descent |-> 0],
                   !.p.flying = FALSE, !.p.aboard = FALSE, !.p.vehicle = None,
                   !.p.speed = w.p.preboard, !.bgm = w.before]

UpdateAirship(w) ==
    IF w.lift.ascent > 0 THEN [w EXCEPT !.lift.ascent = @ - 1]
    ELSE IF w.lift.descent > 1 THEN [w EXCEPT !.lift.descent = @ - 1]
    ELSE IF ~CanLand(w) THEN [w EXCEPT !.lift.descent = 0, !.lift.ascent = Lift]
    ELSE [w EXCEPT !.lift = [flying |-> FALSE, ascent |-> 0, descent |-> 0],
                   !.p.flying = FALSE, !.p.aboard = FALSE, !.p.vehicle = None,
                   !.p.speed = w.p.preboard, !.bgm = w.before]

Walk_edge(w, d) ==
    LET to == w.p.x + d
        free == \/ w.p.vehicle = Airship
                \/ Passable(IF w.p.aboard THEN w.p.vehicle ELSE None, to) /\ ShipsAt(w, to) = {}
    IN [w EXCEPT !.p.dir = d, !.p.x = IF free THEN to ELSE @, !.p.rem = IF free THEN StepTime ELSE @]

Walk(w, d) ==
    LET to == w.p.x + d
        free == /\ Passable(IF w.p.aboard THEN w.p.vehicle ELSE None, to)
                /\ w.p.vehicle = Airship \/ ShipsAt(w, to) = {}
    IN [w EXCEPT !.p.dir = d, !.p.x = IF free THEN to ELSE @, !.p.rem = IF free THEN StepTime ELSE @]

\* UpdateNextMovementAction, for one who stands: what he presses counts if no lift is under way.
Act(w, key) ==
    IF ~Stopping(w) THEN w
    ELSE IF w.p.vehicle = Airship /\ w.lift.flying /\ Ascending(w) THEN UpdateAirship(w)
    ELSE CASE key = "left" -> Walk(w, -1) [] key = "right" -> Walk(w, 1)
           [] key = "decision" -> GetOnOffVehicle(w) [] OTHER -> w

\* The step goes on. At its end the player has boarded, and what he rides follows.
Ended(w) ==
    IF ~Stopping(w) THEN w
    ELSE [w EXCEPT !.p.boarding = FALSE, !.p.unboarding = FALSE, !.p.aboard = @ \/ w.p.boarding,
                   !.p.speed = IF w.p.boarding THEN VehicleSpeed ELSE @]

SyncWithRider(w) ==
    IF w.p.aboard THEN [w EXCEPT !.at[w.p.vehicle] = [map |-> w.p.map, x |-> w.p.x]] ELSE w

Update(key) ==
    LET w == Act(World, key) IN
    Becomes(SyncWithRider(Ended([w EXCEPT !.p.rem = IF @ > 0 THEN @ - 1 ELSE 0])))

Frame == \E key \in {"none", "left", "right", "decision"} : Update(key)

-----------------------------------------------------------------------------
(* Event commands and the menu.                                            *)

\* The foreground interpreter waits for a boarding and for the lift of the airship.
Waits == p.boarding \/ p.unboarding \/ (p.vehicle # None /\ Ascending(World))
Commands == game.parallel \/ ~Waits

\* The party and what it rides are only sent where it can stand.
MayStand(v, x) == Passable(v, x)

EnterExitVehicle ==
    /\ Commands /\ (game.settled => Stopping(World))
    /\ Becomes(GetOnOffVehicle(World))

Teleport ==
    /\ Commands
    /\ \E m \in Maps, x \in Tiles : MayStand(p.vehicle, x) /\ Becomes(MoveTo(World, m, x))

\* SetVehicleLocation takes the party along that rides the vehicle.
SetVehicleLocation ==
    /\ Commands
    /\ \E v \in Vehicles, m \in Maps, x \in Tiles :
          /\ MayStand(IF v = Airship /\ p.vehicle # v THEN None ELSE v, x)
          /\ Becomes(IF p.vehicle = v THEN MoveTo(World, m, x)
                     ELSE [World EXCEPT !.at[v] = [map |-> m, x |-> x]])

\* The menu is called by one who stands; Escape and Teleport get him off whatever he rides.
Escape ==
    /\ Stopping(World) /\ ~p.boarding /\ ~(p.vehicle = Airship /\ Ascending(World))
    /\ \E m \in Maps, x \in Tiles :
          Passable(None, x) /\ Becomes(MoveTo(ForceGetOffVehicle(World), m, x))

Next == Frame \/ EnterExitVehicle \/ Teleport \/ SetVehicleLocation \/ Escape

Spec == Init /\ [][Next]_vars

\* Frames follow each other without end.
FairSpec == Spec /\ WF_vars(Frame)

-----------------------------------------------------------------------------
(* Properties.                                                             *)

\* The airship flies exactly while somebody rides it, and its rider is as high as it is,
\* whoever ends the flight: the key, an event, the menu or a teleport.
NobodyFliesAlone ==
    /\ lift.flying <=> p.aboard /\ p.vehicle = Airship
    /\ p.flying <=> lift.flying
    /\ Ascending(World) => lift.flying

\* On foot the player has his own speed again, however he came to be on foot
\* (preboard_move_speed).
SpeedComesBack == ~p.aboard => p.speed = OnFoot

\* On foot he hears the music of the map, in a vehicle that of the vehicle (SetBeforeVehicleMusic).
MusicFits ==
    /\ bgm = Music[IF p.vehicle = None THEN p.map ELSE p.vehicle]
    /\ p.vehicle # None => before = Music[p.map]

\* Ships are at sea, and who is on foot is on land. (The airship may be left anywhere: Escape
\* gets its rider off in the air.)
OnItsGround ==
    /\ \A s \in Ships : Ground[at[s].x] = "sea"
    /\ p.vehicle = None => Ground[p.x] = "land"

\* All of these, the last two where only events in the foreground command, the last where they
\* let the player stand before they let him off: a parallel event that teleports him while he
\* boards may leave him with the music of another place, or ashore in his ship, and one that
\* takes him off a ship in the middle of a step leaves him at sea.
VehiclesInv ==
    /\ TypeOK
    /\ NobodyFliesAlone
    /\ SpeedComesBack
    /\ ~game.parallel => MusicFits
    /\ ~game.parallel /\ game.settled => OnItsGround

\* The foreground interpreter does not wait for ever: a boarding ends, and so does the lift,
\* even where the airship cannot land.
WaitsEnd == []<>~Waits

=============================================================================
