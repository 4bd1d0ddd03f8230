------------------------------- MODULE MCMap --------------------------------
(***************************************************************************)
(* What moves on the map: the vehicles of the player, with two ships at    *)
(* sea off a coast, and the events on their routes. Events command the     *)
(* vehicles in every way: those that let the player stand before they move *)
(* him and those that do not, parallel ones and others.                    *)
(***************************************************************************)
EXTENDS Vehicles, Characters, MCSettings, MCParts

TwoShips == Moored({"ship", "boat"})
TwoTunes == Tunes({"m1", "m2"}, {"ship", "boat"})

Walkers == <<"e1", "e2", "e3">>
SideBySide == ("e1" :> 0) @@ ("e2" :> 1) @@ ("e3" :> 2)
OneForced == {Route(<<R, Sets("a", TRUE), W>>, FALSE, TRUE)}

ASSUME VehiclesAssumption /\ CharactersAssumption

-----------------------------------------------------------------------------
MapInit ==
    /\ part \in {"routes", "vehicles"}
    /\ RoutesInit
    /\ Init
    /\ ~(game.parallel /\ game.settled)    \* that game does what the one that does not wait does
    /\ part # "vehicles" => ~game.parallel /\ ~game.settled    \* idle

MapNext ==
    \/ part = "routes" /\ RoutesNext /\ UNCHANGED <<part, vars>>
    \/ part = "vehicles" /\ Next /\ UNCHANGED <<part, routeVars>>

MapSpec == MapInit /\ [][MapNext]_<<part, routeVars, vars>>

=============================================================================
