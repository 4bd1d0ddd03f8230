------------------------------ MODULE MCEvents ------------------------------
(***************************************************************************)
(* The events of a map and their commands: common ones that jump, ask and  *)
(* fade, and two of the map. They have pages for four games: one of three  *)
(* (part) and, unless that one asks all the time, the endless one as well. *)
(***************************************************************************)
EXTENDS MapUpdate, MCSettings, MCParts

Commons == <<"c1", "c2", "c3">>
TwoEvents == <<"e1", "e2">>
GamePages ==
    ("c1" :> <<OpensOn("b", "parallel", "jump")>>)
    @@ ("c2" :> <<OpensOn("asking", "parallel", "wonder")>>)
    @@ ("c3" :> <<OpensOn("suspending", "parallel", "fade")>>)
    @@ ("e1" :> <<OpensOn("turning", "parallel", "flip"), OpensOn("a", "parallel", "wait"),
                  OpensOn("c", "parallel", "erase"),
                  OpensOn("suspending", "parallel", "save"),
                  OpensOn("endless", "action", "set"), OpensOn("v", "auto", "leave")>>)
    @@ ("e2" :> <<OpensOn("turning", "action", "ask"),
                  OpensOn("asking", "action", "say"), OpensOn("d", "parallel", "empty"),
                  OpensOn("suspending", "action", "fade"), OpensOn("t", "parallel", "wait"),
                  OpensOn("saved", "auto", "forever"),
                  OpensOn("v", "auto", "deeper"), OpensOn("w", "parallel", "forever")>>)
ByPacket == DOMAIN GameSwitches \cup {"a", "c", "t", "v"}

ASSUME InterpreterAssumption /\ MapUpdateAssumption

-----------------------------------------------------------------------------
\* Only these games are played, from the packet on that begins one of them; and no page is
\* turned over under a question or a suspended frame (run "answer" shows what happens then).
Plays ==
    LET games == IF part = "asking" THEN {part} ELSE {part, "endless"} IN
    /\ \E g \in games : switches'[g]
    /\ \A s \in EventSwitches \ (games \cup UNION {GameSwitches[g] : g \in games}) : ~switches'[s]

GamesInit == part \in {"turning", "asking", "suspending"} /\ EventsInit
GamesNext == EventsNext /\ ~Overtaken /\ Plays /\ UNCHANGED part
GamesSpec == GamesInit /\ [][GamesNext]_<<part, eventVars>>

=============================================================================
