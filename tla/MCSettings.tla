----------------------------- MODULE MCSettings -----------------------------
(***************************************************************************)
(* The games that several runs play: pages of events, routes, a coast, and *)
(* what the events of a frame ask of the scenes.                           *)
(***************************************************************************)
EXTENDS Integers, Sequences, TLC

-----------------------------------------------------------------------------
(* Events: the commands and pages of four games, each with switches of its *)
(* own. A game is begun by a packet that sets the switch of its name.      *)

C(code, indent, arg) == [code |-> code, indent |-> indent, arg |-> arg]
Do(code) == C(code, 0, 0)

\* A branch around a question.
Inquiry(a, b) == <<
    C("ConditionalBranch", 0, b),
    C("ConditionalBranch", 1, a),
    C("ElseBranch", 1, 0),
    C("EndBranch", 1, 0),
    C("ShowMessage", 1, 0),
    C("ShowChoice", 1, 0),
    C("ShowChoiceOption", 1, 0),
    C("Wait", 2, 1),
    C("ShowChoiceOption", 1, 1),
    C("ControlSwitches", 2, <<b, FALSE>>),
    C("ShowChoiceEnd", 1, 0),
    Do("ElseBranch"),
    C("ShowChoice", 1, 0),
    C("ShowChoiceOption", 1, 0),
    C("EndEventProcessing", 2, 0),
    C("ShowChoiceEnd", 1, 0),
    Do("EndBranch")>>

EventLists == [
  empty |-> <<>>,
  flip |-> <<                       \* turns its own page over, then calls
      C("ConditionalBranch", 0, "b"),
      C("ControlSwitches", 1, <<"b", FALSE>>),
      Do("ElseBranch"),
      C("ControlSwitches", 1, <<"b", TRUE>>),
      Do("EndBranch"),
      C("CallEvent", 0, [list |-> "jump", event |-> "none"])>>,
  jump |-> <<C("JumpToLabel", 0, 7), C("Wait", 0, 1), C("Label", 0, 7)>>,
  ask |-> Inquiry("a", "b"),
  wonder |-> Inquiry("c", "d"),
  wait |-> <<C("Wait", 0, 1)>>,
  say |-> <<Do("ShowMessage")>>,
  erase |-> <<Do("EraseEvent"), C("ControlSwitches", 0, <<"d", TRUE>>)>>,
  fade |-> <<Do("EraseScreen"), C("Wait", 0, 1), Do("EraseScreen")>>,
  save |-> <<C("Save", 0, "saved")>>,
  leave |-> <<Do("Loop"), C("BreakLoop", 1, 0), Do("EndLoop"), Do("CallScene")>>,
  forever |-> <<Do("Loop"), C("Label", 1, 1), Do("EndLoop")>>,
  deeper |-> <<C("CallEvent", 0, [list |-> "deeper", event |-> "none"])>>,
  set |-> <<C("ControlSwitches", 0, <<"w", TRUE>>)>>]

\* turning: pages turned over by packets and by the events themselves, questions in the
\* foreground. asking: a parallel event asks, another erases itself. suspending: screens
\* erased and games saved in the middle of a frame. endless: commands that run again at
\* once, loops and calls without end.
GameSwitches == [turning |-> {"a", "b"}, asking |-> {"c", "d"},
                 suspending |-> {"t", "saved"}, endless |-> {"v", "w"}]
EventSwitches == DOMAIN GameSwitches \cup UNION {GameSwitches[g] : g \in DOMAIN GameSwitches}

OpensOn(s, trigger, list) == [switch |-> s, trigger |-> trigger, list |-> list]

-----------------------------------------------------------------------------
(* Routes on a row of tiles: three events that push and jump over each     *)
(* other and turn pages over, their own and by asking others to make way,  *)
(* those of who asks; and two of which each is in the other's way.         *)

R == C("move", 0, 1)
L == C("move", 0, -1)
W == C("wait", 0, 0)
J == C("jump", 0, 0)
E == C("end_jump", 0, 0)
Sets(s, value) == C("switch", 0, <<s, value>>)
Route(cmds, repeat, skippable) == [cmds |-> cmds, repeat |-> repeat, skippable |-> skippable]
Walks(s, cmds, skippable) == [switch |-> s, route |-> Route(cmds, TRUE, skippable)]

PushingRoutes ==
    ("e1" :> <<Walks("always", <<R, Sets("a", TRUE), L>>, TRUE),
               Walks("a", <<Sets("a", FALSE)>>, TRUE)>>)
    @@ ("e2" :> <<Walks("always", <<R, L>>, TRUE)>>)
    @@ ("e3" :> <<Walks("always", <<L, R>>, FALSE), Walks("a", <<J, L, L, E>>, TRUE)>>)

TurningRoutes ==
    ("e1" :> <<Walks("always", <<R, Sets("a", TRUE), L>>, TRUE),
               Walks("a", <<Sets("a", FALSE)>>, TRUE)>>)
    @@ ("e2" :> <<Walks("always", <<L, W, R>>, TRUE), Walks("b", <<>>, TRUE)>>)

-----------------------------------------------------------------------------
(* Vehicles: a coast with ships at sea, and a peak on which only the       *)
(* airship is.                                                             *)

Coast == <<"land", "sea", "sea", "land", "peak">>
Shore == [x \in 0..4 |-> Coast[x + 1]]
Moored(ships) ==
    [c \in {"none", "airship"} \cup ships |->
        [map |-> "m1", x |-> CASE c = "ship" -> 1 [] c = "boat" -> 2 [] OTHER -> 0]]
Tunes(maps, ships) == [m \in maps \cup ships \cup {"airship"} |-> m]

-----------------------------------------------------------------------------
(* Scenes: everything that the events may do in one update of the map.     *)

Outcome(op, tele, call) == [op |-> op, tele |-> tele, call |-> call]
AllOutcomes ==
    {Outcome(op, tele, call) :
        op \in {"none", "title", "erase", "show", "inn", "inn_asked", "quick", "save"},
        tele \in {"none", "fg", "par"}, call \in {"none", "menu", "gameover"}}

=============================================================================
