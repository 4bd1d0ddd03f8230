----------------------------- MODULE Characters -----------------------------
(***************************************************************************)
(* The events of a map and their move routes (src/src/game_character.cpp,  *)
(* game_event.cpp, Game_Map::MakeWay): who asks for a tile makes the       *)
(* character that stands there act first, which may ask others in turn.    *)
(* The map is one row of tiles; facings, frequencies and the kinds of      *)
(* movement that draw random numbers are left out. calls is the call stack *)
(* of Game_Character::Update, of which a step of the model is one command  *)
(* of a route or one question to somebody who is in the way.               *)
(***************************************************************************)
EXTENDS Integers, Sequences, SequencesExt, FiniteSetsExt, Functions

CONSTANTS Events,      \* sequence of ids, in the order in which they act
          Row,         \* number of tiles
          Standing,    \* event -> tile in the beginning
          RoutePages,  \* event -> sequence of [switch, route]
          Forced,      \* the routes a Move Event command may give
          NoCondition, RouteSwitches,
          Tile,        \* SCREEN_TILE_SIZE
          MoveAmount, JumpAmount,   \* what is left of a step decreases by this in a frame
          StepRest, WaitRest,       \* GetMaxStopCountForStep, ForWait
          StopBound    \* bound on the stop counts; what a forced route starts with

Ids == Range(Events)
Spots == 0..Row - 1
Nowhere == -1             \* a tile that is not on the map
PagesOf(e) == DOMAIN RoutePages[e]
Routes == Forced \cup UNION {{RoutePages[e][n].route : n \in PagesOf(e)} : e \in Ids}

CharactersAssumption ==
    /\ Events \in Seq(Ids) /\ IsInjective(Events)
    /\ Row \in Nat \ {0} /\ Standing \in [Ids -> Spots] /\ IsInjective(Standing)
    /\ DOMAIN RoutePages = Ids /\ NoCondition \notin RouteSwitches
    /\ \A e \in Ids : RoutePages[e] \in Seq(Range(RoutePages[e]))
    /\ \A r \in Routes : /\ r.cmds \in Seq(Range(r.cmds))
                         /\ \A i \in DOMAIN r.cmds :
                               r.cmds[i].code = "switch" => r.cmds[i].arg[2] \in BOOLEAN
    /\ Tile \in Nat \ {0} /\ MoveAmount \in 1..Tile /\ JumpAmount \in 1..Tile
    /\ StepRest \in Nat /\ WaitRest \in Nat /\ StopBound \in Nat
    /\ StopBound > StepRest /\ StopBound > WaitRest

VARIABLES ch,        \* event -> its data
          routeSwitches,
          done,      \* event -> IsProcessed
          routeTurn, \* place in Events of the one that acts next
          busy,      \* the foreground interpreter runs
          calls,     \* those whose Update runs, each asked by the one before
          moved,     \* who came to a tile in this frame (history)
          disturbed  \* whose page was turned over while he asked from its route (history)

worldVars == <<routeSwitches, routeTurn, busy>>
routeVars == <<worldVars, ch, done, calls, moved, disturbed>>

NoRoute == [cmds |-> <<>>, repeat |-> FALSE, skippable |-> FALSE]

PageFor(e, now) ==
    LET met == {n \in PagesOf(e) :
                   RoutePages[e][n].switch = NoCondition \/ now[RoutePages[e][n].switch]}
    IN IF met = {} THEN 0 ELSE Max(met)

Placed(e, now) ==
    [x |-> Standing[e], rem |-> 0, jumping |-> FALSE, stop |-> 0, max |-> 0,
     page |-> PageFor(e, now), through |-> PageFor(e, now) = 0, own |-> 1,
     route |-> NoRoute, index |-> 1, over |-> FALSE, repeated |-> FALSE]

OwnRoute(e, c) == IF c.page = 0 THEN NoRoute ELSE RoutePages[e][c.page].route

Stands(c) == ~c.jumping /\ c.rem <= 0    \* IsStopping
StopCountActive(c) == c.stop < c.max
WouldCollide(a, b) == ~a.through /\ ~b.through

Data == [x : Spots, rem : -Tile..Tile, jumping : BOOLEAN, stop : 0..StopBound,
         max : {0, StepRest, WaitRest}, page : Nat, through : BOOLEAN, own : Nat \ {0},
         route : Routes \cup {NoRoute}, index : Nat \ {0}, over : BOOLEAN, repeated : BOOLEAN]

\* An Update in the middle of a route: which of both (over), the commands that it goes
\* through, the place at which it began; at a command that asks for a tile, its place n,
\* the tile, and the place k in Events of the one who is asked.
Calls == [who : Ids, over : BOOLEAN, route : Routes \cup {NoRoute}, start : Nat,
          at : {"route", "asking", "asked"}, n : Nat, to : Spots \cup {Nowhere}, k : Nat]

Place(c, over) == IF over THEN c.index ELSE c.own
At(c, over, i) == IF over THEN [c EXCEPT !.index = i] ELSE [c EXCEPT !.own = i]

Begun(e, c, route, over) ==
    [who |-> e, over |-> over, route |-> route, start |-> Place(c, over), at |-> "route",
     n |-> 0, to |-> Nowhere, k |-> 1]

CharactersTypeOK ==
    /\ ch \in [Ids -> Data] /\ \A e \in Ids : ch[e].page \in {0} \cup PagesOf(e)
    /\ routeSwitches \in [RouteSwitches -> BOOLEAN] /\ done \in [Ids -> BOOLEAN]
    /\ routeTurn \in 1..Len(Events) + 1 /\ busy \in BOOLEAN
    /\ calls \in Seq(Calls)
    /\ moved \subseteq Ids /\ disturbed \subseteq Ids

RoutesInit ==
    /\ routeSwitches = [s \in RouteSwitches |-> FALSE]
    /\ ch = [e \in Ids |-> Placed(e, routeSwitches)]
    /\ done = [e \in Ids |-> FALSE] /\ routeTurn = Len(Events) + 1 /\ busy = FALSE
    /\ calls = <<>> /\ moved = {} /\ disturbed = {}

-----------------------------------------------------------------------------
(* One character.                                                          *)

Kinds(cmds) == [i \in DOMAIN cmds |-> cmds[i].code]

\* RefreshPage. The event keeps its place in a route of the same commands.
Refreshed_keeps(e, c, now) ==
    LET p == PageFor(e, now) IN
    IF p = 0 THEN [c EXCEPT !.page = 0, !.through = TRUE]
    ELSE IF p = c.page THEN c
    ELSE [c EXCEPT !.page = p, !.through = FALSE, !.max = StepRest]

Refreshed(e, c, now) ==
    LET p == PageFor(e, now) IN
    IF p = 0 THEN [c EXCEPT !.page = 0, !.through = TRUE]
    ELSE IF p = c.page THEN c
    ELSE [c EXCEPT !.page = p, !.through = FALSE, !.max = StepRest,
                   !.own = IF c.page # 0 /\ Kinds(RoutePages[e][p].route.cmds)
                                              = Kinds(OwnRoute(e, c).cmds)
                             THEN @ ELSE 1]

CancelMoveRoute_half(c) ==
    [c EXCEPT !.max = IF c.over THEN StepRest ELSE @, !.repeated = FALSE]

CancelMoveRoute(c) ==
    [c EXCEPT !.max = IF c.over THEN StepRest ELSE @, !.over = FALSE, !.repeated = FALSE]

\* UpdateMovement, which returns before it ends the step or the jump: who has landed a jump
\* jumps for ever. What is left of a step stays negative; the model does not count on.
UpdateMovement(c, amount) == [c EXCEPT !.rem = IF @ > 0 THEN @ - amount ELSE @]

\* The end of Game_Character::Update.
Advance(c) ==
    IF Stands(c)
      THEN [c EXCEPT !.stop = IF c.stop = 0 \/ c.over \/ ~busy
                                THEN IF @ < StopBound THEN @ + 1 ELSE StopBound ELSE @]
      ELSE UpdateMovement(c, IF c.jumping THEN JumpAmount ELSE MoveAmount)

\* Begin of Game_Event::Update and Game_Character::Update, called in the calls cs.
UpdateCharacter(e, cs) ==
    IF done[e] \/ ch[e].page = 0 THEN calls' = cs /\ UNCHANGED <<ch, done>>
    ELSE /\ done' = [done EXCEPT ![e] = TRUE]
         /\ IF Stands(ch[e])
              THEN calls' = Append(cs, Begun(e, ch[e], ch[e].route, TRUE)) /\ UNCHANGED ch
              ELSE calls' = cs /\ ch' = [ch EXCEPT ![e] = Advance(@)]

-----------------------------------------------------------------------------
(* The loop of UpdateMoveRoute, of the innermost call.                     *)

Top == Last(calls)
Me == Top.who
Become(cs, f) == [cs EXCEPT ![Len(cs)] = f]
NowRuns(f) == calls' = Become(calls, f)

\* UpdateMoveRoute returns, with the data chs: UpdateNextMovementAction, for the custom type
\* of movement, goes on with the event's own route.
EndRoute(chs) ==
    LET c == chs[Me] IN
    IF Top.over /\ Stands(c) /\ c.page # 0 /\ ~c.over /\ ~StopCountActive(c) /\ ~busy
      THEN ch' = chs /\ NowRuns(Begun(Me, c, OwnRoute(Me, c), FALSE))
      ELSE ch' = [chs EXCEPT ![Me] = Advance(@)] /\ calls' = Front(calls)

\* The command was the one at place i, or the last of several. The loop ends where it began.
GoOn(chs, i) ==
    LET c == At(chs[Me], Top.over, i + 1) IN
    IF i + 1 = Top.start THEN EndRoute([chs EXCEPT ![Me] = c])
    ELSE ch' = [chs EXCEPT ![Me] = c] /\ NowRuns([Top EXCEPT !.at = "route"])

InRoute == calls # <<>> /\ Top.at = "route"

\* UpdateMoveRoute has nothing to do, or a command took time.
Rests ==
    \/ Top.route.cmds = <<>>
    \/ Top.over /\ ~ch[Me].over
    \/ ~Stands(ch[Me]) \/ StopCountActive(ch[Me])

PlaceNow == Place(ch[Me], Top.over)
RouteEnded == PlaceNow > Len(Top.route.cmds)

LeaveRoute ==
    /\ InRoute /\ Rests
    /\ EndRoute(ch)
    /\ UNCHANGED <<worldVars, done, moved, disturbed>>

\* At its end a route begins anew, or is over.
FinishRoute ==
    LET c == IF Top.over THEN [ch[Me] EXCEPT !.repeated = TRUE] ELSE ch[Me]
        first == [ch EXCEPT ![Me] = At(c, Top.over, 1)]
    IN
    /\ InRoute /\ ~Rests /\ RouteEnded
    /\ IF ~Top.route.repeat
         THEN EndRoute([ch EXCEPT ![Me] = IF Top.over THEN CancelMoveRoute(c) ELSE c])
         ELSE IF Top.start = 1 THEN EndRoute(first) ELSE ch' = first /\ UNCHANGED calls
    /\ UNCHANGED <<worldVars, done, moved, disturbed>>

Cmd == Top.route.cmds[PlaceNow]
Executes(code) == InRoute /\ ~Rests /\ ~RouteEnded /\ Cmd.code = code

JumpEnd(cmds, i) == {j \in i + 1 .. Len(cmds) : cmds[j].code = "end_jump"}
JumpBy(cmds, i, j) ==
    FoldLeft(LAMBDA s, c : s + (IF c.code = "move" THEN c.arg ELSE 0), 0, SubSeq(cmds, i, j))

WaitCommand ==
    /\ Executes("wait")
    /\ GoOn([ch EXCEPT ![Me].max = WaitRest, ![Me].stop = 0], PlaceNow)
    /\ UNCHANGED <<worldVars, done, moved, disturbed>>

\* Set, and Refresh. If the page has reset the route's place, the loop ends.
SwitchCommand ==
    LET now == [routeSwitches EXCEPT ![Cmd.arg[1]] = Cmd.arg[2]]
        chs == [e \in Ids |->
                   Refreshed(e, IF e = Me THEN At(ch[e], Top.over, PlaceNow + 1) ELSE ch[e], now)]
    IN
    /\ Executes("switch")
    /\ routeSwitches' = now
    /\ IF Place(chs[Me], Top.over) = 1 THEN EndRoute(chs)
                                       ELSE GoOn(chs, Place(chs[Me], Top.over) - 1)
    /\ disturbed' = disturbed \cup
          {e \in Ids : /\ chs[e].page # ch[e].page
                       /\ \E i \in 1..Len(calls) - 1 : calls[i].who = e /\ ~calls[i].over}
    /\ UNCHANGED <<routeTurn, busy, done, moved>>

\* Move and Jump, up to MakeWay.
AsksFor(to) ==
    NowRuns([Top EXCEPT !.at = "asking", !.n = PlaceNow, !.k = 1,
                        !.to = IF to \in Spots THEN to ELSE Nowhere])

MoveCommand ==
    /\ Executes("move")
    /\ AsksFor(ch[Me].x + Cmd.arg)
    /\ UNCHANGED <<worldVars, ch, done, moved, disturbed>>

JumpCommand ==
    LET ends == JumpEnd(Top.route.cmds, PlaceNow) IN
    /\ Executes("jump")
    /\ IF ends = {} THEN GoOn(ch, Len(Top.route.cmds))
       ELSE /\ ch' = [ch EXCEPT ![Me].jumping = TRUE]
            /\ AsksFor(ch[Me].x + JumpBy(Top.route.cmds, PlaceNow, Min(ends)))
    /\ UNCHANGED <<worldVars, done, moved, disturbed>>

-----------------------------------------------------------------------------
(* MakeWay: whoever stands on the tile acts first, one after the other.    *)

Asking == calls # <<>> /\ Top.at = "asking"
Jumps == Top.route.cmds[Top.n].code = "jump"

\* The place of the last command that was taken: of a move, the place as it is by now.
LastTaken == IF Jumps THEN Min(JumpEnd(Top.route.cmds, Top.n)) ELSE PlaceNow

\* k is the place of the next one who is to be asked.
InTheWay(k) == Events[k] # Me /\ ch[Events[k]].x = Top.to
NextAsked(k) == k \in Top.k..Len(Events) /\ InTheWay(k) /\ \A j \in Top.k..k - 1 : ~InTheWay(j)

\* A jump to the own tile asks nobody, nor does who passes through others when it begins to ask.
AsksNobody == Top.k = 1 /\ ch[Me].through

WayIsFree_edge ==
    \/ Jumps /\ Top.to = ch[Me].x
    \/ AsksNobody
    \/ \A k \in Top.k..Len(Events) : ~InTheWay(k)

WayIsFree ==
    \/ Jumps /\ Top.to = ch[Me].x
    \/ Top.to # Nowhere /\ (AsksNobody \/ \A k \in Top.k..Len(Events) : ~InTheWay(k))

Lands_standing ==
    /\ GoOn([ch EXCEPT ![Me].x = Top.to, ![Me].max = StepRest], LastTaken)
    /\ moved' = moved \cup {Me}

Lands ==
    /\ GoOn([ch EXCEPT ![Me].x = Top.to, ![Me].rem = Tile, ![Me].max = StepRest], LastTaken)
    /\ moved' = moved \cup {Me}

\* A move that failed does not take its time, unless it may be skipped.
Fails_jumping ==
    /\ IF Top.route.skippable
         THEN GoOn([ch EXCEPT ![Me].max = IF Jumps THEN @ ELSE StepRest], LastTaken)
         ELSE EndRoute([ch EXCEPT ![Me] = IF Jumps THEN At(@, Top.over, Top.n) ELSE @])
    /\ UNCHANGED moved

Fails ==
    LET c == IF Jumps THEN [ch[Me] EXCEPT !.jumping = FALSE] ELSE ch[Me] IN
    /\ IF Top.route.skippable
         THEN GoOn([ch EXCEPT ![Me] = IF Jumps THEN c ELSE [c EXCEPT !.max = StepRest]], LastTaken)
         ELSE EndRoute([ch EXCEPT ![Me] = IF Jumps THEN At(c, Top.over, Top.n) ELSE c])
    /\ UNCHANGED moved

Land ==
    /\ Asking /\ WayIsFree
    /\ Lands
    /\ UNCHANGED <<worldVars, done, disturbed>>

\* The tile is not on the map.
Edge ==
    /\ Asking /\ ~WayIsFree /\ Top.to = Nowhere
    /\ Fails
    /\ UNCHANGED <<worldVars, done, disturbed>>

Ask ==
    /\ Asking /\ ~WayIsFree /\ Top.to # Nowhere
    /\ \E k \in DOMAIN Events :
          /\ NextAsked(k)
          /\ UpdateCharacter(Events[k], Become(calls, [Top EXCEPT !.at = "asked", !.k = k]))
    /\ UNCHANGED <<worldVars, moved, disturbed>>

Obstructs == ch[Events[Top.k]].x = Top.to /\ WouldCollide(ch[Me], ch[Events[Top.k]])

\* Who was asked has acted.
Answered_twice ==
    /\ calls # <<>> /\ Top.at = "asked"
    /\ IF Obstructs /\ ~done[Events[Top.k]]
         THEN Fails /\ UNCHANGED done
         ELSE NowRuns([Top EXCEPT !.at = "asking", !.k = @ + 1]) /\ UNCHANGED <<ch, done, moved>>
    /\ UNCHANGED <<worldVars, disturbed>>

Answered ==
    /\ calls # <<>> /\ Top.at = "asked"
    /\ IF Obstructs
         THEN Fails
         ELSE NowRuns([Top EXCEPT !.at = "asking", !.k = @ + 1]) /\ UNCHANGED <<ch, moved>>
    /\ UNCHANGED <<worldVars, done, disturbed>>

-----------------------------------------------------------------------------
\* A frame: every event has its turn, unless another one has made it act already.
Between == calls = <<>> /\ routeTurn > Len(Events)

StartTurns ==
    /\ Between
    /\ routeTurn' = 1 /\ done' = [e \in Ids |-> FALSE] /\ moved' = {}
    /\ UNCHANGED <<ch, routeSwitches, busy, calls, disturbed>>

Turn ==
    /\ calls = <<>> /\ routeTurn <= Len(Events)
    /\ UpdateCharacter(Events[routeTurn], calls)
    /\ routeTurn' = routeTurn + 1
    /\ UNCHANGED <<routeSwitches, busy, moved, disturbed>>

\* CommandMoveEvent: ForceMoveRoute.
ForceMoveRoute ==
    /\ Between
    /\ \E e \in Ids, r \in Forced :
          LET c == [ch[e] EXCEPT !.stop = StopBound, !.index = 1, !.repeated = FALSE,
                                 !.over = TRUE, !.route = r]
          IN ch' = [ch EXCEPT ![e] = IF r.cmds = <<>> THEN CancelMoveRoute(c) ELSE c]
    /\ UNCHANGED <<worldVars, done, calls, moved, disturbed>>

\* CommandHaltAllMovement: RemoveAllPendingMoves.
HaltAllMovement ==
    /\ Between
    /\ ch' = [e \in Ids |-> CancelMoveRoute(ch[e])]
    /\ UNCHANGED <<worldVars, done, calls, moved, disturbed>>

\* The foreground interpreter starts or ends, and a switch is set.
SwitchesTurn ==
    /\ Between
    /\ busy' \in BOOLEAN
    /\ \E s \in RouteSwitches, v \in BOOLEAN : routeSwitches' = [routeSwitches EXCEPT ![s] = v]
    /\ ch' = [e \in Ids |-> Refreshed(e, ch[e], routeSwitches')]
    /\ UNCHANGED <<routeTurn, done, calls, moved, disturbed>>

RouteStep ==
    \/ LeaveRoute \/ FinishRoute \/ WaitCommand \/ SwitchCommand \/ MoveCommand \/ JumpCommand
    \/ Land \/ Edge \/ Ask \/ Answered

RouteFrame == StartTurns \/ Turn \/ RouteStep

RoutesNext == RouteFrame \/ ForceMoveRoute \/ HaltAllMovement \/ SwitchesTurn

RoutesSpec == RoutesInit /\ [][RoutesNext]_routeVars

\* The frames go on; the interpreter that forced a move waits for it to end before it
\* forces another one (CommandProceedWithMovement).
Pending(e) == ch[e].over /\ ~ch[e].repeated
IsAnyMovePending == \E e \in Ids : Pending(e)
PatientNext == RouteFrame \/ (ForceMoveRoute /\ ~IsAnyMovePending)
FairRoutes == RoutesInit /\ [][PatientNext]_routeVars /\ WF_routeVars(RouteFrame)

-----------------------------------------------------------------------------
(* Properties.                                                             *)

\* Nobody appears on a tile that others have taken, or vanishes.
Lasting ==
    \A e \in Ids : \/ PagesOf(e) = {}
                   \/ \E n \in PagesOf(e) : RoutePages[e][n].switch = NoCondition

\* Characters that collide never come to stand on one tile, however those who are asked to
\* make way ask others (MakeWay).
NoOverlap ==
    Lasting => \A a, b \in Ids : a # b /\ WouldCollide(ch[a], ch[b]) => ch[a].x # ch[b].x

\* "assert(current_index <= num_commands)" of UpdateMoveRoute, for both routes, as long as
\* nobody whom an event asks to make way turns its page over.
IndexInRoute ==
    \A e \in Ids : /\ \/ ch[e].own \in 1..Len(OwnRoute(e, ch[e]).cmds) + 1
                      \/ ch[e].page = 0 \/ e \in disturbed
                   /\ ch[e].index \in 1..Len(ch[e].route.cmds) + 1

\* Both: in whichever order they act, push and turn each other's pages.
CharactersInv == CharactersTypeOK /\ NoOverlap /\ IndexInRoute

\* Nobody moves twice in a frame, though several others may ask for the tile.
OneStepPerFrame == [][\A e \in moved : ch'[e].x = ch[e].x]_routeVars

\* A forced route whose moves may be skipped ends, though others stand in its way or jump, and
\* pages are turned over by it: CommandProceedWithMovement, which waits for it, goes on. The
\* exception is who has come to a tile by a jump: UpdateMovement returns before its
\* SetJumping(false), so that it jumps for ever, its route stays pending, and the interpreter
\* waits for ever. The route of who only tries to jump must end.
ComesByJump(e) == ch[e].jumping /\ ch[e].rem = Tile
RoutesEnd ==
    \A e \in Ids :
        []~ComesByJump(e)
        => (Pending(e) /\ ch[e].route.skippable ~> (~Pending(e) \/ ch[e].page = 0))

=============================================================================
