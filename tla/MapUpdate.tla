----------------------------- MODULE MapUpdate ------------------------------
(***************************************************************************)
(* One frame of the map (Game_Map::Update): the parallel events, the       *)
(* message window, then the foreground interpreter; what an asynchronous   *)
(* operation suspends in the middle; and the event pages that switches     *)
(* turn over while interpreters run (src/src/game_map.cpp, game_event.cpp, *)
(* game_commonevent.cpp, Game_Interpreter::Update). A step of the model is *)
(* one turn of the loop of Update; packets of other players set switches   *)
(* between two frames and while the map is suspended.                      *)
(***************************************************************************)
EXTENDS Interpreter

CONSTANTS CommonEvents,   \* sequence of ids
          MapEvents,      \* sequence of ids, after those in the frame
          Pages,          \* event -> sequence of [switch, trigger, list]; of a common
                          \* event the only page
          Always,         \* the switch of a page without a condition
          Switches,
          Shared,         \* switches that packets may set
          NoEvent,        \* event id 0: commands that no event of the map gives
          Foreground,     \* the foreground interpreter, Game_Map::GetInterpreter()
          LoopLimit,      \* loop_limit
          CallStackLimit  \* call_stack_limit

Parallel == Range(CommonEvents) \cup Range(MapEvents)
Order == CommonEvents \o MapEvents
Interpreters == Parallel \cup {Foreground}
AllPages == UNION {Range(Pages[e]) : e \in Parallel}
CommonPages == UNION {Range(Pages[e]) : e \in Range(CommonEvents)}

MapUpdateAssumption ==
    /\ CommonEvents \in Seq(Range(CommonEvents)) /\ MapEvents \in Seq(Range(MapEvents))
    /\ \A m, n \in DOMAIN Order : Order[m] = Order[n] => m = n
    /\ Foreground \notin Parallel /\ NoEvent \notin Parallel
    /\ DOMAIN Pages = Parallel
    /\ \A e \in Parallel : Pages[e] \in Seq(Range(Pages[e]))
    /\ \A e \in Range(CommonEvents) : Len(Pages[e]) = 1
    /\ \A p \in AllPages : /\ p.switch \in Switches \cup {Always}
                           /\ p.trigger \in {"parallel", "auto", "action"}
                           /\ p.list \in DOMAIN Code
    /\ Always \notin Switches /\ Shared \subseteq Switches
    /\ {"none", "screen"} \cap Switches = {}
    /\ LoopLimit \in Nat \ {0} /\ CallStackLimit \in Nat \ {0}
    /\ \A l \in DOMAIN Code : \A c \in Range(Code[l]) :
          CASE c.code = "ControlSwitches" -> c.arg[1] \in Switches /\ c.arg[2] \in BOOLEAN
            [] c.code = "Wait" -> c.arg \in Nat
            [] c.code = "Save" -> c.arg \in Switches
            [] c.code = "CallEvent" -> /\ c.arg.list \in DOMAIN Code
                                       /\ c.arg.event \in Range(MapEvents) \cup {NoEvent}
            [] OTHER -> TRUE

VARIABLES
    switches,      \* Main_Data::game_switches
    needRefresh,   \* Game_Map::need_refresh
    page,          \* event -> number of its page, 0 for none
    active,        \* event -> not erased
    waiting,       \* event -> waiting_execution
    paused,        \* event -> it stands still for its commands
    interp,        \* interpreter -> its _state
    window,        \* the message window
    requested,     \* Scene::instance has a requested scene
    doing,         \* what the program is doing, see Phases
    turn,          \* place in Order of the event whose turn it is, or the one after the
                   \* last; while suspended, the MapUpdateAsyncContext
    loops,         \* loop_count of the interpreter whose turn it is
    async,         \* its _async_op: none, the screen, or a switch that it saves
    stopped,       \* the frame on top when it was suspended (history)
    updated,       \* parallel events whose turn is over in this frame (history)
    aborted        \* Output::Error

mapVars == <<switches, needRefresh, page, active, waiting, paused>>
frameVars == <<doing, turn, loops, async, stopped, updated>>
eventVars == <<mapVars, interp, window, requested, frameVars, aborted>>

Idle == [stack |-> <<>>, wait |-> 0, showMessage |-> FALSE]
NoWindow == [at |-> "none", by |-> Foreground, indent |-> 0, asked |-> <<>>]

Holds(s, now) == s = Always \/ now[s]

PageOf(e) == Pages[e][page[e]]
ListOf(e) == IF page[e] = 0 THEN <<>> ELSE Code[PageOf(e).list]
TriggerOf(e) == IF page[e] = 0 THEN "none" ELSE PageOf(e).trigger

\* The last page whose condition is met.
PageMet(e, now) ==
    LET met == {n \in DOMAIN Pages[e] : Holds(Pages[e][n].switch, now)}
    IN IF met = {} THEN 0 ELSE Max(met)

Cur == IF turn > Len(Order) THEN Foreground ELSE Order[turn]
Stack == interp[Cur].stack

\* idle: between two frames; events: an event has its turn; loop: in the loop of the
\* interpreter whose turn it is; left: after that loop; foreground: UpdateForegroundEvents
\* looks for commands; suspended: the screen changes or a game is saved, until resuming.
Phases == {"idle", "events", "loop", "left", "message", "foreground", "suspended", "resuming"}

EventsTypeOK ==
    /\ switches \in [Switches -> BOOLEAN] /\ needRefresh \in BOOLEAN
    /\ \A e \in Parallel : page[e] \in 0..Len(Pages[e])
    /\ active \in [Parallel -> BOOLEAN] /\ waiting \in [Parallel -> BOOLEAN]
    /\ paused \in [Parallel -> BOOLEAN]
    /\ \A i \in Interpreters :
          /\ Len(interp[i].stack) <= CallStackLimit + 1
          /\ \A k \in DOMAIN interp[i].stack : IsFrame(interp[i].stack[k])
          /\ interp[i].wait \in Nat /\ interp[i].showMessage \in BOOLEAN
    /\ window.at \in {"none", "text", "choice", "started", "closing", "finished"}
    /\ requested \in BOOLEAN /\ aborted \in BOOLEAN
    /\ doing \in Phases /\ turn \in 1..Len(Order) + 1 /\ loops \in 0..LoopLimit
    /\ async \in {"none", "screen"} \cup Switches
    /\ updated \subseteq Parallel

EventsInit ==
    /\ switches = [s \in Switches |-> FALSE] /\ needRefresh = FALSE
    /\ page = [e \in Parallel |-> IF e \in Range(MapEvents) THEN PageMet(e, switches) ELSE 1]
    /\ active = [e \in Parallel |-> TRUE]
    /\ waiting = [e \in Parallel |-> FALSE] /\ paused = [e \in Parallel |-> FALSE]
    \* Game_CommonEvent pushes its commands when it is created.
    /\ interp = [i \in Interpreters |->
          IF i \in Range(CommonEvents) /\ Pages[i][1].trigger = "parallel"
             /\ Code[Pages[i][1].list] # <<>>
            THEN [Idle EXCEPT !.stack = <<NewFrame(Pages[i][1].list, NoEvent)>>] ELSE Idle]
    /\ window = NoWindow /\ requested = FALSE
    /\ doing = "idle" /\ turn = 1 /\ loops = 0 /\ async = "none" /\ stopped = <<>>
    /\ updated = {} /\ aborted = FALSE

-----------------------------------------------------------------------------
\* Refresh, with RefreshPage of every event: a page that is turned over takes the commands
\* of its parallel interpreter with it, no page at all does not.
Leaves(e) == e \in Range(MapEvents) /\ PageMet(e, switches) \in {0} \cup (DOMAIN Pages[e] \ {page[e]})
Turns(e) == Leaves(e) /\ PageMet(e, switches) # 0

Refresh_keeps ==
    /\ needRefresh' = FALSE
    /\ page' = [e \in Parallel |-> IF Leaves(e) THEN PageMet(e, switches) ELSE page[e]]
    /\ waiting' = [e \in Parallel |-> waiting[e] /\ ~Leaves(e)]
    /\ paused' = [e \in Parallel |-> paused[e] /\ ~Leaves(e)]
    /\ UNCHANGED <<switches, active, interp>>

Refresh ==
    /\ needRefresh' = FALSE
    /\ page' = [e \in Parallel |-> IF Leaves(e) THEN PageMet(e, switches) ELSE page[e]]
    /\ waiting' = [e \in Parallel |-> waiting[e] /\ ~Leaves(e)]
    /\ paused' = [e \in Parallel |-> paused[e] /\ ~Leaves(e)]
    /\ interp' = [i \in Interpreters |->
                     IF i \in Parallel /\ Turns(i) THEN Idle ELSE interp[i]]
    /\ UNCHANGED <<switches, active>>

RefreshIfNeeded == IF needRefresh THEN Refresh ELSE UNCHANGED <<mapVars, interp>>

\* The first part of Game_Map::Update.
StartFrame ==
    /\ doing = "idle"
    /\ RefreshIfNeeded
    /\ doing' = "events" /\ turn' = 1 /\ updated' = {}
    /\ UNCHANGED <<window, requested, loops, async, stopped, aborted>>

EntersLoop == doing' = "loop" /\ loops' = 0
    /\ UNCHANGED <<turn, updated, async, stopped>>

\* ScheduleForegroundExecution.
Schedule(e) ==
    IF active[e] /\ ~waiting[e] /\ ListOf(e) # <<>>
      THEN waiting' = [waiting EXCEPT ![e] = TRUE] /\ paused' = [paused EXCEPT ![e] = TRUE]
      ELSE UNCHANGED <<waiting, paused>>

\* The event's turn is over: Game_Character::Update, with CheckEventAutostart.
EndTurn(e) ==
    /\ doing' = "events" /\ turn' = turn + 1 /\ updated' = updated \cup {e}
    /\ IF e \in Range(MapEvents) /\ TriggerOf(e) = "auto"
         THEN Schedule(e) ELSE UNCHANGED <<waiting, paused>>
    /\ UNCHANGED <<switches, needRefresh, page, active, loops, async, stopped>>

\* Game_CommonEvent::Update and Game_Event::Update up to the interpreter.
Runs(e) == TriggerOf(e) = "parallel" /\ IF e \in Range(CommonEvents)
                                          THEN Holds(PageOf(e).switch, switches)
                                          ELSE active[e]

WithCommands_anew(e) ==
    IF e \in Range(MapEvents) /\ ListOf(e) # <<>>
      THEN [interp EXCEPT ![e].stack = <<NewFrame(PageOf(e).list, e)>>] ELSE interp

WithCommands(e) ==
    IF e \in Range(MapEvents) /\ interp[e].stack = <<>> /\ ListOf(e) # <<>>
      THEN [interp EXCEPT ![e].stack = <<NewFrame(PageOf(e).list, e)>>]
      ELSE interp

BeginTurn ==
    /\ doing = "events" /\ turn <= Len(Order)
    /\ IF Runs(Cur) /\ WithCommands(Cur)[Cur].stack # <<>>
         THEN /\ interp' = WithCommands(Cur)
              /\ UNCHANGED mapVars
              /\ EntersLoop
         ELSE /\ EndTurn(Cur)
              /\ UNCHANGED interp
    /\ UNCHANGED <<window, requested, aborted>>

-----------------------------------------------------------------------------
(* The loop of Game_Interpreter::Update.                                   *)

MessageActive == window.at # "none"
MessagePending == window.at \in {"text", "choice"}
CanShowMessage == window.at = "none" \/ (Cur = Foreground /\ window.at = "started")

\* Nobody waits for a message.
Blocked_never == loops >= LoopLimit \/ (loops > 0 /\ requested) \/ async # "none"

Blocked ==
    \/ loops >= LoopLimit
    \/ loops > 0 /\ requested
    \/ async # "none"
    \/ IF Cur = Foreground THEN MessagePending ELSE MessageActive /\ interp[Cur].showMessage

InLoop == doing = "loop" /\ ~Blocked /\ interp[Cur].wait = 0 /\ Stack # <<>> /\ ~aborted
Ready == InLoop /\ ~needRefresh

LeaveLoop ==
    /\ doing = "loop"
    /\ Blocked \/ interp[Cur].wait > 0 \/ Stack = <<>>
    /\ doing' = "left"
    /\ interp' = IF Blocked THEN interp
                 ELSE [interp EXCEPT ![Cur].showMessage = FALSE,
                                     ![Cur].wait = IF @ > 0 THEN @ - 1 ELSE 0]
    /\ UNCHANGED <<mapVars, window, requested, turn, loops, async, stopped, updated, aborted>>

LoopRefresh ==
    /\ InLoop /\ needRefresh
    /\ Refresh
    /\ UNCHANGED <<window, requested, frameVars, aborted>>

\* The event stays as it stood while it was talked to.
FinishFrame_standing ==
    /\ Ready /\ Finished(Last(Stack))
    /\ interp' = [interp EXCEPT
          ![Cur].showMessage = FALSE,
          ![Cur].stack = IF Len(@) = 1 /\ Cur # Foreground THEN <<[Last(@) EXCEPT !.pc = 1]>>
                                                           ELSE Front(@)]
    /\ IF Len(Stack) = 1 THEN doing' = "left" /\ UNCHANGED loops
                         ELSE loops' = loops + 1 /\ UNCHANGED doing
    /\ UNCHANGED <<mapVars, window, requested, turn, async, stopped, updated, aborted>>

\* OnFinishStackFrame: a called frame, and the last one of the foreground, is popped; a
\* parallel event begins anew in the next frame. An event whose commands were the first on
\* the foreground's stack is released.
FinishFrame_pops ==
    LET base == Len(Stack) = 1 IN
    /\ Ready /\ Finished(Last(Stack))
    /\ interp' = [interp EXCEPT ![Cur].showMessage = FALSE, ![Cur].stack = Front(@)]
    /\ paused' = IF base /\ Cur = Foreground /\ Last(Stack).event # NoEvent
                   THEN [paused EXCEPT ![Last(Stack).event] = FALSE] ELSE paused
    /\ IF base THEN doing' = "left" /\ UNCHANGED loops ELSE loops' = loops + 1 /\ UNCHANGED doing
    /\ UNCHANGED <<switches, needRefresh, page, active, waiting, window, requested, turn,
                   async, stopped, updated, aborted>>

FinishFrame ==
    LET base == Len(Stack) = 1 IN
    /\ Ready /\ Finished(Last(Stack))
    /\ interp' = [interp EXCEPT
          ![Cur].showMessage = FALSE,
          ![Cur].stack = IF base /\ Cur # Foreground THEN <<[Last(@) EXCEPT !.pc = 1]>>
                                                     ELSE Front(@)]
    /\ paused' = IF base /\ Cur = Foreground /\ Last(Stack).event # NoEvent
                   THEN [paused EXCEPT ![Last(Stack).event] = FALSE] ELSE paused
    /\ IF base THEN doing' = "left" /\ UNCHANGED loops ELSE loops' = loops + 1 /\ UNCHANGED doing
    /\ UNCHANGED <<switches, needRefresh, page, active, waiting, window, requested, turn,
                   async, stopped, updated, aborted>>

Com == CommandAt(Last(Stack))
Next1(f) == [f EXCEPT !.pc = @ + 1]

\* The top frame becomes f, and the loop goes on or is left.
Continue(f) ==
    /\ interp' = [interp EXCEPT ![Cur].stack = Append(Front(@), f), ![Cur].showMessage = FALSE]
    /\ loops' = loops + 1 /\ doing' = "loop"

LeaveWith(f) ==
    /\ interp' = [interp EXCEPT ![Cur].stack = Append(Front(@), f), ![Cur].showMessage = FALSE]
    /\ doing' = "left" /\ UNCHANGED loops

NextIs(codes) == Ready /\ ~Finished(Last(Stack)) /\ Com.code \in codes

\* Branches, loops, labels and the rest of Movement.
Move ==
    /\ NextIs({"ConditionalBranch", "ElseBranch", "EndBranch", "ShowChoiceOption",
               "ShowChoiceEnd", "Label", "JumpToLabel", "Loop", "BreakLoop", "EndLoop",
               "EndEventProcessing"})
    /\ Continue(Movement(Last(Stack), Com.code = "ConditionalBranch" /\ Holds(Com.arg, switches)))
    /\ UNCHANGED <<mapVars, window, requested, turn, async, stopped, updated, aborted>>

\* CommandControlSwitches.
ControlSwitches ==
    /\ NextIs({"ControlSwitches"})
    /\ switches' = [switches EXCEPT ![Com.arg[1]] = Com.arg[2]]
    /\ needRefresh' = TRUE
    /\ Continue(Next1(Last(Stack)))
    /\ UNCHANGED <<page, active, waiting, paused, window, requested, turn, async, stopped,
                   updated, aborted>>

\* CommandWait, for a time.
Wait ==
    /\ NextIs({"Wait"})
    /\ interp' = [interp EXCEPT ![Cur].stack = Append(Front(@), Next1(Last(@))),
                                ![Cur].wait = Com.arg, ![Cur].showMessage = FALSE]
    /\ loops' = loops + 1
    /\ UNCHANGED <<mapVars, window, requested, doing, turn, async, stopped, updated, aborted>>

\* CommandShowMessage and CommandShowChoices. Choices that follow a text are shown with it.
Opened(f) ==
    IF CommandAt(f).code = "ShowChoice"
      THEN [at |-> "choice", by |-> Cur, indent |-> CommandAt(f).indent,
            asked |-> <<f.list, f.pc>>]
      ELSE [NoWindow EXCEPT !.at = "text", !.by = Cur]

ShowMessage ==
    /\ NextIs({"ShowMessage"})
    /\ LET f == Next1(Last(Stack))
           with == ~Finished(f) /\ CommandAt(f).code = "ShowChoice"
       IN IF CanShowMessage
            THEN /\ window' = IF with THEN Opened(f) ELSE Opened(Last(Stack))
                 /\ interp' = [interp EXCEPT
                       ![Cur].stack = Append(Front(@), IF with THEN Next1(f) ELSE f),
                       ![Cur].showMessage = TRUE]
                 /\ loops' = loops + 1 /\ UNCHANGED doing
            ELSE /\ LeaveWith(Last(Stack))
                 /\ UNCHANGED window
    /\ UNCHANGED <<mapVars, requested, turn, async, stopped, updated, aborted>>

ShowChoices ==
    /\ NextIs({"ShowChoice"})
    /\ IF CanShowMessage
         THEN /\ window' = Opened(Last(Stack))
              /\ interp' = [interp EXCEPT ![Cur].stack = Append(Front(@), Next1(Last(@))),
                                          ![Cur].showMessage = TRUE]
              /\ doing' = "left" /\ UNCHANGED loops
         ELSE LeaveWith(Last(Stack)) /\ UNCHANGED window
    /\ UNCHANGED <<mapVars, requested, turn, async, stopped, updated, aborted>>

\* CommandEraseEvent: commands that ran in the background stop at once.
EraseEvent ==
    /\ NextIs({"EraseEvent"})
    /\ LET e == Last(Stack).event IN
         /\ active' = IF e = NoEvent THEN active ELSE [active EXCEPT ![e] = FALSE]
         /\ IF e # NoEvent /\ Cur # Foreground THEN LeaveWith(Next1(Last(Stack)))
                                         ELSE Continue(Next1(Last(Stack)))
    /\ UNCHANGED <<switches, needRefresh, page, waiting, paused, window, requested, turn, async,
                   stopped, updated, aborted>>

\* CommandCallEvent: the frame that calls is moved on, the new one is on top of it.
CallEvent ==
    /\ NextIs({"CallEvent"})
    /\ LET moved == Append(Front(Stack), Next1(Last(Stack))) IN
       IF Code[Com.arg.list] # <<>> /\ Len(Stack) > CallStackLimit
         THEN aborted' = TRUE /\ UNCHANGED <<interp, loops>>
         ELSE /\ interp' = [interp EXCEPT
                    ![Cur].stack = IF Code[Com.arg.list] = <<>> THEN moved
                                   ELSE Append(moved, NewFrame(Com.arg.list, Com.arg.event)),
                    ![Cur].showMessage = FALSE]
              /\ loops' = loops + 1 /\ UNCHANGED aborted
    /\ UNCHANGED <<mapVars, window, requested, doing, turn, async, stopped, updated>>

\* CommandEraseScreen, CommandShowScreen and saving: the frame is to be suspended.
AsyncCommand ==
    /\ NextIs({"EraseScreen", "Save"})
    /\ IF MessageActive
         THEN LeaveWith(Last(Stack)) /\ UNCHANGED async
         ELSE /\ Continue(Next1(Last(Stack)))
              /\ async' = IF Com.code = "Save" THEN Com.arg
                          ELSE IF requested THEN async ELSE "screen"
    /\ UNCHANGED <<mapVars, window, requested, turn, stopped, updated, aborted>>

\* CommandGameOver, and the other commands that call a scene.
CallScene ==
    /\ NextIs({"CallScene"})
    /\ IF MessageActive
         THEN LeaveWith(Last(Stack)) /\ UNCHANGED requested
         ELSE LeaveWith(Next1(Last(Stack))) /\ requested' = TRUE
    /\ UNCHANGED <<mapVars, window, turn, async, stopped, updated, aborted>>

Execute ==
    \/ Move \/ ControlSwitches \/ Wait \/ ShowMessage \/ ShowChoices
    \/ EraseEvent \/ CallEvent \/ AsyncCommand \/ CallScene

-----------------------------------------------------------------------------
\* The end of Update, and what its caller does then.
LeftRefresh ==
    /\ doing = "left" /\ needRefresh
    /\ Refresh
    /\ UNCHANGED <<window, requested, frameVars, aborted>>

\* OnAsyncSuspend: a save sets the switch that says how it went, which turns pages over.
Saves ==
    /\ switches' = [s \in Switches |-> s = async \/ switches[s]]
    /\ needRefresh' = (async \in Switches)

Left ==
    /\ doing = "left" /\ ~needRefresh
    /\ CASE async # "none" ->
              /\ doing' = "suspended"
              /\ stopped' = IF Stack = <<>> THEN <<>> ELSE <<Last(Stack)>>
              /\ Saves
              /\ UNCHANGED <<page, active, waiting, paused, turn, loops, async, updated>>
         [] async = "none" /\ Cur = Foreground ->
              /\ doing' = "foreground"
              /\ UNCHANGED <<mapVars, turn, loops, async, stopped, updated>>
         [] OTHER -> EndTurn(Cur)
    /\ UNCHANGED <<interp, window, requested, aborted>>

\* Game_Map::Update once more, from where it was suspended. What is reset is reset.
ResumeRefresh ==
    /\ doing = "suspended"
    /\ RefreshIfNeeded
    /\ doing' = "resuming"
    /\ UNCHANGED <<window, requested, turn, loops, async, stopped, updated, aborted>>

\* The frame begins anew.
Resume_again ==
    /\ doing = "resuming"
    /\ async' = "none" /\ doing' = "events" /\ turn' = 1
    /\ UNCHANGED <<mapVars, interp, window, requested, loops, stopped, updated, aborted>>

\* What was pending stays so.
Resume_pending ==
    /\ doing = "resuming" /\ doing' = "loop"
    /\ interp' = IF Cur = Foreground THEN interp ELSE WithCommands(Cur)
    /\ UNCHANGED <<mapVars, window, requested, turn, loops, async, stopped, updated, aborted>>

Resume ==
    /\ doing = "resuming"
    /\ IF Cur \in Range(MapEvents) /\ ~active[Cur]
         THEN doing' = "left" /\ UNCHANGED interp
         ELSE /\ doing' = "loop"
              /\ interp' = IF Cur = Foreground THEN interp ELSE WithCommands(Cur)
    /\ async' = "none"
    /\ UNCHANGED <<mapVars, window, requested, turn, loops, stopped, updated, aborted>>

-----------------------------------------------------------------------------
\* The player walks into or talks to an event, or nobody; then the message window.
PlayerUpdate ==
    /\ doing = "events" /\ turn > Len(Order)
    /\ doing' = "message"
    /\ \/ \E e \in Range(MapEvents) : TriggerOf(e) = "action" /\ Schedule(e)
       \/ UNCHANGED <<waiting, paused>>
    /\ UNCHANGED <<switches, needRefresh, page, active, interp, window, requested, turn,
                   loops, async, stopped, updated, aborted>>

\* InputChoice with the continuation of SetupChoices: the index goes to the frame that is
\* on top now. GetFrame asserts that there is one.
Answer(k) ==
    LET i == window.by
        f == Last(interp[i].stack)
    IN
    /\ window.at = "choice"
    /\ window' = [NoWindow EXCEPT !.at = "started"]
    /\ IF interp[i].stack = <<>>
         THEN aborted' = TRUE /\ UNCHANGED interp
         ELSE /\ interp' = [interp EXCEPT ![i].stack = Append(Front(@),
                    [f EXCEPT !.path[window.indent] = k,
                              !.took = IF f.list = window.asked[1]
                                         THEN [@ EXCEPT ![window.asked[2]] = k] ELSE @])]
              /\ UNCHANGED aborted

\* Window_Message::Update, then the first call of the foreground interpreter.
UpdateMessage ==
    /\ doing = "message"
    /\ \/ /\ window.at \in {"text", "choice"}      \* the text runs, or nobody answers
          /\ UNCHANGED <<window, interp, aborted>>
       \/ \E k \in {0, 1} : Answer(k)
       \/ /\ window.at \notin {"choice"}
          /\ window' = [NoWindow EXCEPT !.at =
                CASE window.at = "text" -> "started" [] window.at = "started" -> "closing"
                  [] window.at = "closing" -> "finished" [] OTHER -> "none"]
          /\ UNCHANGED <<interp, aborted>>
    /\ doing' = IF interp[Foreground].stack = <<>> THEN "foreground" ELSE "loop"
    /\ loops' = 0
    /\ UNCHANGED <<mapVars, requested, turn, async, stopped, updated>>

\* UpdateForegroundEvents, after the interpreter has returned: the next commands that wait.
\* Erased events stop waiting (here all at once: they never act again).
Waiting == {n \in DOMAIN MapEvents : waiting[MapEvents[n]] /\ active[MapEvents[n]]}

AutoEvents ==
    {n \in DOMAIN CommonEvents :
        LET e == CommonEvents[n] IN
        TriggerOf(e) = "auto" /\ Holds(PageOf(e).switch, switches) /\ ListOf(e) # <<>>}

\* Commands that wait: those of a common event, and on top of them those of an event.
FirstAuto == CommonEvents[Min(AutoEvents)]
FirstWaiting == MapEvents[Min(Waiting)]
Pushed ==
    (IF AutoEvents = {} THEN <<>> ELSE <<NewFrame(PageOf(FirstAuto).list, NoEvent)>>)
      \o (IF Waiting = {} THEN <<>> ELSE <<NewFrame(PageOf(FirstWaiting).list, FirstWaiting)>>)

Stops == Stack # <<>> \/ loops >= LoopLimit \/ (requested /\ loops > 0)

RunForeground_reset ==
    /\ doing = "foreground" /\ ~Stops /\ Pushed # <<>>
    /\ interp' = [interp EXCEPT ![Foreground] = [Idle EXCEPT !.stack = Pushed]]
    /\ waiting' = [e \in Parallel |->
                      waiting[e] /\ active[e] /\ (Waiting = {} \/ e # FirstWaiting)]
    /\ doing' = "loop" /\ loops' = 0
    /\ UNCHANGED <<switches, needRefresh, page, active, paused, window, requested, turn,
                   async, stopped, updated, aborted>>

RunForeground ==
    /\ doing = "foreground" /\ ~Stops /\ Pushed # <<>>
    /\ interp' = [interp EXCEPT ![Foreground] = [Idle EXCEPT !.stack = Pushed]]
    /\ waiting' = [e \in Parallel |->
                      waiting[e] /\ active[e] /\ (Waiting = {} \/ e # FirstWaiting)]
    /\ doing' = "loop"
    /\ UNCHANGED <<switches, needRefresh, page, active, paused, window, requested, turn,
                   loops, async, stopped, updated, aborted>>

\* The frame is over. A scene that was requested comes and goes.
EndFrame ==
    /\ doing = "foreground" /\ (Stops \/ Pushed = <<>>)
    /\ doing' = "idle" /\ turn' = 1 /\ requested' = FALSE
    /\ UNCHANGED <<mapVars, interp, window, loops, async, stopped, updated, aborted>>

\* A switchsync packet.
ReceiveSwitch ==
    /\ doing \in {"idle", "suspended"} /\ ~aborted
    /\ \E s \in Shared, value \in BOOLEAN : switches' = [switches EXCEPT ![s] = value]
    /\ needRefresh' = TRUE
    /\ UNCHANGED <<page, active, waiting, paused, interp, window, requested, frameVars, aborted>>

Step ==
    \/ BeginTurn \/ LeaveLoop \/ LoopRefresh \/ FinishFrame \/ Execute \/ LeftRefresh \/ Left
    \/ ResumeRefresh \/ Resume \/ PlayerUpdate \/ UpdateMessage \/ RunForeground \/ EndFrame

EventsNext == StartFrame \/ Step \/ ReceiveSwitch

EventsSpec == EventsInit /\ [][EventsNext]_eventVars

\* The program runs on; transitions and saves come to an end.
FairEvents == EventsSpec /\ WF_eventVars(Step)

-----------------------------------------------------------------------------
(* Properties.                                                             *)

\* Only the arms that were chosen are executed, however messages, other interpreters and
\* calls come between the decision and the arm (GetSubcommandIndex, SetSubcommandIndex).
OnlyChosenArms ==
    \A i \in Interpreters : \A k \in DOMAIN interp[i].stack : InChosenArms(interp[i].stack[k])

\* "assert(interpreter->IsRunning())" of Game_CommonEvent::Update.
ParallelNeverEnds ==
    \A e \in Range(CommonEvents) :
        TriggerOf(e) = "parallel" /\ ListOf(e) # <<>> => interp[e].stack # <<>>

\* What runs in the background belongs to the page that is open, and that page asks for it.
BackgroundIsOpenPage ==
    \A e \in Range(MapEvents) :
        interp[e].stack # <<>> /\ page[e] # 0 =>
            TriggerOf(e) = "parallel" /\ interp[e].stack[1].list = PageOf(e).list

\* While the player is asked, the frame that asks is on top of its interpreter, right
\* after the question: the answer goes where it belongs.
AnswerFindsItsFrame ==
    window.at = "choice" =>
        LET s == interp[window.by].stack IN
        s # <<>> /\ <<Last(s).list, Last(s).pc - 1>> = window.asked

\* An answer finds a frame: "assert(frame)" of GetFrame.
AnswerFindsAFrame == window.at = "choice" => interp[window.by].stack # <<>>

\* An event that stands still waits for its commands or runs them, as long as no common event
\* starts by itself: its commands would be called first.
StandsStillToAct ==
    \A e \in Range(MapEvents) :
        /\ active[e] /\ paused[e]
        /\ \A p \in CommonPages : p.trigger # "auto"
        => waiting[e] \/ \E k \in DOMAIN interp[Foreground].stack :
                            interp[Foreground].stack[k].event = e

\* The choices of i are on the screen.
Asks(i) == window.at = "choice" /\ window.by = i

\* A page is turned over while the parallel interpreter of the event asks the player, or is
\* suspended: its commands are gone when the answer comes or the frame goes on
\* (Game_Event::RefreshPage).
Overtaken ==
    \E e \in Parallel :
        /\ interp[e].stack # <<>> /\ interp'[e].stack = <<>>
        /\ Asks(e) \/ (async # "none" /\ Cur = e)

\* All of these: pages, questions and interpreters never lose each other, whatever packets,
\* events and answers come between two commands.
EventsInv ==
    /\ EventsTypeOK
    /\ OnlyChosenArms
    /\ ParallelNeverEnds /\ BackgroundIsOpenPage
    /\ AnswerFindsItsFrame
    /\ StandsStillToAct

\* An event that had its turn is not run again in the same frame, whatever suspends it.
OncePerFrame ==
    \A e \in updated :
        interp'[e].stack \in {interp[e].stack, <<>>} \/ doing \in {"message", "idle"}

\* "... and then resume from the suspension point" (async_op.h).
ResumesWhereItStopped ==
    doing = "resuming" /\ doing' = "loop" =>
        interp'[Cur].stack # <<>> /\ <<Last(interp'[Cur].stack)>> = stopped

\* A frame that is suspended in the middle is gone through once, from its beginning to its end.
EventsInOrder == [][OncePerFrame /\ ResumesWhereItStopped]_eventVars

\* A frame ends, whatever loops its events have.
FramesEnd == doing # "idle" ~> (doing = "idle" \/ aborted)

=============================================================================
