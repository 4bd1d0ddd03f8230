----------------------------- MODULE AsyncFiles -----------------------------
(***************************************************************************)
(* The asynchronous files of the web player (src/src/async_handler.cpp):   *)
(* requests, their bindings and the calls of their listeners.              *)
(*                                                                         *)
(* An owner is a place that keeps one binding: the request_id of a sprite, *)
(* the music_request_id, a picture. Binding again, or destroying the owner,*)
(* expires the old one. A listener may ask for more files while it runs,   *)
(* and a ready file is delivered inside of that call: stack is the C++ call *)
(* stack of CallListeners. Nothing else runs while it is not empty.        *)
(*                                                                         *)
(* Binding to a file, or starting it, while its own listeners are called   *)
(* changes the vector the loop in CallListeners runs over. Such a loop is  *)
(* stale: it may call or skip what it had left.                            *)
(***************************************************************************)
EXTENDS Naturals, Sequences, FiniteSets, SequencesExt

CONSTANTS Files, Owners,
          Embedded,         \* files built into the program (CACHE_DEFAULT_BITMAP)
          GraphicOwners,    \* those that ask for a graphic
          ImportantOwners,  \* those whose files stop the game
          NoFile, NoOwner, Expired,
          SelfAsks,         \* a listener may ask again for the file it is called for
          MaxListeners,     \* bound on the listeners of a file
          MaxDepth          \* bound on the nesting of CallListeners

AsyncFilesAssumption ==
    /\ Embedded \subseteq Files /\ NoFile \notin Files
    /\ GraphicOwners \subseteq Owners /\ ImportantOwners \subseteq Owners
    /\ NoOwner \notin Owners /\ Expired \notin Owners
    /\ SelfAsks \in BOOLEAN
    /\ MaxListeners \in Nat /\ MaxDepth \in Nat

VARIABLES
    state,      \* file -> state of its request, "none" before RequestFile
    important,  \* file -> FileRequestAsync::important
    graphic,    \* file -> FileRequestAsync::graphic
    listeners,  \* file -> FileRequestAsync::listeners, expired ones included
    stack,      \* the calls of CallListeners that run, the innermost last
    erased,     \* Transition::IsErasedNotActive()
    asked,      \* owner -> file of the binding it holds (history)
    hidden,     \* owner -> it asked behind an erased screen (history)
    answers,    \* owner -> calls of that binding's listener, 2 for more (history)
    shown,      \* owner -> file its listener was last called with (history)
    askedAgain  \* a listener asked again for the file it was called for (history)

requestVars == <<state, important, graphic>>
ownerVars == <<asked, hidden, answers, shown, askedAgain>>
fileVars == <<requestVars, listeners, stack, erased, ownerVars>>

States == {"none", "WaitForStart", "Pending", "DoneSuccess", "DoneFailure"}
Entries == Owners \cup {Expired}

\* A call of CallListeners: what its loop has left, and whose listener runs.
Loop == [file : Files, todo : Seq(Entries), running : Owners \cup {NoOwner}, stale : BOOLEAN]

FilesTypeOK ==
    /\ state \in [Files -> States]
    /\ important \in [Files -> BOOLEAN] /\ graphic \in [Files -> BOOLEAN]
    /\ listeners \in [Files -> Seq(Entries)]
    /\ stack \in Seq(Loop)
    /\ erased \in BOOLEAN
    /\ asked \in [Owners -> Files \cup {NoFile}]
    /\ hidden \in [Owners -> BOOLEAN]
    /\ answers \in [Owners -> 0..2]
    /\ shown \in [Owners -> Files \cup {NoFile}]
    /\ askedAgain \in BOOLEAN /\ (askedAgain => SelfAsks)

FilesInit ==
    /\ state = [f \in Files |-> "none"]
    /\ important = [f \in Files |-> FALSE] /\ graphic = [f \in Files |-> FALSE]
    /\ listeners = [f \in Files |-> <<>>]
    /\ stack = <<>>
    /\ erased \in BOOLEAN
    /\ asked = [o \in Owners |-> NoFile]
    /\ hidden = [o \in Owners |-> FALSE]
    /\ answers = [o \in Owners |-> 0]
    /\ shown = [o \in Owners |-> NoFile]
    /\ askedAgain = FALSE

-----------------------------------------------------------------------------
IsReady(f) == state[f] \in {"DoneSuccess", "DoneFailure"}

IsFilePending(onlyImportant, onlyGraphic) ==
    \E f \in Files : /\ state[f] # "none" /\ ~IsReady(f)
                     /\ onlyImportant => important[f]
                     /\ onlyGraphic => graphic[f]

IsImportantFilePending == IsFilePending(TRUE, FALSE)
IsGraphicFilePending == IsFilePending(FALSE, TRUE)

\* The weak bindings of an owner that lets its binding go.
Expire(o, entries) == [i \in DOMAIN entries |-> IF entries[i] = o THEN Expired ELSE entries[i]]

\* What the loops that run see of it, and of a change to the listeners of a file.
Loops(o, touched) ==
    [i \in DOMAIN stack |->
        [stack[i] EXCEPT !.todo = Expire(o, @), !.stale = @ \/ stack[i].file = touched]]

\* The listener that runs does not come back to its request after this.
Leave(calls) == IF calls = <<>> THEN calls ELSE [calls EXCEPT ![Len(calls)].running = NoOwner]

CallListeners(f, entries) == [file |-> f, todo |-> entries, running |-> NoOwner, stale |-> FALSE]

\* Start of a request that is ready, or whose file is embedded, calls the listeners at
\* once; else it begins the download. The state of the request and the calls after it:
Fires(f) == f \in Embedded \/ IsReady(f)
Started_never(f) == IF state[f] = "none" THEN "WaitForStart" ELSE state[f]

Started(f) == IF IsReady(f) THEN state[f] ELSE IF f \in Embedded THEN "DoneSuccess" ELSE "Pending"

Bind_keeps(o, f) == [g \in Files |-> IF g = f THEN Append(listeners[g], o) ELSE listeners[g]]

\* RequestFile, SetGraphicFile, SetImportantFile, Bind (unless o is NoOwner) and Start,
\* as one caller does them. A graphic asked for behind an erased screen is important.
Bind(o, f) == [g \in Files |-> IF g = f THEN Append(Expire(o, listeners[g]), o)
                                        ELSE Expire(o, listeners[g])]

SetFlags_plain(f, isGraphic, isImportant) ==
    /\ graphic' = graphic
    /\ important' = [important EXCEPT ![f] = @ \/ isImportant]

SetFlags(f, isGraphic, isImportant) ==
    /\ graphic' = [graphic EXCEPT ![f] = @ \/ isGraphic]
    /\ important' = [important EXCEPT ![f] = @ \/ isImportant \/ (isGraphic /\ erased)]

Ask(o, f) ==
    /\ Len(listeners[f]) < MaxListeners
    /\ SetFlags(f, o \in GraphicOwners, o \in ImportantOwners)
    /\ state' = [state EXCEPT ![f] = Started(f)]
    /\ listeners' = Bind(o, f)
    /\ stack' = IF Fires(f)
                  THEN Append(Leave(Loops(o, f)), CallListeners(f, listeners'[f]))
                  ELSE Leave(Loops(o, f))
    /\ asked' = [asked EXCEPT ![o] = f]
    /\ hidden' = [hidden EXCEPT ![o] = erased]
    /\ answers' = [answers EXCEPT ![o] = 0]
    /\ UNCHANGED <<erased, shown>>

-----------------------------------------------------------------------------
(* The game and the browser, while no listener runs.                       *)

AskForFile(o, f) == stack = <<>> /\ Ask(o, f) /\ UNCHANGED askedAgain

\* A file that is only downloaded: nothing is bound (Scene_Logo::OnIndexReady).
Fetch(f) ==
    /\ stack = <<>>
    /\ SetFlags(f, FALSE, TRUE)
    /\ state' = [state EXCEPT ![f] = Started(f)]
    /\ stack' = IF Fires(f) THEN <<CallListeners(f, listeners[f])>> ELSE stack
    /\ UNCHANGED <<listeners, erased, ownerVars>>

\* The owner is destroyed, or resets its binding.
Release(o) ==
    /\ stack = <<>>
    /\ asked[o] # NoFile
    /\ listeners' = [f \in Files |-> Expire(o, listeners[f])]
    /\ asked' = [asked EXCEPT ![o] = NoFile]
    /\ hidden' = [hidden EXCEPT ![o] = FALSE]
    /\ answers' = [answers EXCEPT ![o] = 0]
    /\ UNCHANGED <<requestVars, stack, erased, shown, askedAgain>>

\* On a failure the listeners are not called.
DownloadDone_silent(f, success) ==
    /\ stack = <<>>
    /\ state[f] = "Pending"
    /\ state' = [state EXCEPT ![f] = IF success THEN "DoneSuccess" ELSE "DoneFailure"]
    /\ stack' = IF success THEN <<CallListeners(f, listeners[f])>> ELSE stack
    /\ UNCHANGED <<important, graphic, listeners, erased, ownerVars>>

\* The outcome is taken before it is known to be one.
DownloadDone_early(f, success) ==
    /\ stack = <<>>
    /\ state[f] = "Pending"
    /\ state' = [state EXCEPT ![f] = "Done"]
    /\ stack' = <<CallListeners(f, listeners[f])>>
    /\ UNCHANGED <<important, graphic, listeners, erased, ownerVars>>

\* The browser: download_success, download_failure.
DownloadDone(f, success) ==
    /\ stack = <<>>
    /\ state[f] = "Pending"
    /\ state' = [state EXCEPT ![f] = IF success THEN "DoneSuccess" ELSE "DoneFailure"]
    /\ stack' = <<CallListeners(f, listeners[f])>>
    /\ UNCHANGED <<important, graphic, listeners, erased, ownerVars>>

Transition ==
    /\ stack = <<>>
    /\ erased' = ~erased
    /\ UNCHANGED <<requestVars, listeners, stack, ownerVars>>

-----------------------------------------------------------------------------
(* CallListeners, one listener at a time.                                  *)

Top == stack[Len(stack)]
WithTop(loop) == [stack EXCEPT ![Len(stack)] = loop]

\* An expired binding is passed over.
Skip ==
    /\ stack # <<>> /\ Top.running = NoOwner /\ Top.todo # <<>>
    /\ Head(Top.todo) = Expired \/ Top.stale
    /\ stack' = WithTop([Top EXCEPT !.todo = Tail(@)])
    /\ UNCHANGED <<requestVars, listeners, erased, ownerVars>>

Call(o) ==
    /\ stack # <<>> /\ Top.running = NoOwner /\ Top.todo # <<>>
    /\ Head(Top.todo) = o
    /\ stack' = WithTop([Top EXCEPT !.todo = Tail(@), !.running = o])
    /\ shown' = [shown EXCEPT ![o] = Top.file]
    /\ answers' = [answers EXCEPT ![o] = IF @ = 0 THEN 1 ELSE 2]
    /\ UNCHANGED <<requestVars, listeners, erased, asked, hidden, askedAgain>>

\* The listener asks for a file before it returns: OnBgmReady for the file a link
\* names, a Sprite_Character whose graphic changed while it waited, a new map.
CallAsks(o, f) ==
    /\ stack # <<>> /\ Top.running # NoOwner
    /\ Len(stack) < MaxDepth
    /\ \/ f \notin {stack[i].file : i \in DOMAIN stack} /\ UNCHANGED askedAgain
       \/ SelfAsks /\ f = Top.file /\ o = Top.running /\ askedAgain' = TRUE
    /\ Ask(o, f)

CallReturns ==
    /\ stack # <<>> /\ Top.running # NoOwner
    /\ stack' = Leave(stack)
    /\ UNCHANGED <<requestVars, listeners, erased, ownerVars>>

\* The listeners stay bound after they were called.
LoopEnds_keeps ==
    /\ stack # <<>> /\ Top.running = NoOwner /\ Top.todo = <<>>
    /\ listeners' = listeners
    /\ stack' = Front(stack)
    /\ UNCHANGED <<requestVars, erased, ownerVars>>

\* listeners.clear(); an outer loop over the same listeners is stale from here on.
LoopEnds ==
    /\ stack # <<>> /\ Top.running = NoOwner /\ Top.todo = <<>>
    /\ listeners' = [listeners EXCEPT ![Top.file] = <<>>]
    /\ stack' = [i \in 1..(Len(stack) - 1) |->
                    [stack[i] EXCEPT !.stale = @ \/ stack[i].file = Top.file]]
    /\ UNCHANGED <<requestVars, erased, ownerVars>>

-----------------------------------------------------------------------------
CallStep ==
    \/ Skip
    \/ \E o \in Owners : Call(o)
    \/ CallReturns
    \/ LoopEnds

FilesNext ==
    \/ \E o \in Owners, f \in Files : AskForFile(o, f)
    \/ \E f \in Files : Fetch(f)
    \/ \E o \in Owners : Release(o)
    \/ \E f \in Files, success \in BOOLEAN : DownloadDone(f, success)
    \/ Transition
    \/ \E o \in Owners, f \in Files : CallAsks(o, f)
    \/ CallStep

FilesSpec == FilesInit /\ [][FilesNext]_fileVars

\* The browser ends every download, one way or the other, and gives its callback a turn
\* however busy the game is; a call of CallListeners runs to its end.
BrowserEnds(f) == \E success \in BOOLEAN : DownloadDone(f, success)
FairFilesSpec == FilesSpec /\ WF_fileVars(CallStep) /\ \A f \in Files : SF_fileVars(BrowserEnds(f))

-----------------------------------------------------------------------------
(* Properties.                                                             *)

Idle == stack = <<>>
Answered(o) == asked[o] # NoFile => shown[o] = asked[o]

\* The last ask wins: once the file an owner asked for last is there, that is the one
\* it was called with last, whatever came before it, in whichever order (the request_id
\* of Sprite_Character::Update and its like).
LastAskWins ==
    Idle => \A o \in Owners : asked[o] # NoFile /\ IsReady(asked[o]) => Answered(o)

\* A transition that waits for the graphics (transition.cpp:408) shows all of them:
\* with no graphic pending, every owner of one has been called for it.
GraphicsAreThere ==
    Idle /\ ~IsGraphicFilePending => \A o \in GraphicOwners : Answered(o)

\* What a graphic was asked for behind an erased screen is there before the game goes on
\* (SetGraphicFile: "the screen is erased, so you can't see any delays").
ErasedScreenWaits ==
    Idle /\ ~IsImportantFilePending => \A o \in GraphicOwners : hidden[o] => Answered(o)

\* A game that is stopped by an important file, or a transition by a graphic, waits for
\* the browser: no request is left that nobody started (async_handler.cpp:181).
BlockedByDownloads == Idle => \A f \in Files : state[f] # "WaitForStart"

\* A binding is called at most once (async_handler.h:165, "one-shot"), as long as no listener
\* has asked again for the file it was called for.
OneShot == ~askedAgain => \A o \in Owners : answers[o] <= 1

\* All of these: in every order of asks, downloads and nested calls each owner gets the
\* file it asked for last, once, and what waits for files waits for exactly those that
\* are on their way.
FilesInv ==
    /\ FilesTypeOK
    /\ LastAskWins
    /\ GraphicsAreThere /\ ErasedScreenWaits
    /\ BlockedByDownloads
    /\ OneShot

\* What is promised to the owners: FileAsks. An owner waits until it is called.
Asks == INSTANCE FileAsks WITH
            wanted <- [o \in Owners |-> IF answers[o] = 0 THEN asked[o] ELSE NoFile],
            got <- shown

\* Every owner is called once for the last file it asked for and for nothing else, and
\* one that keeps its binding is called in the end.
EveryAskAnswered == Asks!FairSpec

=============================================================================
