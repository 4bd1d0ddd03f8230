---------------------------- MODULE World_proofs ----------------------------
(***************************************************************************)
(* Theorems about what a game counts with. AsyncFiles, for any number of   *)
(* files, owners, listeners and nested calls: the last ask wins, nothing   *)
(* waits for a request that nobody started, and a binding is called at     *)
(* most once as long as no listener asks for the file it is called for.    *)
(* SharedWorld, for any number of players, switches, whitelists, kinds of  *)
(* weather, places and packets on their way: whatever one player writes    *)
(* arrives at the others, the newest last, and nobody touches what another *)
(* keeps to himself. Variables, for any width of a word, limits and        *)
(* ranges: what the operations on ranges write is what their loops mean.   *)
(***************************************************************************)
EXTENDS AsyncFiles, SharedWorld, Variables, FiniteSetTheorems, SequenceTheorems,
        WellFoundedInduction, TLAPS

-----------------------------------------------------------------------------
(* Vectors of listeners.                                                    *)

Has(s, o) == \E i \in DOMAIN s : s[i] = o

\* No owner is in s twice.
Once(s) == \A i, j \in DOMAIN s : s[i] \in Owners /\ s[i] = s[j] => i = j

\* A binding that is let go leaves an expired entry and nothing else.
LEMMA ExpireFacts ==
    ASSUME AsyncFilesAssumption, NEW s \in Seq(Entries), NEW o \in Owners
    PROVE  /\ Expire(o, s) \in Seq(Entries)
           /\ ~Has(Expire(o, s), o)
           /\ \A v \in Owners : v # o => (Has(Expire(o, s), v) <=> Has(s, v))
           /\ Once(s) => Once(Expire(o, s))
<1> DEFINE e == Expire(o, s)
<1>1. Expired \notin Owners /\ Expired \in Entries
  BY DEF AsyncFilesAssumption, Entries
<1>2. /\ Len(s) \in Nat /\ DOMAIN s = 1 .. Len(s) /\ \A i \in 1 .. Len(s) : s[i] \in Entries
  BY LenProperties, ElementOfSeq
<1>3. e = [i \in 1 .. Len(s) |-> IF s[i] = o THEN Expired ELSE s[i]]
  BY <1>2 DEF Expire
<1>4. e \in Seq(Entries)
  <2>1. \A i \in 1 .. Len(s) : (IF s[i] = o THEN Expired ELSE s[i]) \in Entries
    BY <1>1, <1>2
  <2> QED
    BY <1>2, <1>3, <2>1, IsASeq
<1>5. DOMAIN e = DOMAIN s /\ \A i \in DOMAIN s : e[i] = IF s[i] = o THEN Expired ELSE s[i]
  BY <1>2, <1>3
<1> HIDE DEF e
<1> QED
  BY <1>1, <1>4, <1>5 DEF Has, Once, e

LEMMA AddFacts ==
    ASSUME NEW s \in Seq(Entries), NEW o \in Owners
    PROVE  /\ Append(s, o) \in Seq(Entries)
           /\ \A v : Has(Append(s, o), v) <=> Has(s, v) \/ v = o
           /\ Once(s) /\ ~Has(s, o) => Once(Append(s, o))
<1> DEFINE t == Append(s, o)
<1>1. o \in Entries
  BY DEF Entries
<1>2. /\ t \in Seq(Entries) /\ Len(s) \in Nat /\ DOMAIN s = 1 .. Len(s)
      /\ DOMAIN t = 1 .. Len(s) + 1 /\ t[Len(s) + 1] = o
      /\ \A i \in 1 .. Len(s) : t[i] = s[i]
  BY <1>1, AppendProperties
<1> HIDE DEF t
<1>3. ASSUME NEW v PROVE Has(t, v) <=> Has(s, v) \/ v = o
  <2>1. ASSUME NEW i \in DOMAIN t, t[i] = v PROVE Has(s, v) \/ v = o
    BY <1>2, <2>1 DEF Has
  <2>2. ASSUME NEW i \in DOMAIN s, s[i] = v PROVE Has(t, v)
    BY <1>2, <2>2 DEF Has
  <2>3. Has(t, o)
    BY <1>2 DEF Has
  <2> QED
    BY <2>1, <2>2, <2>3 DEF Has
<1>4. Once(s) /\ ~Has(s, o) => Once(t)
  BY <1>2 DEF Once, Has
<1> QED
  BY <1>2, <1>3, <1>4 DEF t

LEMMA RestFacts ==
    ASSUME NEW s \in Seq(Entries), s # <<>>
    PROVE  /\ Tail(s) \in Seq(Entries) /\ Has(s, Head(s)) /\ Head(s) \in Entries
           /\ \A v : Has(Tail(s), v) => Has(s, v)
           /\ \A v : Has(s, v) /\ v # Head(s) => Has(Tail(s), v)
           /\ Once(s) => Once(Tail(s))
           /\ Once(s) /\ Head(s) \in Owners => ~Has(Tail(s), Head(s))
<1> DEFINE t == Tail(s)
<1>1. /\ t \in Seq(Entries) /\ Len(s) \in Nat \ {0} /\ DOMAIN s = 1 .. Len(s)
      /\ DOMAIN t = 1 .. Len(s) - 1 /\ \A i \in 1 .. Len(s) - 1 : t[i] = s[i + 1]
      /\ Head(s) = s[1] /\ Head(s) \in Entries
  <2>1. Len(s) \in Nat \ {0} /\ DOMAIN s = 1 .. Len(s)
    BY EmptySeq, LenProperties
  <2>2. /\ Head(s) \in Entries /\ t \in Seq(Entries) /\ Len(t) = Len(s) - 1
        /\ \A i \in 1 .. Len(t) : t[i] = s[i + 1]
    BY HeadTailProperties
  <2>3. Head(s) = s[1]
    OBVIOUS
  <2> HIDE DEF t
  <2>4. DOMAIN t = 1 .. Len(t)
    BY <2>2, LenProperties
  <2> QED
    BY <2>1, <2>2, <2>3, <2>4
<1> HIDE DEF t
<1>2. ASSUME NEW v, Has(t, v) PROVE Has(s, v)
  <2>1. PICK i \in DOMAIN t : t[i] = v
    BY <1>2 DEF Has
  <2>2. i + 1 \in DOMAIN s /\ s[i + 1] = v
    BY <1>1, <2>1
  <2> QED
    BY <2>2 DEF Has
<1>3. ASSUME NEW v, Has(s, v), v # Head(s) PROVE Has(t, v)
  <2>1. PICK i \in DOMAIN s : s[i] = v
    BY <1>3 DEF Has
  <2>2. i - 1 \in DOMAIN t /\ t[i - 1] = v
    BY <1>1, <1>3, <2>1
  <2> QED
    BY <2>2 DEF Has
<1>4. ASSUME Once(s), NEW i \in DOMAIN t, NEW j \in DOMAIN t, t[i] \in Owners, t[i] = t[j]
      PROVE  i = j
  <2>1. i + 1 \in DOMAIN s /\ j + 1 \in DOMAIN s /\ t[i] = s[i + 1] /\ t[j] = s[j + 1]
    BY <1>1
  <2>2. i + 1 = j + 1
    BY <1>4, <2>1 DEF Once
  <2> QED
    BY <1>1, <2>2
<1>5. Once(s) /\ Head(s) \in Owners => ~Has(t, Head(s))
  <2> SUFFICES ASSUME Once(s), Head(s) \in Owners, NEW i \in DOMAIN t, t[i] = Head(s) PROVE FALSE
    BY DEF Has
  <2>1. i + 1 \in DOMAIN s /\ s[i + 1] = s[1] /\ 1 \in DOMAIN s /\ s[1] \in Owners
    BY <1>1
  <2>2. i + 1 = 1
    BY <2>1 DEF Once
  <2> QED
    BY <1>1, <2>2
<1>6. Has(s, Head(s))
  BY <1>1 DEF Has
<1> QED
  BY <1>1, <1>2, <1>3, <1>4, <1>5, <1>6 DEF t, Once

-----------------------------------------------------------------------------
(* The inductive invariant.                                                 *)

Calls == 1 .. Len(stack)

Waits(o, f) == asked[o] = f /\ answers[o] = 0

\* An entry that did not expire stands for the last ask of its owner.
Current ==
    /\ \A f \in Files, o \in Owners : Has(listeners[f], o) => asked[o] = f
    /\ \A n \in Calls, o \in Owners : Has(stack[n].todo, o) => asked[o] = stack[n].file

\* The request of a file somebody asked for was made, with the flags he asked for.
Requested ==
    \A o \in Owners : asked[o] # NoFile =>
        /\ state[asked[o]] # "none"
        /\ o \in GraphicOwners => graphic[asked[o]]
        /\ o \in GraphicOwners /\ hidden[o] => important[asked[o]]

\* Who was not called yet is still bound, who was called was called for the right file.
Bound == \A o \in Owners, f \in Files : Waits(o, f) => Has(listeners[f], o)
Served == \A o \in Owners : asked[o] # NoFile /\ answers[o] # 0 => shown[o] = asked[o]

\* Who waits for a file that is there has his call before him, in a loop that is not stale;
\* all loops of a file but the innermost are.
WaitersDue ==
    \A o \in Owners, f \in Files : Waits(o, f) /\ IsReady(f) =>
        \E n \in Calls : stack[n].file = f /\ ~stack[n].stale /\ Has(stack[n].todo, o)
OneLive ==
    \A m, n \in Calls : m < n /\ stack[m].file = stack[n].file => stack[m].stale

Begun == (\A f \in Files : state[f] # "WaitForStart") /\ \A n \in Calls : IsReady(stack[n].file)

\* Without listeners that ask for their own file nothing is stale, and no owner is called
\* twice.
Running(f) == \E n \in Calls : stack[n].file = f
Single ==
    /\ \A n \in Calls : ~stack[n].stale /\ Once(stack[n].todo)
    /\ \A m, n \in Calls : stack[m].file = stack[n].file => m = n
    /\ \A n \in Calls, o \in Owners : Has(stack[n].todo, o) => answers[o] = 0
    /\ \A f \in Files : /\ Once(listeners[f])
                        /\ \A o \in Owners : Has(listeners[f], o) /\ ~Running(f) => answers[o] = 0
    /\ \A o \in Owners : answers[o] <= 1

FilesAreRight ==
    /\ FilesTypeOK
    /\ Current /\ Requested /\ Bound /\ Served /\ WaitersDue /\ OneLive /\ Begun
    /\ ~askedAgain => Single

LEMMA InitFiles == AsyncFilesAssumption /\ FilesInit => FilesAreRight
<1> SUFFICES ASSUME AsyncFilesAssumption, FilesInit PROVE FilesAreRight
  OBVIOUS
<1>1. Calls = {} /\ stack = <<>>
  BY DEF FilesInit, Calls
<1>2. \A f \in Files : listeners[f] = <<>> /\ ~\E o \in Owners : Has(listeners[f], o)
  BY DEF FilesInit, Has
<1>3. FilesTypeOK
  <2>1. askedAgain \in BOOLEAN /\ ~askedAgain
    BY DEF FilesInit
  <2> QED
    BY <2>1 DEF FilesInit, FilesTypeOK, States
<1>4. Current /\ Requested /\ Bound /\ Served /\ WaitersDue /\ OneLive /\ Begun
  BY <1>1, <1>2 DEF FilesInit, AsyncFilesAssumption, Current, Requested, Bound, Waits, Served, WaitersDue,
                    IsReady, OneLive, Begun
<1>5. Single
  BY <1>1, <1>2 DEF FilesInit, Single, Once
<1> QED
  BY <1>3, <1>4, <1>5 DEF FilesAreRight

\* What the invariant means for the game.
LEMMA RightMeans ==
    ASSUME AsyncFilesAssumption, FilesAreRight PROVE FilesInv
<1>1. ASSUME Idle, NEW o \in Owners, asked[o] # NoFile, IsReady(asked[o]) PROVE shown[o] = asked[o]
  <2>1. asked[o] \in Files /\ Calls = {}
    BY <1>1 DEF FilesAreRight, FilesTypeOK, Idle, Calls
  <2>2. answers[o] # 0
    BY <1>1, <2>1 DEF FilesAreRight, WaitersDue, Waits
  <2> QED
    BY <1>1, <2>2 DEF FilesAreRight, Served
<1>2. ASSUME NEW o \in Owners, asked[o] # NoFile
      PROVE  asked[o] \in Files /\ state[asked[o]] # "none"
  BY <1>2 DEF FilesAreRight, FilesTypeOK, Requested
<1>3. LastAskWins
  BY <1>1 DEF LastAskWins, Answered
<1>4. ASSUME Idle, ~IsGraphicFilePending, NEW o \in GraphicOwners, asked[o] # NoFile
      PROVE  shown[o] = asked[o]
  <2>1. o \in Owners
    BY DEF AsyncFilesAssumption
  <2>2. IsReady(asked[o])
    BY <1>2, <1>4, <2>1 DEF IsGraphicFilePending, IsFilePending, FilesAreRight, Requested
  <2> QED
    BY <1>1, <1>4, <2>1, <2>2
<1>5. ASSUME Idle, ~IsImportantFilePending, NEW o \in GraphicOwners, hidden[o], asked[o] # NoFile
      PROVE  shown[o] = asked[o]
  <2>1. o \in Owners
    BY DEF AsyncFilesAssumption
  <2>2. IsReady(asked[o])
    BY <1>2, <1>5, <2>1 DEF IsImportantFilePending, IsFilePending, FilesAreRight, Requested
  <2> QED
    BY <1>1, <1>5, <2>1, <2>2
<1>6. GraphicsAreThere /\ ErasedScreenWaits
  BY <1>4, <1>5 DEF GraphicsAreThere, ErasedScreenWaits, Answered
<1>7. BlockedByDownloads /\ OneShot
  BY DEF FilesAreRight, Begun, Single, BlockedByDownloads, OneShot
<1> QED
  BY <1>3, <1>6, <1>7 DEF FilesInv, FilesAreRight

-----------------------------------------------------------------------------
(* The calls that run, when an owner asks.                                  *)

LEMMA LeaveFacts ==
    ASSUME NEW s \in Seq(Loop), NoOwner \notin Owners
    PROVE  /\ Leave(s) \in Seq(Loop) /\ Len(Leave(s)) = Len(s)
           /\ \A n \in 1 .. Len(s) : /\ Leave(s)[n].file = s[n].file
                                     /\ Leave(s)[n].todo = s[n].todo
                                     /\ Leave(s)[n].stale = s[n].stale
<1>1. CASE s = <<>>
  BY <1>1 DEF Leave
<1>2. CASE s # <<>>
  <2> DEFINE t == [s EXCEPT ![Len(s)].running = NoOwner]
  <2>1. Len(s) \in 1 .. Len(s) /\ s[Len(s)] \in Loop
    BY <1>2, EmptySeq, LenProperties, ElementOfSeq
  <2> DEFINE l == [s[Len(s)] EXCEPT !.running = NoOwner]
  <2>2. /\ l \in Loop /\ l.file = s[Len(s)].file /\ l.todo = s[Len(s)].todo
        /\ l.stale = s[Len(s)].stale
    BY <2>1 DEF Loop
  <2>3. t = [s EXCEPT ![Len(s)] = l]
    OBVIOUS
  <2> HIDE DEF l, t
  <2>4. t \in Seq(Loop) /\ Len(t) = Len(s)
    BY <2>1, <2>2, <2>3, ExceptSeq
  <2>5. \A n \in 1 .. Len(s) : t[n] = IF n = Len(s) THEN l ELSE s[n]
    BY <2>1, <2>3
  <2> QED
    BY <1>2, <2>2, <2>4, <2>5 DEF Leave, t
<1> QED
  BY <1>1, <1>2

LEMMA LoopsFacts ==
    ASSUME AsyncFilesAssumption, stack \in Seq(Loop), NEW o \in Owners, NEW f \in Files
    PROVE  /\ Loops(o, f) \in Seq(Loop) /\ Len(Loops(o, f)) = Len(stack)
           /\ \A n \in Calls : /\ Loops(o, f)[n].file = stack[n].file
                               /\ Loops(o, f)[n].todo = Expire(o, stack[n].todo)
                               /\ Loops(o, f)[n].stale <=> stack[n].stale \/ stack[n].file = f
<1> DEFINE seen(l) == [l EXCEPT !.todo = Expire(o, @), !.stale = @ \/ l.file = f]
<1>1. ASSUME NEW l \in Loop
      PROVE  /\ seen(l) \in Loop /\ seen(l).file = l.file /\ seen(l).todo = Expire(o, l.todo)
             /\ seen(l).stale <=> l.stale \/ l.file = f
  <2>1. l.todo \in Seq(Entries)
    BY DEF Loop
  <2>2. Expire(o, l.todo) \in Seq(Entries)
    BY <2>1, ExpireFacts
  <2> QED
    BY <2>2 DEF Loop
<1>2. Len(stack) \in Nat /\ DOMAIN stack = 1 .. Len(stack) /\ \A i \in 1 .. Len(stack) : stack[i] \in Loop
  BY LenProperties, ElementOfSeq
<1>3. Loops(o, f) = [i \in 1 .. Len(stack) |-> seen(stack[i])]
  BY <1>2 DEF Loops
<1> HIDE DEF seen
<1>4. Loops(o, f) \in Seq(Loop)
  BY <1>1, <1>2, <1>3, IsASeq
<1>5. Len(Loops(o, f)) = Len(stack)
  BY <1>2, <1>3, <1>4, LenProperties
<1> QED
  BY <1>1, <1>2, <1>3, <1>4, <1>5 DEF Calls

\* What an ask makes of the calls that run, and the call it begins if the file is there.
BeginsCall(f) ==
    /\ Len(stack') = Len(stack) + 1
    /\ stack'[Len(stack) + 1] = CallListeners(f, listeners'[f])
LEMMA AskCalls ==
    ASSUME AsyncFilesAssumption, FilesTypeOK, NEW o \in Owners, NEW f \in Files, Ask(o, f)
    PROVE  /\ listeners' \in [Files -> Seq(Entries)]
           /\ stack' \in Seq(Loop)
           /\ Fires(f) => BeginsCall(f)
           /\ ~Fires(f) => Len(stack') = Len(stack)
           /\ \A n \in Calls : /\ stack'[n].file = stack[n].file
                               /\ stack'[n].todo = Expire(o, stack[n].todo)
                               /\ stack'[n].stale <=> stack[n].stale \/ stack[n].file = f
<1> DEFINE t == Leave(Loops(o, f))
           c == CallListeners(f, listeners'[f])
<1>1. listeners' \in [Files -> Seq(Entries)]
  <2>1. ASSUME NEW g \in Files
        PROVE  /\ Expire(o, listeners[g]) \in Seq(Entries)
               /\ Append(Expire(o, listeners[g]), o) \in Seq(Entries)
    <3>1. listeners[g] \in Seq(Entries)
      BY DEF FilesTypeOK
    <3>2. Expire(o, listeners[g]) \in Seq(Entries)
      BY <3>1, ExpireFacts
    <3> QED
      BY <3>2, AddFacts
  <2> QED
    BY <2>1 DEF Ask, Bind
<1>2. stack \in Seq(Loop) /\ Len(stack) \in Nat
  BY LenProperties DEF FilesTypeOK
<1>3. Loops(o, f) \in Seq(Loop) /\ Len(Loops(o, f)) = Len(stack)
  BY <1>2, LoopsFacts
<1>4. /\ t \in Seq(Loop) /\ Len(t) = Len(stack)
      /\ \A n \in Calls : /\ t[n].file = stack[n].file
                          /\ t[n].todo = Expire(o, stack[n].todo)
                          /\ t[n].stale <=> stack[n].stale \/ stack[n].file = f
  <2>1. NoOwner \notin Owners
    BY DEF AsyncFilesAssumption
  <2>2. /\ t \in Seq(Loop) /\ Len(t) = Len(stack)
        /\ \A n \in Calls : /\ t[n].file = Loops(o, f)[n].file
                            /\ t[n].todo = Loops(o, f)[n].todo
                            /\ t[n].stale = Loops(o, f)[n].stale
    BY <1>3, <2>1, LeaveFacts DEF Calls
  <2> QED
    BY <1>2, <2>2, LoopsFacts
<1>5. c \in Loop
  BY <1>1 DEF CallListeners, Loop
<1>6. stack' = IF Fires(f) THEN Append(t, c) ELSE t
  BY DEF Ask
<1> HIDE DEF t, c
<1>7. /\ Append(t, c) \in Seq(Loop) /\ Len(Append(t, c)) = Len(stack) + 1
      /\ Append(t, c)[Len(stack) + 1] = c
      /\ \A n \in Calls : Append(t, c)[n] = t[n]
  BY <1>2, <1>4, <1>5, AppendProperties DEF Calls
<1> QED
  BY <1>1, <1>4, <1>6, <1>7 DEF BeginsCall, c

LEMMA AskKeeps ==
    ASSUME AsyncFilesAssumption, FilesAreRight, NEW o \in Owners, NEW f \in Files, Ask(o, f),
           SelfAsks \/ ~Running(f), askedAgain' = (askedAgain \/ Running(f))
    PROVE  FilesAreRight'
<1>0. /\ FilesTypeOK /\ Current /\ Requested /\ Bound /\ Served /\ WaitersDue /\ OneLive /\ Begun
      /\ ~askedAgain => Single
  BY DEF FilesAreRight
<1> DEFINE new == Len(stack) + 1
<1>1. FilesTypeOK /\ Len(stack) \in Nat /\ stack \in Seq(Loop) /\ Calls = 1 .. Len(stack)
  BY <1>0, LenProperties DEF FilesTypeOK, Calls
<1>2. /\ listeners' \in [Files -> Seq(Entries)] /\ stack' \in Seq(Loop)
      /\ \A n \in Calls : /\ stack'[n].file = stack[n].file
                          /\ stack'[n].todo = Expire(o, stack[n].todo)
                          /\ stack'[n].stale <=> stack[n].stale \/ stack[n].file = f
  BY <1>0, <1>1, AskCalls
<1>3. /\ Fires(f) => /\ Calls' = Calls \cup {new} /\ stack'[new].file = f
                     /\ stack'[new].todo = listeners'[f] /\ stack'[new].stale = FALSE
      /\ ~Fires(f) => Calls' = Calls
  <2>1. Fires(f) => BeginsCall(f)
    BY <1>0, <1>1, AskCalls
  <2>2. ~Fires(f) => Len(stack') = Len(stack)
    BY <1>0, <1>1, AskCalls
  <2> QED
    BY <1>1, <2>1, <2>2 DEF Calls, BeginsCall, CallListeners
<1>a. \A n \in Calls : stack[n] \in Loop /\ stack[n].file \in Files /\ stack[n].todo \in Seq(Entries)
  <2>1. ASSUME NEW n \in Calls PROVE stack[n] \in Loop
    BY <1>1, ElementOfSeq
  <2> QED
    BY <2>1 DEF Loop
<1>4. ASSUME NEW n \in Calls
      PROVE  /\ ~Has(stack'[n].todo, o)
             /\ \A v \in Owners : v # o => (Has(stack'[n].todo, v) <=> Has(stack[n].todo, v))
             /\ Once(stack[n].todo) => Once(stack'[n].todo)
  <2> DEFINE e == Expire(o, stack[n].todo)
  <2>1. /\ ~Has(e, o) /\ \A v \in Owners : v # o => (Has(e, v) <=> Has(stack[n].todo, v))
        /\ Once(stack[n].todo) => Once(e)
    BY <1>a, ExpireFacts
  <2>2. stack'[n].todo = e
    BY <1>2
  <2> QED
    BY <2>1, <2>2
<1>5. ASSUME NEW g \in Files
      PROVE  /\ Has(listeners'[g], o) <=> g = f
             /\ \A v \in Owners : v # o => (Has(listeners'[g], v) <=> Has(listeners[g], v))
             /\ Once(listeners[g]) => Once(listeners'[g])
  <2> DEFINE e == Expire(o, listeners[g])
  <2>1. listeners[g] \in Seq(Entries)
    BY <1>0 DEF FilesTypeOK
  <2>2. /\ e \in Seq(Entries) /\ ~Has(e, o)
        /\ \A v \in Owners : v # o => (Has(e, v) <=> Has(listeners[g], v))
        /\ Once(listeners[g]) => Once(e)
    BY <2>1, ExpireFacts
  <2>3. listeners'[g] = IF g = f THEN Append(e, o) ELSE e
    BY DEF Ask, Bind
  <2> HIDE DEF e
  <2>4. /\ \A v : Has(Append(e, o), v) <=> Has(e, v) \/ v = o
        /\ Once(e) => Once(Append(e, o))
    BY <2>2, AddFacts
  <2> QED
    BY <2>2, <2>3, <2>4
<1>6. /\ asked' = [asked EXCEPT ![o] = f] /\ hidden' = [hidden EXCEPT ![o] = erased]
      /\ answers' = [answers EXCEPT ![o] = 0] /\ shown' = shown
      /\ state' = [state EXCEPT ![f] = Started(f)]
  BY DEF Ask
<1>7. /\ Started(f) \in States /\ Started(f) \notin {"none", "WaitForStart"}
      /\ Fires(f) => Started(f) \in {"DoneSuccess", "DoneFailure"}
      /\ ~Fires(f) => Started(f) = "Pending"
      /\ IsReady(f) => Fires(f)
  BY <1>0 DEF FilesTypeOK, Started, Fires, IsReady, States
<1>8. IsReady(f)' <=> Fires(f)
  BY <1>0, <1>6, <1>7 DEF IsReady, FilesTypeOK
<1>9. \A g \in Files : g # f => state'[g] = state[g] /\ (IsReady(g)' <=> IsReady(g))
  BY <1>0, <1>6 DEF IsReady, FilesTypeOK
<1>10. \A v \in Owners : /\ v # o => asked'[v] = asked[v] /\ answers'[v] = answers[v] /\ hidden'[v] = hidden[v]
                         /\ asked'[o] = f /\ answers'[o] = 0 /\ hidden'[o] = erased
  BY <1>0, <1>1, <1>6 DEF FilesTypeOK
<1>11. FilesTypeOK'
  <2>1. graphic' \in [Files -> BOOLEAN] /\ important' \in [Files -> BOOLEAN] /\ erased' = erased
    BY <1>0 DEF Ask, SetFlags, FilesTypeOK
  <2>2. state' \in [Files -> States]
    BY <1>0, <1>6, <1>7 DEF FilesTypeOK
  <2>3. /\ asked' \in [Owners -> Files \cup {NoFile}] /\ hidden' \in [Owners -> BOOLEAN]
        /\ answers' \in [Owners -> 0..2] /\ shown' \in [Owners -> Files \cup {NoFile}]
    BY <1>0, <1>6 DEF FilesTypeOK
  <2>4. erased' \in BOOLEAN
    BY <1>0, <2>1 DEF FilesTypeOK
  <2>5. askedAgain' \in BOOLEAN /\ (askedAgain' => SelfAsks)
    BY <1>0 DEF FilesTypeOK
  <2> QED
    BY <1>2, <2>1, <2>2, <2>3, <2>4, <2>5 DEF FilesTypeOK
<1>12. Current'
  <2>1. ASSUME NEW g \in Files, NEW v \in Owners, Has(listeners'[g], v) PROVE asked'[v] = g
    BY <1>0, <1>5, <1>10, <2>1 DEF Current
  <2>2. ASSUME NEW n \in Calls', NEW v \in Owners, Has(stack'[n].todo, v)
        PROVE  asked'[v] = stack'[n].file
    <3>1. CASE n \in Calls
      BY <1>0, <1>2, <1>4, <1>10, <2>2, <3>1 DEF Current
    <3>2. CASE n \notin Calls
      BY <1>3, <2>1, <2>2, <3>2
    <3> QED
      BY <3>1, <3>2
  <2> QED
    BY <1>0, <2>1, <2>2 DEF Current
<1>13. Requested'
  <2>1. \A g \in Files : /\ graphic[g] => graphic'[g]
                         /\ important[g] => important'[g]
                         /\ state[g] # "none" => state'[g] # "none"
    BY <1>0, <1>7, <1>6 DEF Ask, SetFlags, FilesTypeOK
  <2>2. /\ state'[f] # "none"
        /\ o \in GraphicOwners => graphic'[f]
        /\ o \in GraphicOwners /\ erased => important'[f]
    BY <1>0, <1>7, <1>6 DEF Ask, SetFlags, FilesTypeOK
  <2>3. ASSUME NEW v \in Owners, v # o, asked[v] # NoFile
        PROVE  /\ state'[asked[v]] # "none"
               /\ v \in GraphicOwners => graphic'[asked[v]]
               /\ v \in GraphicOwners /\ hidden[v] => important'[asked[v]]
    BY <1>0, <1>1, <2>1, <2>3 DEF Requested, FilesTypeOK
  <2>4. ASSUME NEW v \in Owners, asked'[v] # NoFile
        PROVE  /\ state'[asked'[v]] # "none"
               /\ v \in GraphicOwners => graphic'[asked'[v]]
               /\ v \in GraphicOwners /\ hidden'[v] => important'[asked'[v]]
    <3>1. CASE v = o
      BY <1>10, <2>2, <3>1
    <3>2. CASE v # o
      <4>1. asked'[v] = asked[v] /\ hidden'[v] = hidden[v]
        BY <1>10, <3>2
      <4> QED
        BY <2>3, <2>4, <3>2, <4>1
    <3> QED
      BY <3>1, <3>2
  <2> QED
    BY <2>4 DEF Requested
<1>14. Bound'
  BY <1>0, <1>5, <1>10 DEF Bound, Waits
<1>15. Served'
  BY <1>0, <1>6, <1>10 DEF Served
<1>16. ASSUME NEW v \in Owners, NEW g \in Files, Waits(v, g)', IsReady(g)'
       PROVE  \E n \in Calls' : stack'[n].file = g /\ ~stack'[n].stale /\ Has(stack'[n].todo, v)
  <2>1. CASE g = f
    <3>1. Has(listeners'[f], v)
      BY <1>0, <1>14, <1>16, <2>1 DEF Bound
    <3> QED
      BY <1>3, <1>8, <1>16, <2>1, <3>1
  <2>2. CASE g # f
    <3>1. v # o /\ Waits(v, g) /\ IsReady(g)
      BY <1>9, <1>10, <1>16, <2>2 DEF Waits
    <3>2. PICK n \in Calls : stack[n].file = g /\ ~stack[n].stale /\ Has(stack[n].todo, v)
      BY <1>0, <3>1 DEF WaitersDue
    <3> QED
      BY <1>2, <1>3, <1>4, <2>2, <3>1, <3>2
  <2> QED
    BY <2>1, <2>2
<1>17. OneLive'
  <2>1. ASSUME NEW m \in Calls', NEW n \in Calls', m < n, stack'[m].file = stack'[n].file
        PROVE  stack'[m].stale
    <3>1. m \in Calls
      BY <1>1, <1>3, <2>1
    <3>2. CASE n \in Calls
      BY <1>0, <1>2, <2>1, <3>1, <3>2 DEF OneLive
    <3>3. CASE n \notin Calls
      BY <1>2, <1>3, <2>1, <3>1, <3>3
    <3> QED
      BY <3>2, <3>3
  <2> QED
    BY <1>0, <2>1 DEF OneLive
<1>18. Begun'
  <2>1. \A g \in Files : state'[g] # "WaitForStart"
    BY <1>0, <1>1, <1>6, <1>7, <1>9 DEF Begun, FilesTypeOK
  <2> DEFINE ready(g) == state'[g] \in {"DoneSuccess", "DoneFailure"}
  <2>3. \A g \in Files : ready(g) <=> IsReady(g)'
    BY DEF IsReady
  <2> HIDE DEF ready
  <2>2. ASSUME NEW n \in Calls' PROVE ready(stack'[n].file)
    <3>1. CASE n \in Calls
      <4>1. stack[n].file \in Files /\ IsReady(stack[n].file)
        BY <1>0, <1>a, <3>1 DEF Begun
      <4> QED
        BY <1>2, <1>7, <1>8, <1>9, <2>3, <3>1, <4>1
    <3>2. CASE n \notin Calls
      BY <1>3, <1>8, <2>2, <2>3, <3>2
    <3> QED
      BY <3>1, <3>2
  <2> QED
    BY <2>1, <2>2 DEF Begun, IsReady, ready
<1>19. ASSUME ~askedAgain' PROVE Single'
  <2>1. Single /\ \A n \in Calls : stack[n].file # f
    BY <1>0, <1>19 DEF Running
  <2>2. \A n \in Calls' : ~stack'[n].stale /\ Once(stack'[n].todo)
    <3>1. ASSUME NEW n \in Calls PROVE ~stack'[n].stale /\ Once(stack'[n].todo)
      BY <1>2, <1>4, <2>1 DEF Single
    <3>2. Once(listeners'[f])
      BY <1>5, <2>1 DEF Single
    <3> QED
      BY <1>3, <3>1, <3>2
  <2>3. ASSUME NEW m \in Calls', NEW n \in Calls', stack'[m].file = stack'[n].file PROVE m = n
    <3>1. CASE m \in Calls /\ n \in Calls
      BY <1>2, <2>1, <2>3, <3>1 DEF Single
    <3>2. CASE m \notin Calls
      BY <1>2, <1>3, <2>1, <2>3, <3>2
    <3>3. CASE n \notin Calls
      BY <1>2, <1>3, <2>1, <2>3, <3>3
    <3> QED
      BY <3>1, <3>2, <3>3
  <2>4. ASSUME NEW g \in Files, NEW v \in Owners, Has(listeners'[g], v), ~Running(g)
        PROVE  answers'[v] = 0
    BY <1>5, <1>10, <2>1, <2>4 DEF Single
  <2>5. ASSUME NEW n \in Calls', NEW v \in Owners, Has(stack'[n].todo, v) PROVE answers'[v] = 0
    <3>1. CASE n \in Calls
      BY <1>4, <1>10, <2>1, <2>5, <3>1 DEF Single
    <3>2. CASE n \notin Calls
      BY <1>0, <1>3, <2>1, <2>4, <2>5, <3>2 DEF Running
    <3> QED
      BY <3>1, <3>2
  <2>6. \A g \in Files : Running(g) => Running(g)'
    BY <1>0, <1>2, <1>3 DEF Running
  <2>7. \A g \in Files : Once(listeners'[g])
    BY <1>5, <2>1 DEF Single
  <2>8. \A v \in Owners : answers'[v] <= 1
    BY <1>10, <2>1 DEF Single
  <2> QED
    BY <2>2, <2>3, <2>4, <2>5, <2>6, <2>7, <2>8 DEF Single
<1> QED
  <2>1. WaitersDue'
    BY <1>16 DEF WaitersDue
  <2> QED
    BY <1>11, <1>12, <1>13, <1>14, <1>15, <1>17, <1>18, <1>19, <2>1 DEF FilesAreRight

-----------------------------------------------------------------------------
(* The game and the browser, while no listener runs.                        *)

\* With no call running, everybody whose file is there was called.
LEMMA NothingDue ==
    ASSUME FilesAreRight, stack = <<>>, NEW o \in Owners, NEW f \in Files, IsReady(f)
    PROVE  ~Waits(o, f)
  BY DEF FilesAreRight, WaitersDue, Calls

\* A call of the listeners of f begins, for those that are bound to it.
LEMMA CallBegins ==
    ASSUME FilesAreRight, AsyncFilesAssumption, NEW f \in Files, stack = <<>>,
           stack' = <<CallListeners(f, listeners[f])>>,
           listeners' = listeners, ownerVars' = ownerVars, erased' = erased,
           important' \in [Files -> BOOLEAN], graphic' \in [Files -> BOOLEAN],
           \A g \in Files : (important[g] => important'[g]) /\ (graphic[g] => graphic'[g]),
           state' = [state EXCEPT ![f] = state'[f]], state'[f] \in {"DoneSuccess", "DoneFailure"}
    PROVE  FilesAreRight'
<1>0. /\ FilesTypeOK /\ Current /\ Requested /\ Bound /\ Served
      /\ ~askedAgain => Single
  BY DEF FilesAreRight
<1> DEFINE c == CallListeners(f, listeners[f])
<1>1. c \in Loop /\ c.file = f /\ c.todo = listeners[f] /\ c.stale = FALSE
  BY <1>0 DEF CallListeners, Loop, FilesTypeOK
<1>2. Calls = {} /\ Calls' = {1} /\ stack'[1] = c
  BY DEF Calls
<1>3. stack' \in Seq(Loop)
  BY <1>1
<1> HIDE DEF c
<1>4. /\ asked' = asked /\ hidden' = hidden /\ answers' = answers /\ shown' = shown /\ askedAgain' = askedAgain
  BY DEF ownerVars
<1>5. \A g \in Files : /\ g # f => state'[g] = state[g]
                       /\ state[g] # "none" => state'[g] # "none"
  BY <1>0 DEF FilesTypeOK
<1>6. FilesTypeOK'
  <2>1. state' \in [Files -> States]
    BY <1>0 DEF FilesTypeOK, States
  <2> QED
    BY <1>0, <1>3, <1>4, <2>1 DEF FilesTypeOK
<1>7. Current'
  BY <1>0, <1>1, <1>2, <1>4 DEF Current
<1>8. Requested'
  <2>1. \A o \in Owners : asked[o] # NoFile => asked[o] \in Files
    BY <1>0 DEF FilesTypeOK
  <2> QED
    BY <1>0, <1>4, <1>5, <2>1 DEF Requested
<1>9. Bound' /\ Served'
  BY <1>0, <1>4 DEF Bound, Served, Waits
<1>10. WaitersDue'
  <2>1. ASSUME NEW o \in Owners, NEW g \in Files, Waits(o, g)', IsReady(g)'
        PROVE  \E n \in Calls' : stack'[n].file = g /\ ~stack'[n].stale /\ Has(stack'[n].todo, o)
    <3>1. Waits(o, g) /\ Has(listeners[g], o)
      BY <1>0, <1>4, <2>1 DEF Waits, Bound
    <3>2. g = f
      <4>1. ~IsReady(g)
        BY <3>1, NothingDue
      <4> QED
        BY <1>5, <2>1, <4>1 DEF IsReady
    <3> QED
      BY <1>1, <1>2, <3>1, <3>2
  <2> QED
    BY <2>1 DEF WaitersDue
<1>11. OneLive'
  BY <1>2 DEF OneLive
<1>12. Begun'
  <2>1. \A g \in Files : state'[g] # "WaitForStart"
    BY <1>0, <1>5 DEF FilesAreRight, Begun
  <2> QED
    BY <1>1, <1>2, <2>1 DEF Begun, IsReady
<1>13. ASSUME ~askedAgain' PROVE Single'
  <2>1. Single /\ \A g \in Files : ~Running(g)
    BY <1>0, <1>2, <1>4, <1>13 DEF Running
  <2>2. Once(listeners[f]) /\ \A o \in Owners : Has(listeners[f], o) => answers[o] = 0
    BY <2>1 DEF Single
  <2> QED
    BY <1>1, <1>2, <1>4, <2>1, <2>2 DEF Single
<1> QED
  BY <1>6, <1>7, <1>8, <1>9, <1>10, <1>11, <1>12, <1>13 DEF FilesAreRight

LEMMA FetchKeeps ==
    ASSUME AsyncFilesAssumption, FilesAreRight, NEW f \in Files, Fetch(f)
    PROVE  FilesAreRight'
<1>1. /\ important' \in [Files -> BOOLEAN] /\ graphic' = graphic /\ graphic \in [Files -> BOOLEAN]
      /\ \A g \in Files : important[g] => important'[g]
  BY DEF FilesAreRight, FilesTypeOK, Fetch, SetFlags
<1>2. CASE Fires(f)
  <2>1. Started(f) \in {"DoneSuccess", "DoneFailure"}
    BY <1>2 DEF Fires, Started, IsReady
  <2>2. state' = [state EXCEPT ![f] = Started(f)] /\ state'[f] = Started(f)
    BY DEF Fetch, FilesAreRight, FilesTypeOK
  <2>3. state' = [state EXCEPT ![f] = state'[f]]
    BY <2>2
  <2>4. /\ stack = <<>> /\ stack' = <<CallListeners(f, listeners[f])>>
        /\ listeners' = listeners /\ ownerVars' = ownerVars /\ erased' = erased
    BY <1>2 DEF Fetch
  <2> QED
    BY <1>1, <2>1, <2>2, <2>3, <2>4, CallBegins
<1>3. CASE ~Fires(f)
  <2>0. /\ FilesTypeOK /\ Current /\ Requested /\ Bound /\ Served /\ WaitersDue /\ OneLive /\ Begun
        /\ ~askedAgain => Single
    BY DEF FilesAreRight
  <2>1. /\ stack' = stack /\ listeners' = listeners /\ erased' = erased
        /\ asked' = asked /\ hidden' = hidden /\ answers' = answers /\ shown' = shown /\ askedAgain' = askedAgain
        /\ Calls = {} /\ Calls' = {}
    BY <1>3 DEF Fetch, ownerVars, Calls
  <2>2. state' = [state EXCEPT ![f] = "Pending"] /\ ~IsReady(f)
    BY <1>3 DEF Fetch, Started, Fires
  <2>3. \A g \in Files : /\ state[g] # "none" => state'[g] # "none"
                         /\ state'[g] # "WaitForStart"
                         /\ IsReady(g)' <=> IsReady(g)
    BY <2>0, <2>2 DEF FilesTypeOK, IsReady, Begun
  <2>4. FilesTypeOK'
    <3>1. state' \in [Files -> States]
      BY <2>0, <2>2 DEF FilesTypeOK, States
    <3> QED
      BY <1>1, <2>0, <2>1, <3>1 DEF FilesTypeOK
  <2>5. Requested'
    <3>1. \A o \in Owners : asked[o] # NoFile => asked[o] \in Files
      BY <2>0 DEF FilesTypeOK
    <3> QED
      BY <1>1, <2>0, <2>1, <2>3, <3>1 DEF Requested
  <2>6. Current' /\ Bound' /\ Served' /\ OneLive' /\ Begun'
    BY <2>0, <2>1, <2>3 DEF Current, Bound, Served, OneLive, Begun, Waits
  <2>7. WaitersDue'
    BY <2>0, <2>1, <2>3 DEF WaitersDue, Waits
  <2>8. ~askedAgain' => Single'
    BY <2>0, <2>1 DEF Single, Running
  <2> QED
    BY <2>4, <2>5, <2>6, <2>7, <2>8 DEF FilesAreRight
<1> QED
  BY <1>2, <1>3

LEMMA DownloadKeeps ==
    ASSUME AsyncFilesAssumption, FilesAreRight, NEW f \in Files, NEW success \in BOOLEAN,
           DownloadDone(f, success)
    PROVE  FilesAreRight'
<1>1. /\ important' = important /\ graphic' = graphic
      /\ important \in [Files -> BOOLEAN] /\ graphic \in [Files -> BOOLEAN]
  BY DEF FilesAreRight, FilesTypeOK, DownloadDone
<1> DEFINE end == IF success THEN "DoneSuccess" ELSE "DoneFailure"
<1>2. state' = [state EXCEPT ![f] = end] /\ state'[f] = end
  BY DEF DownloadDone, FilesAreRight, FilesTypeOK
<1>3. end \in {"DoneSuccess", "DoneFailure"} /\ state' = [state EXCEPT ![f] = state'[f]]
  BY <1>2
<1>4. /\ stack = <<>> /\ stack' = <<CallListeners(f, listeners[f])>>
      /\ listeners' = listeners /\ ownerVars' = ownerVars /\ erased' = erased
  BY DEF DownloadDone
<1> QED
  BY <1>1, <1>2, <1>3, <1>4, CallBegins

LEMMA ReleaseKeeps ==
    ASSUME AsyncFilesAssumption, FilesAreRight, NEW o \in Owners, Release(o)
    PROVE  FilesAreRight'
<1>0. /\ FilesTypeOK /\ Current /\ Requested /\ Bound /\ Served /\ WaitersDue /\ OneLive /\ Begun
      /\ ~askedAgain => Single
  BY DEF FilesAreRight
<1>1. /\ stack' = stack /\ Calls = {} /\ Calls' = {} /\ state' = state /\ important' = important
      /\ graphic' = graphic /\ erased' = erased /\ shown' = shown /\ askedAgain' = askedAgain
      /\ asked' = [asked EXCEPT ![o] = NoFile] /\ hidden' = [hidden EXCEPT ![o] = FALSE]
      /\ answers' = [answers EXCEPT ![o] = 0]
      /\ NoFile \notin Files
  BY DEF Release, requestVars, Calls, AsyncFilesAssumption
<1>2. /\ asked'[o] = NoFile /\ answers'[o] = 0
      /\ \A v \in Owners : v # o => /\ asked'[v] = asked[v] /\ answers'[v] = answers[v]
                                    /\ hidden'[v] = hidden[v]
  BY <1>0, <1>1 DEF FilesTypeOK
<1>3. ASSUME NEW f \in Files
      PROVE  /\ listeners'[f] \in Seq(Entries) /\ ~Has(listeners'[f], o)
             /\ \A v \in Owners : v # o => (Has(listeners'[f], v) <=> Has(listeners[f], v))
             /\ Once(listeners[f]) => Once(listeners'[f])
  <2> DEFINE e == Expire(o, listeners[f])
  <2>1. listeners[f] \in Seq(Entries) /\ listeners'[f] = e
    BY <1>0 DEF FilesTypeOK, Release
  <2>2. /\ e \in Seq(Entries) /\ ~Has(e, o)
        /\ \A v \in Owners : v # o => (Has(e, v) <=> Has(listeners[f], v))
        /\ Once(listeners[f]) => Once(e)
    BY <2>1, ExpireFacts
  <2> HIDE DEF e
  <2> QED
    BY <2>1, <2>2
<1>4. FilesTypeOK'
  <2>1. listeners' \in [Files -> Seq(Entries)]
    BY <1>3 DEF Release
  <2> QED
    BY <1>0, <1>1, <2>1 DEF FilesTypeOK
<1>5. Current' /\ Bound'
  BY <1>0, <1>1, <1>2, <1>3 DEF Current, Bound, Waits
<1>6. Requested' /\ Served'
  BY <1>0, <1>1, <1>2 DEF Requested, Served
<1>7. WaitersDue'
  BY <1>0, <1>1, <1>2 DEF WaitersDue, Waits, IsReady
<1>8. OneLive' /\ Begun'
  BY <1>0, <1>1 DEF OneLive, Begun
<1>9. ~askedAgain' => Single'
  BY <1>0, <1>1, <1>2, <1>3 DEF Single, Running
<1> QED
  BY <1>4, <1>5, <1>6, <1>7, <1>8, <1>9 DEF FilesAreRight

LEMMA TransitionKeeps ==
    ASSUME FilesAreRight, Transition
    PROVE  FilesAreRight'
<1>0. /\ FilesTypeOK /\ Current /\ Requested /\ Bound /\ Served /\ WaitersDue /\ OneLive /\ Begun
      /\ ~askedAgain => Single
  BY DEF FilesAreRight
<1>1. /\ stack' = stack /\ state' = state /\ important' = important /\ graphic' = graphic
      /\ shown' = shown /\ askedAgain' = askedAgain /\ asked' = asked /\ hidden' = hidden /\ answers' = answers
      /\ listeners' = listeners /\ erased' \in BOOLEAN
  BY DEF Transition, requestVars, ownerVars
<1>2. FilesTypeOK'
  BY <1>0, <1>1 DEF FilesTypeOK
<1>3. Current' /\ Requested' /\ Bound' /\ Served' /\ OneLive' /\ Begun'
  BY <1>0, <1>1 DEF Current, Requested, Bound, Served, OneLive, Begun, Calls, Waits, IsReady
<1>4. WaitersDue'
  BY <1>0, <1>1 DEF WaitersDue, Calls, Waits, IsReady
<1>5. ~askedAgain' => Single'
  BY <1>0, <1>1 DEF Single, Calls, Running
<1> QED
  BY <1>2, <1>3, <1>4, <1>5 DEF FilesAreRight

-----------------------------------------------------------------------------
(* The call that runs.                                                      *)

\* The innermost call is replaced by one of the same file that is as stale.
LEMMA TopFacts ==
    ASSUME FilesTypeOK, stack # <<>>
    PROVE  /\ Len(stack) \in Calls /\ Calls = 1 .. Len(stack) /\ Len(stack) \in Nat
           /\ \A n \in Calls : /\ stack[n] \in Loop /\ stack[n].file \in Files
                               /\ stack[n].todo \in Seq(Entries)
           /\ \A l \in Loop : /\ WithTop(l) \in Seq(Loop) /\ Len(WithTop(l)) = Len(stack)
                              /\ \A n \in Calls : WithTop(l)[n] = IF n = Len(stack) THEN l ELSE stack[n]
<1>1. stack \in Seq(Loop)
  BY DEF FilesTypeOK
<1>2. Len(stack) \in Calls /\ Calls = 1 .. Len(stack) /\ Len(stack) \in Nat
  BY <1>1, EmptySeq, LenProperties DEF Calls
<1>3. \A n \in Calls : stack[n] \in Loop
  BY <1>1, <1>2, ElementOfSeq
<1>4. \A n \in Calls : stack[n].file \in Files /\ stack[n].todo \in Seq(Entries)
  BY <1>3 DEF Loop
<1>5. ASSUME NEW l \in Loop
      PROVE  /\ WithTop(l) \in Seq(Loop) /\ Len(WithTop(l)) = Len(stack)
             /\ \A n \in Calls : WithTop(l)[n] = IF n = Len(stack) THEN l ELSE stack[n]
  BY <1>1, <1>2, ExceptSeq DEF WithTop
<1> QED
  BY <1>2, <1>3, <1>4, <1>5

\* What such a step keeps, if the new call l has nobody before it who was not there.
TopMoved(l) ==
    /\ stack' \in Seq(Loop) /\ Calls' = Calls /\ Len(stack) \in Calls
    /\ \A n \in Calls : /\ stack'[n].file = stack[n].file /\ stack'[n].stale = stack[n].stale
                        /\ n # Len(stack) => stack'[n].todo = stack[n].todo
                        /\ \A v \in Owners : Has(stack'[n].todo, v) => Has(stack[n].todo, v)
    /\ stack'[Len(stack)] = l
    /\ state' = state /\ important' = important /\ graphic' = graphic
    /\ Current' /\ Requested' /\ OneLive' /\ Begun'
    /\ \A f \in Files : Running(f)' <=> Running(f)
    /\ Single => /\ \A n \in Calls' : ~stack'[n].stale /\ Once(stack'[n].todo)
                 /\ \A m, n \in Calls' : stack'[m].file = stack'[n].file => m = n

\* Steps of the innermost call that leave its listeners' vector alone.
LEMMA TopMoves ==
    ASSUME FilesAreRight, stack # <<>>, NEW l \in Loop, stack' = WithTop(l),
           l.file = Top.file, l.stale = Top.stale,
           \A v \in Owners : Has(l.todo, v) => Has(Top.todo, v),
           Once(Top.todo) => Once(l.todo),
           requestVars' = requestVars, listeners' = listeners, erased' = erased,
           asked' = asked, hidden' = hidden, askedAgain' = askedAgain
    PROVE  TopMoved(l)
<1>0. FilesTypeOK /\ Current /\ Requested /\ OneLive /\ Begun
  BY DEF FilesAreRight
<1>1. /\ Len(stack) \in Calls /\ Calls = 1 .. Len(stack) /\ Len(stack) \in Nat
      /\ stack' \in Seq(Loop) /\ Len(stack') = Len(stack)
      /\ \A n \in Calls : stack'[n] = IF n = Len(stack) THEN l ELSE stack[n]
  BY <1>0, TopFacts
<1>2. Calls' = Calls
  BY <1>1 DEF Calls
<1>3. /\ \A n \in Calls : /\ stack'[n].file = stack[n].file /\ stack'[n].stale = stack[n].stale
                          /\ n # Len(stack) => stack'[n].todo = stack[n].todo
                          /\ \A v \in Owners : Has(stack'[n].todo, v) => Has(stack[n].todo, v)
                          /\ Once(stack[n].todo) => Once(stack'[n].todo)
      /\ stack'[Len(stack)] = l
  BY <1>1 DEF Top
<1>4. state' = state /\ important' = important /\ graphic' = graphic
  BY DEF requestVars
<1>5. Current'
  BY <1>0, <1>2, <1>3 DEF Current
<1>6. Requested'
  BY <1>0, <1>4 DEF Requested
<1>7. OneLive' /\ Begun'
  BY <1>0, <1>2, <1>3, <1>4 DEF OneLive, Begun, IsReady
<1>8. \A f \in Files : Running(f)' <=> Running(f)
  BY <1>2, <1>3 DEF Running
<1>9. ASSUME Single
      PROVE  /\ \A n \in Calls' : ~stack'[n].stale /\ Once(stack'[n].todo)
             /\ \A m, n \in Calls' : stack'[m].file = stack'[n].file => m = n
  BY <1>2, <1>3, <1>9 DEF Single
<1> QED
  BY <1>1, <1>2, <1>3, <1>4, <1>5, <1>6, <1>7, <1>8, <1>9 DEF TopMoved

LEMMA SkipKeeps ==
    ASSUME AsyncFilesAssumption, FilesAreRight, Skip
    PROVE  FilesAreRight'
<1>0. /\ FilesTypeOK /\ Bound /\ Served /\ WaitersDue
      /\ ~askedAgain => Single
  BY DEF FilesAreRight
<1> DEFINE l == [Top EXCEPT !.todo = Tail(@)]
<1>1. stack # <<>> /\ Top \in Loop /\ Top.todo \in Seq(Entries) /\ Top.todo # <<>>
  BY <1>0, TopFacts DEF Skip, Top
<1>2. /\ Tail(Top.todo) \in Seq(Entries)
      /\ \A v : Has(Tail(Top.todo), v) => Has(Top.todo, v)
      /\ \A v : Has(Top.todo, v) /\ v # Head(Top.todo) => Has(Tail(Top.todo), v)
      /\ Once(Top.todo) => Once(Tail(Top.todo))
  BY <1>1, RestFacts
<1>3. l \in Loop /\ l.file = Top.file /\ l.stale = Top.stale /\ l.todo = Tail(Top.todo)
  BY <1>1, <1>2 DEF Loop
<1>4. /\ stack' = WithTop(l)
      /\ requestVars' = requestVars /\ listeners' = listeners /\ erased' = erased
      /\ asked' = asked /\ hidden' = hidden /\ answers' = answers /\ shown' = shown /\ askedAgain' = askedAgain
      /\ Head(Top.todo) = Expired \/ Top.stale
  BY DEF Skip, ownerVars
<1> HIDE DEF l
<1>5. TopMoved(l)
  BY <1>1, <1>2, <1>3, <1>4, TopMoves
<1> USE DEF TopMoved
<1>6. FilesTypeOK'
  BY <1>0, <1>4, <1>5 DEF FilesTypeOK
<1>7. Bound' /\ Served'
  BY <1>0, <1>4 DEF Bound, Served, Waits
<1>8. WaitersDue'
  <2>1. ASSUME NEW o \in Owners, NEW f \in Files, Waits(o, f)', IsReady(f)'
        PROVE  \E n \in Calls' : stack'[n].file = f /\ ~stack'[n].stale /\ Has(stack'[n].todo, o)
    <3>1. PICK n \in Calls : stack[n].file = f /\ ~stack[n].stale /\ Has(stack[n].todo, o)
      BY <1>0, <1>4, <1>5, <2>1 DEF WaitersDue, Waits, IsReady
    <3>2. Has(stack'[n].todo, o)
      <4>1. CASE n = Len(stack)
        <5>1. Head(Top.todo) = Expired /\ o # Expired
          BY <1>4, <3>1, <4>1 DEF Top, AsyncFilesAssumption
        <5> QED
          BY <1>2, <1>3, <1>5, <3>1, <4>1, <5>1 DEF Top
      <4> QED
        BY <1>5, <3>1, <4>1
    <3> QED
      BY <1>5, <3>1, <3>2
  <2> QED
    BY <2>1 DEF WaitersDue
<1>9. ~askedAgain' => Single'
  BY <1>0, <1>4, <1>5 DEF Single
<1> QED
  BY <1>5, <1>6, <1>7, <1>8, <1>9 DEF FilesAreRight

LEMMA CallKeeps ==
    ASSUME AsyncFilesAssumption, FilesAreRight, NEW o \in Owners, Call(o)
    PROVE  FilesAreRight'
<1>0. /\ FilesTypeOK /\ Current /\ Bound /\ Served /\ WaitersDue
      /\ ~askedAgain => Single
  BY DEF FilesAreRight
<1> DEFINE l == [Top EXCEPT !.todo = Tail(@), !.running = o]
<1>1. /\ stack # <<>> /\ Top \in Loop /\ Top.todo \in Seq(Entries) /\ Top.todo # <<>>
      /\ Head(Top.todo) = o /\ Top.file \in Files
  BY <1>0, TopFacts DEF Call, Top
<1>2. /\ Tail(Top.todo) \in Seq(Entries) /\ Has(Top.todo, o)
      /\ \A v : Has(Tail(Top.todo), v) => Has(Top.todo, v)
      /\ \A v : Has(Top.todo, v) /\ v # o => Has(Tail(Top.todo), v)
      /\ Once(Top.todo) => Once(Tail(Top.todo))
      /\ Once(Top.todo) => ~Has(Tail(Top.todo), o)
  BY <1>1, RestFacts
<1>3. l \in Loop /\ l.file = Top.file /\ l.stale = Top.stale /\ l.todo = Tail(Top.todo)
  BY <1>1, <1>2 DEF Loop
<1>4. /\ stack' = WithTop(l)
      /\ requestVars' = requestVars /\ listeners' = listeners /\ erased' = erased
      /\ asked' = asked /\ hidden' = hidden /\ askedAgain' = askedAgain
      /\ answers' = [answers EXCEPT ![o] = IF @ = 0 THEN 1 ELSE 2]
      /\ shown' = [shown EXCEPT ![o] = Top.file]
  BY DEF Call
<1> HIDE DEF l
<1>5. TopMoved(l)
  BY <1>1, <1>2, <1>3, <1>4, TopMoves
<1> USE DEF TopMoved
<1>6. /\ asked[o] = Top.file /\ Running(Top.file)
      /\ \A n \in Calls : n = Len(stack) \/ stack'[n].todo = stack[n].todo
  BY <1>0, <1>2, <1>5 DEF Current, Top, Running
<1>7. /\ shown'[o] = asked[o] /\ answers'[o] = IF answers[o] = 0 THEN 1 ELSE 2
      /\ \A v \in Owners : v # o => shown'[v] = shown[v] /\ answers'[v] = answers[v]
  BY <1>0, <1>4, <1>6 DEF FilesTypeOK
<1>8. FilesTypeOK'
  <2>1. shown' \in [Owners -> Files \cup {NoFile}] /\ answers' \in [Owners -> 0..2]
    BY <1>0, <1>1, <1>4 DEF FilesTypeOK
  <2> QED
    BY <1>0, <1>4, <1>5, <2>1 DEF FilesTypeOK
<1>9. Bound' /\ Served'
  BY <1>0, <1>4, <1>7 DEF Bound, Served, Waits
<1>10. WaitersDue'
  <2>1. ASSUME NEW v \in Owners, NEW f \in Files, Waits(v, f)', IsReady(f)'
        PROVE  \E n \in Calls' : stack'[n].file = f /\ ~stack'[n].stale /\ Has(stack'[n].todo, v)
    <3>1. v # o /\ Waits(v, f) /\ IsReady(f)
      BY <1>4, <1>5, <1>7, <2>1 DEF Waits, IsReady
    <3>2. PICK n \in Calls : stack[n].file = f /\ ~stack[n].stale /\ Has(stack[n].todo, v)
      BY <1>0, <3>1 DEF WaitersDue
    <3>3. Has(stack'[n].todo, v)
      BY <1>2, <1>3, <1>5, <3>1, <3>2 DEF Top
    <3> QED
      BY <1>5, <3>2, <3>3
  <2> QED
    BY <2>1 DEF WaitersDue
<1>11. ASSUME ~askedAgain' PROVE Single'
  <2>0. Single
    BY <1>0, <1>4, <1>11
  <2>1. answers[o] = 0 /\ ~Has(l.todo, o)
    BY <1>2, <1>3, <1>5, <2>0 DEF Single, Top
  <2>2. ASSUME NEW n \in Calls', NEW v \in Owners, Has(stack'[n].todo, v) PROVE answers'[v] = 0
    <3>1. v # o
      <4>1. CASE n = Len(stack)
        BY <1>5, <2>1, <2>2, <4>1
      <4>2. CASE n # Len(stack)
        <5>1. ~Has(stack[n].todo, o)
          BY <1>0, <1>5, <1>6, <2>0, <2>2, <4>2 DEF Current, Single, Top
        <5> QED
          BY <1>5, <2>2, <4>2, <5>1
      <4> QED
        BY <4>1, <4>2
    <3> QED
      BY <1>5, <1>7, <2>0, <2>2, <3>1 DEF Single
  <2>3. ASSUME NEW f \in Files, NEW v \in Owners, Has(listeners'[f], v), ~Running(f)'
        PROVE  answers'[v] = 0
    <3>1. v # o
      BY <1>0, <1>4, <1>5, <1>6, <2>3 DEF Current
    <3> QED
      BY <1>4, <1>5, <1>7, <2>0, <2>3, <3>1 DEF Single
  <2>4. \A f \in Files : Once(listeners'[f])
    BY <1>4, <2>0 DEF Single
  <2>5. \A v \in Owners : answers'[v] <= 1
    BY <1>7, <2>0, <2>1 DEF Single
  <2> QED
    BY <1>5, <2>0, <2>2, <2>3, <2>4, <2>5 DEF Single
<1> QED
  BY <1>5, <1>8, <1>9, <1>10, <1>11 DEF FilesAreRight

LEMMA ReturnKeeps ==
    ASSUME AsyncFilesAssumption, FilesAreRight, CallReturns
    PROVE  FilesAreRight'
<1>0. /\ FilesTypeOK /\ Bound /\ Served /\ WaitersDue
      /\ ~askedAgain => Single
  BY DEF FilesAreRight
<1> DEFINE l == [Top EXCEPT !.running = NoOwner]
<1>1. stack # <<>> /\ Top \in Loop
  BY <1>0, TopFacts DEF CallReturns, Top
<1>2. l \in Loop /\ l.file = Top.file /\ l.stale = Top.stale /\ l.todo = Top.todo
  BY <1>1 DEF Loop
<1>3. /\ stack' = WithTop(l)
      /\ requestVars' = requestVars /\ listeners' = listeners /\ erased' = erased
      /\ asked' = asked /\ hidden' = hidden /\ answers' = answers /\ shown' = shown /\ askedAgain' = askedAgain
  BY <1>1 DEF CallReturns, ownerVars, Leave, WithTop, Top
<1> HIDE DEF l
<1>4. TopMoved(l)
  BY <1>1, <1>2, <1>3, TopMoves
<1> USE DEF TopMoved
<1>5. \A n \in Calls : stack'[n].todo = stack[n].todo
  BY <1>2, <1>4 DEF Top
<1>6. FilesTypeOK'
  BY <1>0, <1>3, <1>4 DEF FilesTypeOK
<1>7. Bound' /\ Served'
  BY <1>0, <1>3 DEF Bound, Served, Waits
<1>8. WaitersDue'
  BY <1>0, <1>3, <1>4, <1>5 DEF WaitersDue, Waits, IsReady
<1>9. ~askedAgain' => Single'
  BY <1>0, <1>3, <1>4 DEF Single
<1> QED
  BY <1>4, <1>6, <1>7, <1>8, <1>9 DEF FilesAreRight

\* The end of a call clears the vector of its file. Nobody in it waits any more: who waits
\* has his call before him in a loop that is not stale, and that is the innermost of the
\* file, which has nothing left.
LEMMA EndKeeps ==
    ASSUME AsyncFilesAssumption, FilesAreRight, LoopEnds
    PROVE  FilesAreRight'
<1>0. /\ FilesTypeOK /\ Current /\ Requested /\ Bound /\ Served /\ WaitersDue /\ OneLive /\ Begun
      /\ ~askedAgain => Single
  BY DEF FilesAreRight
<1> DEFINE f == Top.file
           seen(c) == [c EXCEPT !.stale = @ \/ c.file = f]
<1>1. /\ stack # <<>> /\ Top.todo = <<>>
      /\ listeners' = [listeners EXCEPT ![f] = <<>>]
      /\ stack' = [i \in 1 .. Len(stack) - 1 |-> seen(stack[i])]
      /\ state' = state /\ important' = important /\ graphic' = graphic /\ erased' = erased
      /\ asked' = asked /\ hidden' = hidden /\ answers' = answers /\ shown' = shown /\ askedAgain' = askedAgain
  BY DEF LoopEnds, requestVars, ownerVars
<1>2. /\ Len(stack) \in Calls /\ Calls = 1 .. Len(stack) /\ Len(stack) \in Nat
      /\ \A n \in Calls : stack[n] \in Loop
      /\ f \in Files
  BY <1>0, <1>1, TopFacts DEF Top
<1>3. \A c \in Loop : /\ seen(c) \in Loop /\ seen(c).file = c.file /\ seen(c).todo = c.todo
                      /\ seen(c).stale <=> c.stale \/ c.file = f
  BY DEF Loop
<1>4. ~\E v : Has(Top.todo, v)
  BY <1>1 DEF Has
<1>5. Top = stack[Len(stack)]
  BY DEF Top
<1> HIDE DEF seen, f
<1>6. stack' \in Seq(Loop) /\ Calls' = Calls \ {Len(stack)}
  <2>1. Len(stack) - 1 \in Nat /\ \A i \in 1 .. Len(stack) - 1 : seen(stack[i]) \in Loop
    BY <1>2, <1>3
  <2>2. stack' \in Seq(Loop)
    BY <1>1, <2>1, IsASeq
  <2>3. Len(stack') = Len(stack) - 1
    BY <1>1, <2>1, <2>2, LenProperties
  <2> QED
    BY <1>2, <2>2, <2>3 DEF Calls
<1>7. \A n \in Calls' : /\ n \in Calls /\ n # Len(stack) /\ n < Len(stack)
                        /\ stack'[n].file = stack[n].file /\ stack'[n].todo = stack[n].todo
                        /\ stack'[n].stale <=> stack[n].stale \/ stack[n].file = f
  BY <1>1, <1>2, <1>3, <1>6
<1>8. /\ listeners' \in [Files -> Seq(Entries)] /\ listeners'[f] = <<>>
      /\ ~\E v : Has(listeners'[f], v)
      /\ \A g \in Files : g # f => listeners'[g] = listeners[g]
  BY <1>0, <1>1, <1>2 DEF FilesTypeOK, Has
<1>9. ASSUME NEW v \in Owners PROVE ~Waits(v, f)
  <2> SUFFICES ASSUME Waits(v, f) PROVE FALSE
    OBVIOUS
  <2>1. IsReady(f)
    BY <1>0, <1>2, <1>5 DEF Begun, f
  <2>2. PICK n \in Calls : stack[n].file = f /\ ~stack[n].stale /\ Has(stack[n].todo, v)
    BY <1>0, <1>2, <2>1 DEF WaitersDue
  <2>3. n < Len(stack)
    BY <1>2, <1>4, <1>5, <2>2
  <2> QED
    BY <1>0, <1>2, <1>5, <2>2, <2>3 DEF OneLive, f
<1>10. FilesTypeOK'
  BY <1>0, <1>1, <1>6, <1>8 DEF FilesTypeOK
<1>11. Current'
  <2>1. ASSUME NEW g \in Files, NEW v \in Owners, Has(listeners'[g], v) PROVE asked'[v] = g
    BY <1>0, <1>1, <1>8, <2>1 DEF Current
  <2>2. \A n \in Calls', v \in Owners : Has(stack'[n].todo, v) => asked'[v] = stack'[n].file
    BY <1>0, <1>1, <1>7 DEF Current
  <2> QED
    BY <2>1, <2>2 DEF Current
<1>12. Requested' /\ Served'
  BY <1>0, <1>1 DEF Requested, Served
<1>13. Bound'
  BY <1>0, <1>1, <1>8, <1>9 DEF Bound, Waits
<1>14. WaitersDue'
  <2>1. ASSUME NEW v \in Owners, NEW g \in Files, Waits(v, g)', IsReady(g)'
        PROVE  \E n \in Calls' : stack'[n].file = g /\ ~stack'[n].stale /\ Has(stack'[n].todo, v)
    <3>1. Waits(v, g) /\ IsReady(g) /\ g # f
      BY <1>1, <1>9, <2>1 DEF Waits, IsReady
    <3>2. PICK n \in Calls : stack[n].file = g /\ ~stack[n].stale /\ Has(stack[n].todo, v)
      BY <1>0, <3>1 DEF WaitersDue
    <3>3. n \in Calls'
      BY <1>4, <1>5, <1>6, <3>2
    <3> QED
      BY <1>7, <3>1, <3>2, <3>3
  <2> QED
    BY <2>1 DEF WaitersDue
<1>15. OneLive' /\ Begun'
  BY <1>0, <1>1, <1>7 DEF OneLive, Begun, IsReady
<1>16. ASSUME ~askedAgain' PROVE Single'
  <2>0. Single
    BY <1>0, <1>1, <1>16
  <2>1. \A n \in Calls' : stack[n].file # f
    BY <1>2, <1>5, <1>7, <2>0 DEF Single, f
  <2>2. /\ \A n \in Calls' : ~stack'[n].stale /\ Once(stack'[n].todo)
        /\ \A m, n \in Calls' : stack'[m].file = stack'[n].file => m = n
        /\ \A n \in Calls', v \in Owners : Has(stack'[n].todo, v) => answers'[v] = 0
    <3>1. /\ \A n \in Calls : ~stack[n].stale /\ Once(stack[n].todo)
          /\ \A m, n \in Calls : stack[m].file = stack[n].file => m = n
          /\ \A n \in Calls, v \in Owners : Has(stack[n].todo, v) => answers[v] = 0
      BY <2>0 DEF Single
    <3>2. \A n \in Calls' : ~stack'[n].stale
      BY <1>7, <2>1, <3>1
    <3>3. \A n \in Calls' : Once(stack'[n].todo)
      BY <1>7, <3>1
    <3>4. \A m, n \in Calls' : stack'[m].file = stack'[n].file => m = n
      BY <1>7, <3>1
    <3>5. \A n \in Calls', v \in Owners : Has(stack'[n].todo, v) => answers'[v] = 0
      BY <1>1, <1>7, <3>1
    <3> QED
      BY <3>2, <3>3, <3>4, <3>5
  <2>3. ASSUME NEW g \in Files, NEW v \in Owners, Has(listeners'[g], v), ~Running(g)'
        PROVE  answers'[v] = 0
    <3>1. g # f /\ Has(listeners[g], v)
      BY <1>8, <2>3
    <3>2. ~Running(g)
      BY <1>5, <1>6, <1>7, <2>3, <3>1 DEF Running, f
    <3> QED
      BY <1>1, <2>0, <3>1, <3>2 DEF Single
  <2>4. \A g \in Files : Once(listeners'[g])
    BY <1>8, <2>0 DEF Single, Once
  <2>5. \A v \in Owners : answers'[v] <= 1
    BY <1>1, <2>0 DEF Single
  <2> QED
    BY <2>2, <2>3, <2>4, <2>5 DEF Single
<1> QED
  BY <1>10, <1>11, <1>12, <1>13, <1>14, <1>15, <1>16 DEF FilesAreRight

-----------------------------------------------------------------------------
(* The theorems.                                                            *)

\* A listener asks for a file that no call runs for, unless it asks for its own.
LEMMA CallAsksKeeps ==
    ASSUME AsyncFilesAssumption, FilesAreRight, NEW o \in Owners, NEW f \in Files, CallAsks(o, f)
    PROVE  FilesAreRight'
<1>1. Ask(o, f)
  BY DEF CallAsks
<1>2. (SelfAsks \/ ~Running(f)) /\ askedAgain' = (askedAgain \/ Running(f))
  <2>1. DOMAIN stack = Calls /\ FilesTypeOK
    BY LenProperties DEF FilesAreRight, FilesTypeOK, Calls
  <2>2. Running(Top.file) /\ askedAgain \in BOOLEAN
    BY <2>1, TopFacts DEF CallAsks, Running, Top, FilesTypeOK
  <2> QED
    BY <2>1, <2>2 DEF CallAsks, Running
<1> QED
  BY <1>1, <1>2, AskKeeps

LEMMA AskForFileKeeps ==
    ASSUME AsyncFilesAssumption, FilesAreRight, NEW o \in Owners, NEW f \in Files, AskForFile(o, f)
    PROVE  FilesAreRight'
<1>1. Ask(o, f) /\ ~Running(f) /\ askedAgain' = askedAgain /\ askedAgain \in BOOLEAN
  BY DEF AskForFile, Running, Calls, FilesAreRight, FilesTypeOK
<1> QED
  BY <1>1, AskKeeps

LEMMA StepKeepsFiles ==
    ASSUME AsyncFilesAssumption, FilesAreRight, [FilesNext]_fileVars PROVE FilesAreRight'
<1>1. ASSUME NEW o \in Owners, NEW f \in Files, AskForFile(o, f) PROVE FilesAreRight'
  BY <1>1, AskForFileKeeps
<1>2. ASSUME NEW f \in Files, Fetch(f) PROVE FilesAreRight'
  BY <1>2, FetchKeeps
<1>3. ASSUME NEW o \in Owners, Release(o) PROVE FilesAreRight'
  BY <1>3, ReleaseKeeps
<1>4. ASSUME NEW f \in Files, NEW success \in BOOLEAN, DownloadDone(f, success)
      PROVE  FilesAreRight'
  BY <1>4, DownloadKeeps
<1>5. CASE Transition
  BY <1>5, TransitionKeeps
<1>6. ASSUME NEW o \in Owners, NEW f \in Files, CallAsks(o, f) PROVE FilesAreRight'
  BY <1>6, CallAsksKeeps
<1>7. CASE Skip
  BY <1>7, SkipKeeps
<1>8. ASSUME NEW o \in Owners, Call(o) PROVE FilesAreRight'
  BY <1>8, CallKeeps
<1>9. CASE CallReturns
  BY <1>9, ReturnKeeps
<1>10. CASE LoopEnds
  BY <1>10, EndKeeps
<1>11. CASE UNCHANGED fileVars
  <2>1. /\ stack' = stack /\ state' = state /\ important' = important /\ graphic' = graphic
        /\ shown' = shown /\ askedAgain' = askedAgain /\ asked' = asked /\ hidden' = hidden /\ answers' = answers
        /\ listeners' = listeners /\ erased' = erased
    BY <1>11 DEF fileVars, requestVars, ownerVars
  <2>2. FilesTypeOK' /\ Current' /\ Requested' /\ Bound' /\ Served' /\ OneLive' /\ Begun'
    BY <2>1 DEF FilesAreRight, FilesTypeOK, Current, Requested, Bound, Served, OneLive, Begun, Calls,
                Waits, IsReady
  <2>3. WaitersDue' /\ (~askedAgain' => Single')
    BY <2>1 DEF FilesAreRight, WaitersDue, Single, Calls, Waits, IsReady, Running
  <2> QED
    BY <2>2, <2>3 DEF FilesAreRight
<1> QED
  BY <1>1, <1>2, <1>3, <1>4, <1>5, <1>6, <1>7, <1>8, <1>9, <1>10, <1>11 DEF FilesNext, CallStep

LEMMA FilesStayRight == AsyncFilesAssumption => (FilesSpec => []FilesAreRight)
<1> SUFFICES ASSUME AsyncFilesAssumption PROVE FilesSpec => []FilesAreRight
  OBVIOUS
<1>1. FilesInit => FilesAreRight
  BY InitFiles
<1>2. FilesAreRight /\ [FilesNext]_fileVars => FilesAreRight'
  BY StepKeepsFiles
<1> QED
  BY <1>1, <1>2, PTL DEF FilesSpec

\* In every order of asks, downloads and nested calls (async_handler.cpp:299 to 330): every
\* owner is shown the file it asked for last once that file is there; what waits for the
\* graphics, or for the important files behind an erased screen, has all of them; no request
\* is left that nobody started; and a binding is called once at most.
THEOREM FilesServeOwners == AsyncFilesAssumption => (FilesSpec => []FilesInv)
<1> SUFFICES ASSUME AsyncFilesAssumption PROVE FilesSpec => []FilesInv
  OBVIOUS
<1>1. FilesSpec => []FilesAreRight
  BY FilesStayRight
<1>2. FilesAreRight => FilesInv
  BY RightMeans
<1> QED
  BY <1>1, <1>2, PTL

\* A step that does not ask, let go or call does not show in FileAsks.
LEMMA StepAnswersAsks ==
    ASSUME AsyncFilesAssumption, ~SelfAsks, FilesAreRight, [FilesNext]_fileVars
    PROVE  [Asks!Next]_<<[o \in Owners |-> IF answers[o] = 0 THEN asked[o] ELSE NoFile], shown>>
<1> DEFINE wanted == [o \in Owners |-> IF answers[o] = 0 THEN asked[o] ELSE NoFile]
           step == \E o \in Owners : \/ Asks!Answer(o)
                                     \/ \E f \in Files \cup {NoFile} : Asks!Want(o, f)
<1>0. FilesTypeOK /\ Current /\ Single
  BY DEF FilesAreRight, FilesTypeOK
<1>1. ASSUME NEW o \in Owners, NEW f \in Files, Ask(o, f) PROVE step
  <2>1. shown' = shown /\ wanted' = [wanted EXCEPT ![o] = f]
    BY <1>0, <1>1 DEF Ask, FilesTypeOK
  <2> QED
    BY <2>1 DEF Asks!Want
<1>2. ASSUME NEW o \in Owners, Release(o) PROVE step
  <2>1. shown' = shown /\ wanted' = [wanted EXCEPT ![o] = NoFile]
    BY <1>0, <1>2 DEF Release, FilesTypeOK
  <2> QED
    BY <2>1 DEF Asks!Want
<1>3. ASSUME NEW o \in Owners, Call(o) PROVE step
  <2>1. /\ stack # <<>> /\ Len(stack) \in Calls /\ Top = stack[Len(stack)]
        /\ Top.todo \in Seq(Entries) /\ Top.todo # <<>> /\ Head(Top.todo) = o /\ Top.file \in Files
    BY <1>0, <1>3, TopFacts DEF Call, Top
  <2>2. asked[o] = Top.file /\ answers[o] = 0
    <3>1. Has(Top.todo, o)
      BY <2>1, RestFacts
    <3> QED
      BY <1>0, <2>1, <3>1 DEF Current, Single
  <2>3. /\ shown' = [shown EXCEPT ![o] = Top.file] /\ asked' = asked
        /\ answers' = [answers EXCEPT ![o] = IF @ = 0 THEN 1 ELSE 2]
    BY <1>3 DEF Call
  <2>4. wanted[o] = Top.file /\ Top.file # NoFile
    BY <2>1, <2>2 DEF AsyncFilesAssumption
  <2>5. wanted' = [wanted EXCEPT ![o] = NoFile]
    <3>1. answers'[o] # 0 /\ \A v \in Owners : v # o => answers'[v] = answers[v]
      BY <1>0, <2>3 DEF FilesTypeOK
    <3> QED
      BY <2>3, <3>1
  <2>6. shown' = [shown EXCEPT ![o] = wanted[o]]
    BY <2>3, <2>4
  <2> QED
    BY <2>4, <2>5, <2>6 DEF Asks!Answer
<1>4. CASE UNCHANGED <<asked, answers, shown>>
  BY <1>4
<1>5. \/ step
      \/ UNCHANGED <<asked, answers, shown>>
  BY <1>1, <1>2, <1>3 DEF FilesNext, CallStep, AskForFile, CallAsks, Fetch, DownloadDone, Transition,
                          Skip, CallReturns, LoopEnds, ownerVars, fileVars
<1> QED
  BY <1>4, <1>5 DEF Asks!Next

\* As long as no listener asks for the file it is called for, the asynchronous files keep
\* the promise of FileAsks: an owner is called only for the file it waits for, and once.
THEOREM FilesImplementAsks == AsyncFilesAssumption /\ ~SelfAsks => (FilesSpec => Asks!Spec)
<1> SUFFICES ASSUME AsyncFilesAssumption, ~SelfAsks PROVE FilesSpec => Asks!Spec
  OBVIOUS
<1>1. FilesInit => Asks!Init
  BY DEF FilesInit, Asks!Init
<1>2. FilesSpec => []FilesAreRight
  BY FilesStayRight
<1>3. FilesAreRight /\ [FilesNext]_fileVars =>
        [Asks!Next]_<<[o \in Owners |-> IF answers[o] = 0 THEN asked[o] ELSE NoFile], shown>>
  BY StepAnswersAsks
<1> QED
  BY <1>1, <1>2, <1>3, PTL DEF FilesSpec, Asks!Spec

-----------------------------------------------------------------------------
(* SharedWorld.                                                             *)

SwitchPackets(id) == {SwitchPacket(id, value) : value \in BOOLEAN}
WeatherPackets == {WeatherPacket(w) : w \in Weathers}
NpcPackets == {NpcPacket(at) : at \in Spots}

\* The newest packet of Q in s is p; there is none.
Newest(s, Q, p) == \E i \in DOMAIN s : s[i] = p /\ \A j \in DOMAIN s : j > i => s[j] \notin Q
Without(s, Q) == \A i \in DOMAIN s : s[i] \notin Q

\* What p says is there, or will be when all packets on their way have come.
Due(s, Q, p, there) == Newest(s, Q, p) \/ (Without(s, Q) /\ there)

\* Only one player writes: nobody tells him of switches and weather.
Alone(w) ==
    /\ \A c \in Clients \ {w} : nextWeather[c] = NoWeather
    /\ Without(inbox[w], WeatherPackets)
    /\ \A id \in Switches : Without(inbox[w], SwitchPackets(id))

SwitchesDue(w) ==
    \A c \in Clients \ {w} : \A id \in (Whitelist[w] \cap Whitelist[c]) \ Missed :
        Due(inbox[c], SwitchPackets(id), SwitchPacket(id, switches[w][id]),
            switches[c][id] = switches[w][id])

\* What waits for the delay is what the writer sees.
WeatherDue(w) ==
    /\ nextWeather[w] \in {NoWeather, weather[w]}
    /\ nextWeather[w] = NoWeather =>
         \A c \in Clients \ {w} :
            Due(inbox[c], WeatherPackets, WeatherPacket(weather[w]), weather[c] = weather[w])

\* Once the event was moved by way of the server while all knew each other, nobody moves it
\* alone any more.
NpcDue ==
    together =>
        /\ SyncNpc /\ \A c \in Clients : acquainted[c]
        /\ \E at \in Spots : \A c \in Clients :
              Due(inbox[c], NpcPackets, NpcPacket(at), npc[c] = at)

WorldInv ==
    /\ TypeOK
    /\ OthersKeepOut
    /\ \A w \in Writers : Writers = {w} => Alone(w) /\ SwitchesDue(w) /\ WeatherDue(w)
    /\ NpcDue

-----------------------------------------------------------------------------
(* Packets and their order.                                                 *)

LEMMA PacketFacts ==
    /\ \A id \in Switches, value \in BOOLEAN : SwitchPacket(id, value) \in Packets
    /\ \A w \in Weathers : WeatherPacket(w) \in Packets
    /\ \A at \in Spots : NpcPacket(at) \in Packets
    /\ Greeting \in Packets
    /\ \A p \in Packets : p.type = "switchsync" =>
          p.id \in Switches /\ p.value \in BOOLEAN /\ p = SwitchPacket(p.id, p.value)
    /\ \A p \in Packets : p.type = "weather" =>
          p.weather \in Weathers /\ p = WeatherPacket(p.weather)
    /\ \A p \in Packets : p.type = "npcmove" => p.at \in Spots /\ p = NpcPacket(p.at)
<1>1. /\ \A id \in Switches, value \in BOOLEAN : SwitchPacket(id, value) \in Packets
      /\ \A w \in Weathers : WeatherPacket(w) \in Packets
      /\ \A at \in Spots : NpcPacket(at) \in Packets
      /\ Greeting \in Packets
  BY DEF Packets
<1>2. ASSUME NEW p \in Packets
      PROVE  \/ \E id \in Switches, value \in BOOLEAN : p = SwitchPacket(id, value)
             \/ \E w \in Weathers : p = WeatherPacket(w)
             \/ \E at \in Spots : p = NpcPacket(at)
             \/ p = Greeting
  BY DEF Packets
<1>3. /\ \A id, value : /\ SwitchPacket(id, value).type = "switchsync"
                        /\ SwitchPacket(id, value).id = id
                        /\ SwitchPacket(id, value).value = value
      /\ \A w : WeatherPacket(w).type = "weather" /\ WeatherPacket(w).weather = w
      /\ \A at : NpcPacket(at).type = "npcmove" /\ NpcPacket(at).at = at
      /\ Greeting.type = "other"
  BY DEF SwitchPacket, WeatherPacket, NpcPacket, Greeting
<1>4. ASSUME NEW p \in Packets
      PROVE  /\ p.type = "switchsync" =>
                  p.id \in Switches /\ p.value \in BOOLEAN /\ p = SwitchPacket(p.id, p.value)
             /\ p.type = "weather" => p.weather \in Weathers /\ p = WeatherPacket(p.weather)
             /\ p.type = "npcmove" => p.at \in Spots /\ p = NpcPacket(p.at)
  BY <1>2, <1>3
<1> QED
  BY <1>1, <1>4

LEMMA KindFacts ==
    ASSUME NEW p
    PROVE  /\ \A id : p \in SwitchPackets(id) => p.type = "switchsync" /\ p.id = id
           /\ p \in WeatherPackets => p.type = "weather"
           /\ p \in NpcPackets => p.type = "npcmove"
  BY DEF SwitchPackets, WeatherPackets, NpcPackets, SwitchPacket, WeatherPacket, NpcPacket

LEMMA Joined ==
    ASSUME NEW s \in Seq(Packets), NEW t \in Seq(Packets), NEW Q, NEW p, NEW there
    PROVE  /\ Without(s, Q) /\ Without(t, Q) => Without(s \o t, Q)
           /\ Newest(t, Q, p) => Due(s \o t, Q, p, there)
           /\ Due(s, Q, p, there) /\ Without(t, Q) => Due(s \o t, Q, p, there)
<1> DEFINE u == s \o t
<1>1. /\ Len(s) \in Nat /\ Len(t) \in Nat /\ Len(u) = Len(s) + Len(t)
      /\ DOMAIN s = 1..Len(s) /\ DOMAIN t = 1..Len(t) /\ DOMAIN u = 1..Len(u)
      /\ \A i \in 1..Len(s) : u[i] = s[i]
      /\ \A i \in 1..Len(t) : u[Len(s) + i] = t[i]
      /\ \A i \in DOMAIN u : i \in DOMAIN s \/ (i > Len(s) /\ i - Len(s) \in DOMAIN t)
  BY LenProperties, ConcatProperties
<1>2. \A i \in DOMAIN u : i \notin DOMAIN s => u[i] = t[i - Len(s)] /\ i - Len(s) \in DOMAIN t
  BY <1>1
<1> HIDE DEF u
<1>3. Without(s, Q) /\ Without(t, Q) => Without(u, Q)
  BY <1>1, <1>2 DEF Without
<1>4. ASSUME Newest(t, Q, p) PROVE Newest(u, Q, p)
  <2>1. PICK i \in DOMAIN t : t[i] = p /\ \A j \in DOMAIN t : j > i => t[j] \notin Q
    BY <1>4 DEF Newest
  <2>2. Len(s) + i \in DOMAIN u /\ u[Len(s) + i] = p
    BY <1>1, <2>1
  <2>3. ASSUME NEW j \in DOMAIN u, j > Len(s) + i PROVE u[j] \notin Q
    BY <1>1, <1>2, <2>1, <2>3
  <2> QED
    BY <2>2, <2>3 DEF Newest
<1>5. ASSUME Newest(s, Q, p), Without(t, Q) PROVE Newest(u, Q, p)
  <2>1. PICK i \in DOMAIN s : s[i] = p /\ \A j \in DOMAIN s : j > i => s[j] \notin Q
    BY <1>5 DEF Newest
  <2>2. i \in DOMAIN u /\ u[i] = p
    BY <1>1, <2>1
  <2>3. ASSUME NEW j \in DOMAIN u, j > i PROVE u[j] \notin Q
    BY <1>1, <1>2, <1>5, <2>1, <2>3 DEF Without
  <2> QED
    BY <2>2, <2>3 DEF Newest
<1> QED
  BY <1>3, <1>4, <1>5 DEF Due, u

LEMMA Taken ==
    ASSUME NEW s \in Seq(Packets), s # <<>>, NEW Q, NEW p
    PROVE  /\ Without(s, Q) => Head(s) \notin Q /\ Without(Tail(s), Q)
           /\ Newest(s, Q, p) =>
                Newest(Tail(s), Q, p) \/ (Head(s) = p /\ Without(Tail(s), Q))
<1> DEFINE t == Tail(s)
<1>1. /\ Len(t) = Len(s) - 1 /\ \A i \in 1..Len(t) : t[i] = s[i + 1]
      /\ Head(s) = s[1] /\ DOMAIN s = 1..Len(s) /\ DOMAIN t = 1..Len(s) - 1
      /\ Len(s) \in Nat \ {0}
  BY HeadTailProperties, LenProperties
<1> HIDE DEF t
<1>2. Without(s, Q) => Head(s) \notin Q /\ Without(t, Q)
  BY <1>1 DEF Without
<1>3. ASSUME Newest(s, Q, p) PROVE Newest(t, Q, p) \/ (Head(s) = p /\ Without(t, Q))
  <2>1. PICK i \in DOMAIN s : s[i] = p /\ \A j \in DOMAIN s : j > i => s[j] \notin Q
    BY <1>3 DEF Newest
  <2>2. CASE i = 1
    BY <1>1, <2>1, <2>2 DEF Without
  <2>3. CASE i # 1
    <3>1. i - 1 \in DOMAIN t /\ t[i - 1] = p
      BY <1>1, <2>1, <2>3
    <3>2. \A j \in DOMAIN t : j > i - 1 => t[j] \notin Q
      BY <1>1, <2>1
    <3> QED
      BY <3>1, <3>2 DEF Newest
  <2> QED
    BY <2>2, <2>3
<1> QED
  BY <1>2, <1>3 DEF t

LEMMA OnePacket ==
    ASSUME NEW p \in Packets, NEW Q
    PROVE  /\ <<p>> \in Seq(Packets)
           /\ p \notin Q => Without(<<p>>, Q)
           /\ Newest(<<p>>, Q, p)
  BY DEF Without, Newest

\* Each id of a finite set of numbers has its place in the order.
LEMMA NthFacts ==
    ASSUME NEW ids \in SUBSET Nat, IsFiniteSet(ids)
    PROVE  /\ Cardinality(ids) \in Nat
           /\ \A i \in 1..Cardinality(ids) : Nth(ids, i) \in ids
           /\ \A id \in ids : \E i \in 1..Cardinality(ids) : Nth(ids, i) = id
           /\ \A i, j \in 1..Cardinality(ids) : Nth(ids, i) = Nth(ids, j) => i = j
<1> DEFINE n == Cardinality(ids)
           below(id) == {other \in ids : other <= id}
           rank == [id \in ids |-> Cardinality(below(id))]
<1>1. n \in Nat
  BY FS_CardinalityType
<1>2. \A id \in ids : IsFiniteSet(below(id)) /\ rank[id] \in 1..n
  <2> SUFFICES ASSUME NEW id \in ids PROVE IsFiniteSet(below(id)) /\ rank[id] \in 1..n
    OBVIOUS
  <2>1. IsFiniteSet(below(id)) /\ Cardinality(below(id)) <= n
    BY FS_Subset
  <2>2. Cardinality(below(id)) \in Nat
    BY <2>1, FS_CardinalityType
  <2>3. id \in below(id)
    OBVIOUS
  <2>4. Cardinality(below(id)) # 0
    BY <2>1, <2>3, FS_EmptySet
  <2> HIDE DEF n, below
  <2> QED
    BY <1>1, <2>1, <2>2, <2>4
<1>3. ASSUME NEW x \in ids, NEW y \in ids, rank[x] = rank[y] PROVE x = y
  <2>1. ASSUME NEW u \in ids, NEW v \in ids, u < v PROVE rank[u] # rank[v]
    <3>0. u \in Nat /\ v \in Nat /\ \A o \in ids : o \in Nat
      OBVIOUS
    <3>1. below(u) \subseteq below(v) /\ v \in below(v) /\ v \notin below(u)
      <4>1. \A o \in ids : o <= u => o <= v
        BY <2>1, <3>0
      <4>2. v <= v /\ ~(v <= u)
        BY <2>1, <3>0
      <4> QED
        BY <4>1, <4>2
    <3>2. below(u) # below(v)
      BY <3>1
    <3>3. IsFiniteSet(below(v)) /\ below(u) \in SUBSET below(v)
      BY <1>2, <3>1
    <3>4. Cardinality(below(u)) # Cardinality(below(v))
      <4> HIDE DEF below
      <4> QED
        BY <3>2, <3>3, FS_Subset
    <3> QED
      BY <3>4
  <2>2. ~(x < y) /\ ~(y < x)
    BY <1>3, <2>1
  <2> QED
    BY <2>2
<1>4. rank \in Injection(ids, 1..n)
  BY <1>2, <1>3 DEF Injection, IsInjective
<1>5. rank \in Surjection(ids, 1..n)
  <2>1. IsFiniteSet(1..n) /\ Cardinality(1..n) = n
    BY <1>1, FS_Interval
  <2> HIDE DEF rank
  <2> QED
    BY <1>4, <2>1, FS_Injection
<1>6. \A i \in 1..n : Nth(ids, i) \in ids /\ rank[Nth(ids, i)] = i
  <2> SUFFICES ASSUME NEW i \in 1..n PROVE Nth(ids, i) \in ids /\ rank[Nth(ids, i)] = i
    OBVIOUS
  <2>1. \E id \in ids : rank[id] = i
    BY <1>5 DEF Surjection
  <2>2. \E id \in ids : Cardinality(below(id)) = i
    BY <2>1
  <2>3. Nth(ids, i) \in ids /\ Cardinality(below(Nth(ids, i))) = i
    BY <2>2 DEF Nth
  <2> QED
    BY <2>3
<1>7. \A id \in ids : Nth(ids, rank[id]) = id
  BY <1>2, <1>3, <1>6
<1> HIDE DEF rank, n
<1> QED
  BY <1>1, <1>2, <1>6, <1>7 DEF n

\* What SwitchSync sends: each id of the list on the whitelist, once, as it is now.
LEMMA SwitchSyncFacts ==
    ASSUME SharedWorldAssumption, NEW c \in Clients, NEW ids \in SUBSET Switches,
           NEW now \in [Switches -> BOOLEAN]
    PROVE  LET s == SwitchSync(c, ids, now)
           IN  /\ s \in Seq(Packets)
               /\ Without(s, WeatherPackets) /\ Without(s, NpcPackets)
               /\ \A id \in Switches :
                     IF id \in ids /\ id \in Whitelist[c]
                       THEN Newest(s, SwitchPackets(id), SwitchPacket(id, now[id]))
                       ELSE Without(s, SwitchPackets(id))
<1> DEFINE sent == ids \cap Whitelist[c]
           n == Cardinality(sent)
           e(i) == SwitchPacket(Nth(sent, i), now[Nth(sent, i)])
           s == SwitchSync(c, ids, now)
<1>1. sent \in SUBSET Switches /\ sent \in SUBSET Nat /\ IsFiniteSet(sent)
  <2>1. sent \in SUBSET Switches /\ IsFiniteSet(Switches) /\ Switches \subseteq Nat
    BY DEF SharedWorldAssumption
  <2> QED
    BY <2>1, FS_Subset
<1>2. /\ n \in Nat
      /\ \A i \in 1..n : Nth(sent, i) \in sent
      /\ \A id \in sent : \E i \in 1..n : Nth(sent, i) = id
      /\ \A i, j \in 1..n : Nth(sent, i) = Nth(sent, j) => i = j
  <2> HIDE DEF sent
  <2> QED
    BY <1>1, NthFacts
<1>3. s = [i \in 1..n |-> e(i)]
  BY DEF SwitchSync
<1>4. \A i \in 1..n : e(i) \in Packets /\ e(i).type = "switchsync" /\ e(i).id = Nth(sent, i)
  <2> SUFFICES ASSUME NEW i \in 1..n
               PROVE  e(i) \in Packets /\ e(i).type = "switchsync" /\ e(i).id = Nth(sent, i)
    OBVIOUS
  <2>1. Nth(sent, i) \in Switches /\ now[Nth(sent, i)] \in BOOLEAN
    BY <1>1, <1>2
  <2> QED
    BY <2>1, PacketFacts DEF SwitchPacket
<1> HIDE DEF n
<1>5. s \in Seq(Packets)
  <2>1. \A i \in 1..n : e(i) \in Packets
    BY <1>4
  <2>2. [i \in 1..n |-> e(i)] \in Seq(Packets)
    <3> HIDE DEF e
    <3> QED
      BY <1>2, <2>1, IsASeq
  <2> QED
    BY <1>3, <2>2
<1>6. DOMAIN s = 1..n /\ \A i \in 1..n : s[i] = e(i)
  BY <1>3
<1>7. Without(s, WeatherPackets) /\ Without(s, NpcPackets)
  <2> HIDE DEF e, s
  <2> QED
    BY <1>4, <1>6, KindFacts DEF Without
<1>8. ASSUME NEW id \in Switches, id \in ids /\ id \in Whitelist[c]
      PROVE  Newest(s, SwitchPackets(id), SwitchPacket(id, now[id]))
  <2>1. PICK i \in 1..n : Nth(sent, i) = id
    BY <1>2, <1>8
  <2>2. i \in DOMAIN s /\ s[i] = SwitchPacket(id, now[id])
    BY <1>6, <2>1
  <2>3. ASSUME NEW j \in DOMAIN s, j > i PROVE s[j] \notin SwitchPackets(id)
    <3>1. j \in 1..n /\ j # i
      BY <1>2, <1>6, <2>3
    <3>2. s[j].id # id
      BY <1>2, <1>4, <1>6, <2>1, <3>1
    <3> QED
      BY <3>2, KindFacts
  <2> HIDE DEF s
  <2> QED
    BY <2>2, <2>3 DEF Newest
<1>9. ASSUME NEW id \in Switches, ~(id \in ids /\ id \in Whitelist[c])
      PROVE  Without(s, SwitchPackets(id))
  <2>1. ASSUME NEW i \in DOMAIN s PROVE s[i] \notin SwitchPackets(id)
    <3>1. i \in 1..n /\ s[i] = e(i)
      BY <1>6
    <3>2. id \notin sent
      BY <1>9
    <3> HIDE DEF s, sent, e
    <3>3. s[i].id \in sent
      BY <1>2, <1>4, <3>1
    <3>4. s[i].id # id
      BY <3>2, <3>3
    <3> QED
      BY <3>4, KindFacts
  <2> QED
    BY <2>1 DEF Without
<1> HIDE DEF s
<1> QED
  BY <1>5, <1>7, <1>8, <1>9 DEF s

LEMMA RelayFacts ==
    ASSUME TypeOK, NEW to \in SUBSET Clients, NEW packets \in Seq(Packets), Relay(to, packets)
    PROVE  /\ inbox' \in [Clients -> Seq(Packets)]
           /\ \A c \in to : inbox'[c] = inbox[c] \o packets
           /\ \A c \in Clients \ to : inbox'[c] = inbox[c]
<1>1. \A c \in Clients : inbox[c] \in Seq(Packets) /\ inbox[c] \o packets \in Seq(Packets)
  BY ConcatProperties DEF TypeOK
<1>2. inbox' = [c \in Clients |-> IF c \in to THEN inbox[c] \o packets ELSE inbox[c]]
  BY DEF Relay
<1> QED
  BY <1>1, <1>2

\* What a packet that is taken does to the one who takes it; nothing changes for the others.
LEMMA ReceiveFacts ==
    ASSUME SharedWorldAssumption, TypeOK, NEW c \in Clients, Receive(c)
    PROVE  /\ inbox[c] \in Seq(Packets) /\ inbox[c] # <<>> /\ Head(inbox[c]) \in Packets
           /\ inbox' \in [Clients -> Seq(Packets)] /\ inbox'[c] = Tail(inbox[c])
           /\ \A d \in Clients \ {c} :
                 /\ inbox'[d] = inbox[d] /\ switches'[d] = switches[d]
                 /\ weather'[d] = weather[d] /\ npc'[d] = npc[d]
                 /\ acquainted'[d] = acquainted[d]
           /\ \A id \in Switches :
                 switches'[c][id] =
                    IF Head(inbox[c]).type = "switchsync" /\ Head(inbox[c]).id = id
                       /\ id \in Whitelist[c]
                      THEN Head(inbox[c]).value ELSE switches[c][id]
           /\ weather'[c] = IF Head(inbox[c]).type = "weather" THEN Head(inbox[c]).weather
                            ELSE weather[c]
           /\ npc'[c] = IF Head(inbox[c]).type = "npcmove" THEN Head(inbox[c]).at ELSE npc[c]
           /\ acquainted[c] => acquainted'[c]
           /\ switches' \in [Clients -> [Switches -> BOOLEAN]]
           /\ weather' \in [Clients -> Weathers] /\ npc' \in [Clients -> Spots]
           /\ acquainted' \in [Clients -> BOOLEAN]
           /\ nextWeather' = nextWeather /\ weatherT' = weatherT /\ together' = together
<1> DEFINE p == Head(inbox[c])
<1>1. /\ inbox[c] \in Seq(Packets) /\ inbox[c] # <<>> /\ inbox \in [Clients -> Seq(Packets)]
      /\ switches \in [Clients -> [Switches -> BOOLEAN]] /\ weather \in [Clients -> Weathers]
      /\ npc \in [Clients -> Spots] /\ acquainted \in [Clients -> BOOLEAN]
  BY DEF TypeOK, Receive
<1>2. p \in Packets /\ Tail(inbox[c]) \in Seq(Packets)
  BY <1>1, HeadTailProperties
<1>3. inbox' = [inbox EXCEPT ![c] = Tail(@)]
  BY DEF Receive
<1>4. inbox' \in [Clients -> Seq(Packets)] /\ inbox'[c] = Tail(inbox[c])
      /\ \A d \in Clients \ {c} : inbox'[d] = inbox[d]
  BY <1>1, <1>2, <1>3
<1>5. /\ switches' = IF p.type = "switchsync" /\ p.id \in Whitelist[c]
                       THEN [switches EXCEPT ![c][p.id] = p.value] ELSE switches
      /\ weather' = IF p.type = "weather" THEN [weather EXCEPT ![c] = p.weather] ELSE weather
      /\ npc' = IF p.type = "npcmove" THEN [npc EXCEPT ![c] = p.at] ELSE npc
      /\ acquainted' = IF p.type = "npcmove" THEN acquainted
                                             ELSE [acquainted EXCEPT ![c] = TRUE]
      /\ nextWeather' = nextWeather /\ weatherT' = weatherT /\ together' = together
  BY DEF Receive
<1> HIDE DEF p
<1>6. /\ switches' \in [Clients -> [Switches -> BOOLEAN]]
      /\ \A d \in Clients \ {c} : switches'[d] = switches[d]
      /\ \A id \in Switches :
            switches'[c][id] = IF p.type = "switchsync" /\ p.id = id /\ id \in Whitelist[c]
                                 THEN p.value ELSE switches[c][id]
  <2>1. CASE p.type = "switchsync" /\ p.id \in Whitelist[c]
    <3>1. p.id \in Switches /\ p.value \in BOOLEAN
      BY <1>2, <2>1, PacketFacts
    <3>2. switches' = [switches EXCEPT ![c] = [switches[c] EXCEPT ![p.id] = p.value]]
      BY <1>5, <2>1
    <3>3. switches[c] \in [Switches -> BOOLEAN]
      BY <1>1
    <3>4. [switches[c] EXCEPT ![p.id] = p.value] \in [Switches -> BOOLEAN]
      BY <3>1, <3>3
    <3> QED
      BY <1>1, <2>1, <3>1, <3>2, <3>3, <3>4
  <2>2. CASE ~(p.type = "switchsync" /\ p.id \in Whitelist[c])
    BY <1>1, <1>5, <2>2
  <2> QED
    BY <2>1, <2>2
<1>7. /\ weather' \in [Clients -> Weathers] /\ npc' \in [Clients -> Spots]
      /\ \A d \in Clients \ {c} : weather'[d] = weather[d] /\ npc'[d] = npc[d]
      /\ weather'[c] = IF p.type = "weather" THEN p.weather ELSE weather[c]
      /\ npc'[c] = IF p.type = "npcmove" THEN p.at ELSE npc[c]
  BY <1>1, <1>2, <1>5, PacketFacts
<1>8. /\ acquainted' \in [Clients -> BOOLEAN]
      /\ \A d \in Clients \ {c} : acquainted'[d] = acquainted[d]
      /\ acquainted[c] => acquainted'[c]
  BY <1>1, <1>5
<1> QED
  BY <1>1, <1>2, <1>4, <1>5, <1>6, <1>7, <1>8 DEF p

-----------------------------------------------------------------------------
(* Each action keeps WorldInv.                                              *)

\* No packet of Q comes or goes.
Quiet(Q) ==
    \A c \in Clients : /\ Without(inbox[c], Q) => Without(inbox'[c], Q)
                       /\ \A p : Newest(inbox[c], Q, p) => Newest(inbox'[c], Q, p)

LEMMA SentQuiet ==
    ASSUME TypeOK, NEW to \in SUBSET Clients, NEW packets \in Seq(Packets), Relay(to, packets),
           NEW Q, Without(packets, Q)
    PROVE  Quiet(Q)
<1> SUFFICES ASSUME NEW c \in Clients
             PROVE  /\ Without(inbox[c], Q) => Without(inbox'[c], Q)
                    /\ \A p : Newest(inbox[c], Q, p) => Newest(inbox'[c], Q, p)
  BY DEF Quiet
<1>1. inbox[c] \in Seq(Packets)
  BY DEF TypeOK
<1>2. CASE c \in to
  <2>1. inbox'[c] = inbox[c] \o packets
    BY <1>2, RelayFacts
  <2>2. Without(inbox[c], Q) => Without(inbox'[c], Q)
    BY <1>1, <2>1, Joined
  <2>3. ASSUME NEW p, Newest(inbox[c], Q, p) PROVE Newest(inbox'[c], Q, p)
    <3>1. Due(inbox[c], Q, p, FALSE)
      BY <2>3 DEF Due
    <3>2. Due(inbox[c] \o packets, Q, p, FALSE)
      BY <1>1, <3>1, Joined
    <3> QED
      BY <2>1, <3>2 DEF Due
  <2> QED
    BY <2>2, <2>3
<1>3. CASE c \notin to
  <2>1. inbox'[c] = inbox[c]
    BY <1>3, RelayFacts
  <2> QED
    BY <2>1
<1> QED
  BY <1>2, <1>3

LEMMA SameQuiet == ASSUME NEW Q, inbox' = inbox PROVE Quiet(Q)
  BY DEF Quiet

\* A packet sent last is the newest.
LEMMA SentNewest ==
    ASSUME TypeOK, NEW to \in SUBSET Clients, NEW packets \in Seq(Packets), Relay(to, packets),
           NEW Q, NEW p, Newest(packets, Q, p), NEW c \in to, NEW there
    PROVE  Due(inbox'[c], Q, p, there)
<1>1. inbox[c] \in Seq(Packets) /\ inbox'[c] = inbox[c] \o packets
  BY RelayFacts DEF TypeOK
<1> QED
  BY <1>1, Joined

LEMMA AloneKept ==
    ASSUME NEW w \in Clients, Alone(w),
           \A c \in Clients \ {w} : nextWeather'[c] = nextWeather[c],
           \/ inbox'[w] = inbox[w]
           \/ Quiet(WeatherPackets) /\ \A id \in Switches : Quiet(SwitchPackets(id))
    PROVE  Alone(w)'
<1>1. Without(inbox[w], WeatherPackets) /\ \A id \in Switches : Without(inbox[w], SwitchPackets(id))
  BY DEF Alone
<1>2. /\ Without(inbox'[w], WeatherPackets)
      /\ \A id \in Switches : Without(inbox'[w], SwitchPackets(id))
  BY <1>1 DEF Quiet
<1>3. \A c \in Clients \ {w} : nextWeather'[c] = NoWeather
  BY DEF Alone
<1> QED
  BY <1>2, <1>3 DEF Alone, Without, WeatherPackets, SwitchPackets

LEMMA SwitchesKept ==
    ASSUME SharedWorldAssumption, NEW w \in Clients, SwitchesDue(w), switches' = switches,
           \A id \in Switches : Quiet(SwitchPackets(id))
    PROVE  SwitchesDue(w)'
<1> SUFFICES ASSUME NEW c \in Clients \ {w}, NEW id \in (Whitelist[w] \cap Whitelist[c]) \ Missed
             PROVE  Due(inbox'[c], SwitchPackets(id), SwitchPacket(id, switches[w][id]),
                        switches[c][id] = switches[w][id])
  BY DEF SwitchesDue, Due, Newest, Without, SwitchPackets, SwitchPacket
<1>1. id \in Switches
  BY DEF SharedWorldAssumption
<1>2. Due(inbox[c], SwitchPackets(id), SwitchPacket(id, switches[w][id]),
          switches[c][id] = switches[w][id])
  BY DEF SwitchesDue
<1> QED
  BY <1>1, <1>2 DEF Due, Quiet

LEMMA WeatherKept ==
    ASSUME NEW w \in Clients, WeatherDue(w), weather' = weather, nextWeather' = nextWeather,
           Quiet(WeatherPackets)
    PROVE  WeatherDue(w)'
<1>1. nextWeather'[w] \in {NoWeather, weather'[w]}
  BY DEF WeatherDue
<1>2. ASSUME nextWeather'[w] = NoWeather, NEW c \in Clients \ {w}
      PROVE  Due(inbox'[c], WeatherPackets, WeatherPacket(weather'[w]), weather'[c] = weather'[w])
  <2>1. Due(inbox[c], WeatherPackets, WeatherPacket(weather[w]), weather[c] = weather[w])
    BY <1>2 DEF WeatherDue
  <2> QED
    BY <2>1 DEF Due, Quiet
<1> QED
  BY <1>1, <1>2 DEF WeatherDue, Due, Newest, Without, WeatherPackets, WeatherPacket

LEMMA NpcKept ==
    ASSUME NpcDue, npc' = npc, together' = together, Quiet(NpcPackets),
           \A c \in Clients : acquainted[c] => acquainted'[c]
    PROVE  NpcDue'
<1> SUFFICES ASSUME together
             PROVE  /\ SyncNpc /\ \A c \in Clients : acquainted'[c]
                    /\ \E at \in Spots : \A c \in Clients :
                          Due(inbox'[c], NpcPackets, NpcPacket(at), npc[c] = at)
  BY DEF NpcDue, Due, Newest, Without, NpcPackets, NpcPacket
<1>1. PICK at \in Spots : \A c \in Clients :
             Due(inbox[c], NpcPackets, NpcPacket(at), npc[c] = at)
  BY DEF NpcDue
<1>2. \A c \in Clients : Due(inbox'[c], NpcPackets, NpcPacket(at), npc[c] = at)
  BY <1>1 DEF Due, Quiet
<1> QED
  BY <1>2 DEF NpcDue

LEMMA InitInv == ASSUME SharedWorldAssumption, Init PROVE WorldInv
<1>1. TypeOK
  <2>1. <<>> \in Seq(Packets) /\ 0 \in 0..Delay
    BY DEF SharedWorldAssumption
  <2>2. inbox \in [Clients -> Seq(Packets)] /\ weatherT \in [Clients -> 0..Delay]
    BY <2>1 DEF Init
  <2>3. switches \in [Clients -> [Switches -> BOOLEAN]]
    BY DEF Init
  <2> QED
    BY <2>2, <2>3 DEF TypeOK, Init, SharedWorldAssumption
<1>2. OthersKeepOut
  BY DEF OthersKeepOut, Init
<1>3. \A c \in Clients : inbox[c] = <<>>
  BY DEF Init
<1>4. \A c \in Clients : \A Q : Without(inbox[c], Q)
  BY <1>3 DEF Without
<1>5. ASSUME NEW w \in Writers PROVE Alone(w) /\ SwitchesDue(w) /\ WeatherDue(w)
  <2>1. w \in Clients
    BY DEF SharedWorldAssumption
  <2>2. Alone(w)
    BY <1>4, <2>1 DEF Alone, Init
  <2>3. SwitchesDue(w)
    <3> SUFFICES ASSUME NEW c \in Clients \ {w},
                        NEW id \in (Whitelist[w] \cap Whitelist[c]) \ Missed
                 PROVE  Due(inbox[c], SwitchPackets(id), SwitchPacket(id, switches[w][id]),
                            switches[c][id] = switches[w][id])
      BY DEF SwitchesDue
    <3>1. id \in Switches
      BY DEF SharedWorldAssumption
    <3>2. switches[c][id] = switches[w][id]
      BY <2>1, <3>1 DEF Init
    <3> QED
      BY <1>4, <3>2 DEF Due
  <2>4. WeatherDue(w)
    <3>1. nextWeather[w] = NoWeather /\ \A c \in Clients : weather[c] = weather[w]
      BY <2>1 DEF Init
    <3> QED
      BY <1>4, <3>1 DEF WeatherDue, Due
  <2> QED
    BY <2>2, <2>3, <2>4
<1>6. NpcDue
  BY DEF NpcDue, Init
<1> QED
  BY <1>1, <1>2, <1>5, <1>6 DEF WorldInv

\* A writer sets switches and announces those that he sets, the missed ones left out.
Writes(c, ids, now) ==
    /\ \A id \in Switches \ Missed : id \notin ids => now[id] = switches[c][id]
    /\ switches' = [switches EXCEPT ![c] = now]
    /\ Relay(Others(c), SwitchSync(c, ids, now))
    /\ UNCHANGED <<weather, nextWeather, weatherT, npc, acquainted, together>>

LEMMA Writing ==
    ASSUME SharedWorldAssumption, WorldInv, NEW c \in Writers, NEW ids \in SUBSET Switches,
           NEW now \in [Switches -> BOOLEAN], Writes(c, ids, now)
    PROVE  WorldInv'
<1> DEFINE packets == SwitchSync(c, ids, now)
<1>0. /\ \A id \in Switches \ Missed : id \notin ids => now[id] = switches[c][id]
      /\ switches' = [switches EXCEPT ![c] = now] /\ Relay(Others(c), packets)
      /\ weather' = weather /\ nextWeather' = nextWeather /\ weatherT' = weatherT
      /\ npc' = npc /\ acquainted' = acquainted /\ together' = together
  BY DEF Writes
<1>1. /\ packets \in Seq(Packets)
      /\ Without(packets, WeatherPackets) /\ Without(packets, NpcPackets)
      /\ \A id \in Switches :
            IF id \in ids /\ id \in Whitelist[c]
              THEN Newest(packets, SwitchPackets(id), SwitchPacket(id, now[id]))
              ELSE Without(packets, SwitchPackets(id))
  <2>1. c \in Clients
    BY DEF SharedWorldAssumption
  <2> QED
    BY <2>1, SwitchSyncFacts
<1>2. TypeOK /\ c \in Clients /\ Others(c) \in SUBSET Clients /\ Relay(Others(c), packets)
  BY <1>0 DEF WorldInv, SharedWorldAssumption, Others
<1> HIDE DEF packets
<1>3. /\ switches' \in [Clients -> [Switches -> BOOLEAN]] /\ switches'[c] = now
      /\ \A d \in Clients \ {c} : switches'[d] = switches[d]
  BY <1>0, <1>2 DEF TypeOK
<1>4. TypeOK'
  <2>1. inbox' \in [Clients -> Seq(Packets)]
    BY <1>1, <1>2, RelayFacts
  <2> QED
    BY <1>0, <1>2, <1>3, <2>1 DEF TypeOK
<1>5. OthersKeepOut'
  BY <1>3 DEF OthersKeepOut, WorldInv
<1>6. Quiet(WeatherPackets) /\ Quiet(NpcPackets)
  BY <1>1, <1>2, SentQuiet
<1>7. ASSUME NEW w \in Writers, Writers = {w} PROVE Alone(w)' /\ SwitchesDue(w)' /\ WeatherDue(w)'
  <2>1. w = c /\ w \in Clients /\ Alone(w) /\ SwitchesDue(w) /\ WeatherDue(w)
    BY <1>2, <1>7 DEF WorldInv
  <2>2. inbox'[w] = inbox[w]
    BY <1>1, <1>2, <2>1, RelayFacts DEF Others
  <2>3. Alone(w)'
    BY <1>0, <2>1, <2>2, AloneKept
  <2>4. SwitchesDue(w)'
    <3> SUFFICES ASSUME NEW d \in Clients \ {w},
                        NEW id \in (Whitelist[w] \cap Whitelist[d]) \ Missed
                 PROVE  Due(inbox'[d], SwitchPackets(id), SwitchPacket(id, switches'[w][id]),
                            switches'[d][id] = switches'[w][id])
      BY DEF SwitchesDue, Due, Newest, Without, SwitchPackets, SwitchPacket
    <3>1. id \in Switches \ Missed /\ d \in Others(c) /\ id \in Whitelist[c]
      BY <2>1 DEF SharedWorldAssumption, Others
    <3>2. switches'[w][id] = now[id] /\ switches'[d][id] = switches[d][id]
      BY <1>3, <2>1
    <3>3. CASE id \in ids
      <4>1. Newest(packets, SwitchPackets(id), SwitchPacket(id, now[id]))
        BY <1>1, <3>1, <3>3
      <4> QED
        BY <1>1, <1>2, <3>1, <3>2, <4>1, SentNewest
    <3>4. CASE id \notin ids
      <4>1. Without(packets, SwitchPackets(id))
        BY <1>1, <3>1, <3>4
      <4>2. Quiet(SwitchPackets(id))
        BY <1>1, <1>2, <4>1, SentQuiet
      <4>3. switches'[w][id] = switches[w][id]
        BY <1>0, <2>1, <3>1, <3>2, <3>4
      <4>4. Due(inbox[d], SwitchPackets(id), SwitchPacket(id, switches[w][id]),
                switches[d][id] = switches[w][id])
        BY <2>1 DEF SwitchesDue
      <4> QED
        BY <3>2, <4>2, <4>3, <4>4 DEF Due, Quiet
    <3> QED
      BY <3>3, <3>4
  <2>5. WeatherDue(w)'
    BY <1>0, <1>6, <2>1, WeatherKept
  <2> QED
    BY <2>3, <2>4, <2>5
<1>8. NpcDue'
  BY <1>0, <1>6, NpcKept DEF WorldInv
<1> QED
  BY <1>4, <1>5, <1>7, <1>8 DEF WorldInv

LEMMA ControlSwitchKeeps ==
    ASSUME SharedWorldAssumption, WorldInv, NEW c \in Writers, NEW id \in Switches,
           NEW value \in BOOLEAN, ControlSwitch(c, id, value)
    PROVE  WorldInv'
<1> DEFINE now == [switches[c] EXCEPT ![id] = value]
<1>1. switches[c] \in [Switches -> BOOLEAN]
  BY DEF WorldInv, TypeOK, SharedWorldAssumption
<1>2. now \in [Switches -> BOOLEAN] /\ \A o \in Switches : o \notin {id} => now[o] = switches[c][o]
  BY <1>1
<1>3. Writes(c, {id}, now)
  BY <1>2 DEF ControlSwitch, Writes
<1>4. {id} \in SUBSET Switches
  OBVIOUS
<1> HIDE DEF now
<1> QED
  BY <1>2, <1>3, <1>4, Writing

\* The loop of a range announces all but the missed ids.
LEMMA ControlRangeKeeps ==
    ASSUME SharedWorldAssumption, WorldInv, NEW c \in Writers, NEW range \in Ranges,
           NEW value \in BOOLEAN, ControlRange(c, range[1], range[2], value)
    PROVE  WorldInv'
<1> DEFINE now == [id \in Switches |-> IF id \in range[1]..range[2] THEN value ELSE switches[c][id]]
           ids == Announced(range[1], range[2])
<1>1. switches[c] \in [Switches -> BOOLEAN]
  BY DEF WorldInv, TypeOK, SharedWorldAssumption
<1>2. now \in [Switches -> BOOLEAN] /\ ids \in SUBSET Switches
  BY <1>1 DEF Announced
<1>3. ASSUME NEW id \in Switches \ Missed, id \notin ids PROVE now[id] = switches[c][id]
  <2>1. id \notin range[1]..range[2]
    BY <1>3 DEF Missed
  <2> QED
    BY <2>1
<1>4. Writes(c, ids, now)
  BY <1>3 DEF ControlRange, Writes
<1> HIDE DEF now, ids
<1> QED
  BY <1>2, <1>4, Writing

LEMMA WeatherEffectsKeeps ==
    ASSUME SharedWorldAssumption, WorldInv, NEW c \in Writers, NEW w \in Weathers,
           WeatherEffects(c, w)
    PROVE  WorldInv'
<1>1. TypeOK /\ c \in Clients
  BY DEF WorldInv, SharedWorldAssumption
<1>2. /\ weather' = [weather EXCEPT ![c] = w] /\ nextWeather' = [nextWeather EXCEPT ![c] = w]
      /\ switches' = switches /\ weatherT' = weatherT /\ npc' = npc /\ acquainted' = acquainted
      /\ inbox' = inbox /\ together' = together
  BY DEF WeatherEffects
<1>3. TypeOK'
  BY <1>1, <1>2 DEF TypeOK
<1>4. OthersKeepOut'
  BY <1>2 DEF OthersKeepOut, WorldInv
<1>5. Quiet(NpcPackets) /\ \A id \in Switches : Quiet(SwitchPackets(id))
  BY <1>2, SameQuiet
<1>6. ASSUME NEW x \in Writers, Writers = {x} PROVE Alone(x)' /\ SwitchesDue(x)' /\ WeatherDue(x)'
  <2>1. x = c /\ Alone(x) /\ SwitchesDue(x)
    BY <1>6 DEF WorldInv
  <2>2. Alone(x)'
    BY <1>1, <1>2, <2>1, AloneKept DEF TypeOK
  <2>3. SwitchesDue(x)'
    BY <1>1, <1>2, <1>5, <2>1, SwitchesKept
  <2>4. WeatherDue(x)'
    <3>1. nextWeather'[x] = w /\ weather'[x] = w /\ w # NoWeather
      BY <1>1, <1>2, <2>1 DEF TypeOK, SharedWorldAssumption
    <3> QED
      BY <3>1 DEF WeatherDue
  <2> QED
    BY <2>2, <2>3, <2>4
<1>7. NpcDue'
  BY <1>2, <1>5, NpcKept DEF WorldInv
<1> QED
  BY <1>3, <1>4, <1>6, <1>7 DEF WorldInv

\* Only the writer has an effect in wait, and it is what he sees.
LEMMA UpdateKeeps ==
    ASSUME SharedWorldAssumption, WorldInv, NEW c \in Clients, Update(c)
    PROVE  WorldInv'
<1> DEFINE next == nextWeather[c]
<1>1. TypeOK /\ next \in Weathers /\ next # NoWeather /\ Delay \in Nat /\ weatherT[c] \in 0..Delay
  BY DEF WorldInv, Update, TypeOK, SharedWorldAssumption
<1>2. /\ switches' = switches /\ weather' = weather /\ npc' = npc
      /\ acquainted' = acquainted /\ together' = together
  BY DEF Update
<1>3. OthersKeepOut'
  BY <1>2 DEF OthersKeepOut, WorldInv
<1>4. ASSUME NEW x \in Writers, Writers = {x}
      PROVE  x = c /\ Alone(x) /\ SwitchesDue(x) /\ WeatherDue(x) /\ next = weather[x]
  <2>1. x \in Clients /\ Alone(x) /\ SwitchesDue(x) /\ WeatherDue(x)
    BY <1>4 DEF WorldInv, SharedWorldAssumption
  <2>2. x = c
    BY <1>1, <2>1 DEF Alone
  <2> QED
    BY <1>1, <2>1, <2>2 DEF WeatherDue
<1>5. CASE ~(weatherT[c] + 1 > Delay)
  <2>1. weatherT' = [weatherT EXCEPT ![c] = @ + 1] /\ inbox' = inbox /\ nextWeather' = nextWeather
    BY <1>5 DEF Update
  <2>2. weatherT[c] + 1 \in 0..Delay
    BY <1>1, <1>5
  <2>3. TypeOK'
    BY <1>1, <1>2, <2>1, <2>2 DEF TypeOK
  <2>4. \A Q : Quiet(Q)
    BY <2>1, SameQuiet
  <2>5. ASSUME NEW x \in Writers, Writers = {x}
        PROVE  Alone(x)' /\ SwitchesDue(x)' /\ WeatherDue(x)'
    <3>1. x \in Clients /\ Alone(x) /\ SwitchesDue(x) /\ WeatherDue(x)
      BY <1>4, <2>5
    <3>2. Alone(x)'
      BY <2>1, <3>1, AloneKept
    <3>3. SwitchesDue(x)'
      BY <1>2, <2>4, <3>1, SwitchesKept
    <3>4. WeatherDue(x)'
      BY <1>2, <2>1, <2>4, <3>1, WeatherKept
    <3> QED
      BY <3>2, <3>3, <3>4
  <2>6. NpcDue'
    BY <1>2, <2>4, NpcKept DEF WorldInv
  <2> QED
    BY <1>3, <2>3, <2>5, <2>6 DEF WorldInv
<1>6. CASE weatherT[c] + 1 > Delay
  <2> DEFINE packets == <<WeatherPacket(next)>>
  <2>1. /\ weatherT' = [weatherT EXCEPT ![c] = 0] /\ Relay(Others(c), packets)
        /\ nextWeather' = [nextWeather EXCEPT ![c] = NoWeather]
    BY <1>6 DEF Update
  <2>2. Others(c) \in SUBSET Clients /\ WeatherPacket(next) \in Packets
    BY <1>1, PacketFacts DEF Others
  <2>3. /\ packets \in Seq(Packets) /\ Newest(packets, WeatherPackets, WeatherPacket(next))
        /\ Without(packets, NpcPackets)
        /\ \A id \in Switches : Without(packets, SwitchPackets(id))
    <3>1. WeatherPacket(next).type = "weather"
      BY DEF WeatherPacket
    <3>2. WeatherPacket(next) \notin NpcPackets
          /\ \A id \in Switches : WeatherPacket(next) \notin SwitchPackets(id)
      BY <3>1, KindFacts
    <3> QED
      BY <2>2, <3>2, OnePacket
  <2> HIDE DEF packets
  <2>4. TypeOK'
    <3>1. inbox' \in [Clients -> Seq(Packets)]
      BY <1>1, <2>1, <2>2, <2>3, RelayFacts
    <3>2. weatherT' \in [Clients -> 0..Delay]
      BY <1>1, <2>1 DEF TypeOK
    <3> QED
      BY <1>1, <1>2, <2>1, <3>1, <3>2 DEF TypeOK
  <2>5. Quiet(NpcPackets) /\ \A id \in Switches : Quiet(SwitchPackets(id))
    BY <1>1, <2>1, <2>2, <2>3, SentQuiet
  <2>6. ASSUME NEW x \in Writers, Writers = {x}
        PROVE  Alone(x)' /\ SwitchesDue(x)' /\ WeatherDue(x)'
    <3>1. /\ x = c /\ x \in Clients /\ Alone(x) /\ SwitchesDue(x) /\ WeatherDue(x)
          /\ next = weather[x]
      BY <1>4, <2>6
    <3>2. inbox'[x] = inbox[x] /\ \A d \in Clients \ {x} : nextWeather'[d] = nextWeather[d]
      BY <1>1, <2>1, <2>2, <2>3, <3>1, RelayFacts DEF Others, TypeOK
    <3>3. Alone(x)'
      BY <3>1, <3>2, AloneKept
    <3>4. SwitchesDue(x)'
      BY <1>2, <2>5, <3>1, SwitchesKept
    <3>5. \A d \in Clients \ {x} :
             Due(inbox'[d], WeatherPackets, WeatherPacket(weather'[x]), weather'[d] = weather'[x])
      BY <1>1, <1>2, <2>1, <2>2, <2>3, <3>1, SentNewest DEF Others
    <3>6. nextWeather'[x] = NoWeather
      BY <1>1, <2>1, <3>1 DEF TypeOK
    <3>7. WeatherDue(x)'
      BY <3>5, <3>6 DEF WeatherDue, Due, Newest, Without, WeatherPackets, WeatherPacket
    <3> QED
      BY <3>3, <3>4, <3>7
  <2>7. NpcDue'
    BY <1>2, <2>5, NpcKept DEF WorldInv
  <2> QED
    BY <1>3, <2>4, <2>6, <2>7 DEF WorldInv
<1> QED
  BY <1>5, <1>6

\* What is sent of neither switches nor weather concerns only the events.
LEMMA OtherPackets ==
    ASSUME SharedWorldAssumption, WorldInv, writeVars' = writeVars,
           \A id \in Switches : Quiet(SwitchPackets(id)), Quiet(WeatherPackets),
           TypeOK', NpcDue'
    PROVE  WorldInv'
<1>1. switches' = switches /\ weather' = weather /\ nextWeather' = nextWeather
  BY DEF writeVars
<1>2. OthersKeepOut'
  BY <1>1 DEF OthersKeepOut, WorldInv
<1>3. ASSUME NEW x \in Writers, Writers = {x} PROVE Alone(x)' /\ SwitchesDue(x)' /\ WeatherDue(x)'
  <2>1. x \in Clients /\ Alone(x) /\ SwitchesDue(x) /\ WeatherDue(x)
    BY <1>3 DEF WorldInv, SharedWorldAssumption
  <2>2. Alone(x)'
    BY <1>1, <2>1, AloneKept
  <2>3. SwitchesDue(x)'
    BY <1>1, <2>1, SwitchesKept
  <2>4. WeatherDue(x)'
    BY <1>1, <2>1, WeatherKept
  <2> QED
    BY <2>2, <2>3, <2>4
<1> QED
  BY <1>2, <1>3 DEF WorldInv

LEMMA NpcMoveKeeps ==
    ASSUME SharedWorldAssumption, WorldInv, NEW c \in Clients, NEW at \in Spots, NpcMove(c, at)
    PROVE  WorldInv'
<1>1. TypeOK /\ writeVars' = writeVars /\ acquainted' = acquainted
  BY DEF WorldInv, NpcMove
<1>2. /\ switches' = switches /\ weather' = weather /\ nextWeather' = nextWeather
      /\ weatherT' = weatherT
  BY <1>1 DEF writeVars
<1>3. CASE /\ SyncNpc /\ acquainted[c] /\ npc' = npc /\ Relay(Clients, <<NpcPacket(at)>>)
           /\ together' = (together \/ \A d \in Clients : acquainted[d])
  <2> DEFINE packets == <<NpcPacket(at)>>
  <2>1. /\ packets \in Seq(Packets) /\ Newest(packets, NpcPackets, NpcPacket(at))
        /\ Without(packets, WeatherPackets)
        /\ \A id \in Switches : Without(packets, SwitchPackets(id))
    <3>1. NpcPacket(at).type = "npcmove" /\ NpcPacket(at) \in Packets
      BY PacketFacts DEF NpcPacket
    <3>2. NpcPacket(at) \notin WeatherPackets
          /\ \A id \in Switches : NpcPacket(at) \notin SwitchPackets(id)
      BY <3>1, KindFacts
    <3> QED
      BY <3>1, <3>2, OnePacket
  <2>2. Relay(Clients, packets) /\ Clients \in SUBSET Clients
    BY <1>3
  <2> HIDE DEF packets
  <2>3. Quiet(WeatherPackets) /\ \A id \in Switches : Quiet(SwitchPackets(id))
    BY <1>1, <2>1, <2>2, SentQuiet
  <2>4. TypeOK'
    <3>1. inbox' \in [Clients -> Seq(Packets)]
      BY <1>1, <2>1, <2>2, RelayFacts
    <3>2. together' \in BOOLEAN
      BY <1>1, <1>3 DEF TypeOK
    <3> QED
      BY <1>1, <1>2, <1>3, <3>1, <3>2 DEF TypeOK
  <2>5. NpcDue'
    <3> SUFFICES ASSUME together'
                 PROVE  /\ SyncNpc /\ \A d \in Clients : acquainted'[d]
                        /\ \E x \in Spots : \A d \in Clients :
                              Due(inbox'[d], NpcPackets, NpcPacket(x), npc'[d] = x)
      BY DEF NpcDue, Due, Newest, Without, NpcPackets, NpcPacket
    <3>1. \A d \in Clients : acquainted'[d]
      BY <1>1, <1>3 DEF WorldInv, NpcDue
    <3>2. \A d \in Clients : Due(inbox'[d], NpcPackets, NpcPacket(at), npc'[d] = at)
      BY <1>1, <2>1, <2>2, SentNewest
    <3> QED
      BY <1>3, <3>1, <3>2
  <2> QED
    BY <1>1, <2>3, <2>4, <2>5, OtherPackets
<1>4. CASE npc' = npc /\ inbox' = inbox /\ together' = together
  <2>1. \A Q : Quiet(Q)
    BY <1>4, SameQuiet
  <2>2. NpcDue'
    BY <1>1, <1>4, <2>1, NpcKept DEF WorldInv
  <2>3. TypeOK'
    BY <1>1, <1>2, <1>4 DEF TypeOK
  <2> QED
    BY <1>1, <2>1, <2>2, <2>3, OtherPackets
<1>5. CASE /\ ~(SyncNpc /\ acquainted[c]) /\ npc' = [npc EXCEPT ![c] = at]
           /\ inbox' = inbox /\ together' = together
  <2>1. \A Q : Quiet(Q)
    BY <1>5, SameQuiet
  <2>2. ~together'
    BY <1>5 DEF WorldInv, NpcDue
  <2>3. NpcDue'
    BY <2>2 DEF NpcDue
  <2>4. TypeOK'
    BY <1>1, <1>2, <1>5 DEF TypeOK
  <2> QED
    BY <1>1, <2>1, <2>3, <2>4, OtherPackets
<1>6. \/ /\ SyncNpc /\ acquainted[c] /\ npc' = npc /\ Relay(Clients, <<NpcPacket(at)>>)
         /\ together' = (together \/ \A d \in Clients : acquainted[d])
      \/ npc' = npc /\ inbox' = inbox /\ together' = together
      \/ /\ ~(SyncNpc /\ acquainted[c]) /\ npc' = [npc EXCEPT ![c] = at]
         /\ inbox' = inbox /\ together' = together
  BY DEF NpcMove
<1> QED
  BY <1>3, <1>4, <1>5, <1>6

LEMMA GreetKeeps ==
    ASSUME SharedWorldAssumption, WorldInv, NEW c \in Clients, Greet(c)
    PROVE  WorldInv'
<1> DEFINE packets == <<Greeting>>
<1>1. /\ TypeOK /\ writeVars' = writeVars /\ npc' = npc /\ acquainted' = acquainted
      /\ together' = together /\ Relay(Others(c), packets) /\ Others(c) \in SUBSET Clients
  BY DEF WorldInv, Greet, Others
<1>2. /\ packets \in Seq(Packets) /\ Without(packets, WeatherPackets)
      /\ Without(packets, NpcPackets) /\ \A id \in Switches : Without(packets, SwitchPackets(id))
  <2>1. Greeting.type = "other" /\ Greeting \in Packets
    BY PacketFacts DEF Greeting
  <2>2. /\ Greeting \notin WeatherPackets /\ Greeting \notin NpcPackets
        /\ \A id \in Switches : Greeting \notin SwitchPackets(id)
    BY <2>1, KindFacts
  <2> QED
    BY <2>1, <2>2, OnePacket
<1> HIDE DEF packets
<1>3. /\ Quiet(WeatherPackets) /\ Quiet(NpcPackets)
      /\ \A id \in Switches : Quiet(SwitchPackets(id))
  BY <1>1, <1>2, SentQuiet
<1>4. TypeOK'
  <2>1. inbox' \in [Clients -> Seq(Packets)]
    BY <1>1, <1>2, RelayFacts
  <2>2. /\ switches' = switches /\ weather' = weather /\ nextWeather' = nextWeather
        /\ weatherT' = weatherT
    BY <1>1 DEF writeVars
  <2> QED
    BY <1>1, <2>1, <2>2 DEF TypeOK
<1>5. NpcDue'
  BY <1>1, <1>3, NpcKept DEF WorldInv
<1> QED
  BY <1>1, <1>3, <1>4, <1>5, OtherPackets

\* What is due before a packet is taken is due, or there, after it.
LEMMA ReceiveKeeps ==
    ASSUME SharedWorldAssumption, WorldInv, NEW c \in Clients, Receive(c)
    PROVE  WorldInv'
<1> DEFINE p == Head(inbox[c])
<1>0. TypeOK
  BY DEF WorldInv
<1>1. /\ inbox[c] \in Seq(Packets) /\ inbox[c] # <<>> /\ p \in Packets
      /\ inbox' \in [Clients -> Seq(Packets)] /\ inbox'[c] = Tail(inbox[c])
      /\ \A d \in Clients \ {c} :
            /\ inbox'[d] = inbox[d] /\ switches'[d] = switches[d]
            /\ weather'[d] = weather[d] /\ npc'[d] = npc[d]
            /\ acquainted'[d] = acquainted[d]
      /\ \A id \in Switches :
            switches'[c][id] = IF p.type = "switchsync" /\ p.id = id /\ id \in Whitelist[c]
                                 THEN p.value ELSE switches[c][id]
      /\ weather'[c] = IF p.type = "weather" THEN p.weather ELSE weather[c]
      /\ npc'[c] = IF p.type = "npcmove" THEN p.at ELSE npc[c]
      /\ acquainted[c] => acquainted'[c]
      /\ switches' \in [Clients -> [Switches -> BOOLEAN]]
      /\ weather' \in [Clients -> Weathers] /\ npc' \in [Clients -> Spots]
      /\ acquainted' \in [Clients -> BOOLEAN]
      /\ nextWeather' = nextWeather /\ weatherT' = weatherT /\ together' = together
  BY <1>0, ReceiveFacts
<1>2. TypeOK'
  BY <1>0, <1>1 DEF TypeOK
<1>3. OthersKeepOut'
  <2> SUFFICES ASSUME NEW d \in Clients \ Writers, NEW id \in Switches \ Whitelist[d]
               PROVE  ~switches'[d][id]
    BY DEF OthersKeepOut
  <2>1. ~switches[d][id]
    BY DEF WorldInv, OthersKeepOut
  <2>2. switches'[d][id] = switches[d][id]
    BY <1>1
  <2> QED
    BY <2>1, <2>2
<1> HIDE DEF p
<1>4. ASSUME NEW Q, NEW q
      PROVE  /\ Without(inbox[c], Q) => p \notin Q /\ Without(inbox'[c], Q)
             /\ Newest(inbox[c], Q, q) =>
                  Newest(inbox'[c], Q, q) \/ (p = q /\ Without(inbox'[c], Q))
  BY <1>1, Taken DEF p
<1>5. /\ \A id \in Switches : switches'[c][id] # switches[c][id] => p \in SwitchPackets(id)
      /\ weather'[c] # weather[c] => p \in WeatherPackets
      /\ npc'[c] # npc[c] => p \in NpcPackets
  <2>1. /\ p.type = "switchsync" => p.value \in BOOLEAN /\ p = SwitchPacket(p.id, p.value)
        /\ p.type = "weather" => p.weather \in Weathers /\ p = WeatherPacket(p.weather)
        /\ p.type = "npcmove" => p.at \in Spots /\ p = NpcPacket(p.at)
    BY <1>1, PacketFacts
  <2>2. ASSUME NEW id \in Switches, switches'[c][id] # switches[c][id]
        PROVE  p \in SwitchPackets(id)
    <3>1. p.type = "switchsync" /\ p.id = id
      BY <1>1, <2>2
    <3> QED
      BY <2>1, <3>1 DEF SwitchPackets
  <2>3. weather'[c] # weather[c] => p \in WeatherPackets
    <3>1. weather'[c] # weather[c] => p.type = "weather"
      BY <1>1
    <3> QED
      BY <2>1, <3>1 DEF WeatherPackets
  <2>4. npc'[c] # npc[c] => p \in NpcPackets
    <3>1. npc'[c] # npc[c] => p.type = "npcmove"
      BY <1>1
    <3> QED
      BY <2>1, <3>1 DEF NpcPackets
  <2> QED
    BY <2>2, <2>3, <2>4
<1>6. ASSUME NEW x \in Writers, Writers = {x} PROVE Alone(x)' /\ SwitchesDue(x)' /\ WeatherDue(x)'
  <2>1. x \in Clients /\ Alone(x) /\ SwitchesDue(x) /\ WeatherDue(x)
    BY <1>6 DEF WorldInv, SharedWorldAssumption
  <2>2. /\ Without(inbox[x], WeatherPackets)
        /\ \A id \in Switches : Without(inbox[x], SwitchPackets(id))
    BY <2>1 DEF Alone
  <2>3. /\ weather'[x] = weather[x]
        /\ \A id \in Switches : switches'[x][id] = switches[x][id]
    BY <1>1, <1>4, <1>5, <2>1, <2>2
  <2>4. Alone(x)'
    <3>1. /\ Without(inbox'[x], WeatherPackets)
          /\ \A id \in Switches : Without(inbox'[x], SwitchPackets(id))
      BY <1>1, <1>4, <2>1, <2>2
    <3> QED
      BY <1>1, <2>1, <3>1 DEF Alone, Without, WeatherPackets, SwitchPackets
  <2>5. SwitchesDue(x)'
    <3> SUFFICES ASSUME NEW d \in Clients \ {x},
                        NEW id \in (Whitelist[x] \cap Whitelist[d]) \ Missed
                 PROVE  Due(inbox'[d], SwitchPackets(id), SwitchPacket(id, switches'[x][id]),
                            switches'[d][id] = switches'[x][id])
      BY DEF SwitchesDue, Due, Newest, Without, SwitchPackets, SwitchPacket
    <3>1. id \in Switches /\ id \in Whitelist[d] /\ switches'[x][id] = switches[x][id]
      BY <2>1, <2>3 DEF SharedWorldAssumption
    <3> DEFINE q == SwitchPacket(id, switches[x][id])
    <3>2. Due(inbox[d], SwitchPackets(id), q, switches[d][id] = switches[x][id])
      BY <2>1 DEF SwitchesDue
    <3>3. CASE d # c
      BY <1>1, <3>1, <3>2, <3>3
    <3>4. CASE d = c
      <4>1. q.type = "switchsync" /\ q.id = id /\ q.value = switches[x][id]
        BY DEF SwitchPacket
      <4> HIDE DEF q
      <4>2. CASE Newest(inbox[c], SwitchPackets(id), q)
        <5>1. CASE Newest(inbox'[c], SwitchPackets(id), q)
          BY <3>1, <3>4, <5>1 DEF Due, q
        <5>2. CASE p = q /\ Without(inbox'[c], SwitchPackets(id))
          <6>1. switches'[c][id] = switches[x][id]
            BY <1>1, <3>1, <3>4, <4>1, <5>2
          <6> QED
            BY <3>1, <3>4, <5>2, <6>1 DEF Due
        <5> QED
          BY <1>4, <4>2, <5>1, <5>2
      <4>3. CASE Without(inbox[c], SwitchPackets(id)) /\ switches[c][id] = switches[x][id]
        <5>1. Without(inbox'[c], SwitchPackets(id)) /\ switches'[c][id] = switches[x][id]
          BY <1>4, <1>5, <3>1, <4>3
        <5> QED
          BY <3>1, <3>4, <5>1 DEF Due
      <4> QED
        BY <3>2, <3>4, <4>2, <4>3 DEF Due
    <3> QED
      BY <3>3, <3>4
  <2>6. WeatherDue(x)'
    <3>1. nextWeather'[x] \in {NoWeather, weather'[x]}
      BY <1>1, <2>1, <2>3 DEF WeatherDue
    <3>2. ASSUME nextWeather'[x] = NoWeather, NEW d \in Clients \ {x}
          PROVE  Due(inbox'[d], WeatherPackets, WeatherPacket(weather'[x]),
                     weather'[d] = weather'[x])
      <4> DEFINE q == WeatherPacket(weather[x])
      <4>1. Due(inbox[d], WeatherPackets, q, weather[d] = weather[x])
        BY <1>1, <2>1, <3>2 DEF WeatherDue
      <4>2. CASE d # c
        BY <1>1, <2>3, <4>1, <4>2
      <4>3. CASE d = c
        <5>1. q.type = "weather" /\ q.weather = weather[x]
          BY DEF WeatherPacket
        <5> HIDE DEF q
        <5>2. CASE Newest(inbox[c], WeatherPackets, q)
          <6>1. CASE Newest(inbox'[c], WeatherPackets, q)
            BY <2>3, <4>3, <6>1 DEF Due, q
          <6>2. CASE p = q /\ Without(inbox'[c], WeatherPackets)
            <7>1. weather'[c] = weather[x]
              BY <1>1, <5>1, <6>2
            <7> QED
              BY <2>3, <4>3, <6>2, <7>1 DEF Due
          <6> QED
            BY <1>4, <5>2, <6>1, <6>2
        <5>3. CASE Without(inbox[c], WeatherPackets) /\ weather[c] = weather[x]
          <6>1. Without(inbox'[c], WeatherPackets) /\ weather'[c] = weather[x]
            BY <1>4, <1>5, <5>3
          <6> QED
            BY <2>3, <4>3, <6>1 DEF Due
        <5> QED
          BY <4>1, <4>3, <5>2, <5>3 DEF Due
      <4> QED
        BY <4>2, <4>3
    <3> QED
      BY <3>1, <3>2 DEF WeatherDue, Due, Newest, Without, WeatherPackets, WeatherPacket
  <2> QED
    BY <2>4, <2>5, <2>6
<1>7. NpcDue'
  <2> SUFFICES ASSUME together
               PROVE  /\ SyncNpc /\ \A d \in Clients : acquainted'[d]
                      /\ \E at \in Spots : \A d \in Clients :
                            Due(inbox'[d], NpcPackets, NpcPacket(at), npc'[d] = at)
    BY <1>1 DEF NpcDue, Due, Newest, Without, NpcPackets, NpcPacket
  <2>1. SyncNpc /\ \A d \in Clients : acquainted[d]
    BY DEF WorldInv, NpcDue
  <2>2. \A d \in Clients : acquainted'[d]
    BY <1>1, <2>1
  <2>3. PICK at \in Spots : \A d \in Clients :
               Due(inbox[d], NpcPackets, NpcPacket(at), npc[d] = at)
    BY DEF WorldInv, NpcDue
  <2>4. ASSUME NEW d \in Clients PROVE Due(inbox'[d], NpcPackets, NpcPacket(at), npc'[d] = at)
    <3> DEFINE q == NpcPacket(at)
    <3>1. CASE d # c
      BY <1>1, <2>3, <3>1
    <3>2. CASE d = c
      <4>1. q.type = "npcmove" /\ q.at = at
        BY DEF NpcPacket
      <4>2. Due(inbox[c], NpcPackets, q, npc[c] = at)
        BY <2>3
      <4> HIDE DEF q
      <4>3. CASE Newest(inbox[c], NpcPackets, q)
        <5>1. CASE Newest(inbox'[c], NpcPackets, q)
          BY <3>2, <5>1 DEF Due, q
        <5>2. CASE p = q /\ Without(inbox'[c], NpcPackets)
          <6>1. npc'[c] = at
            BY <1>1, <4>1, <5>2
          <6> QED
            BY <3>2, <5>2, <6>1 DEF Due
        <5> QED
          BY <1>4, <4>3, <5>1, <5>2
      <4>4. CASE Without(inbox[c], NpcPackets) /\ npc[c] = at
        <5>1. Without(inbox'[c], NpcPackets) /\ npc'[c] = at
          BY <1>4, <1>5, <4>4
        <5> QED
          BY <3>2, <5>1 DEF Due
      <4> QED
        BY <4>2, <4>3, <4>4 DEF Due
    <3> QED
      BY <3>1, <3>2
  <2> QED
    BY <2>1, <2>2, <2>3, <2>4
<1> QED
  BY <1>2, <1>3, <1>6, <1>7 DEF WorldInv

LEMMA NextKeeps ==
    ASSUME SharedWorldAssumption, WorldInv, [Next]_vars PROVE WorldInv'
<1>1. CASE vars' = vars
  <2>1. writeVars' = writeVars /\ npc' = npc /\ acquainted' = acquainted /\ inbox' = inbox
        /\ together' = together
    BY <1>1 DEF vars
  <2>2. \A Q : Quiet(Q)
    BY <2>1, SameQuiet
  <2>3. TypeOK'
    BY <2>1 DEF TypeOK, writeVars, WorldInv
  <2>4. NpcDue'
    BY <2>1, <2>2, NpcKept DEF WorldInv
  <2> QED
    BY <2>1, <2>2, <2>3, <2>4, OtherPackets
<1>2. CASE Next
  <2>1. PICK c \in Clients :
           \/ /\ c \in Writers
              /\ \/ \E id \in Switches, value \in BOOLEAN : ControlSwitch(c, id, value)
                 \/ \E range \in Ranges, value \in BOOLEAN :
                       ControlRange(c, range[1], range[2], value)
                 \/ \E w \in Weathers : WeatherEffects(c, w)
           \/ Update(c)
           \/ \E at \in Spots : NpcMove(c, at)
           \/ Greet(c)
           \/ Receive(c)
    BY <1>2 DEF Next
  <2>2. ASSUME c \in Writers, NEW id \in Switches, NEW value \in BOOLEAN, ControlSwitch(c, id, value)
        PROVE  WorldInv'
    BY <2>2, ControlSwitchKeeps
  <2>3. ASSUME c \in Writers, NEW range \in Ranges, NEW value \in BOOLEAN,
               ControlRange(c, range[1], range[2], value)
        PROVE  WorldInv'
    BY <2>3, ControlRangeKeeps
  <2>4. ASSUME c \in Writers, NEW w \in Weathers, WeatherEffects(c, w) PROVE WorldInv'
    BY <2>4, WeatherEffectsKeeps
  <2>5. CASE Update(c)
    BY <2>5, UpdateKeeps
  <2>6. ASSUME NEW at \in Spots, NpcMove(c, at) PROVE WorldInv'
    BY <2>6, NpcMoveKeeps
  <2>7. CASE Greet(c)
    BY <2>7, GreetKeeps
  <2>8. CASE Receive(c)
    BY <2>8, ReceiveKeeps
  <2> QED
    BY <2>1, <2>2, <2>3, <2>4, <2>5, <2>6, <2>7, <2>8
<1> QED
  BY <1>1, <1>2

-----------------------------------------------------------------------------
(* Theorems.                                                                *)

\* Where all that is due came or is the newest on its way, the promises are kept.
LEMMA InvImplies == ASSUME SharedWorldAssumption, WorldInv PROVE SharedInv
<1>1. TypeOK /\ OthersKeepOut
  BY DEF WorldInv
<1>2. \A c \in Clients : \A i : i \in DOMAIN inbox[c] => inbox[c][i] \in Packets
  BY <1>1 DEF TypeOK
<1>3. SwitchesFollow
  <2> SUFFICES ASSUME NEW w \in Writers, NEW c \in Clients,
                      NEW id \in (Whitelist[w] \cap Whitelist[c]) \ Missed,
                      Writers = {w}, switches[c][id] # switches[w][id]
               PROVE  \E i \in Coming(c, "switchsync") :
                         /\ inbox[c][i] = SwitchPacket(id, switches[w][id])
                         /\ \A j \in Coming(c, "switchsync") : j > i => inbox[c][j].id # id
    BY DEF SwitchesFollow
  <2>1. w \in Clients /\ id \in Switches /\ switches[w][id] \in BOOLEAN /\ c # w
    BY <1>1 DEF SharedWorldAssumption, TypeOK
  <2>2. Newest(inbox[c], SwitchPackets(id), SwitchPacket(id, switches[w][id]))
    BY <2>1 DEF WorldInv, SwitchesDue, Due
  <2>3. PICK i \in DOMAIN inbox[c] :
           /\ inbox[c][i] = SwitchPacket(id, switches[w][id])
           /\ \A j \in DOMAIN inbox[c] : j > i => inbox[c][j] \notin SwitchPackets(id)
    BY <2>2 DEF Newest
  <2>4. i \in Coming(c, "switchsync")
    BY <2>3 DEF Coming, SwitchPacket
  <2>5. ASSUME NEW j \in Coming(c, "switchsync"), j > i PROVE inbox[c][j].id # id
    <3>1. inbox[c][j] \in Packets /\ inbox[c][j].type = "switchsync"
          /\ inbox[c][j] \notin SwitchPackets(id)
      BY <1>2, <2>3, <2>5 DEF Coming
    <3> QED
      BY <3>1, PacketFacts DEF SwitchPackets
  <2> QED
    BY <2>3, <2>4, <2>5
<1>4. WeatherFollows
  <2> SUFFICES ASSUME NEW w \in Writers, NEW c \in Clients, Writers = {w},
                      weather[c] # weather[w], nextWeather[w] # weather[w]
               PROVE  \E i \in Coming(c, "weather") :
                         /\ inbox[c][i] = WeatherPacket(weather[w])
                         /\ \A j \in Coming(c, "weather") : j <= i
    BY DEF WeatherFollows
  <2>1. Newest(inbox[c], WeatherPackets, WeatherPacket(weather[w]))
    BY DEF WorldInv, WeatherDue, Due
  <2>2. PICK i \in DOMAIN inbox[c] :
           /\ inbox[c][i] = WeatherPacket(weather[w])
           /\ \A j \in DOMAIN inbox[c] : j > i => inbox[c][j] \notin WeatherPackets
    BY <2>1 DEF Newest
  <2>3. i \in Coming(c, "weather")
    BY <2>2 DEF Coming, WeatherPacket
  <2>4. ASSUME NEW j \in Coming(c, "weather") PROVE ~(j > i)
    <3>1. inbox[c][j] \in Packets /\ inbox[c][j].type = "weather" /\ j \in DOMAIN inbox[c]
      BY <1>2 DEF Coming
    <3>2. inbox[c][j] \in WeatherPackets
      BY <3>1, PacketFacts DEF WeatherPackets
    <3> QED
      BY <2>2, <3>1, <3>2
  <2>5. i \in Int /\ \A j \in Coming(c, "weather") : j \in Int
    BY <1>1 DEF Coming, TypeOK
  <2> QED
    BY <2>2, <2>3, <2>4, <2>5
<1>5. NpcsAgree
  <2> SUFFICES ASSUME together, \A c \in Clients : Coming(c, "npcmove") = {},
                      NEW c \in Clients, NEW d \in Clients
               PROVE  npc[c] = npc[d]
    BY DEF NpcsAgree
  <2>1. PICK at \in Spots : \A x \in Clients :
               Due(inbox[x], NpcPackets, NpcPacket(at), npc[x] = at)
    BY DEF WorldInv, NpcDue
  <2>2. \A x \in Clients : ~Newest(inbox[x], NpcPackets, NpcPacket(at))
    BY DEF Newest, Coming, NpcPacket
  <2> QED
    BY <2>1, <2>2 DEF Due
<1> QED
  BY <1>1, <1>3, <1>4, <1>5 DEF SharedInv

\* The packets of one player make the worlds of the others follow, whatever comes between
\* them, and touch nothing they keep to themselves (game_multiplayer_senders.cpp and
\* game_multiplayer_receive_handler.cpp).
THEOREM WorldsFollow == SharedWorldAssumption => (Spec => []SharedInv)
<1> SUFFICES ASSUME SharedWorldAssumption PROVE Spec => []SharedInv
  OBVIOUS
<1>1. Init => WorldInv
  BY InitInv
<1>2. WorldInv /\ [Next]_vars => WorldInv'
  BY NextKeeps
<1>3. WorldInv => SharedInv
  BY InvImplies
<1> QED
  BY <1>1, <1>2, <1>3, PTL DEF Spec

-----------------------------------------------------------------------------
(* Variables.                                                              *)

\* The vectors that the game may have.
Vectors == Seq(MinValue..MaxValue)

\* What WriteLoop does at k.
LoopStep(w, k, first, last, op, id, as) ==
    IF k \in first..last THEN [w EXCEPT ![k] = Clamp(Compute(op, w[k], Read(w, id, as)))] ELSE w

LEMMA LeastNumber == ASSUME NEW T \in SUBSET Nat, T # {} PROVE \E x \in T : \A y \in T : x <= y
<1> DEFINE F == {0..t : t \in T}
<1>1. F \subseteq FiniteSubsetsOf(Nat)
  <2>1. \A t \in Nat : IsFiniteSet(0..t) /\ 0..t \subseteq Nat
    BY FS_Interval
  <2> QED BY <2>1 DEF FiniteSubsetsOf
<1>2. PICK s \in F : \A u \in F : ~(<<u,s>> \in StrictSubsetOrdering(Nat))
  <2>1. IsWellFoundedOn(StrictSubsetOrdering(Nat), FiniteSubsetsOf(Nat))
    BY FS_StrictSubsetOrderingWellFounded
  <2>2. F # {} OBVIOUS
  <2> HIDE DEF F
  <2> QED BY <1>1, <2>1, <2>2, WFMin
<1>3. PICK x \in T : s = 0..x
  OBVIOUS
<1>4. \A y \in T : x <= y
  <2> SUFFICES ASSUME NEW y \in T, y < x PROVE FALSE
    OBVIOUS
  <2>1. 0..y \in F
    OBVIOUS
  <2>2. x \notin 0..y /\ x \in 0..x
    OBVIOUS
  <2>3. 0..y \subseteq 0..x
    OBVIOUS
  <2>4. <<0..y, 0..x>> \in StrictSubsetOrdering(Nat)
    BY <2>2, <2>3 DEF StrictSubsetOrdering
  <2> QED BY <1>2, <1>3, <2>1, <2>4
<1> QED BY <1>4

-----------------------------------------------------------------------------
(* The arithmetic of variables.                                            *)

LEMMA HalfIsPositive == ASSUME VariablesAssumption PROVE Half > 0 /\ Half \in Nat
  BY DEF VariablesAssumption

LEMMA WrapFacts ==
    ASSUME VariablesAssumption, NEW n \in Int
    PROVE  /\ Wrap(n) \in Int
           /\ -Half <= n /\ n < Half => Wrap(n) = n
<1>1. Half > 0 /\ Half \in Nat
  BY HalfIsPositive
<1>2. Wrap(n) \in Int
  <2>1. \A a \in Int, h \in Nat : h > 0 => a % (2 * h) \in 0..(2*h-1)
    OBVIOUS
  <2> QED BY <1>1, <2>1 DEF Wrap
<1>3. ASSUME -Half <= n, n < Half PROVE Wrap(n) = n
  <2>1. \A h \in Nat : h > 0 /\ -h <= n /\ n < h => ((n + h) % (2 * h)) - h = n
    OBVIOUS
  <2> QED BY <1>1, <1>3, <2>1 DEF Wrap
<1> QED BY <1>2, <1>3

LEMMA QuotientFacts ==
    ASSUME NEW n \in Int, NEW d \in Int, d # 0
    PROVE  /\ Quotient(n, d) \in Int
           /\ Abs(Quotient(n, d)) <= Abs(n)
           /\ Abs(n - d * Quotient(n, d)) <= Abs(n)
<1> DEFINE a == Abs(n)  b == Abs(d)  q == a \div b
<1>1. a \in Nat /\ b \in Nat /\ b > 0
  BY DEF Abs
<1>2. (a = n \/ a = -n) /\ (b = d \/ b = -d) /\ (n < 0 <=> a # n) /\ (d < 0 <=> b # d)
  BY DEF Abs
<1>3. q \in Nat /\ q <= a /\ a - b * q \in 0..a
  <2>1. \A x \in Nat, y \in Nat : y > 0 => x \div y \in Nat /\ x \div y <= x /\ x - y * (x \div y) \in 0..x
    OBVIOUS
  <2> HIDE DEF a, b
  <2> QED BY <1>1, <2>1
<1>4. Quotient(n, d) = IF (n < 0) = (d < 0) THEN q ELSE -q
  BY DEF Quotient
<1> HIDE DEF q, a, b
<1>5. Quotient(n, d) \in {q, -q} /\ Quotient(n, d) \in Int
  BY <1>3, <1>4
<1>6. Abs(Quotient(n, d)) = q
  BY <1>3, <1>5 DEF Abs
<1>7. d * Quotient(n, d) = IF n < 0 THEN -(b * q) ELSE b * q
  <2>1. CASE n < 0 /\ d < 0
    <3>1. b = -d /\ Quotient(n, d) = q
      BY <2>1, <1>2, <1>4
    <3> QED BY <3>1, <2>1, <1>3
  <2>2. CASE n < 0 /\ ~(d < 0)
    <3>1. b = d /\ Quotient(n, d) = -q
      BY <2>2, <1>2, <1>4
    <3> QED BY <3>1, <2>2, <1>3
  <2>3. CASE ~(n < 0) /\ d < 0
    <3>1. b = -d /\ Quotient(n, d) = -q
      BY <2>3, <1>2, <1>4
    <3> QED BY <3>1, <2>3, <1>3
  <2>4. CASE ~(n < 0) /\ ~(d < 0)
    <3>1. b = d /\ Quotient(n, d) = q
      BY <2>4, <1>2, <1>4
    <3> QED BY <3>1, <2>4, <1>3
  <2> QED BY <2>1, <2>2, <2>3, <2>4
<1>8. Abs(n - d * Quotient(n, d)) = a - b * q
  <2> DEFINE p == b * q
  <2>1. p \in Int /\ a - p \in 0..a
    BY <1>1, <1>3
  <2>2. d * Quotient(n, d) = IF n < 0 THEN -p ELSE p
    BY <1>7
  <2>3. Abs(n - d * Quotient(n, d)) = Abs(IF n < 0 THEN n + p ELSE n - p)
    <3> HIDE DEF p
    <3> QED BY <2>1, <2>2
  <2> HIDE DEF p
  <2>4. Abs(n - d * Quotient(n, d)) = a - p
    <3>1. CASE n < 0
      BY <3>1, <2>1, <2>3, <1>1, <1>2 DEF Abs
    <3>2. CASE ~(n < 0)
      BY <3>2, <2>1, <2>3, <1>1, <1>2 DEF Abs
    <3> QED BY <3>1, <3>2
  <2> QED BY <2>4 DEF p
<1> QED BY <1>3, <1>5, <1>6, <1>8, <1>1 DEF a

LEMMA ExactIsInt ==
    ASSUME NEW op \in Ops, NEW l \in Int, NEW r \in Int
    PROVE  Exact(op, l, r) \in Int
<1>1. CASE op = "Set" BY <1>1 DEF Exact
<1>2. CASE op = "Add" BY <1>2 DEF Exact
<1>3. CASE op = "Sub" BY <1>3 DEF Exact
<1>4. CASE op = "Mult" BY <1>4 DEF Exact
<1>5. CASE op = "Div" BY <1>5, QuotientFacts DEF Exact, VarDiv
<1>6. CASE op = "Mod" BY <1>6, QuotientFacts DEF Exact, VarMod
<1> QED BY <1>1, <1>2, <1>3, <1>4, <1>5, <1>6 DEF Ops

LEMMA ClampInRange ==
    ASSUME VariablesAssumption, NEW n \in Int
    PROVE  Clamp(n) \in MinValue..MaxValue
  BY DEF Clamp, VariablesAssumption

LEMMA WrittenValue ==
    ASSUME VariablesAssumption, NEW op \in Ops, NEW l \in Int, NEW r \in Int
    PROVE  Clamp(Compute(op, l, r)) \in MinValue..MaxValue
  BY ExactIsInt, WrapFacts, ClampInRange DEF Compute

LEMMA ValuesAreInts == ASSUME VariablesAssumption PROVE MinValue..MaxValue \subseteq Int /\ 0 \in MinValue..MaxValue
  BY DEF VariablesAssumption

\* All but a product fits into a word.
LEMMA ExactFits ==
    ASSUME VariablesAssumption, NEW op \in Ops \ {"Mult"},
           NEW l \in MinValue..MaxValue, NEW r \in MinValue..MaxValue
    PROVE  Clamp(Compute(op, l, r)) = Clamp(Exact(op, l, r))
<1>1. l \in Int /\ r \in Int /\ MinValue \in Int /\ MaxValue \in Int /\ Half \in Nat
  BY DEF VariablesAssumption
<1>2. Exact(op, l, r) \in Int
  BY ExactIsInt, <1>1
<1>3. \A x \in Int : Abs(x) <= Abs(l) => -Half <= x /\ x < Half
  BY <1>1 DEF Abs, VariablesAssumption
<1>4. -Half <= Exact(op, l, r) /\ Exact(op, l, r) < Half
  <2>1. CASE op = "Set" BY <2>1, <1>1 DEF Exact, VariablesAssumption
  <2>2. CASE op = "Add" BY <2>2, <1>1 DEF Exact, VariablesAssumption
  <2>3. CASE op = "Sub" BY <2>3, <1>1 DEF Exact, VariablesAssumption
  <2>4. CASE op = "Div"
    <3>1. CASE r = 0
      <4>1. Exact(op, l, r) = l
        BY <3>1, <2>4 DEF Exact, VarDiv
      <4> QED BY <4>1, <1>1 DEF VariablesAssumption
    <3>2. CASE r # 0
      <4>1. Exact(op, l, r) = Quotient(l, r)
        BY <3>2, <2>4 DEF Exact, VarDiv
      <4> QED BY <4>1, <3>2, <1>1, <1>3, QuotientFacts
    <3> QED BY <3>1, <3>2
  <2>5. CASE op = "Mod"
    <3>1. CASE r = 0 BY <3>1, <2>5, <1>1, HalfIsPositive DEF Exact, VarMod
    <3>2. CASE r # 0
      <4>1. Exact(op, l, r) = l - r * Quotient(l, r)
        BY <3>2, <2>5 DEF Exact, VarMod
      <4>2. Abs(Exact(op, l, r)) <= Abs(l)
        BY <4>1, <3>2, <1>1, QuotientFacts
      <4> QED BY <4>2, <1>2, <1>3
    <3> QED BY <3>1, <3>2
  <2> QED BY <2>1, <2>2, <2>3, <2>4, <2>5 DEF Ops
<1> QED BY <1>2, <1>4, WrapFacts DEF Compute
-----------------------------------------------------------------------------
(* Vectors.                                                                *)

LEMMA ValueInSeq == ASSUME NEW S, NEW s \in Seq(S) PROVE \A i \in DOMAIN s : s[i] \in S
  OBVIOUS

LEMMA ValueOf ==
    ASSUME VariablesAssumption, NEW v \in Vectors
    PROVE  /\ Len(v) \in Nat /\ DOMAIN v = 1..Len(v)
           /\ \A i \in DOMAIN v : v[i] \in MinValue..MaxValue /\ v[i] \in Int
<1>1. \A i \in DOMAIN v : v[i] \in MinValue..MaxValue
  <2> DEFINE R == MinValue..MaxValue
  <2>1. v \in Seq(R)
    BY DEF Vectors
  <2> HIDE DEF R
  <2>2. \A i \in DOMAIN v : v[i] \in R
    BY <2>1, ValueInSeq
  <2> QED BY <2>2 DEF R
<1>2. Len(v) \in Nat /\ DOMAIN v = 1..Len(v)
  BY DEF Vectors
<1>3. \A i \in DOMAIN v : v[i] \in Int
  <2>1. MinValue..MaxValue \subseteq Int
    BY ValuesAreInts
  <2> QED BY <1>1, <2>1
<1> QED BY <1>1, <1>2, <1>3

LEMMA GetInRange ==
    ASSUME VariablesAssumption, NEW v \in Vectors, NEW id
    PROVE  Get(v, id) \in MinValue..MaxValue
<1>1. id \in DOMAIN v => v[id] \in MinValue..MaxValue
  BY ValueOf
<1> QED BY <1>1, ValuesAreInts DEF Get

LEMMA GrownVector ==
    ASSUME VariablesAssumption, NEW v \in Vectors, Len(v) <= MaxId, NEW last \in VariableIds
    PROVE  Grown(v, last) \in Vectors /\ Len(Grown(v, last)) <= MaxId
<1> DEFINE n == IF last > Len(v) THEN last ELSE Len(v)
<1>1. n \in Nat /\ n <= MaxId
  BY DEF Vectors, VariableIds, VariablesAssumption
<1>2. Grown(v, last) = [i \in 1..n |-> Get(v, i)]
  BY DEF Grown
<1> HIDE DEF n
<1>3. \A i \in 1..n : Get(v, i) \in MinValue..MaxValue
  BY GetInRange
<1> QED BY <1>1, <1>2, <1>3 DEF Vectors

\* A vector of the same length.
LEMMA SameLength ==
    ASSUME NEW v \in Vectors, NEW u,
           u = [i \in DOMAIN v |-> u[i]], \A i \in DOMAIN v : u[i] \in MinValue..MaxValue
    PROVE  u \in Vectors /\ Len(u) = Len(v)
<1>1. DOMAIN v = 1..Len(v) /\ Len(v) \in Nat
  BY DEF Vectors
<1>2. u \in [1..Len(v) -> MinValue..MaxValue]
  BY <1>1
<1> QED BY <1>1, <1>2 DEF Vectors

LEMMA WriteRangeVector ==
    ASSUME VariablesAssumption, NEW v \in Vectors, NEW first, NEW last, NEW op \in Ops, NEW x \in Int
    PROVE  /\ WriteRange(v, first, last, op, x) \in Vectors
           /\ Len(WriteRange(v, first, last, op, x)) = Len(v)
<1> DEFINE u == WriteRange(v, first, last, op, x)
<1>1. u = [i \in DOMAIN v |-> IF i \in first..last THEN Clamp(Compute(op, v[i], x)) ELSE v[i]]
  BY DEF WriteRange
<1>2. \A i \in DOMAIN v : v[i] \in MinValue..MaxValue /\ v[i] \in Int
  BY ValueOf
<1>3. \A i \in DOMAIN v : Clamp(Compute(op, v[i], x)) \in MinValue..MaxValue
  BY <1>2, WrittenValue
<1>4. u = [i \in DOMAIN v |-> u[i]] /\ \A i \in DOMAIN v : u[i] \in MinValue..MaxValue
  BY <1>1, <1>2, <1>3
<1> HIDE DEF u
<1>5. u \in Vectors /\ Len(u) = Len(v)
  BY <1>4, SameLength
<1> QED BY <1>5 DEF u

LEMMA WriteRangeVariableVector ==
    ASSUME VariablesAssumption, NEW v \in Vectors, NEW first, NEW last, NEW op \in Ops, NEW id
    PROVE  /\ WriteRangeVariable(v, first, last, op, id) \in Vectors
           /\ Len(WriteRangeVariable(v, first, last, op, id)) = Len(v)
<1>1. \A u \in Vectors : Get(u, id) \in Int
  BY GetInRange, ValuesAreInts
<1>2. CASE id \in first..last
  <2> DEFINE w == WriteRange(v, first, id, op, Get(v, id))
  <2>1. w \in Vectors /\ Len(w) = Len(v)
    BY <1>1, WriteRangeVector
  <2>2. WriteRangeVariable(v, first, last, op, id) = WriteRange(w, id + 1, last, op, Get(w, id))
    BY <1>2 DEF WriteRangeVariable
  <2> HIDE DEF w
  <2> QED BY <2>1, <2>2, <1>1, WriteRangeVector
<1>3. CASE id \notin first..last
  BY <1>1, <1>3, WriteRangeVector DEF WriteRangeVariable
<1> QED BY <1>2, <1>3

-----------------------------------------------------------------------------
(* The loop of a range.                                                    *)

\* The vectors of a loop, up to its n-th step.
IsLoop(f, n, v, first, last, op, id, as) ==
    f = [k \in 0..n |-> IF k = 0 THEN v ELSE LoopStep(f[k - 1], k, first, last, op, id, as)]

LEMMA LoopExists ==
    ASSUME NEW v, NEW first, NEW last, NEW op, NEW id, NEW as, NEW n \in Nat
    PROVE  \E f : IsLoop(f, n, v, first, last, op, id, as)
<1> DEFINE RunsTo(m) == \E f : IsLoop(f, m, v, first, last, op, id, as)
<1> DEFINE T == {m \in Nat : ~RunsTo(m)}
<1>1. SUFFICES ASSUME T # {} PROVE FALSE
  OBVIOUS
<1>2. T \in SUBSET Nat
  OBVIOUS
<1> HIDE DEF T
<1>3. PICK m \in T : \A y \in T : m <= y
  BY <1>1, <1>2, LeastNumber
<1>4. m \in Nat /\ ~RunsTo(m)
  BY DEF T
<1>5. CASE m = 0
  <2> DEFINE f == [k \in 0..0 |-> v]
  <2>1. IsLoop(f, 0, v, first, last, op, id, as)
    BY DEF IsLoop
  <2> QED BY <2>1, <1>4, <1>5
<1>6. CASE m # 0
  <2>1. m - 1 \in Nat /\ m - 1 \notin T
    BY <1>3, <1>4, <1>6
  <2>2. RunsTo(m - 1)
    BY <2>1 DEF T
  <2>3. PICK f : IsLoop(f, m - 1, v, first, last, op, id, as)
    BY <2>2
  <2> DEFINE g == [k \in 0..m |-> IF k = m THEN LoopStep(f[m - 1], m, first, last, op, id, as)
                                  ELSE f[k]]
  <2>4. \A k \in 0..m : g[k] = IF k = 0 THEN v ELSE LoopStep(g[k - 1], k, first, last, op, id, as)
    <3> TAKE k \in 0..m
    <3>1. CASE k = m
      <4>1. g[k] = LoopStep(f[m - 1], m, first, last, op, id, as)
        BY <3>1
      <4>2. g[m - 1] = f[m - 1]
        <5>1. m - 1 \in 0..m /\ m - 1 # m
          BY <1>4, <1>6
        <5> QED BY <5>1
      <4> HIDE DEF g
      <4> QED BY <4>1, <4>2, <3>1, <1>6
    <3>2. CASE k # m
      <4>1. k \in 0..m - 1 /\ g[k] = f[k]
        BY <3>2, <1>4
      <4>2. f[k] = IF k = 0 THEN v ELSE LoopStep(f[k - 1], k, first, last, op, id, as)
        BY <4>1, <2>3 DEF IsLoop
      <4>3. k # 0 => g[k - 1] = f[k - 1]
        <5>1. k # 0 => k - 1 \in 0..m /\ k - 1 # m
          BY <4>1, <1>4
        <5> QED BY <5>1
      <4> HIDE DEF g
      <4> QED BY <4>1, <4>2, <4>3
    <3> QED BY <3>1, <3>2
  <2>5. g = [k \in 0..m |-> g[k]]
    OBVIOUS
  <2> HIDE DEF g
  <2>6. IsLoop(g, m, v, first, last, op, id, as)
    BY <2>4, <2>5 DEF IsLoop
  <2> QED BY <2>6, <1>4
<1> QED BY <1>5, <1>6

LEMMA WrittenIsLoop ==
    ASSUME NEW v \in Vectors, NEW first, NEW last, NEW op, NEW id, NEW as
    PROVE  IsLoop(Written(v, first, last, op, id, as), Len(v), v, first, last, op, id, as)
<1>0. Len(v) \in Nat
  BY DEF Vectors
<1>1. PICK g : IsLoop(g, Len(v), v, first, last, op, id, as)
  BY <1>0, LoopExists
<1> QED BY <1>1 DEF IsLoop, Written, LoopStep

\* A loop of v begins with v and goes on with a step at each of its ids.
Begins(f, v) == f[0] = v
GoesOn(f, k, first, last, op, id, as) == f[k] = LoopStep(f[k - 1], k, first, last, op, id, as)

LEMMA LoopFacts ==
    ASSUME NEW v \in Vectors, NEW first, NEW last, NEW op, NEW id, NEW as, NEW f,
           IsLoop(f, Len(v), v, first, last, op, id, as)
    PROVE  Begins(f, v) /\ \A k \in 1..Len(v) : GoesOn(f, k, first, last, op, id, as)
<1>0. Len(v) \in Nat
  BY DEF Vectors
<1>1. f = [k \in 0..Len(v) |-> IF k = 0 THEN v ELSE LoopStep(f[k - 1], k, first, last, op, id, as)]
  BY DEF IsLoop
<1>2. Begins(f, v)
  <2>1. 0 \in 0..Len(v)
    BY <1>0
  <2> QED BY <2>1, <1>1 DEF Begins
<1>3. ASSUME NEW k \in 1..Len(v) PROVE GoesOn(f, k, first, last, op, id, as)
  <2>1. k \in 0..Len(v) /\ k # 0
    BY <1>0
  <2> QED BY <2>1, <1>1 DEF GoesOn
<1> QED BY <1>2, <1>3

\* A vector like v.
Like(u, v) == u \in Vectors /\ Len(u) = Len(v)

LEMMA LoopKeepsRange ==
    ASSUME VariablesAssumption, NEW v \in Vectors, NEW first, NEW last, NEW op \in Ops, NEW id,
           NEW as, NEW n \in 0..Len(v)
    PROVE  Like(Written(v, first, last, op, id, as)[n], v)
<1> DEFINE f == Written(v, first, last, op, id, as)
<1>l. IsLoop(f, Len(v), v, first, last, op, id, as)
  BY WrittenIsLoop
<1> HIDE DEF f
<1>3. Begins(f, v) /\ \A k \in 1..Len(v) : GoesOn(f, k, first, last, op, id, as)
  BY <1>l, LoopFacts
<1> DEFINE Good(k) == f[k] \in Vectors /\ Len(f[k]) = Len(v)
           T == {k \in 0..Len(v) : ~Good(k)}
<1>1. SUFFICES ASSUME T # {} PROVE FALSE
  BY DEF f, Like
<1>2. T \in SUBSET Nat
  <2>1. Len(v) \in Nat
    BY ValueOf
  <2> HIDE DEF Good
  <2> QED BY <2>1
<1> HIDE DEF T, f
<1>4. PICK m \in T : \A y \in T : m <= y
  BY <1>1, <1>2, LeastNumber
<1>5. m \in 0..Len(v) /\ ~Good(m) /\ Len(v) \in Nat
  BY ValueOf DEF T
<1>6. m # 0
  BY <1>3, <1>5 DEF Begins
<1>7. m - 1 \in 0..Len(v) /\ m - 1 \notin T /\ m \in 1..Len(v)
  BY <1>4, <1>5, <1>6
<1>8. Good(m - 1)
  BY <1>7 DEF T
<1> DEFINE w == f[m - 1]  x == Clamp(Compute(op, w[m], Read(w, id, as)))
<1>9. w \in Vectors /\ Len(w) = Len(v) /\ DOMAIN w = 1..Len(v)
  BY <1>8, ValueOf
<1>10. f[m] = IF m \in first..last THEN [w EXCEPT ![m] = x] ELSE w
  BY <1>3, <1>7 DEF LoopStep, GoesOn
<1> HIDE DEF w
<1>11. x \in MinValue..MaxValue
  <2>1. w[m] \in Int
    BY <1>9, <1>7, ValueOf
  <2>2. Read(w, id, as) \in Int
    BY <1>9, GetInRange, ValuesAreInts DEF Read
  <2> QED BY <2>1, <2>2, WrittenValue
<1> HIDE DEF x
<1>12. ASSUME m \in first..last PROVE Good(m)
  <2>1. f[m] = [w EXCEPT ![m] = x]
    BY <1>10, <1>12
  <2>2. f[m] = [i \in DOMAIN w |-> f[m][i]] /\ \A i \in DOMAIN w : f[m][i] \in {x, w[i]}
    BY <2>1, <1>9
  <2>3. \A i \in DOMAIN w : f[m][i] \in MinValue..MaxValue
    BY <2>2, <1>11, <1>9, ValueOf
  <2> QED BY <2>2, <2>3, <1>9, SameLength
<1> QED BY <1>5, <1>9, <1>10, <1>12

LEMMA WriteLoopVector ==
    ASSUME VariablesAssumption, NEW v \in Vectors, NEW first, NEW last, NEW op \in Ops, NEW id,
           NEW as
    PROVE  Like(WriteLoop(v, first, last, op, id, as), v)
<1>1. Len(v) \in 0..Len(v)
  BY ValueOf
<1> QED BY <1>1, LoopKeepsRange DEF WriteLoop

\* The loop is split where the variable changes, and nowhere else, whatever the vector and
\* the range.
LEMMA SplitLoop ==
    ASSUME VariablesAssumption, NEW v \in Vectors, NEW first \in Int, NEW last \in Int,
           NEW op \in Ops, NEW id \in Int
    PROVE  WriteRangeVariable(v, first, last, op, id) = WriteLoop(v, first, last, op, id, "variable")
<1> DEFINE f == Written(v, first, last, op, id, "variable")
<1>l. IsLoop(f, Len(v), v, first, last, op, id, "variable")
  BY WrittenIsLoop
<1> HIDE DEF f
<1>2. Begins(f, v) /\ \A k \in 1..Len(v) : GoesOn(f, k, first, last, op, id, "variable")
  BY <1>l, LoopFacts
<1> DEFINE u == WriteRangeVariable(v, first, last, op, id)
           Upto(k) == [i \in DOMAIN v |-> IF i <= k THEN u[i] ELSE v[i]]
           T == {k \in 0..Len(v) : f[k] # Upto(k)}
<1>0. Len(v) \in Nat /\ DOMAIN v = 1..Len(v)
  BY ValueOf
<1>u. u \in Vectors /\ Len(u) = Len(v) /\ DOMAIN u = DOMAIN v
  BY <1>0, WriteRangeVariableVector, ValueOf
\* What the split writes at k is what the loop would write.
<1>1. ASSUME NEW k \in DOMAIN v
      PROVE  u[k] = IF k \in first..last
                      THEN Clamp(Compute(op, v[k],
                             IF id \in DOMAIN v THEN (IF id < k THEN u[id] ELSE v[id]) ELSE 0))
                      ELSE v[k]
  <2>1. CASE id \in first..last
    <3> DEFINE w == WriteRange(v, first, id, op, Get(v, id))
    <3>1. w = [i \in DOMAIN v |-> IF i \in first..id THEN Clamp(Compute(op, v[i], Get(v, id))) ELSE v[i]]
      BY DEF WriteRange
    <3>2. u = [i \in DOMAIN w |-> IF i \in id + 1..last THEN Clamp(Compute(op, w[i], Get(w, id))) ELSE w[i]]
      BY <2>1 DEF WriteRangeVariable, WriteRange
    <3> HIDE DEF u
    <3>3. DOMAIN w = DOMAIN v
      BY <3>1
    <3>4. id \in DOMAIN v => u[id] = w[id]
      BY <3>2, <3>3
    <3>5. CASE k <= id
      <4>1. u[k] = w[k]
        BY <3>2, <3>3, <3>5, <1>0
      <4>2. w[k] = IF k \in first..id THEN Clamp(Compute(op, v[k], Get(v, id))) ELSE v[k]
        BY <3>1
      <4>3. k \in first..id <=> k \in first..last
        BY <2>1, <3>5, <1>0
      <4> QED BY <4>1, <4>2, <4>3, <3>5, <1>0 DEF Get
    <3>6. CASE id < k
      <4>1. w[k] = v[k]
        BY <3>1, <3>6, <1>0
      <4>2. k \in id + 1..last <=> k \in first..last
        BY <2>1, <3>6, <1>0
      <4>3. u[k] = IF k \in id + 1..last THEN Clamp(Compute(op, w[k], Get(w, id))) ELSE w[k]
        BY <3>2, <3>3
      <4>4. Get(w, id) = IF id \in DOMAIN v THEN u[id] ELSE 0
        BY <3>3, <3>4 DEF Get
      <4> HIDE DEF w
      <4> QED BY <4>1, <4>2, <4>3, <4>4, <3>6
    <3> QED BY <3>5, <3>6, <1>0
  <2>2. CASE id \notin first..last
    <3>1. u = [i \in DOMAIN v |-> IF i \in first..last THEN Clamp(Compute(op, v[i], Get(v, id))) ELSE v[i]]
      BY <2>2 DEF WriteRangeVariable, WriteRange
    <3> HIDE DEF u
    <3>2. id \in DOMAIN v => u[id] = v[id]
      BY <3>1, <2>2
    <3> QED BY <3>1, <3>2 DEF Get
  <2> QED BY <2>1, <2>2
<1>3. WriteLoop(v, first, last, op, id, "variable") = f[Len(v)]
  BY DEF WriteLoop, f
<1> HIDE DEF u
<1>4. T = {}
  <2>1. SUFFICES ASSUME T # {} PROVE FALSE
    OBVIOUS
  <2>2. T \in SUBSET Nat
    BY <1>0
  <2> HIDE DEF T
  <2>3. PICK m \in T : \A y \in T : m <= y
    BY <2>1, <2>2, LeastNumber
  <2>4. m \in 0..Len(v) /\ f[m] # Upto(m)
    BY <2>3 DEF T
  <2>5. Upto(0) = v
    <3>1. v = [i \in DOMAIN v |-> v[i]]
      BY DEF Vectors
    <3> QED BY <3>1, <1>0
  <2>6. m # 0
    BY <2>4, <2>5, <1>2 DEF Begins
  <2>7. m - 1 \in 0..Len(v) /\ m - 1 \notin T /\ m \in 1..Len(v) /\ m \in Int
    BY <2>3, <2>4, <2>6, <1>0
  <2> DEFINE w == Upto(m - 1)
  <2>8. f[m - 1] = w
    BY <2>7 DEF T
  <2>9. f[m] = IF m \in first..last THEN [w EXCEPT ![m] = Clamp(Compute(op, w[m], Get(w, id)))] ELSE w
    BY <1>2, <2>7, <2>8 DEF LoopStep, Read, GoesOn
  <2>10. w[m] = v[m] /\ DOMAIN w = DOMAIN v /\ m \in DOMAIN v
    BY <2>7, <1>0
  <2>11. Get(w, id) = IF id \in DOMAIN v THEN (IF id < m THEN u[id] ELSE v[id]) ELSE 0
    BY <2>7, <1>0 DEF Get
  <2>12. f[m] = IF m \in first..last THEN [w EXCEPT ![m] = u[m]] ELSE w
    <3> HIDE DEF w
    <3> QED BY <2>9, <2>10, <2>11, <1>1
  <2>13. m \notin first..last => u[m] = v[m]
    BY <2>10, <1>1
  <2>14. f[m] = [w EXCEPT ![m] = u[m]]
    <3>1. m \notin first..last => [w EXCEPT ![m] = u[m]] = w
      BY <2>10, <2>13
    <3> HIDE DEF w
    <3> QED BY <3>1, <2>12
  <2>15. [w EXCEPT ![m] = u[m]] = Upto(m)
    <3>1. \A i \in DOMAIN v : [w EXCEPT ![m] = u[m]][i] = Upto(m)[i]
      <4> TAKE i \in DOMAIN v
      <4>1. i \in Int /\ i <= m /\ i # m => i <= m - 1
        BY <2>7, <1>0
      <4> QED BY <4>1, <2>7, <1>0
    <3> QED BY <3>1
  <2> QED BY <2>4, <2>14, <2>15
<1>5. f[Len(v)] = Upto(Len(v))
  <2>1. \A k \in 0..Len(v) : k \notin T => f[k] = Upto(k)
    OBVIOUS
  <2> HIDE DEF T, Upto
  <2> QED BY <1>0, <1>4, <2>1
<1>6. Upto(Len(v)) = u
  <2>1. u = [i \in DOMAIN v |-> u[i]]
    BY <1>u DEF Vectors
  <2> QED BY <2>1, <1>0
<1> QED BY <1>3, <1>5, <1>6 DEF u

-----------------------------------------------------------------------------
(* The theorem.                                                            *)

LEMMA VariablesStep ==
    ASSUME VariablesAssumption, VariablesTypeOK, [VariablesNext]_values
    PROVE  VariablesTypeOK'
<1> USE DEF VariablesTypeOK
<1>0. values \in Vectors /\ Len(values) <= MaxId
  BY DEF Vectors
<1>1. CASE UNCHANGED values
  BY <1>1
<1>2. CASE VariablesNext
  <2>1. PICK op \in Ops :
          \/ \E id \in VariableIds, x \in Operands : SetOp(op, id, x)
          \/ \E first \in VariableIds, last \in VariableIds :
               \/ \E x \in Operands : WriteConstant(op, first, last, x)
               \/ \E id \in VariableIds : WriteVariable(op, first, last, id)
               \/ \E id \in VariableIds : WriteIndirect(op, first, last, id)
               \/ \E dice \in Dice : WriteRandom(op, first, last, dice[1], dice[2])
    BY <1>2 DEF VariablesNext
  <2>0. /\ Operands \subseteq Int
        /\ \A dice \in Dice : dice[1] \in Int /\ dice[2] \in Int
    BY DEF VariablesAssumption
  <2>2. ASSUME NEW id \in VariableIds, NEW x \in Operands, SetOp(op, id, x)
        PROVE  VariablesTypeOK'
    <3>1. Grown(values, id) \in Vectors /\ Len(Grown(values, id)) <= MaxId
      BY <1>0, GrownVector
    <3> QED BY <2>0, <2>2, <3>1, WriteRangeVector DEF SetOp, Vectors
  <2>3. ASSUME NEW first \in VariableIds, NEW last \in VariableIds, NEW x \in Operands,
               WriteConstant(op, first, last, x)
        PROVE  VariablesTypeOK'
    <3>1. Grown(values, last) \in Vectors /\ Len(Grown(values, last)) <= MaxId
      BY <1>0, GrownVector
    <3> QED BY <2>0, <2>3, <3>1, WriteRangeVector DEF WriteConstant, Vectors
  <2>4. ASSUME NEW first \in VariableIds, NEW last \in VariableIds, NEW id \in VariableIds,
               WriteVariable(op, first, last, id)
        PROVE  VariablesTypeOK'
    <3>1. Grown(values, last) \in Vectors /\ Len(Grown(values, last)) <= MaxId
      BY <1>0, GrownVector
    <3> QED BY <2>4, <3>1, WriteRangeVariableVector DEF WriteVariable, Vectors
  <2>5. ASSUME NEW first \in VariableIds, NEW last \in VariableIds, NEW id \in VariableIds,
               WriteIndirect(op, first, last, id)
        PROVE  VariablesTypeOK'
    <3>1. Grown(values, last) \in Vectors /\ Len(Grown(values, last)) <= MaxId
      BY <1>0, GrownVector
    <3>2. values' = WriteLoop(Grown(values, last), first, last, op, id, "pointer")
      BY <2>5 DEF WriteIndirect
    <3>3. values' \in Vectors /\ Len(values') = Len(Grown(values, last))
      <4>1. Like(WriteLoop(Grown(values, last), first, last, op, id, "pointer"), Grown(values, last))
        BY <3>1, WriteLoopVector
      <4> QED BY <4>1, <3>2 DEF Like
    <3> QED BY <3>1, <3>3 DEF Vectors
  <2>6. ASSUME NEW first \in VariableIds, NEW last \in VariableIds, NEW dice \in Dice,
               WriteRandom(op, first, last, dice[1], dice[2])
        PROVE  VariablesTypeOK'
    <3> DEFINE v == Grown(values, last)
    <3>1. v \in Vectors /\ Len(v) <= MaxId
      BY <1>0, GrownVector
    <3>2. PICK random \in [(first..last) \cap DOMAIN v -> dice[1]..dice[2]] :
            values' = [i \in DOMAIN v |-> IF i \in DOMAIN random
                                            THEN Clamp(Compute(op, v[i], random[i])) ELSE v[i]]
      BY <2>6 DEF WriteRandom
    <3> HIDE DEF v
    <3>3. \A i \in DOMAIN random : random[i] \in Int
      BY <3>2, <2>0
    <3>4. \A i \in DOMAIN v : values'[i] \in MinValue..MaxValue
      <4> TAKE i \in DOMAIN v
      <4>1. v[i] \in MinValue..MaxValue /\ v[i] \in Int
        BY <3>1, ValueOf
      <4>2. CASE i \in DOMAIN random
        <5>1. Clamp(Compute(op, v[i], random[i])) \in MinValue..MaxValue
          BY <4>1, <4>2, <3>3, WrittenValue
        <5> QED BY <5>1, <4>2, <3>2
      <4>3. CASE i \notin DOMAIN random
        BY <4>1, <4>3, <3>2
      <4> QED BY <4>2, <4>3
    <3>5. values' = [i \in DOMAIN v |-> values'[i]]
      BY <3>2
    <3>6. values' \in Vectors /\ Len(values') = Len(v)
      BY <3>1, <3>4, <3>5, SameLength
    <3> QED BY <3>1, <3>6 DEF Vectors
  <2> QED BY <2>1, <2>2, <2>3, <2>4, <2>5, <2>6
<1> QED BY <1>1, <1>2

LEMMA TypedVariablesAreRight ==
    ASSUME VariablesAssumption, VariablesTypeOK PROVE VariablesInv
<1>0. values \in Vectors
  BY DEF Vectors, VariablesTypeOK
<1>1. SplitIsALoop
  <2>1. DOMAIN values \subseteq Int
    BY <1>0, ValueOf
  <2>2. VariableIds \subseteq Int
    BY DEF VariableIds, VariablesAssumption
  <2> QED BY <1>0, <2>1, <2>2, SplitLoop DEF SplitIsALoop
<1>2. OnlyProductsWrap
  <2>1. \A i \in DOMAIN values : values[i] \in MinValue..MaxValue
    BY <1>0, ValueOf
  <2> QED BY <2>1, ExactFits DEF OnlyProductsWrap
<1> QED BY <1>1, <1>2 DEF VariablesInv

\* Whatever ranges are written, with constants, variables, pointers and random numbers, and
\* whatever the word and the limits of the values: they stay in their limits, a range that is
\* written with one of its own variables is written as by a loop, and only products wrap.
THEOREM VariablesAreRight == VariablesAssumption => (VariablesSpec => []VariablesInv)
<1> SUFFICES ASSUME VariablesAssumption PROVE VariablesSpec => []VariablesInv
  OBVIOUS
<1>1. VariablesInit => VariablesTypeOK
  BY DEF VariablesInit, VariablesTypeOK, VariablesAssumption
<1>2. VariablesTypeOK /\ [VariablesNext]_values => VariablesTypeOK'
  BY VariablesStep
<1>3. VariablesTypeOK => VariablesInv
  BY TypedVariablesAreRight
<1> QED BY <1>1, <1>2, <1>3, PTL DEF VariablesSpec

=============================================================================
