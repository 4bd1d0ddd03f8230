-------------------------- MODULE Battle2k3_proofs --------------------------
(***************************************************************************)
(* Theorems about battles with gauges, for any actors, troop, pages,       *)
(* commands and numbers of blows and turns: nobody has two actions, a menu *)
(* belongs to somebody who is free, an action that was started is not      *)
(* begun again unless something breaks it off, and who has won has won.    *)
(***************************************************************************)
EXTENDS Battle2k3, Battlers_proofs

Late == {"start", "execute", "postevents", "finished"}
Acting == [src : All \cup {"none"}, algo : Algos, targets : Seq(All), at : Nat, hit : Nat,
           step : {"none", "preevents", "conditions"} \cup Late]
PageStates == [left : 0..PageLength, executed : SUBSET DOMAIN Pages, flee : BOOLEAN]
States == Menus \cup {"option", "actor", "auto", "battle", "victory", "defeat", "escape"}
Scenes == [state : States, previous : States \cup {"start"},
           sub : {"begin", "input", "action", "success", "failure", "end"}, auto : BOOLEAN]

\* The battlers, gauges, chooser, queue and menus of d: whoever is in the queue is there once, has an
\* action and no full gauge, and is not chosen for; a menu belongs to somebody, and leads back where
\* a menu can lead back to.
Sound(d) ==
    /\ d.w \in Fighters /\ IsInjective(d.w.party)
    /\ d.full \subseteq {b \in All : d.w.status[b] # "dead"}
    /\ d.active \in Actors \cup {"none"} /\ d.queue \in Seq(All) /\ d.s \in Scenes
    /\ IsInjective(d.queue) /\ \A b \in ToSet(d.queue) : d.w.algo[b] # Null /\ b \notin d.full
    /\ d.active \notin ToSet(d.queue)
    /\ d.s.state \in Menus => d.active # "none"
    /\ d.s.state = "enemytarget" => d.s.previous \in {"command", "skill"}
    /\ d.s.state = "allytarget" => d.s.previous = "item"
    /\ d.s.state = "battle" => d.s.previous \in {"actor", "auto", "command"}

Typed ==
    /\ act \in Acting /\ act.at \in 0..Len(act.targets) /\ page \in PageStates
    /\ phase \in {"events", "gauges", "scene"} /\ place \in {"battle", "left"}

\* The action that is executed is that of the front of the queue.
UnderWay == s.state = "battle" /\ s.sub = "action"

InTurn ==
    /\ UnderWay => queue # <<>> /\ act.src = Head(queue) /\ act.step # "none"
    /\ act.step # "none" => act.src \in All /\ act.algo # Null
    /\ act.step = "execute" => act.algo \in Acts

Settled ==
    /\ s.state = "victory" => CheckWin(w) /\ ~CheckLose(w)
    /\ s.state = "defeat" => CheckLose(w)
    /\ result \in {"victory", "defeat"} => place = "left" /\ s.state = result

IsOver(v) == CheckWin(v) \/ CheckLose(v)

\* Whoever began to act is the first of the queue and still at it, or the battle ends before he could
\* begin again.
Begun ==
    /\ begun # {} =>
         /\ queue # <<>> /\ begun = {Head(queue)}
         /\ \/ UnderWay /\ act.step \in Late
            \/ page.left = 0 /\ IsOver(w)
            \/ page.flee \/ Decided(s)
    /\ act.step = "conditions" => begun = {}

\* Nobody is out of his mind.
Sane(v) == \A b \in All : v.status[b] \notin {"confused", "provoked"}

\* If the chooser is gone, that is noticed before a page goes on, and nobody returns from an escape
\* that a page forces.
Steady ==
    place = "battle" =>
         /\ page.flee => Decided(s) \/ (s.state = "escape" /\ s.sub \in {"begin", "success"})
         /\ ActiveGone => /\ phase # "events" /\ page.left = 0 /\ ~page.flee
                          /\ s.state = "battle" \/ PageLength <= 1
         /\ page.left > 0 => UnderWay \/ Decided(s) \/ page.flee
         /\ page.left > 0 /\ PageLength <= 1 => UnderWay /\ ~page.flee

AtbIInv ==
    /\ Sound(Now) /\ Typed /\ InTurn /\ Settled
    /\ Undisturbed => Begun /\ Sane(w) /\ Steady

-----------------------------------------------------------------------------
(* The states of the scene.                                                 *)

LEMMA SetStates ==
  ASSUME NEW t \in Scenes, NEW new \in States
  PROVE  /\ SetState(t, new) \in Scenes /\ SetState(t, new).state = new
         /\ SetState(t, new).previous = t.state /\ SetState(t, new).sub = "begin"
<1>1. (new = "auto" \/ (t.auto /\ new # "actor")) \in BOOLEAN
  OBVIOUS
<1>2. t.state \in States
  BY DEF Scenes
<1> DEFINE a == new = "auto" \/ (t.auto /\ new # "actor")
<1>3. SetState(t, new) = [state |-> new, previous |-> t.state, sub |-> "begin", auto |-> a]
  BY DEF SetState
<1> HIDE DEF a
<1> QED BY <1>1, <1>2, <1>3 DEF Scenes, a

LEMMA Main ==
  ASSUME NEW t \in Scenes
  PROVE  /\ ReturnToMain(t) \in Scenes /\ ReturnToMain(t).state \in {"actor", "auto"}
         /\ ReturnToMain(t).previous = t.state /\ ReturnToMain(t).sub = "begin"
<1>1. "auto" \in States /\ "actor" \in States
  BY DEF States
<1>2. ReturnToMain(t) = SetState(t, "auto") \/ ReturnToMain(t) = SetState(t, "actor")
  BY DEF ReturnToMain
<1> QED BY <1>1, <1>2, SetStates

\* What the check for the end leaves.
LEMMA Ends ==
  ASSUME NEW t \in Scenes, NEW v
  PROVE  LET e == Ended(t, v) IN
         /\ e \in Scenes
         /\ \/ e = t /\ (Decided(t) \/ ~IsOver(v))
            \/ e.state = "defeat" /\ e.sub = "begin" /\ e # t /\ CheckLose(v)
            \/ e.state = "victory" /\ e.sub = "begin" /\ e # t /\ CheckWin(v) /\ ~CheckLose(v)
<1>1. "defeat" \in States /\ "victory" \in States
  BY DEF States
<1>2. /\ SetState(t, "defeat") \in Scenes /\ SetState(t, "defeat").state = "defeat" /\ SetState(t, "defeat").sub = "begin"
      /\ SetState(t, "victory") \in Scenes /\ SetState(t, "victory").state = "victory" /\ SetState(t, "victory").sub = "begin"
  BY <1>1, SetStates
<1>3. CASE t.state = "defeat"
  BY <1>3 DEF Ended, Decided
<1>4. CASE t.state # "defeat" /\ CheckLose(v)
  <2>1. Ended(t, v) = SetState(t, "defeat")
    BY <1>4 DEF Ended
  <2> QED BY <2>1, <1>2, <1>4
<1>5. CASE t.state # "defeat" /\ ~CheckLose(v) /\ (t.state = "victory" \/ ~CheckWin(v))
  <2>1. Ended(t, v) = t
    BY <1>5 DEF Ended
  <2> QED BY <2>1, <1>5 DEF Decided, IsOver
<1>6. CASE t.state # "defeat" /\ ~CheckLose(v) /\ t.state # "victory" /\ CheckWin(v)
  <2>1. Ended(t, v) = SetState(t, "victory")
    BY <1>6 DEF Ended
  <2> QED BY <2>1, <1>2, <1>6
<1> QED BY <1>3, <1>4, <1>5, <1>6

-----------------------------------------------------------------------------
(* Actions are chosen.                                                      *)

LEMMA ReadyOnes ==
  ASSUME NEW v \in Fighters, NEW gauges
  PROVE  LET a == FirstReady(v, gauges) IN
         a = "none" \/ (a \in gauges /\ Exists(v, a) /\ a \in Actors)
<1> DEFINE ready == {i \in DOMAIN v.party : Ready(v, gauges, v.party[i])}
           first == CHOOSE i \in ready : \A j \in ready : i <= j
<1>1. FirstReady(v, gauges) = IF ready = {} THEN "none" ELSE v.party[first]
  BY DEF FirstReady
<1>2. v.party \in Seq(Actors) /\ DOMAIN v.party = 1..Len(v.party) /\ Len(v.party) \in Nat
  BY FighterFields
<1>3. ready # {} => first \in ready
  <2>1. ready \in SUBSET Nat
    BY <1>2
  <2> HIDE DEF ready
  <2>2. ready # {} => \E i \in ready : \A j \in ready : i <= j
    BY <2>1, LeastNumber
  <2> QED BY <2>2
<1> HIDE DEF first
<1>4. ready # {} => Ready(v, gauges, v.party[first]) /\ v.party[first] \in Actors
  BY <1>2, <1>3, Elements
<1> HIDE DEF ready
<1> QED BY <1>1, <1>4 DEF Ready

\* What follows d when actions are chosen.
Follows(d, e) ==
    /\ e.w.status = d.w.status /\ e.w.hidden = d.w.hidden /\ e.w.party = d.w.party
    /\ \A b \in All : e.w.algo[b] = Null => d.w.algo[b] = Null
    /\ e.full \subseteq d.full
    /\ d.queue # <<>> => e.queue # <<>> /\ Head(e.queue) = Head(d.queue)
    /\ e.s = d.s \/ (e.s.state \in {"actor", "auto"} /\ e.s.sub = "begin")
    /\ e.active \in {d.active, "none"} \/ Exists(d.w, e.active)

LEMMA FollowsAgain ==
  /\ \A d : Follows(d, d)
  /\ \A d, x, e : Follows(d, x) /\ Follows(x, e) => Follows(d, e)
<1>1. \A d : Follows(d, d)
  BY DEF Follows
<1>2. ASSUME NEW d, NEW x, NEW e, Follows(d, x), Follows(x, e) PROVE Follows(d, e)
  <2>1. \A b : Exists(x.w, b) <=> Exists(d.w, b)
    BY <1>2, SameStanding DEF Follows
  <2> QED BY <1>2, <2>1 DEF Follows
<1> QED BY <1>1, <1>2

LEMMA Selected ==
  ASSUME NEW d, Sound(d), NEW b \in All, b \notin ToSet(d.queue), NEW algo \in Acts \cup {NoAction},
         AtbAssumption
  PROVE  LET e == ActionSelected(d, b, algo) IN
         /\ Sound(e) /\ Follows(d, e)
         /\ b \in Enemies => e.s = d.s
         /\ b \in Actors => e.s.state \in {"actor", "auto"} /\ e.s.sub = "begin"
<1> DEFINE e == ActionSelected(d, b, algo)
           gauges == d.full \ {b}
           v == [d.w EXCEPT !.algo[b] = algo]
           next == FirstReady(d.w, gauges)
<1>1. /\ e.w = v /\ e.full = gauges /\ e.active = (IF b = d.active THEN next ELSE d.active)
      /\ e.queue = Append(d.queue, b) /\ e.s = (IF b \in Actors THEN ReturnToMain(d.s) ELSE d.s)
  BY DEF ActionSelected
<1>2. algo \in Algos /\ algo # Null
  BY Null0 DEF Algos
<1>3. /\ v \in Fighters /\ v.algo = [d.w.algo EXCEPT ![b] = algo] /\ v.status = d.w.status
      /\ v.hidden = d.w.hidden /\ v.party = d.w.party
  BY <1>2, NewAlgo DEF Sound
<1>4. next = "none" \/ (next \in gauges /\ Exists(d.w, next) /\ next \in Actors)
  <2>1. d.w \in Fighters
    BY DEF Sound
  <2> QED BY <2>1, ReadyOnes
<1>5. /\ e.queue \in Seq(All) /\ IsInjective(e.queue) /\ e.queue # <<>>
      /\ \A x : x \in ToSet(e.queue) <=> x \in ToSet(d.queue) \/ x = b
      /\ d.queue # <<>> => Head(e.queue) = Head(d.queue)
  <2> DEFINE q == d.queue
             r == Append(q, b)
  <2>1. q \in Seq(All) /\ IsInjective(q) /\ Len(q) \in Nat
    BY DEF Sound
  <2>2. r \in Seq(All) /\ IsInjective(r) /\ \A x : x \in ToSet(r) <=> x \in ToSet(q) \/ x = b
    BY <2>1, Appended
  <2>3. r # <<>> /\ (q # <<>> => Head(r) = Head(q))
    <3>1. Len(r) = Len(q) + 1 /\ \A i \in 1..Len(q) : r[i] = q[i]
      BY <2>1, AppendProperties
    <3>2. q # <<>> => Len(q) # 0
      BY <2>1
    <3>3. q # <<>> => 1 \in 1..Len(q)
      BY <2>1, <3>2
    <3>5. q # <<>> => r[1] = q[1]
      BY <3>1, <3>3
    <3> HIDE DEF q, r
    <3>4. r # <<>>
      <4>1. Len(r) # 0
        BY <2>1, <3>1
      <4> QED BY <4>1
    <3> QED BY <2>1, <2>2, <3>4, <3>5
  <2> QED BY <1>1, <2>2, <2>3
<1> HIDE DEF v, next
<1>6. "none" \notin All /\ Actors \subseteq All /\ Actors \cap Enemies = {}
  BY DEF AtbAssumption, BattlersAssumption, All
<1>7. /\ e.active \in Actors \cup {"none"} /\ e.active \notin ToSet(e.queue)
      /\ e.active \in {d.active, "none"} \/ Exists(d.w, e.active)
      /\ b \notin Actors => e.active = d.active
  <2>1. /\ d.active \in Actors \cup {"none"} /\ d.active \notin ToSet(d.queue)
        /\ \A x \in ToSet(d.queue) : x \notin d.full
    BY DEF Sound
  <2>2. ToSet(d.queue) \subseteq All
    BY Elements DEF Sound
  <2>3. CASE b = d.active
    <3>1. e.active = next /\ b \in Actors
      BY <2>1, <2>3, <1>1, <1>6
    <3>2. next \notin ToSet(e.queue)
      BY <2>1, <2>2, <1>4, <1>5, <1>6
    <3> HIDE DEF e
    <3> QED BY <3>1, <3>2, <1>4
  <2>4. CASE b # d.active
    <3>1. e.active = d.active
      BY <2>4, <1>1
    <3> HIDE DEF e
    <3> QED BY <3>1, <2>1, <2>4, <1>5
  <2> QED BY <2>3, <2>4
<1>8. \A x \in ToSet(e.queue) : e.w.algo[x] # Null /\ x \notin e.full
  <2>1. \A x \in All : v.algo[x] = IF x = b THEN algo ELSE d.w.algo[x]
    <3>1. d.w.algo \in [All -> Algos]
      BY FighterFields DEF Sound
    <3> QED BY <1>3, <3>1
  <2>2. \A x \in ToSet(d.queue) : d.w.algo[x] # Null /\ x \notin d.full /\ x \in All
    BY Elements DEF Sound
  <2> QED BY <2>1, <2>2, <1>1, <1>2, <1>5
<1>9. /\ e.s \in Scenes
      /\ b \in Enemies => e.s = d.s
      /\ b \in Actors => e.s.state \in {"actor", "auto"} /\ e.s.sub = "begin"
  <2>1. d.s \in Scenes
    BY DEF Sound
  <2>2. ReturnToMain(d.s) \in Scenes /\ ReturnToMain(d.s).state \in {"actor", "auto"} /\ ReturnToMain(d.s).sub = "begin"
    BY <2>1, Main
  <2> QED BY <2>1, <2>2, <1>1, <1>6
<1>10. Sound(e)
  <2>1. e.full \subseteq {x \in All : e.w.status[x] # "dead"}
    BY <1>1, <1>3 DEF Sound
  <2>2. e.w \in Fighters /\ IsInjective(e.w.party)
    BY <1>1, <1>3 DEF Sound
  <2>3. /\ e.s.state \in Menus => e.active # "none"
        /\ e.s.state = "enemytarget" => e.s.previous \in {"command", "skill"}
        /\ e.s.state = "allytarget" => e.s.previous = "item"
        /\ e.s.state = "battle" => e.s.previous \in {"actor", "auto", "command"}
    <3>1. CASE b \in Actors
      BY <3>1, <1>9 DEF Menus
    <3>2. CASE b \notin Actors
      <4>1. e.s = d.s /\ e.active = d.active
        BY <3>2, <1>7, <1>9 DEF All
      <4> QED BY <4>1 DEF Sound
    <3> QED BY <3>1, <3>2
  <2> HIDE DEF e
  <2> QED BY <2>1, <2>2, <2>3, <1>5, <1>7, <1>8, <1>9 DEF Sound
<1>11. Follows(d, e)
  <2>1. \A x \in All : e.w.algo[x] = Null => d.w.algo[x] = Null
    <3>1. d.w.algo \in [All -> Algos]
      BY FighterFields DEF Sound
    <3> QED BY <1>1, <1>2, <1>3, <3>1
  <2>2. e.s = d.s \/ (e.s.state \in {"actor", "auto"} /\ e.s.sub = "begin")
    BY <1>9 DEF All
  <2> HIDE DEF e
  <2> QED BY <2>1, <2>2, <1>1, <1>3, <1>5, <1>7 DEF Follows, e
<1> QED BY <1>9, <1>10, <1>11

\* One step of the loops, and the loops up to their n-th step.
Step(e, b, chosen) == IF Chooses(e, b) THEN ActionSelected(e, b, chosen[b]) ELSE e
IsRun(f, n, d, order, chosen) ==
    f = [i \in 0..n |-> IF i = 0 THEN d ELSE Step(f[i - 1], order[i], chosen)]

LEMMA RunExists ==
  ASSUME NEW d, NEW order, NEW chosen, NEW n \in Nat
  PROVE  \E f : IsRun(f, n, d, order, chosen)
<1> DEFINE RunsTo(m) == \E f : IsRun(f, m, d, order, chosen)
           T == {m \in Nat : ~RunsTo(m)}
<1>1. SUFFICES ASSUME T # {} PROVE FALSE
  OBVIOUS
<1>2. T \in SUBSET Nat
  OBVIOUS
<1> HIDE DEF T
<1>3. PICK m \in T : \A y \in T : m <= y
  BY <1>1, <1>2, LeastNumber
<1>4. m \in Nat /\ ~RunsTo(m)
  BY DEF T
<1>5. CASE m = 0
  <2> DEFINE f == [i \in 0..0 |-> d]
  <2>1. IsRun(f, 0, d, order, chosen)
    BY DEF IsRun
  <2> QED BY <2>1, <1>4, <1>5
<1>6. CASE m # 0
  <2>1. m - 1 \in Nat /\ m - 1 \notin T
    BY <1>3, <1>4, <1>6
  <2>2. RunsTo(m - 1)
    BY <2>1 DEF T
  <2>3. PICK f : IsRun(f, m - 1, d, order, chosen)
    BY <2>2
  <2> DEFINE g == [i \in 0..m |-> IF i = m THEN Step(f[m - 1], order[m], chosen) ELSE f[i]]
  <2>4. \A i \in 0..m : g[i] = IF i = 0 THEN d ELSE Step(g[i - 1], order[i], chosen)
    <3> TAKE i \in 0..m
    <3>1. CASE i = m
      <4>1. g[i] = Step(f[m - 1], order[m], chosen)
        BY <3>1
      <4>2. g[m - 1] = f[m - 1]
        <5>1. m - 1 \in 0..m /\ m - 1 # m
          BY <1>4, <1>6
        <5> QED BY <5>1
      <4> HIDE DEF g
      <4> QED BY <4>1, <4>2, <3>1, <1>6
    <3>2. CASE i # m
      <4>1. i \in 0..m - 1 /\ g[i] = f[i]
        BY <3>2, <1>4
      <4>2. f[i] = IF i = 0 THEN d ELSE Step(f[i - 1], order[i], chosen)
        BY <4>1, <2>3 DEF IsRun
      <4>3. i # 0 => g[i - 1] = f[i - 1]
        <5>1. i # 0 => i - 1 \in 0..m /\ i - 1 # m
          BY <4>1, <1>4
        <5> QED BY <5>1
      <4> HIDE DEF g
      <4> QED BY <4>1, <4>2, <4>3
    <3> QED BY <3>1, <3>2
  <2>5. g = [i \in 0..m |-> g[i]]
    OBVIOUS
  <2> HIDE DEF g
  <2>6. IsRun(g, m, d, order, chosen)
    BY <2>4, <2>5 DEF IsRun
  <2> QED BY <2>6, <1>4
<1> QED BY <1>5, <1>6

\* The AI does not touch the menus: the scene chooses for nobody, or everybody is in his mind and an
\* action is executed.
Quiet(d) == d.s.state \notin {"actor", "auto", "battle"} \/ (d.s.state = "battle" /\ Sane(d.w))

LEMMA StepKeeps ==
  ASSUME NEW d, Sound(d), NEW b \in All, NEW chosen, AtbAssumption,
         b \in d.full /\ d.w.algo[b] = Null => chosen[b] \in Acts \cup {NoAction}
  PROVE  LET e == Step(d, b, chosen) IN
         Sound(e) /\ Follows(d, e) /\ (Quiet(d) => e.s = d.s)
<1> DEFINE e == Step(d, b, chosen)
<1>1. CASE Chooses(d, b)
  <2>1. b \in d.full /\ d.w.algo[b] = Null
    BY <1>1 DEF Chooses
  <2>2. b \notin ToSet(d.queue)
    BY <2>1 DEF Sound
  <2>3. e = ActionSelected(d, b, chosen[b])
    BY <1>1 DEF Step
  <2> HIDE DEF e
  <2>4. Sound(e) /\ Follows(d, e) /\ (b \in Enemies => e.s = d.s)
    BY <2>1, <2>2, <2>3, Selected
  <2>5. ASSUME Quiet(d), b \in Actors PROVE FALSE
    <3>1. /\ d.s.state \in {"actor", "auto", "battle"} /\ Ready(d.w, d.full, b)
          /\ IsControllable(d.w, b) => d.s.state = "auto"
      BY <1>1, <2>5 DEF Chooses
    <3>2. d.s.state = "battle" /\ d.w.status[b] \notin {"confused", "provoked"}
      BY <3>1, <2>5 DEF Quiet, Sane
    <3>3. Restriction(d.w.status[b]) # "do_nothing" /\ Restriction(d.w.status[b]) # "normal"
      BY <3>1, <3>2 DEF Ready, CanAct, IsControllable
    <3> QED BY <3>2, <3>3 DEF Restriction
  <2> QED BY <2>4, <2>5 DEF All, e
<1>2. CASE ~Chooses(d, b)
  <2>1. e = d
    BY <1>2 DEF Step
  <2> QED BY <2>1, FollowsAgain
<1> QED BY <1>1, <1>2

LEMMA CreateActionsKeeps ==
  ASSUME NEW d, Sound(d), NEW chosen, AtbAssumption,
         \A b \in d.full : d.w.algo[b] = Null => chosen[b] \in Acts \cup {NoAction}
  PROVE  LET e == CreateActions(d, chosen) IN
         Sound(e) /\ Follows(d, e) /\ (Quiet(d) => e.s = d.s)
<1> DEFINE order == Troop \o d.w.party
           n == Len(order)
           Fine(e) == Sound(e) /\ Follows(d, e) /\ (Quiet(d) => e.s = d.s)
<1>1. order \in Seq(All) /\ n \in Nat /\ \A i \in 1..n : order[i] \in All
  <2>1. d.w \in Fighters
    BY DEF Sound
  <2>2. Troop \in Seq(All) /\ d.w.party \in Seq(All)
    <3>1. d.w.party \in Seq(Actors) /\ Troop \in Seq(Enemies)
      BY <2>1, FighterFields DEF AtbAssumption, BattlersAssumption
    <3> QED BY <3>1, SeqMonotonic DEF All
  <2>3. order \in Seq(All)
    BY <2>2, ConcatProperties
  <2> HIDE DEF order
  <2> QED BY <2>3, Elements
<1> HIDE DEF order
<1>2. PICK f : IsRun(f, n, d, order, chosen)
  BY <1>1, RunExists
<1> DEFINE after == CHOOSE g : g = [i \in 0..n |->
                        IF i = 0 THEN d
                        ELSE IF Chooses(g[i - 1], order[i]) THEN ActionSelected(g[i - 1], order[i], chosen[order[i]])
                        ELSE g[i - 1]]
<1>3. IsRun(after, n, d, order, chosen)
  BY <1>2 DEF IsRun, Step
<1>4. CreateActions(d, chosen) = after[n]
  BY DEF CreateActions, order
<1> HIDE DEF after
<1>5. after[0] = d /\ \A i \in 1..n : after[i] = Step(after[i - 1], order[i], chosen)
  <2>1. after = [i \in 0..n |-> IF i = 0 THEN d ELSE Step(after[i - 1], order[i], chosen)]
    BY <1>3 DEF IsRun
  <2>2. 0 \in 0..n /\ \A i \in 1..n : i \in 0..n /\ i # 0
    BY <1>1
  <2> QED BY <2>1, <2>2
<1>6. Fine(d)
  BY FollowsAgain
<1>7. ASSUME NEW i \in 1..n, Fine(after[i - 1]) PROVE Fine(after[i])
  <2> DEFINE x == after[i - 1]
             b == order[i]
             e == after[i]
  <2>1. Sound(x) /\ Follows(d, x) /\ (Quiet(d) => x.s = d.s) /\ b \in All /\ e = Step(x, b, chosen)
    BY <1>1, <1>5, <1>7
  <2> HIDE DEF x, b, e
  <2>2. b \in x.full /\ x.w.algo[b] = Null => chosen[b] \in Acts \cup {NoAction}
    BY <2>1 DEF Follows
  <2>3. Sound(e) /\ Follows(x, e) /\ (Quiet(x) => e.s = x.s)
    BY <2>1, <2>2, StepKeeps
  <2>4. Quiet(d) => Quiet(x)
    BY <2>1 DEF Quiet, Sane, Follows
  <2>5. Fine(e)
    BY <2>1, <2>3, <2>4, FollowsAgain
  <2> QED BY <2>5 DEF e
<1>8. \A i \in 0..n : Fine(after[i])
  <2> DEFINE T == {i \in 0..n : ~Fine(after[i])}
  <2>1. SUFFICES ASSUME T # {} PROVE FALSE
    OBVIOUS
  <2>2. T \in SUBSET Nat
    BY <1>1
  <2>3. PICK m \in T : \A y \in T : m <= y
    <3> HIDE DEF T
    <3> QED BY <2>1, <2>2, LeastNumber
  <2>4. m \in 0..n /\ ~Fine(after[m])
    OBVIOUS
  <2> HIDE DEF Fine
  <2>5. m # 0
    BY <2>4, <1>5, <1>6
  <2>6. m \in 1..n /\ m - 1 \in 0..n /\ m - 1 \notin T
    BY <2>3, <2>4, <2>5, <1>1
  <2>7. Fine(after[m - 1])
    BY <2>6
  <2> QED BY <2>4, <2>6, <2>7, <1>7
<1>9. n \in 0..n
  BY <1>1
<1> HIDE DEF n
<1> QED BY <1>4, <1>8, <1>9

-----------------------------------------------------------------------------
(* The steps. First what holds of the variables before each.                *)

LEMMA Parts ==
  ASSUME AtbIInv
  PROVE  /\ w \in Fighters /\ IsInjective(w.party) /\ full \subseteq {b \in All : w.status[b] # "dead"}
         /\ active \in Actors \cup {"none"} /\ queue \in Seq(All) /\ s \in Scenes
         /\ IsInjective(queue) /\ \A b \in ToSet(queue) : w.algo[b] # Null /\ b \notin full
         /\ active \notin ToSet(queue)
         /\ s.state \in Menus => active # "none"
         /\ s.state = "enemytarget" => s.previous \in {"command", "skill"}
         /\ s.state = "allytarget" => s.previous = "item"
         /\ s.state = "battle" => s.previous \in {"actor", "auto", "command"}
BY DEF AtbIInv, Sound, Now

LEMMA StartsSound == ASSUME Init, AtbAssumption PROVE AtbIInv
<1>1. w \in Fighters /\ IsInjective(w.party) /\ w.party = FirstParty /\ w.hidden = {}
      /\ \A b \in All : w.status[b] = "fine"
  <2>1. "fine" \in Statuses /\ MaxSp \in 0..MaxSp /\ MaxItems \in 0..MaxItems
    BY DEF Statuses, AtbAssumption, BattlersAssumption
  <2>2. [b \in All |-> "fine"] \in [All -> Statuses] /\ [b \in All |-> MaxSp] \in [All -> 0..MaxSp]
        /\ [b \in All |-> Null] \in [All -> Algos]
    BY <2>1, Null0
  <2> QED BY <2>1, <2>2 DEF Init, Fighters, AtbAssumption
<1>2. full \subseteq {b \in All : w.status[b] # "dead"}
  <2>1. ToSet(FirstParty) \subseteq Actors
    BY Elements DEF AtbAssumption
  <2> QED BY <1>1, <2>1 DEF Init, All
<1>3. /\ active = "none" /\ queue \in Seq(All) /\ IsInjective(queue) /\ ToSet(queue) = {}
  BY DEF Init, IsInjective, ToSet
<1>4. s \in Scenes /\ s.state = "option" /\ s.sub = "begin"
  BY DEF Init, Scenes, States
<1>5. Sound(Now)
  BY <1>1, <1>2, <1>3, <1>4 DEF Sound, Now, Menus
<1>6. act \in Acting /\ act.at \in 0..Len(act.targets) /\ act.step = "none"
  BY Null0 DEF Init, NoAct, Acting
<1>7. page \in PageStates /\ page.left = 0 /\ ~page.flee
  BY DEF Init, PageStates, AtbAssumption
<1>8. Typed /\ InTurn /\ Settled
  BY <1>4, <1>6, <1>7 DEF Init, Typed, InTurn, UnderWay, Settled
<1>9. Begun /\ Sane(w) /\ Steady
  BY <1>1, <1>3, <1>6, <1>7 DEF Init, Begun, Sane, Steady, ActiveGone
<1> QED BY <1>5, <1>8, <1>9 DEF AtbIInv

\* Time passes.
LEMMA Waits ==
  ASSUME AtbIInv, UNCHANGED <<combat, s, act, page, ending, begun>>, phase' \in {"scene", "events"},
         phase' = "events" => ~ActiveGone \/ page.left > 0
  PROVE  AtbIInv'
<1>1. UNCHANGED <<w, full, active, queue, s, act, page, place, result, begun>>
  BY DEF combat, ending
<1>2. Sound(Now)' /\ Typed' /\ InTurn' /\ Settled'
  BY <1>1 DEF AtbIInv, Sound, Now, Typed, InTurn, UnderWay, Settled
<1>3. ASSUME Undisturbed PROVE Begun' /\ Sane(w)' /\ Steady'
  <2>1. Begun' /\ Sane(w)'
    BY <1>1, <1>3 DEF AtbIInv, Begun, Sane, UnderWay, Decided
  <2>2. Steady /\ page.left \in Int
    BY <1>3 DEF AtbIInv, Typed, PageStates
  <2>3. Steady'
    BY <1>1, <2>2 DEF Steady, ActiveGone, UnderWay, Decided
  <2> QED BY <2>1, <2>3
<1> QED BY <1>2, <1>3 DEF AtbIInv, Undisturbed

\* The menus go on while no action is executed.
LEMMA MenusGoOn ==
  ASSUME AtbIInv, AtbAssumption, Turn, ~Decided(s), ~UnderWay,
         UNCHANGED <<w, full, queue, act, page, ending, begun>>, phase' \in {"scene", "events"},
         s' \in Scenes, ~Decided(s'), s'.state = "battle" => s'.sub # "action",
         Undisturbed /\ s.state = "escape" /\ page.flee => s'.state = "escape" /\ s'.sub \in {"begin", "success"},
         active' \in Actors \cup {"none"}, active' \notin ToSet(queue),
         active' = "none" \/ Exists(w, active'),
         s'.state \in Menus => active' # "none",
         s'.state = "enemytarget" => s'.previous \in {"command", "skill"},
         s'.state = "allytarget" => s'.previous = "item",
         s'.state = "battle" => s'.previous \in {"actor", "auto", "command"}
  PROVE  AtbIInv'
<1>1. UNCHANGED <<w, full, queue, act, page, place, result, begun>> /\ place = "battle" /\ page.left = 0
  BY DEF ending, Turn
<1>2. Sound(Now)'
  BY <1>1, Parts DEF Sound, Now
<1>3. Typed' /\ ~UnderWay' /\ InTurn' /\ Settled'
  BY <1>1 DEF AtbIInv, Typed, InTurn, UnderWay, Settled, Decided
<1>4. ASSUME Undisturbed PROVE Begun' /\ Sane(w)' /\ Steady'
  <2>1. Begun /\ Sane(w) /\ Steady
    BY <1>4 DEF AtbIInv
  <2>2. page.flee => s.state = "escape" /\ s'.state = "escape" /\ s'.sub \in {"begin", "success"}
    BY <2>1, <1>1, <1>4 DEF Steady
  <2>3. Begun'
    BY <2>1, <1>1, <1>3 DEF Begun
  <2>4. ~ActiveGone'
    BY <1>1 DEF ActiveGone
  <2>5. Steady'
    BY <2>2, <2>4, <1>1 DEF Steady
  <2> QED BY <2>1, <2>3, <2>5, <1>1 DEF Sane
<1> QED BY <1>2, <1>3, <1>4 DEF AtbIInv, Undisturbed

-----------------------------------------------------------------------------
(* The frame.                                                               *)

LEMMA EventsKeep == ASSUME AtbIInv, AtbAssumption, Events PROVE AtbIInv'
<1>1. place = "battle" /\ phase = "events" /\ ~Decided(s) /\ UNCHANGED <<active, queue, act, begun>>
  BY DEF Events, history
<1>2. PICK c \in IF page.left > 0 THEN Commands \cup {"nothing"} ELSE {"nothing"}, out \in {FALSE, Timers} :
       LET flee == page.flee \/ c = "forceflee"
           fled == IF flee /\ s.state # "escape" THEN SetState(s, "escape") ELSE s
       IN /\ w' \in Ran(w, c)
          /\ full' = GaugesOfTheLiving(full, w')
          /\ page' = [page EXCEPT !.left = IF @ > 0 THEN @ - 1 ELSE 0, !.flee = flee]
          /\ IF c = "terminate" \/ out
             THEN EndBattle("abort") /\ s' = fled /\ UNCHANGED phase
             ELSE s' = Ended(fled, w') /\ phase' = "gauges" /\ UNCHANGED ending
  BY DEF Events
<1> DEFINE flee == page.flee \/ c = "forceflee"
           fled == IF flee /\ s.state # "escape" THEN SetState(s, "escape") ELSE s
<1>3. w \in Fighters /\ IsInjective(w.party) /\ s \in Scenes /\ BattlersAssumption
  BY Parts DEF AtbAssumption
<1>4. /\ w' \in Fighters /\ IsInjective(w'.party)
      /\ \A b \in All : w.algo[b] # Null => w'.algo[b] # Null
      /\ \A x \in All : w'.status[x] \in {w.status[x], "dead", "fine"} \cup Inflicted
      /\ c \notin {"kill", "remove"} => \A a \in Actors : Exists(w, a) => Exists(w', a)
      /\ c = "nothing" => w' = w
  <2>1. w' \in Ran(w, c)
    BY <1>2
  <2>2. c = "nothing" => w' = w
    BY <2>1 DEF Ran
  <2> QED BY <2>1, <2>2, <1>3, PagesKeep, PagesLeave
<1>5. /\ fled \in Scenes /\ ~Decided(fled)
      /\ fled = s \/ (fled.state = "escape" /\ fled.sub = "begin" /\ flee)
      /\ flee => fled.state = "escape"
  <2>1. "escape" \in States
    BY DEF States
  <2>2. SetState(s, "escape") \in Scenes /\ SetState(s, "escape").state = "escape" /\ SetState(s, "escape").sub = "begin"
    BY <2>1, <1>3, SetStates
  <2> HIDE DEF flee
  <2>3. CASE flee /\ s.state # "escape"
    <3>1. fled = SetState(s, "escape")
      BY <2>3
    <3> QED BY <2>2, <2>3, <3>1 DEF Decided
  <2>4. CASE ~(flee /\ s.state # "escape")
    <3>1. fled = s
      BY <2>4
    <3> QED BY <2>4, <3>1, <1>1, <1>3
  <2> QED BY <2>3, <2>4
<1>6. /\ page.left \in 0..PageLength /\ page.flee \in BOOLEAN /\ page \in PageStates /\ PageLength \in Nat
      /\ page' \in PageStates /\ page'.flee = flee
      /\ page'.left = IF page.left > 0 THEN page.left - 1 ELSE 0
  <2>1. page \in PageStates /\ PageLength \in Nat
    BY DEF AtbIInv, Typed, AtbAssumption
  <2>2. flee \in BOOLEAN
    BY <2>1 DEF PageStates
  <2> DEFINE left == IF page.left > 0 THEN page.left - 1 ELSE 0
  <2>3. page' = [page EXCEPT !.left = left, !.flee = flee]
    BY <1>2
  <2>4. left \in 0..PageLength /\ page.left \in 0..PageLength /\ page.flee \in BOOLEAN
    BY <2>1 DEF PageStates
  <2> HIDE DEF flee, left
  <2>5. page' \in PageStates /\ page'.flee = flee /\ page'.left = left
    BY <2>1, <2>2, <2>3, <2>4 DEF PageStates
  <2> QED BY <2>1, <2>4, <2>5 DEF left
<1>7. \/ /\ c = "terminate" \/ out
         /\ place' = "left" /\ result' = "abort" /\ s' = fled /\ phase' = "events"
      \/ s' = Ended(fled, w') /\ phase' = "gauges" /\ UNCHANGED <<place, result>>
  BY <1>1, <1>2 DEF EndBattle, ending
<1> HIDE DEF fled
<1>8. /\ s' \in Scenes
      /\ \/ s' = fled /\ (place' = "left" \/ ~IsOver(w'))
         \/ s'.state = "defeat" /\ CheckLose(w')
         \/ s'.state = "victory" /\ CheckWin(w') /\ ~CheckLose(w')
      /\ place' \in {"battle", "left"} /\ phase' \in {"events", "gauges"}
      /\ place' = "battle" => phase' = "gauges"
      /\ result' \in {result, "abort"}
  BY <1>1, <1>5, <1>7, Ends
<1>9. \/ s' = s
      \/ s'.state = "escape" /\ s'.sub = "begin" /\ page'.flee
      \/ Decided(s')
  BY <1>5, <1>6, <1>8 DEF Decided
<1>10. full' = GaugesOfTheLiving(full, w')
  BY <1>2
<1>11. full' \subseteq {b \in All : w'.status[b] # "dead"} /\ full' \subseteq full
  BY <1>10, Parts DEF GaugesOfTheLiving
<1>12. Sound(Now)'
  <2>1. \A b \in ToSet(queue) : w'.algo[b] # Null /\ b \notin full'
    BY <1>4, <1>11, Parts, Elements
  <2>2. /\ s'.state \in Menus => active # "none"
        /\ s'.state = "enemytarget" => s'.previous \in {"command", "skill"}
        /\ s'.state = "allytarget" => s'.previous = "item"
        /\ s'.state = "battle" => s'.previous \in {"actor", "auto", "command"}
    <3>1. CASE s' = s
      BY <3>1, Parts
    <3>2. CASE s'.state = "escape" \/ Decided(s')
      BY <3>2 DEF Decided, Menus
    <3> QED BY <3>1, <3>2, <1>9
  <2>3. UNCHANGED <<active, queue>>
    BY <1>1
  <2> QED BY <2>1, <2>2, <2>3, <1>4, <1>8, <1>11, Parts DEF Sound, Now
<1>13. Typed' /\ InTurn' /\ Settled'
  <2>1. Typed'
    BY <1>1, <1>6, <1>8 DEF AtbIInv, Typed
  <2>2. InTurn'
    BY <1>1, <1>9 DEF AtbIInv, InTurn, UnderWay, Decided
  <2>3. Settled'
    <3>1. result' \notin {"victory", "defeat"}
      BY <1>1, <1>8 DEF AtbIInv, Settled
    <3> QED BY <3>1, <1>5, <1>8 DEF Settled, Decided
  <2> QED BY <2>1, <2>2, <2>3
<1>14. ASSUME Undisturbed PROVE Begun' /\ Sane(w)' /\ Steady'
  <2>1. Begun /\ Sane(w) /\ Steady
    BY <1>14 DEF AtbIInv
  <2>2. Sane(w)'
    BY <2>1, <1>4, <1>14 DEF Sane, Undisturbed
  <2>3. Begun'
    <3>1. CASE UnderWay /\ act.step \in Late
      BY <3>1, <2>1, <1>1, <1>9 DEF Begun, UnderWay
    <3>2. CASE page.left = 0 /\ IsOver(w)
      <4>1. w' = w /\ page'.left = 0
        BY <3>2, <1>2, <1>4, <1>6
      <4> QED BY <4>1, <3>2, <2>1, <1>1 DEF Begun, UnderWay
    <3>3. CASE page.flee
      BY <3>3, <2>1, <1>1, <1>6 DEF Begun
    <3>4. CASE begun = {}
      BY <3>4, <1>1 DEF Begun
    <3> QED BY <3>1, <3>2, <3>3, <3>4, <2>1, <1>1 DEF Begun
  <2>4. Steady'
    <3> SUFFICES ASSUME place' = "battle" PROVE Steady'
      BY DEF Steady
    <3>1. page'.flee => Decided(s') \/ (s'.state = "escape" /\ s'.sub \in {"begin", "success"})
      <4> SUFFICES ASSUME page'.flee, ~Decided(s') PROVE s'.state = "escape" /\ s'.sub \in {"begin", "success"}
        OBVIOUS
      <4>1. s' = fled /\ fled.state = "escape"
        BY <1>5, <1>6, <1>8 DEF Decided
      <4>2. CASE fled = s
        <5>1. s.state = "escape"
          BY <4>1, <4>2
        <5>2. c = "forceflee" => page.left > 0
          BY <1>2
        <5>3. page.flee
          BY <5>1, <5>2, <2>1, <1>1, <1>6 DEF Steady, UnderWay
        <5> QED BY <5>3, <4>1, <4>2, <2>1, <1>1 DEF Steady
      <4>3. CASE fled # s
        BY <4>1, <4>3, <1>5
      <4> QED BY <4>2, <4>3
    <3>2. ASSUME ActiveGone'
          PROVE  /\ page'.left = 0 /\ ~page'.flee /\ PageLength <= 1
      <4>1. active # "none" /\ ~Exists(w', active) /\ active \in Actors
        BY <3>2, <1>1, Parts DEF ActiveGone
      <4>2. Exists(w, active)
        BY <4>1, <2>1, <1>1 DEF Steady, ActiveGone
      <4>3. c \in {"kill", "remove"}
        BY <4>1, <4>2, <1>4
      <4>4. page.left > 0 /\ c \in Commands
        BY <4>3, <1>2
      <4>5. PageLength <= 1
        BY <4>3, <4>4, <1>14 DEF Undisturbed
      <4>6. page.left = 1
        BY <4>4, <4>5, <1>6
      <4>7. ~page.flee
        BY <4>4, <4>5, <2>1, <1>1 DEF Steady
      <4> QED BY <4>3, <4>5, <4>6, <4>7, <1>6
    <3>3. page'.left > 0 => page.left > 0 /\ ~(PageLength <= 1)
      BY <1>6
    <3>4. page.left > 0 => UnderWay \/ page.flee
      BY <2>1, <1>1 DEF Steady
    <3>5. page'.left > 0 => UnderWay' \/ Decided(s') \/ page'.flee
      BY <3>3, <3>4, <1>6, <1>9 DEF UnderWay
    <3> QED BY <3>1, <3>2, <3>3, <3>5, <1>8 DEF Steady
  <2> QED BY <2>2, <2>3, <2>4
<1> QED BY <1>12, <1>13, <1>14 DEF AtbIInv, Undisturbed

LEMMA GaugesKeep == ASSUME AtbIInv, AtbAssumption, Gauges PROVE AtbIInv'
<1>1. place = "battle" /\ phase = "gauges" /\ phase' = "scene" /\ UNCHANGED <<act, page, place, result, begun>>
  BY DEF Gauges, ending, history
<1>2. CASE page.left > 0
  <2>1. UNCHANGED <<combat, s, act, page, ending, begun>>
    BY <1>1, <1>2 DEF Gauges, ending
  <2> QED BY <2>1, <1>1, Waits
<1>3. CASE ~(page.left > 0)
  <2>1. PICK gained \in SUBSET Gaining :
            LET later == [Now EXCEPT !.full = @ \cup gained]
                open == {b \in later.full : w.algo[b] = Null}
                Kinds(b) == IF b \in Enemies THEN EnemyKinds ELSE {"attack", "skill"}
                May(b) == AiActions(w, b, Kinds(b))
            IN \E chosen \in {f \in [open -> UNION {May(b) : b \in open}] : \A b \in open : f[b] \in May(b)} :
               Becomes(CreateActions(later, chosen))
    BY <1>3 DEF Gauges
  <2> DEFINE later == [Now EXCEPT !.full = Now.full \cup gained]
             open == {b \in later.full : w.algo[b] = Null}
             Kinds(b) == IF b \in Enemies THEN EnemyKinds ELSE {"attack", "skill"}
             May(b) == AiActions(w, b, Kinds(b))
  <2>2. PICK chosen \in {f \in [open -> UNION {May(b) : b \in open}] : \A b \in open : f[b] \in May(b)} :
             Becomes(CreateActions(later, chosen))
    BY <2>1
  <2>3. /\ later.w = w /\ later.full = full \cup gained /\ later.active = active
        /\ later.queue = queue /\ later.s = s
    BY DEF Now
  <2> HIDE DEF later
  <2>4. full \cup gained \subseteq {b \in All : w.status[b] # "dead"}
        /\ \A b \in ToSet(queue) : w.algo[b] # Null /\ b \notin full \cup gained
    <3>1. \A b \in gained : b \in All /\ w.status[b] # "dead" /\ w.algo[b] = Null
      BY DEF Gaining, Exists
    <3> QED BY <3>1, Parts
  <2>5. Sound(later)
    BY <2>3, <2>4, Parts DEF Sound
  <2>6. \A b \in later.full : later.w.algo[b] = Null => chosen[b] \in Acts \cup {NoAction}
    <3> SUFFICES ASSUME NEW b \in open PROVE chosen[b] \in Acts \cup {NoAction}
      BY <2>3
    <3>1. b \in All
      BY <2>3, <2>4
    <3>2. chosen[b] \in May(b)
      BY <2>2
    <3>3. w \in Fighters /\ BattlersAssumption
      BY Parts DEF AtbAssumption
    <3>4. AiActions(w, b, Kinds(b)) \subseteq Acts \cup {NoAction}
      BY <3>1, <3>3, AiChoices
    <3> QED BY <3>2, <3>4
  <2> DEFINE e == CreateActions(later, chosen)
  <2>7. w' = e.w /\ full' = e.full /\ active' = e.active /\ queue' = e.queue /\ s' = e.s
    BY <2>2 DEF Becomes
  <2>8. Sound(e) /\ Follows(later, e) /\ (Quiet(later) => e.s = later.s)
    BY <2>5, <2>6, CreateActionsKeeps
  <2> HIDE DEF e
  <2>9. Sound(Now)'
    BY <2>7, <2>8 DEF Sound, Now
  <2>10. /\ w'.status = w.status /\ w'.hidden = w.hidden /\ w'.party = w.party
         /\ queue # <<>> => queue' # <<>> /\ Head(queue') = Head(queue)
         /\ s' = s \/ s'.state \in {"actor", "auto"}
         /\ active' \in {active, "none"} \/ Exists(w, active')
    BY <2>3, <2>7, <2>8 DEF Follows
  <2>11. /\ CheckLose(w') <=> CheckLose(w)
         /\ CheckWin(w') <=> CheckWin(w)
         /\ \A b : Exists(w', b) <=> Exists(w, b)
    BY <2>10, SameStanding
  <2>12. Typed' /\ InTurn' /\ Settled'
    <3>1. Typed'
      BY <1>1 DEF AtbIInv, Typed
    <3>2. InTurn'
      BY <1>1, <2>10 DEF AtbIInv, InTurn, UnderWay
    <3>3. Settled'
      BY <1>1, <2>10, <2>11 DEF AtbIInv, Settled
    <3> QED BY <3>1, <3>2, <3>3
  <2>13. ASSUME Undisturbed PROVE Begun' /\ Sane(w)' /\ Steady'
    <3>1. Begun /\ Sane(w) /\ Steady /\ page.left \in Nat
      BY <2>13 DEF AtbIInv, Typed, PageStates
    <3>2. s' = s \/ (s.state \in {"actor", "auto"} /\ s'.state \in {"actor", "auto"})
      BY <3>1, <2>3, <2>7, <2>8, <2>10 DEF Quiet
    <3>3. Begun'
      BY <3>1, <3>2, <1>1, <2>10, <2>11 DEF Begun, UnderWay, IsOver, Decided
    <3>4. page.left = 0
      BY <3>1, <1>3
    <3>5. ActiveGone' => ActiveGone
      BY <2>10, <2>11 DEF ActiveGone
    <3>6. Steady'
      BY <3>1, <3>2, <3>4, <3>5, <1>1 DEF Steady, Decided
    <3>7. Sane(w)'
      BY <3>1, <2>10 DEF Sane
    <3> QED BY <3>3, <3>6, <3>7
  <2> QED BY <2>9, <2>12, <2>13 DEF AtbIInv, Undisturbed
<1> QED BY <1>2, <1>3

LEMMA CancelMenusKeeps == ASSUME AtbIInv, AtbAssumption, CancelMenus PROVE AtbIInv'
<1>1. /\ place = "battle" /\ phase = "scene" /\ ActiveGone /\ active' = "none"
      /\ s' = IF s.state = "battle" THEN s ELSE ReturnToMain(s)
      /\ UNCHANGED <<w, full, queue, act, page, phase, place, result, begun>>
  BY DEF CancelMenus, Turn, ending, history
<1>2. /\ s' \in Scenes
      /\ \/ s' = s /\ s.state = "battle"
         \/ s.state # "battle" /\ s'.state \in {"actor", "auto"}
  BY <1>1, Parts, Main
<1>3. "none" \notin ToSet(queue)
  <2>1. "none" \notin All /\ ToSet(queue) \subseteq All
    BY Parts, Elements DEF AtbAssumption
  <2> QED BY <2>1
<1>4. Sound(Now)'
  BY <1>1, <1>2, <1>3, Parts DEF Sound, Now, Menus
<1>5. Typed' /\ InTurn' /\ Settled'
  <2>1. Typed' /\ InTurn'
    BY <1>1, <1>2 DEF AtbIInv, Typed, InTurn, UnderWay
  <2>2. Settled'
    BY <1>1, <1>2 DEF AtbIInv, Settled
  <2> QED BY <2>1, <2>2
<1>6. ASSUME Undisturbed PROVE Begun' /\ Sane(w)' /\ Steady'
  <2>1. Begun /\ Sane(w) /\ Steady /\ Settled
    BY <1>6 DEF AtbIInv
  <2>2. page.left = 0 /\ ~page.flee
    BY <2>1, <1>1 DEF Steady
  <2>3. Decided(s) => IsOver(w)
    BY <2>1 DEF Settled, Decided, IsOver
  <2>4. Begun'
    BY <2>1, <2>2, <2>3, <1>1, <1>2 DEF Begun, UnderWay
  <2>5. Steady'
    BY <2>2, <1>1 DEF Steady, ActiveGone
  <2> QED BY <2>1, <2>4, <2>5, <1>1 DEF Sane
<1> QED BY <1>4, <1>5, <1>6 DEF AtbIInv, Undisturbed

LEMMA FrameKeeps == ASSUME AtbIInv, AtbAssumption, Frame PROVE AtbIInv'
<1>1. CASE Skip
  <2>1. UNCHANGED <<combat, s, act, page, ending, begun>> /\ phase' = "scene"
    BY <1>1 DEF Skip, history
  <2> QED BY <2>1, Waits
<1>2. CASE Blocked
  <2>1. UNCHANGED <<combat, s, act, page, ending, begun>> /\ phase' = "events" /\ page.left > 0
    BY <1>2 DEF Blocked, history, WaitFrame
  <2> QED BY <2>1, Waits
<1> QED BY <1>1, <1>2, EventsKeep, GaugesKeep, CancelMenusKeeps DEF Frame

-----------------------------------------------------------------------------
(* The menus.                                                               *)

\* Who is chosen for has a full gauge, so that no action of his waits.
LEMMA Choosable ==
  ASSUME AtbIInv, AtbAssumption,
         NEW a \in {"none", FirstReady(w, full)} \cup {b \in ToSet(w.party) : Ready(w, full, b)}
  PROVE  a \in Actors \cup {"none"} /\ a \notin ToSet(queue) /\ (a = "none" \/ Exists(w, a))
<1>1. "none" \notin ToSet(queue)
  <2>1. "none" \notin All /\ ToSet(queue) \subseteq All
    BY Parts, Elements DEF AtbAssumption
  <2> QED BY <2>1
<1>2. a = "none" \/ (a \in full /\ Exists(w, a) /\ a \in Actors)
  <2>1. w \in Fighters /\ ToSet(w.party) \subseteq Actors
    BY Parts, Elements, FighterFields
  <2>2. CASE a \in {"none", FirstReady(w, full)}
    BY <2>1, <2>2, ReadyOnes
  <2>3. CASE a \in {b \in ToSet(w.party) : Ready(w, full, b)}
    BY <2>1, <2>3 DEF Ready
  <2> QED BY <2>2, <2>3
<1> QED BY <1>1, <1>2, Parts

LEMMA AtFacts ==
  ASSUME NEW state, At(state), AtbIInv
  PROVE  /\ Turn /\ s.state = state /\ place = "battle" /\ phase = "scene"
         /\ active = "none" \/ Exists(w, active)
         /\ ~ActiveGone
BY DEF At, Turn, ActiveGone

LEMMA OptionKeeps == ASSUME AtbIInv, AtbAssumption, Option PROVE AtbIInv'
<1>1. /\ At("option") /\ active' = "none" /\ phase' = "events"
      /\ UNCHANGED <<w, full, queue, act, page, ending, begun>>
      /\ \/ s' = [s EXCEPT !.sub = "input"]
         \/ s' = SetState(s, "actor")
         \/ s' = SetState(s, "auto")
         \/ s' = SetState(s, "escape")
  BY DEF Option, WaitFrame, history
<1>2. Turn /\ s.state = "option" /\ s \in Scenes
  BY <1>1, AtFacts, Parts
<1>3. s' \in Scenes /\ s'.state \in {"option", "actor", "auto", "escape"}
  <2>1. \A new \in {"actor", "auto", "escape"} : SetState(s, new) \in Scenes /\ SetState(s, new).state = new
    BY <1>2, SetStates DEF States
  <2>2. CASE s' = [s EXCEPT !.sub = "input"]
    BY <2>2, <1>2 DEF Scenes
  <2> QED BY <2>1, <2>2, <1>1
<1>4. active' \in Actors \cup {"none"} /\ active' \notin ToSet(queue)
  BY <1>1, Choosable
<1>5. ~Decided(s) /\ ~UnderWay /\ ~Decided(s')
  BY <1>2, <1>3 DEF Decided, UnderWay
<1>6. s'.state \notin Menus
  BY <1>3 DEF Menus
<1> QED BY <1>1, <1>2, <1>3, <1>4, <1>5, <1>6, MenusGoOn

LEMMA ToBattleKeeps == ASSUME AtbIInv, AtbAssumption, ToBattle PROVE AtbIInv'
<1>1. /\ s' = SetState(s, "battle") /\ phase' = "scene"
      /\ UNCHANGED <<w, full, queue, act, page, ending, begun>>
      /\ \/ At("actor") /\ active' \in {FirstReady(w, full)} \cup {a \in ToSet(w.party) : Ready(w, full, a)}
         \/ At("auto") /\ active' = "none"
         \/ At("command") /\ active' = active
  BY DEF ToBattle, Continue, history
<1>2. Turn /\ s.state \in {"actor", "auto", "command"} /\ s \in Scenes /\ (active = "none" \/ Exists(w, active))
  BY <1>1, AtFacts, Parts
<1>3. s' \in Scenes /\ s'.state = "battle" /\ s'.previous = s.state /\ s'.sub = "begin"
  BY <1>1, <1>2, SetStates DEF States
<1>4. active' \in Actors \cup {"none"} /\ active' \notin ToSet(queue) /\ (active' = "none" \/ Exists(w, active'))
  <2>1. CASE active' = active
    BY <2>1, <1>2, Parts
  <2>2. CASE active' \in {"none", FirstReady(w, full)} \cup {b \in ToSet(w.party) : Ready(w, full, b)}
    BY <2>2, Choosable
  <2> QED BY <2>1, <2>2, <1>1
<1>5. ~Decided(s) /\ ~UnderWay /\ ~Decided(s')
  BY <1>2, <1>3 DEF Decided, UnderWay
<1>6. s'.state \notin Menus
  BY <1>3 DEF Menus
<1> QED BY <1>1, <1>2, <1>3, <1>4, <1>5, <1>6, MenusGoOn

LEMMA SelectActorKeeps == ASSUME AtbIInv, AtbAssumption, SelectActor PROVE AtbIInv'
<1>1. /\ At("actor") /\ phase' = "events"
      /\ UNCHANGED <<w, full, queue, act, page, ending, begun>>
      /\ \/ /\ active' \in {FirstReady(w, full)} \cup {a \in ToSet(w.party) : Ready(w, full, a)}
            /\ s' = s \/ (active' # "none" /\ s' = SetState(s, "command"))
         \/ active' = "none" /\ s' = SetState(s, "option")
  BY DEF SelectActor, WaitFrame, history
<1>2. Turn /\ s.state = "actor" /\ s \in Scenes
  BY <1>1, AtFacts, Parts
<1>3. /\ s' \in Scenes /\ s'.state \in {"actor", "command", "option"}
      /\ s'.state = "command" => active' # "none"
  <2>1. \A new \in {"command", "option"} : SetState(s, new) \in Scenes /\ SetState(s, new).state = new
    BY <1>2, SetStates DEF States, Menus
  <2> QED BY <2>1, <1>1, <1>2
<1>4. active' \in Actors \cup {"none"} /\ active' \notin ToSet(queue) /\ (active' = "none" \/ Exists(w, active'))
  BY <1>1, Choosable
<1>5. ~Decided(s) /\ ~UnderWay /\ ~Decided(s')
  BY <1>2, <1>3 DEF Decided, UnderWay
<1>6. s'.state \in Menus => s'.state = "command"
  BY <1>3 DEF Menus
<1> QED BY <1>1, <1>2, <1>3, <1>4, <1>5, <1>6, MenusGoOn

LEMMA AutoBattleKeeps == ASSUME AtbIInv, AtbAssumption, AutoBattle PROVE AtbIInv'
<1>1. /\ At("auto") /\ active' = "none" /\ phase' = "events"
      /\ UNCHANGED <<w, full, queue, act, page, ending, begun>>
      /\ s' = [s EXCEPT !.sub = "input"] \/ s' = SetState(s, "option")
  BY DEF AutoBattle, WaitFrame, history
<1>2. Turn /\ s.state = "auto" /\ s \in Scenes
  BY <1>1, AtFacts, Parts
<1>3. s' \in Scenes /\ s'.state \in {"auto", "option"}
  <2>1. SetState(s, "option") \in Scenes /\ SetState(s, "option").state = "option"
    BY <1>2, SetStates DEF States
  <2>2. CASE s' = [s EXCEPT !.sub = "input"]
    BY <2>2, <1>2 DEF Scenes
  <2> QED BY <2>1, <2>2, <1>1
<1>4. active' \in Actors \cup {"none"} /\ active' \notin ToSet(queue)
  BY <1>1, Choosable
<1>5. ~Decided(s) /\ ~UnderWay /\ ~Decided(s') /\ s'.state \notin Menus
  BY <1>2, <1>3 DEF Decided, UnderWay, Menus
<1> QED BY <1>1, <1>2, <1>3, <1>4, <1>5, MenusGoOn

LEMMA BrowseKeeps == ASSUME AtbIInv, AtbAssumption, Browse PROVE AtbIInv'
<1>1. UNCHANGED <<w, full, active, queue, act, page, ending, begun>>
  BY DEF Browse, combat, history
<1>2. \/ /\ InMenu("command")
         /\ \E new \in {"skill", "item", "option", "enemytarget"} : s' = SetState(s, new)
      \/ InMenu("skill") /\ s' = SetState(s, "enemytarget")
      \/ InMenu("item") /\ s' = SetState(s, "allytarget")
      \/ (InMenu("skill") \/ InMenu("item")) /\ s' = SetState(s, "command")
      \/ (InMenu("enemytarget") \/ InMenu("allytarget")) /\ s' = SetState(s, s.previous)
      \/ (\E state \in Menus : InMenu(state)) /\ UNCHANGED s
  BY DEF Browse
<1>3. \A state : InMenu(state) => At(state) /\ phase' = "events"
  BY DEF InMenu, WaitFrame
<1>4. /\ Turn /\ s.state \in Menus /\ phase' = "events"
      /\ \/ s.state = "command" /\ \E new \in {"skill", "item", "option", "enemytarget"} : s' = SetState(s, new)
         \/ s.state = "skill" /\ s' = SetState(s, "enemytarget")
         \/ s.state = "item" /\ s' = SetState(s, "allytarget")
         \/ s' = SetState(s, "command")
         \/ s.state \in {"enemytarget", "allytarget"} /\ s' = SetState(s, s.previous)
         \/ s' = s
      /\ active = "none" \/ Exists(w, active)
  BY <1>2, <1>3, AtFacts DEF Menus
<1>5. /\ s \in Scenes /\ active # "none" /\ active \in Actors /\ active \notin ToSet(queue) /\ Exists(w, active)
      /\ s.state = "enemytarget" => s.previous \in {"command", "skill"}
      /\ s.state = "allytarget" => s.previous = "item"
  BY <1>4, Parts
<1>6. \A new \in Menus \cup {"option"} :
         SetState(s, new) \in Scenes /\ SetState(s, new).state = new /\ SetState(s, new).previous = s.state
  BY <1>5, SetStates DEF States
<1>7. /\ s' \in Scenes /\ s'.state \in Menus \cup {"option"}
      /\ s'.state = "enemytarget" => s'.previous \in {"command", "skill"}
      /\ s'.state = "allytarget" => s'.previous = "item"
  <2>1. CASE s' = s
    BY <2>1, <1>4, <1>5
  <2>2. CASE \E new \in {"skill", "item", "option", "command"} : s' = SetState(s, new)
    BY <2>2, <1>6 DEF Menus
  <2>3. CASE s.state \in {"command", "skill"} /\ s' = SetState(s, "enemytarget")
    BY <2>3, <1>6 DEF Menus
  <2>4. CASE s.state = "item" /\ s' = SetState(s, "allytarget")
    BY <2>4, <1>6 DEF Menus
  <2> QED BY <2>1, <2>2, <2>3, <2>4, <1>4, <1>5
<1>8. ~Decided(s) /\ ~UnderWay /\ ~Decided(s') /\ s'.state # "battle" /\ s.state # "escape"
  BY <1>4, <1>7 DEF Decided, UnderWay, Menus
<1> QED BY <1>1, <1>4, <1>5, <1>7, <1>8, MenusGoOn

LEMMA SelectKeeps == ASSUME AtbIInv, AtbAssumption, Select PROVE AtbIInv'
<1>1. PICK algo \in [type : {"attack", "skill", "item", "defend", "escape"} \cap ActorKinds, target : All] :
         /\ \/ InMenu("command") \/ InMenu("enemytarget") \/ InMenu("allytarget")
         /\ Becomes(ActionSelected(Now, active, algo))
  BY DEF Select
<1>2. UNCHANGED <<act, page, place, result, begun>>
  BY DEF Select, ending, history
<1>3. /\ Turn /\ place = "battle" /\ s.state \in Menus /\ phase' = "events" /\ ~ActiveGone
  BY <1>1, AtFacts DEF InMenu, WaitFrame, Menus
<1>4. active \in Actors /\ active \in All /\ active \notin ToSet(queue) /\ Exists(w, active)
  BY <1>3, Parts DEF All, ActiveGone
<1>5. algo \in Acts \cup {NoAction}
  BY DEF Acts
<1> DEFINE e == ActionSelected(Now, active, algo)
<1>6. /\ Now.w = w /\ Now.queue = queue /\ Now.active = active /\ Sound(Now)
  BY DEF Now, AtbIInv
<1>7. Sound(e) /\ Follows(Now, e) /\ e.s.state \in {"actor", "auto"} /\ e.s.sub = "begin"
  BY <1>4, <1>5, <1>6, Selected
<1>8. w' = e.w /\ full' = e.full /\ active' = e.active /\ queue' = e.queue /\ s' = e.s
  BY <1>1 DEF Becomes
<1> HIDE DEF e
<1>9. Sound(Now)'
  BY <1>7, <1>8 DEF Sound, Now
<1>10. /\ w'.status = w.status /\ w'.hidden = w.hidden /\ w'.party = w.party
       /\ queue # <<>> => queue' # <<>> /\ Head(queue') = Head(queue)
       /\ s'.state \in {"actor", "auto"}
       /\ active' \in {active, "none"} \/ Exists(w, active')
  BY <1>6, <1>7, <1>8 DEF Follows
<1>11. /\ CheckLose(w') <=> CheckLose(w)
       /\ CheckWin(w') <=> CheckWin(w)
       /\ \A b : Exists(w', b) <=> Exists(w, b)
  BY <1>10, SameStanding
<1>12. Typed' /\ InTurn' /\ Settled'
  BY <1>2, <1>3, <1>10 DEF AtbIInv, Typed, InTurn, UnderWay, Settled
<1>13. ASSUME Undisturbed PROVE Begun' /\ Sane(w)' /\ Steady'
  <2>1. Begun /\ Sane(w) /\ Steady
    BY <1>13 DEF AtbIInv
  <2>2. ~Decided(s) /\ ~UnderWay /\ s.state # "escape"
    BY <1>3 DEF Decided, UnderWay, Menus
  <2>3. page.left = 0 /\ ~page.flee
    BY <2>1, <2>2, <1>3 DEF Turn, Steady
  <2>4. Begun'
    BY <2>1, <2>2, <2>3, <1>2, <1>10, <1>11 DEF Begun, IsOver
  <2>5. ~ActiveGone'
    BY <1>4, <1>10, <1>11 DEF ActiveGone
  <2>6. Steady'
    BY <2>3, <2>5, <1>2 DEF Steady
  <2>7. Sane(w)'
    BY <2>1, <1>10 DEF Sane
  <2> QED BY <2>4, <2>6, <2>7
<1> QED BY <1>9, <1>12, <1>13 DEF AtbIInv, Undisturbed

-----------------------------------------------------------------------------
(* Actions are executed.                                                    *)

\* During an action.
LEMMA InActionFacts ==
  ASSUME NEW step, InAction(step), AtbIInv
  PROVE  /\ Turn /\ s.state = "battle" /\ s.sub = "action" /\ place = "battle" /\ phase = "scene"
         /\ active = "none" \/ Exists(w, active)
         /\ UnderWay /\ act.step = step /\ page.left = 0
         /\ queue # <<>> /\ act.src = Head(queue)
         /\ Undisturbed => ~page.flee
<1>1. /\ Turn /\ s.state = "battle" /\ place = "battle" /\ phase = "scene"
      /\ active = "none" \/ Exists(w, active)
  BY AtFacts DEF InAction
<1>2. UnderWay /\ act.step = step /\ page.left = 0
  BY <1>1 DEF InAction, UnderWay, Turn, Decided
<1>3. queue # <<>> /\ act.src = Head(queue)
  BY <1>2 DEF AtbIInv, InTurn
<1>4. Undisturbed => ~page.flee
  BY <1>1 DEF AtbIInv, Steady, Decided
<1> QED BY <1>1, <1>2, <1>3, <1>4 DEF UnderWay

\* The action at the front of the queue goes on, or a new one begins.
LEMMA ActionsGoOn ==
  ASSUME AtbIInv, AtbAssumption, Turn, s.state = "battle", queue # <<>>,
         active = "none" \/ Exists(w, active), UNCHANGED <<active, queue, place, result>>,
         w' \in Fighters, w'.party = w.party, full' \subseteq full,
         full' \subseteq {b \in All : w'.status[b] # "dead"},
         \A b \in All : w.algo[b] # Null => w'.algo[b] # Null,
         \A b \in All : w'.status[b] \in {w.status[b], "dead", "fine"} \cup Inflicted,
         s' \in Scenes, s'.state = "battle", s'.sub = "action", s'.previous = s.previous,
         act' \in Acting, act'.at \in 0..Len(act'.targets),
         act'.src = Head(queue), act'.algo # Null, act'.step # "none",
         act'.step = "execute" => act'.algo \in Acts,
         page' \in PageStates, page'.flee = page.flee, phase' \in {"scene", "events"},
         \/ page'.left = 0
         \/ active = "none" \/ Exists(w', active),
         phase' = "events" => active = "none" \/ Exists(w', active),
         Undisturbed => /\ \/ begun' = {}
                           \/ /\ begun' = {Head(queue)}
                              /\ act'.step \in Late \/ (page'.left = 0 /\ IsOver(w'))
                        /\ act'.step = "conditions" => begun' = {}
  PROVE  AtbIInv'
<1>1. place = "battle" /\ page.left = 0
  BY DEF Turn, Decided
<1>2. Sound(Now)'
  <2>1. ToSet(queue) \subseteq All
    BY Parts, Elements
  <2> QED BY <2>1, Parts DEF Sound, Now, Menus
<1>3. Typed'
  BY <1>1 DEF Typed
<1>4. InTurn' /\ UnderWay'
  <2>1. Head(queue) \in All
    BY Parts, Tails
  <2> QED BY <2>1 DEF InTurn, UnderWay
<1>5. Settled'
  BY <1>1 DEF AtbIInv, Settled
<1>6. ASSUME Undisturbed PROVE Begun' /\ Sane(w)' /\ Steady'
  <2>1. Sane(w) /\ Steady
    BY <1>6 DEF AtbIInv
  <2>2. Sane(w)'
    BY <2>1, <1>6 DEF Sane, Undisturbed
  <2>3. Begun'
    BY <1>4, <1>6 DEF Begun
  <2>4. ~page.flee
    BY <2>1, <1>1 DEF Steady, Decided
  <2>5. ActiveGone' => page'.left = 0 /\ phase' # "events"
    BY DEF ActiveGone
  <2>6. Steady'
    BY <2>4, <2>5, <1>4 DEF Steady
  <2> QED BY <2>2, <2>3, <2>6
<1> QED BY <1>2, <1>3, <1>4, <1>5, <1>6 DEF AtbIInv, Undisturbed

\* It is over, or broken off.
LEMMA RemovedKeeps ==
  ASSUME AtbIInv, AtbAssumption, Turn, UnderWay, active = "none" \/ Exists(w, active),
         Removed, UNCHANGED <<full, active, page, place, result>>, phase' = "scene", s' \in Scenes,
         \/ s'.state = "battle" /\ s'.sub = "begin" /\ s'.previous = s.previous
         \/ s'.state = "escape"
         \/ s'.state = "victory" /\ CheckWin(w) /\ ~CheckLose(w)
         \/ s'.state = "defeat" /\ CheckLose(w)
  PROVE  AtbIInv'
<1>1. /\ w' = [w EXCEPT !.algo[Head(queue)] = Null]
      /\ queue' = Tail(queue) /\ act' = NoAct /\ begun' = begun \ {Head(queue)}
  BY DEF Removed
<1>2. place = "battle" /\ page.left = 0 /\ s.state = "battle" /\ queue # <<>>
  BY DEF Turn, UnderWay, Decided, AtbIInv, InTurn
<1>3. /\ queue' \in Seq(All) /\ Head(queue) \in All /\ ToSet(queue') \subseteq ToSet(queue)
      /\ IsInjective(queue') /\ Head(queue) \notin ToSet(queue') /\ ToSet(queue) \subseteq All
  BY <1>1, <1>2, Parts, Tails, Elements
<1>4. /\ w' \in Fighters /\ w'.algo = [w.algo EXCEPT ![Head(queue)] = Null]
      /\ w'.status = w.status /\ w'.hidden = w.hidden /\ w'.party = w.party
  BY <1>1, <1>3, Parts, Null0, NewAlgo
<1>5. /\ CheckLose(w') <=> CheckLose(w)
      /\ CheckWin(w') <=> CheckWin(w)
      /\ \A b : Exists(w', b) <=> Exists(w, b)
  BY <1>4, SameStanding
<1>6. Sound(Now)'
  <2>1. \A b \in ToSet(queue') : w'.algo[b] # Null /\ b \notin full'
    <3>1. w.algo \in [All -> Algos]
      BY Parts, FighterFields
    <3> QED BY <3>1, <1>3, <1>4, Parts
  <2>2. full' \subseteq {b \in All : w'.status[b] # "dead"} /\ IsInjective(w'.party)
    BY <1>4, Parts
  <2>3. /\ s'.state \notin Menus
        /\ s'.state = "battle" => s'.previous \in {"actor", "auto", "command"}
    BY <1>2, Parts DEF Menus
  <2>4. active' \notin ToSet(queue') /\ active' \in Actors \cup {"none"}
    BY <1>3, Parts
  <2> QED BY <2>1, <2>2, <2>3, <2>4, <1>3, <1>4 DEF Sound, Now, Menus
<1>7. act' \in Acting /\ act'.at \in 0..Len(act'.targets) /\ act'.step = "none"
  <2>1. <<>> \in Seq(All) /\ Len(<<>>) = 0
    OBVIOUS
  <2> QED BY <2>1, <1>1, Null0 DEF NoAct, Acting
<1>8. Typed' /\ ~UnderWay' /\ InTurn' /\ Settled'
  <2>1. Typed' /\ ~UnderWay' /\ InTurn'
    BY <1>2, <1>7 DEF AtbIInv, Typed, InTurn, UnderWay
  <2>2. Settled'
    BY <1>2, <1>5 DEF AtbIInv, Settled
  <2> QED BY <2>1, <2>2
<1>9. ASSUME Undisturbed PROVE Begun' /\ Sane(w)' /\ Steady'
  <2>1. Begun /\ Sane(w) /\ Steady
    BY <1>9 DEF AtbIInv
  <2>2. begun' = {}
    BY <2>1, <1>1 DEF Begun
  <2>3. Begun'
    BY <2>2 DEF Begun
  <2>4. ~page.flee
    BY <2>1, <1>2 DEF Steady, Decided
  <2>5. Steady'
    BY <2>4, <1>2, <1>5 DEF Steady, ActiveGone
  <2> QED BY <2>1, <2>3, <2>5, <1>4 DEF Sane
<1> QED BY <1>6, <1>8, <1>9 DEF AtbIInv, Undisturbed

\* A new algorithm changes nothing else.
LEMMA NewlyPrepared ==
  ASSUME AtbIInv, AtbAssumption, queue # <<>>, NEW algo \in Prepared(w, Head(queue))
  PROVE  LET u == [w EXCEPT !.algo[Head(queue)] = algo] IN
         /\ algo \in Acts \cup {NoAction} /\ algo \in Algos /\ algo # Null /\ Head(queue) \in All
         /\ u \in Fighters /\ u.party = w.party /\ u.status = w.status
         /\ \A b \in All : w.algo[b] # Null => u.algo[b] # Null
         /\ \A b : Exists(u, b) <=> Exists(w, b)
<1>1. Head(queue) \in All /\ w.algo[Head(queue)] # Null /\ w \in Fighters /\ BattlersAssumption
  BY Parts, Tails DEF AtbAssumption
<1>2. algo \in Acts \cup {NoAction}
  BY <1>1, PreparedOnes
<1>3. algo \in Algos /\ algo # Null
  BY <1>2, Null0 DEF Algos
<1> DEFINE u == [w EXCEPT !.algo[Head(queue)] = algo]
<1>4. /\ u \in Fighters /\ u.status = w.status /\ u.hidden = w.hidden /\ u.party = w.party
      /\ Evolves(w, u)
  BY <1>1, <1>3, NewAlgo
<1> HIDE DEF u
<1>5. \A b : Exists(u, b) <=> Exists(w, b)
  BY <1>4, SameStanding
<1> QED BY <1>1, <1>2, <1>3, <1>4, <1>5 DEF Evolves, u

LEMMA BeginActionKeeps == ASSUME AtbIInv, AtbAssumption, BeginAction PROVE AtbIInv'
<1>1. /\ At("battle") /\ s.sub = "begin" /\ queue # <<>>
      /\ s' = [s EXCEPT !.sub = "action"]
      /\ page' = [page EXCEPT !.executed = {}] /\ phase' = "scene"
      /\ UNCHANGED <<full, active, queue, place, result, begun>>
  BY DEF BeginAction, Continue, ending
<1>2. PICK algo \in Prepared(w, Head(queue)) :
        /\ w' = [w EXCEPT !.algo[Head(queue)] = algo]
        /\ act' = [NoAct EXCEPT !.src = Head(queue), !.algo = algo, !.step = "preevents"]
  BY DEF BeginAction
<1>3. /\ algo \in Algos /\ algo # Null /\ Head(queue) \in All
      /\ w' \in Fighters /\ w'.party = w.party /\ w'.status = w.status
      /\ \A b \in All : w.algo[b] # Null => w'.algo[b] # Null
      /\ \A b : Exists(w', b) <=> Exists(w, b)
  BY <1>1, <1>2, NewlyPrepared
<1>4. Turn /\ s.state = "battle" /\ (active = "none" \/ Exists(w, active)) /\ page.left = 0 /\ place = "battle"
  BY <1>1, AtFacts DEF Turn, Decided
<1>5. s' \in Scenes /\ s'.state = "battle" /\ s'.sub = "action" /\ s'.previous = s.previous
  BY <1>1, <1>4, Parts DEF Scenes
<1>6. /\ act' \in Acting /\ act'.at \in 0..Len(act'.targets)
      /\ act'.src = Head(queue) /\ act'.algo = algo /\ act'.step = "preevents"
  <2>1. act' = [src |-> Head(queue), algo |-> algo, targets |-> <<>>, at |-> 0, hit |-> 0, step |-> "preevents"]
    BY <1>2 DEF NoAct
  <2>2. <<>> \in Seq(All) /\ Len(<<>>) = 0
    OBVIOUS
  <2> QED BY <2>1, <2>2, <1>3 DEF Acting
<1>7. page' \in PageStates /\ page'.flee = page.flee /\ page'.left = 0
  BY <1>1, <1>4 DEF AtbIInv, Typed, PageStates
<1>8. ASSUME Undisturbed PROVE begun' = {} \/ (begun' = {Head(queue)} /\ page'.left = 0 /\ IsOver(w'))
  <2>1. Begun /\ Steady
    BY <1>8 DEF AtbIInv
  <2>2. ~UnderWay /\ ~page.flee /\ ~Decided(s)
    BY <2>1, <1>1, <1>4 DEF UnderWay, Steady, Decided
  <2>3. w'.hidden = w.hidden
    BY <1>2, Parts DEF Fighters
  <2>4. IsOver(w) <=> IsOver(w')
    BY <2>3, <1>3, SameStanding DEF IsOver
  <2> QED BY <2>1, <2>2, <2>4, <1>1, <1>7 DEF Begun
<1>9. /\ full' \subseteq full /\ full' \subseteq {b \in All : w'.status[b] # "dead"}
      /\ \A b \in All : w'.status[b] \in {w.status[b], "dead", "fine"} \cup Inflicted
  BY <1>1, <1>3, Parts
<1> QED BY <1>1, <1>3, <1>4, <1>5, <1>6, <1>7, <1>8, <1>9, ActionsGoOn

\* The parts of an action that change neither battlers nor menus.
LEMMA ActChanges ==
  ASSUME AtbIInv, AtbAssumption, NEW step, InAction(step),
         UNCHANGED <<combat, s, ending, begun>>,
         act' \in Acting, act'.at \in 0..Len(act'.targets), act'.src = act.src, act'.algo = act.algo,
         act'.step # "none", act'.step = "execute" => act'.algo \in Acts,
         page' \in PageStates, page'.flee = page.flee, phase' \in {"scene", "events"},
         Undisturbed => /\ begun = {} \/ (begun = {Head(queue)} /\ act'.step \in Late)
                        /\ act'.step = "conditions" => begun = {}
  PROVE  AtbIInv'
<1>1. /\ Turn /\ s.state = "battle" /\ s.sub = "action" /\ queue # <<>> /\ act.src = Head(queue)
      /\ active = "none" \/ Exists(w, active)
      /\ UnderWay
  BY InActionFacts
<1>2. act.algo # Null
  BY <1>1 DEF AtbIInv, InTurn
<1>3. UNCHANGED <<w, full, active, queue, place, result, begun, s>>
  BY DEF combat, ending
<1>4. /\ w' \in Fighters /\ w'.party = w.party /\ s' \in Scenes
      /\ full' \subseteq full /\ full' \subseteq {b \in All : w'.status[b] # "dead"}
      /\ \A b \in All : w'.status[b] \in {w.status[b], "dead", "fine"} \cup Inflicted
      /\ \A b \in All : w.algo[b] # Null => w'.algo[b] # Null
      /\ active = "none" \/ Exists(w', active)
  BY <1>1, <1>3, Parts
<1>5. /\ s'.state = "battle" /\ s'.sub = "action" /\ s'.previous = s.previous
      /\ act'.src = Head(queue) /\ act'.algo # Null
  BY <1>1, <1>2, <1>3
<1>6. ASSUME Undisturbed
      PROVE  /\ begun' = {} \/ (begun' = {Head(queue)} /\ act'.step \in Late)
             /\ act'.step = "conditions" => begun' = {}
  BY <1>3, <1>6
<1> QED BY <1>1, <1>3, <1>4, <1>5, <1>6, ActionsGoOn

\* While the battle is undecided, whoever began to act is still at it.
LEMMA StillActing ==
  ASSUME AtbIInv, NEW step, InAction(step), Undisturbed
  PROVE  /\ begun = {} \/ (begun = {Head(queue)} /\ (step \in Late \/ Ended(s, w) # s))
         /\ step = "conditions" => begun = {}
<1>1. UnderWay /\ act.step = step /\ page.left = 0 /\ ~page.flee /\ s.state = "battle" /\ s \in Scenes
  BY InActionFacts, Parts
<1>2. Begun
  BY DEF AtbIInv
<1>3. Ended(s, w) = s => ~IsOver(w)
  BY <1>1, Ends DEF Decided
<1> QED BY <1>1, <1>2, <1>3 DEF Begun, Decided

LEMMA SchedulePageKeeps == ASSUME AtbIInv, AtbAssumption, SchedulePage PROVE AtbIInv'
<1>1. PICK kind \in {"before", "after"} :
         /\ InAction(IF kind = "before" THEN "preevents" ELSE "postevents")
         /\ Ended(s, w) = s
         /\ \E i \in Due(kind) :
            page' = [page EXCEPT !.left = PageLength, !.executed = @ \cup {i}]
         /\ UNCHANGED <<combat, s, act, phase, ending, history>>
  BY DEF SchedulePage
<1> DEFINE step == IF kind = "before" THEN "preevents" ELSE "postevents"
<1>2. InAction(step) /\ step \in {"preevents", "postevents"}
  BY <1>1
<1> HIDE DEF step
<1>3. act.step = step /\ phase = "scene" /\ UNCHANGED <<combat, s, act, phase, ending, begun>>
  BY <1>1, <1>2, InActionFacts DEF history
<1>4. page' \in PageStates /\ page'.flee = page.flee
  <2>1. PICK i \in Due(kind) : page' = [page EXCEPT !.left = PageLength, !.executed = page.executed \cup {i}]
    BY <1>1
  <2>2. page \in PageStates /\ i \in DOMAIN Pages /\ PageLength \in 0..PageLength
    BY DEF AtbIInv, Typed, Due, AtbAssumption
  <2> DEFINE E == page.executed \cup {i}
  <2>3. E \in SUBSET DOMAIN Pages /\ page' = [page EXCEPT !.left = PageLength, !.executed = E]
    BY <2>1, <2>2 DEF PageStates
  <2> HIDE DEF E
  <2> QED BY <2>2, <2>3 DEF PageStates
<1>5. act \in Acting /\ act.at \in 0..Len(act.targets)
  BY DEF AtbIInv, Typed
<1>6. ASSUME Undisturbed PROVE begun = {} \/ (begun = {Head(queue)} /\ act'.step \in Late)
  BY <1>1, <1>2, <1>3, <1>6, StillActing
<1> QED BY <1>2, <1>3, <1>4, <1>5, <1>6, ActChanges DEF Late

LEMMA PostEventsKeeps == ASSUME AtbIInv, AtbAssumption, PostEvents PROVE AtbIInv'
<1>1. /\ InAction("postevents") /\ act' = [act EXCEPT !.step = "finished"] /\ phase' = "scene"
      /\ UNCHANGED <<combat, s, page, ending, begun>>
  BY DEF PostEvents, Continue, history
<1>2. act \in Acting /\ act.at \in 0..Len(act.targets) /\ page \in PageStates
  BY DEF AtbIInv, Typed
<1>3. /\ act' \in Acting /\ act'.at = act.at /\ act'.targets = act.targets
      /\ act'.src = act.src /\ act'.algo = act.algo /\ act'.step = "finished"
  BY <1>1, <1>2 DEF Acting, Late
<1>4. ASSUME Undisturbed PROVE begun = {} \/ begun = {Head(queue)}
  BY <1>1, <1>4, StillActing
<1> QED BY <1>1, <1>2, <1>3, <1>4, ActChanges DEF Late

LEMMA PauseKeeps == ASSUME AtbIInv, AtbAssumption, Pause PROVE AtbIInv'
<1>1. \E step \in {"preevents", "conditions", "start", "execute", "postevents", "finished"} : InAction(step)
  BY DEF Pause
<1>2. phase' = "events" /\ UNCHANGED <<combat, s, act, page, ending, begun>>
  BY DEF Pause, WaitFrame, history
<1>3. ~ActiveGone
  BY <1>1 DEF InAction, At
<1> QED BY <1>2, <1>3, Waits

LEMMA DecideKeeps == ASSUME AtbIInv, AtbAssumption, Decide PROVE AtbIInv'
<1>1. /\ InAction("preevents") \/ InAction("postevents")
      /\ Ended(s, w) # s /\ s' = Ended(s, w) /\ phase' = "scene" /\ Removed
      /\ UNCHANGED <<full, active, page, place, result>>
  BY DEF Decide, Continue, Aborted, ending
<1>2. Turn /\ UnderWay /\ (active = "none" \/ Exists(w, active)) /\ s \in Scenes
  BY <1>1, InActionFacts, Parts
<1>3. /\ s' \in Scenes
      /\ \/ s'.state = "victory" /\ CheckWin(w) /\ ~CheckLose(w)
         \/ s'.state = "defeat" /\ CheckLose(w)
  BY <1>1, <1>2, Ends
<1> QED BY <1>1, <1>2, <1>3, RemovedKeeps

LEMMA FinishActionKeeps == ASSUME AtbIInv, AtbAssumption, FinishAction PROVE AtbIInv'
<1>1. /\ At("battle") /\ s.sub = "action" /\ phase' = "scene" /\ Removed
      /\ s' = IF Ended(s, w) # s THEN Ended(s, w) ELSE [s EXCEPT !.sub = "begin"]
      /\ UNCHANGED <<full, active, page, place, result>>
  BY DEF FinishAction, Continue, ending
<1>2. Turn /\ UnderWay /\ (active = "none" \/ Exists(w, active)) /\ s \in Scenes /\ s.state = "battle"
  BY <1>1, AtFacts, Parts DEF UnderWay
<1>3. /\ s' \in Scenes
      /\ \/ s'.state = "battle" /\ s'.sub = "begin" /\ s'.previous = s.previous
         \/ s'.state = "victory" /\ CheckWin(w) /\ ~CheckLose(w)
         \/ s'.state = "defeat" /\ CheckLose(w)
  <2>1. CASE Ended(s, w) # s
    BY <2>1, <1>1, <1>2, Ends
  <2>2. CASE ~(Ended(s, w) # s)
    <3>1. s' = [s EXCEPT !.sub = "begin"]
      BY <2>2, <1>1
    <3> QED BY <3>1, <1>2 DEF Scenes
  <2> QED BY <2>1, <2>2
<1> QED BY <1>1, <1>2, <1>3, RemovedKeeps

LEMMA PreEventsKeeps == ASSUME AtbIInv, AtbAssumption, PreEvents PROVE AtbIInv'
<1>1. /\ InAction("preevents") /\ Ended(s, w) = s /\ phase' = "scene"
      /\ UNCHANGED <<full, active, queue, s, page, place, result, begun>>
  BY DEF PreEvents, Continue, ending, history
<1>2. /\ Turn /\ s.state = "battle" /\ s.sub = "action" /\ queue # <<>> /\ act.src = Head(queue)
      /\ active = "none" \/ Exists(w, active)
      /\ page.left = 0
  BY <1>1, InActionFacts
<1>3. PICK algo \in Prepared(w, Head(queue)), step \in {"finished", "conditions"} :
         /\ w' = [w EXCEPT !.algo[Head(queue)] = algo]
         /\ act' = [act EXCEPT !.algo = algo, !.step = step]
  BY <1>2 DEF PreEvents
<1>4. /\ algo \in Algos /\ algo # Null /\ Head(queue) \in All
      /\ w' \in Fighters /\ w'.party = w.party /\ w'.status = w.status
      /\ \A b \in All : w.algo[b] # Null => w'.algo[b] # Null
      /\ \A b : Exists(w', b) <=> Exists(w, b)
  BY <1>2, <1>3, NewlyPrepared
<1>5. act \in Acting /\ act.at \in 0..Len(act.targets) /\ page \in PageStates
  BY DEF AtbIInv, Typed
<1>6. /\ act' \in Acting /\ act'.at \in 0..Len(act'.targets)
      /\ act'.src = Head(queue) /\ act'.algo # Null /\ act'.step \in {"finished", "conditions"}
  <2>1. act' \in Acting /\ act'.at = act.at /\ act'.targets = act.targets
        /\ act'.src = act.src /\ act'.algo = algo /\ act'.step = step
    BY <1>3, <1>4, <1>5 DEF Acting, Late
  <2> QED BY <2>1, <1>2, <1>4, <1>5
<1>7. /\ full' \subseteq full /\ full' \subseteq {b \in All : w'.status[b] # "dead"}
      /\ \A b \in All : w'.status[b] \in {w.status[b], "dead", "fine"} \cup Inflicted
      /\ active = "none" \/ Exists(w', active)
      /\ s' \in Scenes /\ s'.state = "battle" /\ s'.sub = "action" /\ s'.previous = s.previous
      /\ page' \in PageStates /\ page'.flee = page.flee /\ page'.left = 0
  BY <1>1, <1>2, <1>4, <1>5, Parts
<1>8. ASSUME Undisturbed PROVE begun' = {}
  BY <1>1, <1>8, StillActing DEF Late
<1> QED BY <1>1, <1>2, <1>4, <1>6, <1>7, <1>8, ActionsGoOn

\* When a battler's turn comes: its state may end, and poison takes its SP.
LEMMA ConditionsKeeps == ASSUME AtbIInv, AtbAssumption, Conditions PROVE AtbIInv'
<1>1. /\ InAction("conditions") /\ act' = [act EXCEPT !.step = "start"]
      /\ begun' = begun \cup {act.src} /\ phase' \in {"scene", "events"}
      /\ UNCHANGED <<full, active, queue, s, page, place, result>>
  BY DEF Conditions, ending
<1>2. /\ Turn /\ s.state = "battle" /\ s.sub = "action" /\ queue # <<>> /\ act.src = Head(queue)
      /\ active = "none" \/ Exists(w, active)
      /\ page.left = 0 /\ UnderWay
  BY <1>1, InActionFacts
<1>3. PICK healed \in SUBSET {b \in All : Exists(w, b) /\ w.status[b] \notin {"fine", "stone", "dead"}} :
       LET After(b) == IF Exists(w, b)
                       THEN ApplyConditions(IF b \in healed THEN RemoveState(w, b) ELSE w, b) ELSE w
       IN w' = [w EXCEPT !.status = [b \in All |-> After(b).status[b]],
                         !.sp = [b \in All |-> After(b).sp[b]],
                         !.algo = [b \in All |-> After(b).algo[b]]]
  BY DEF Conditions
<1> DEFINE After(b) == IF Exists(w, b)
                       THEN ApplyConditions(IF b \in healed THEN RemoveState(w, b) ELSE w, b) ELSE w
           status == [b \in All |-> After(b).status[b]]
           sp == [b \in All |-> After(b).sp[b]]
           algo == [b \in All |-> After(b).algo[b]]
<1>4. w' = [w EXCEPT !.status = status, !.sp = sp, !.algo = algo]
  BY <1>3
<1>5. w \in Fighters /\ BattlersAssumption
  BY Parts DEF AtbAssumption
<1>6. ASSUME NEW b \in All
      PROVE  /\ After(b) \in Fighters
             /\ w.algo[b] # Null => After(b).algo[b] # Null
             /\ w.status[b] # "dead" => After(b).status[b] # "dead"
             /\ After(b).status[b] \in {w.status[b], "fine"}
  <2> DEFINE h == IF b \in healed THEN RemoveState(w, b) ELSE w
             u == ApplyConditions(h, b)
  <2>1. h \in BattleStateHeal(w, b)
    <3>1. b \in healed => w.status[b] \notin {"fine", "stone", "dead"}
      OBVIOUS
    <3> QED BY <3>1 DEF BattleStateHeal
  <2> HIDE DEF h
  <2>2. /\ Evolves(w, u)
        /\ \A x \in All : w.status[x] # "dead" => u.status[x] # "dead"
        /\ \A x \in All : u.status[x] \in {w.status[x], "fine"}
    BY <2>1, <1>5, Begins
  <2> HIDE DEF u
  <2>3. CASE Exists(w, b)
    <3>1. After(b) = u
      BY <2>3 DEF u, h
    <3> HIDE DEF After
    <3> QED BY <3>1, <2>2 DEF Evolves
  <2>4. CASE ~Exists(w, b)
    <3>1. After(b) = w
      BY <2>4
    <3> HIDE DEF After
    <3> QED BY <3>1, <1>5
  <2> QED BY <2>3, <2>4
<1> HIDE DEF After
<1>7. status \in [All -> Statuses] /\ sp \in [All -> 0..MaxSp] /\ algo \in [All -> Algos]
  <2>1. \A b \in All : /\ After(b).status \in [All -> Statuses] /\ After(b).sp \in [All -> 0..MaxSp]
                       /\ After(b).algo \in [All -> Algos]
    BY <1>6, FighterFields
  <2> QED BY <2>1
<1>8. /\ \A b \in All : w.algo[b] # Null => algo[b] # Null
      /\ \A b \in All : w.status[b] # "dead" => status[b] # "dead"
      /\ \A b \in All : status[b] \in {w.status[b], "fine"}
  BY <1>6
<1> HIDE DEF status, sp, algo
<1>9. /\ w' \in Fighters /\ w'.status = status /\ w'.algo = algo /\ w'.party = w.party /\ w'.hidden = w.hidden
  BY <1>4, <1>5, <1>7 DEF Fighters
<1>10. \A b \in All : Exists(w, b) => Exists(w', b)
  BY <1>8, <1>9 DEF Exists
<1>11. act \in Acting /\ act.at \in 0..Len(act.targets) /\ page \in PageStates /\ act.algo # Null
  BY <1>2 DEF AtbIInv, Typed, InTurn
<1>12. /\ act' \in Acting /\ act'.at \in 0..Len(act'.targets)
       /\ act'.src = Head(queue) /\ act'.algo # Null /\ act'.step = "start"
  <2>1. act' \in Acting /\ act'.at = act.at /\ act'.targets = act.targets
        /\ act'.src = act.src /\ act'.algo = act.algo /\ act'.step = "start"
    BY <1>1, <1>11 DEF Acting, Late
  <2> QED BY <2>1, <1>2, <1>11
<1>13. /\ full' \subseteq full /\ full' \subseteq {b \in All : w'.status[b] # "dead"}
       /\ \A b \in All : w'.status[b] \in {w.status[b], "dead", "fine"} \cup Inflicted
       /\ \A b \in All : w.algo[b] # Null => w'.algo[b] # Null
  BY <1>1, <1>8, <1>9, Parts
<1>14. active = "none" \/ Exists(w', active)
  BY <1>2, <1>10, Parts DEF All
<1>15. /\ s' \in Scenes /\ s'.state = "battle" /\ s'.sub = "action" /\ s'.previous = s.previous
       /\ page' \in PageStates /\ page'.flee = page.flee /\ page'.left = 0
  BY <1>1, <1>2, <1>11, Parts
<1>16. ASSUME Undisturbed PROVE begun' = {Head(queue)} /\ act'.step \in Late
  <2>1. begun = {}
    BY <1>1, <1>16, StillActing
  <2> QED BY <2>1, <1>1, <1>2, <1>12 DEF Late
<1> QED BY <1>1, <1>2, <1>9, <1>12, <1>13, <1>14, <1>15, <1>16, ActionsGoOn

LEMMA StartActionKeeps == ASSUME AtbIInv, AtbAssumption, StartAction PROVE AtbIInv'
<1>1. InAction("start") /\ UNCHANGED <<full, active, page, place, result>>
  BY DEF StartAction, ending
<1>2. /\ Turn /\ s.state = "battle" /\ s.sub = "action" /\ queue # <<>> /\ act.src = Head(queue)
      /\ active = "none" \/ Exists(w, active)
      /\ page.left = 0 /\ UnderWay /\ s \in Scenes
  BY <1>1, InActionFacts, Parts
<1>3. CASE act.src \in Actors /\ act.algo.type = "escape"
  <2>1. s' = SetState(s, "escape") /\ Removed /\ phase' = "scene"
    BY <1>3 DEF StartAction, Aborted, Continue
  <2>2. s' \in Scenes /\ s'.state = "escape"
    BY <2>1, <1>2, SetStates DEF States
  <2> QED BY <2>1, <2>2, <1>1, <1>2, RemovedKeeps
<1>4. CASE ~(act.src \in Actors /\ act.algo.type = "escape")
  <2>1. /\ act' = IF act.algo = NoAction THEN [act EXCEPT !.step = AfterBlows(act)]
                  ELSE LET found == Targets(w, act.algo)
                       IN [act EXCEPT !.targets = found.targets, !.at = found.at, !.step = "execute"]
        /\ w' = IF act.algo = NoAction THEN w ELSE Paid(w, act.src, act.algo)
        /\ phase' = "events" /\ UNCHANGED <<s, queue, begun>>
    BY <1>4 DEF StartAction, WaitFrame
  <2>2. act \in Acting /\ act.at \in 0..Len(act.targets) /\ page \in PageStates /\ act.algo # Null /\ act.src \in All
    BY <1>2 DEF AtbIInv, Typed, InTurn
  <2>3. w \in Fighters /\ BattlersAssumption
    BY Parts DEF AtbAssumption
  <2>4. Evolves(w, w') /\ w'.status = w.status /\ w'.hidden = w.hidden
    BY <2>1, <2>2, <2>3, Pays, EvolvesAgain
  <2>5. w' \in Fighters /\ w'.party = w.party /\ \A b \in All : w.algo[b] # Null => w'.algo[b] # Null
    BY <2>4 DEF Evolves
  <2>6. \A b : Exists(w', b) <=> Exists(w, b)
    BY <2>4, <2>5, SameStanding
  <2>7. /\ act' \in Acting /\ act'.at \in 0..Len(act'.targets)
        /\ act'.src = act.src /\ act'.algo = act.algo /\ act'.step \in Late
        /\ act'.step = "execute" => act'.algo \in Acts
    <3>1. CASE act.algo = NoAction
      <4> DEFINE last == AfterBlows(act)
      <4>1. last \in Late /\ last # "execute"
        BY DEF AfterBlows, Late
      <4>2. act' = [act EXCEPT !.step = last]
        BY <3>1, <2>1
      <4> HIDE DEF last
      <4>3. /\ act' \in Acting /\ act'.at = act.at /\ act'.targets = act.targets
            /\ act'.src = act.src /\ act'.algo = act.algo /\ act'.step = last
        BY <4>1, <4>2, <2>2 DEF Acting
      <4> QED BY <4>1, <4>3, <2>2
    <3>2. CASE act.algo # NoAction
      <4>1. act.algo \in Acts
        BY <3>2, <2>2 DEF Acting, Algos
      <4> DEFINE found == Targets(w, act.algo)
                 targets == found.targets
                 at == found.at
      <4>2. targets \in Seq(All) /\ at \in 0..Len(targets)
        BY <4>1, <2>3, TargetFound
      <4>3. act' = [act EXCEPT !.targets = targets, !.at = at, !.step = "execute"]
        BY <3>2, <2>1
      <4> HIDE DEF targets, at
      <4>4. at \in Nat
        BY <4>2
      <4>5. /\ act' \in Acting /\ act'.at = at /\ act'.targets = targets
            /\ act'.src = act.src /\ act'.algo = act.algo /\ act'.step = "execute"
        BY <4>2, <4>3, <4>4, <2>2 DEF Acting, Late
      <4> QED BY <4>1, <4>2, <4>5 DEF Late
    <3> QED BY <3>1, <3>2
  <2>8. /\ full' \subseteq full /\ full' \subseteq {b \in All : w'.status[b] # "dead"}
        /\ \A b \in All : w'.status[b] \in {w.status[b], "dead", "fine"} \cup Inflicted
        /\ active = "none" \/ Exists(w', active)
        /\ s' \in Scenes /\ s'.state = "battle" /\ s'.sub = "action" /\ s'.previous = s.previous
        /\ page' \in PageStates /\ page'.flee = page.flee /\ page'.left = 0
        /\ act'.src = Head(queue) /\ act'.algo # Null /\ act'.step \notin {"none", "conditions"}
    BY <1>1, <1>2, <2>1, <2>2, <2>4, <2>6, <2>7, Parts DEF Late
  <2>9. ASSUME Undisturbed PROVE begun' = {} \/ begun' = {Head(queue)}
    BY <1>1, <2>1, <2>9, StillActing
  <2> QED BY <1>1, <1>2, <2>1, <2>5, <2>7, <2>8, <2>9, ActionsGoOn
<1> QED BY <1>3, <1>4

LEMMA ExecuteActionKeeps == ASSUME AtbIInv, AtbAssumption, ExecuteAction PROVE AtbIInv'
<1>1. /\ InAction("execute") /\ full' = GaugesOfTheLiving(full, w') /\ phase' = "scene"
      /\ UNCHANGED <<active, queue, s, page, place, result, begun>>
  BY DEF ExecuteAction, Continue, ending, history
<1>2. /\ Turn /\ s.state = "battle" /\ s.sub = "action" /\ queue # <<>> /\ act.src = Head(queue)
      /\ active = "none" \/ Exists(w, active)
      /\ page.left = 0 /\ UnderWay /\ s \in Scenes /\ act.step = "execute"
  BY <1>1, InActionFacts, Parts
<1>3. /\ act \in Acting /\ act.at \in 0..Len(act.targets) /\ page \in PageStates
      /\ act.algo \in Acts /\ act.algo # Null /\ act.src \in All
      /\ act.targets \in Seq(All) /\ act.hit \in Nat
  <2>1. /\ act \in Acting /\ act.at \in 0..Len(act.targets) /\ page \in PageStates
        /\ act.algo \in Acts /\ act.algo # Null /\ act.src \in All
    BY <1>2 DEF AtbIInv, Typed, InTurn
  <2> QED BY <2>1 DEF Acting
<1>4. w \in Fighters /\ BattlersAssumption
  BY Parts DEF AtbAssumption
<1> DEFINE last == AfterBlows(act)
<1>5. last \in {"postevents", "finished"}
  BY DEF AfterBlows
<1> HIDE DEF last
<1>6. ASSUME NEW step \in Late, act' = [act EXCEPT !.step = step]
      PROVE  /\ act' \in Acting /\ act'.at \in 0..Len(act'.targets)
             /\ act'.src = act.src /\ act'.algo = act.algo /\ act'.step \in Late
  <2>1. /\ act' \in Acting /\ act'.at = act.at /\ act'.targets = act.targets
        /\ act'.src = act.src /\ act'.algo = act.algo /\ act'.step = step
    BY <1>3, <1>6 DEF Acting
  <2> QED BY <2>1, <1>3
<1>7. /\ w' \in Fighters /\ w'.party = w.party
      /\ \A b \in All : w.algo[b] # Null => w'.algo[b] # Null
      /\ \A b \in All : w'.status[b] \in {w.status[b], "dead", "fine"} \cup Inflicted
      /\ act' \in Acting /\ act'.at \in 0..Len(act'.targets)
      /\ act'.src = act.src /\ act'.algo = act.algo /\ act'.step \in Late
  <2>1. CASE act.at = 0 \/ ~IsTargetValid(w, act.algo, act.targets[act.at])
    <3>1. act' = [act EXCEPT !.step = last] /\ w' = w
      BY <2>1 DEF ExecuteAction, last
    <3> QED BY <3>1, <1>4, <1>5, <1>6 DEF Late
  <2>2. CASE ~(act.at = 0 \/ ~IsTargetValid(w, act.algo, act.targets[act.at]))
    <3> DEFINE t == act.targets[act.at]
               gone == Gone(w, act.src, act.algo)
               next == NextValid(w', act.algo, act.targets, act.at)
    <3>1. /\ w' \in Struck(gone, act.src, act.algo, t)
          /\ act' = IF next # 0 THEN [act EXCEPT !.at = next] ELSE Repeated(act)
      BY <2>2 DEF ExecuteAction
    <3>2. t \in All
      <4>1. act.at \in 1..Len(act.targets)
        BY <1>3, <2>2
      <4> QED BY <4>1, <1>3, Elements
    <3>3. Evolves(w, gone) /\ gone \in Fighters
      BY <1>3, <1>4, Goes DEF Evolves
    <3>4. gone.status = w.status
      BY <1>4 DEF Gone, Fighters
    <3>5. next \in 0..Len(act.targets)
      BY <1>3, FirstValid
    <3> HIDE DEF t, gone, next
    <3>6. Evolves(w, w') /\ \A b \in All : w'.status[b] \in {w.status[b], "dead", "fine"} \cup Inflicted
      BY <3>1, <3>2, <3>3, <3>4, <1>4, Strikes, StruckStates, EvolvesAgain
    <3>7. /\ act' \in Acting /\ act'.at \in 0..Len(act'.targets)
          /\ act'.src = act.src /\ act'.algo = act.algo /\ act'.step \in Late
      <4>1. CASE next # 0
        <5>1. act' = [act EXCEPT !.at = next]
          BY <4>1, <3>1
        <5>2. /\ act' \in Acting /\ act'.at = next /\ act'.targets = act.targets
              /\ act'.src = act.src /\ act'.algo = act.algo /\ act'.step = act.step
          BY <5>1, <3>5, <1>3 DEF Acting
        <5> QED BY <5>2, <3>5, <1>2 DEF Late
      <4>2. CASE next = 0 /\ act.algo.type = "attack" /\ act.hit + 1 < Hits
        <5>1. act' = [act EXCEPT !.hit = act.hit + 1, !.step = "start"]
          BY <4>2, <3>1 DEF Repeated
        <5>2. act.hit + 1 \in Nat
          BY <1>3
        <5>3. /\ act' \in Acting /\ act'.at = act.at /\ act'.targets = act.targets
              /\ act'.src = act.src /\ act'.algo = act.algo /\ act'.step = "start"
          BY <5>1, <5>2, <1>3 DEF Acting, Late
        <5> QED BY <5>3, <1>3 DEF Late
      <4>3. CASE next = 0 /\ ~(act.algo.type = "attack" /\ act.hit + 1 < Hits)
        <5>1. act' = [act EXCEPT !.step = last]
          BY <4>3, <3>1 DEF Repeated, last
        <5> QED BY <5>1, <1>5, <1>6 DEF Late
      <4> QED BY <4>1, <4>2, <4>3
    <3> QED BY <3>6, <3>7 DEF Evolves
  <2> QED BY <2>1, <2>2
<1>8. full' \subseteq full /\ full' \subseteq {b \in All : w'.status[b] # "dead"}
  BY <1>1, Parts DEF GaugesOfTheLiving
<1>9. /\ s' \in Scenes /\ s'.state = "battle" /\ s'.sub = "action" /\ s'.previous = s.previous
      /\ page' \in PageStates /\ page'.flee = page.flee /\ page'.left = 0
      /\ act'.src = Head(queue) /\ act'.algo # Null /\ act'.step \notin {"none", "conditions"}
      /\ act'.algo \in Acts
  BY <1>1, <1>2, <1>3, <1>7 DEF Late
<1>10. ASSUME Undisturbed PROVE begun' = {} \/ begun' = {Head(queue)}
  BY <1>1, <1>10, StillActing
<1> QED BY <1>1, <1>2, <1>7, <1>8, <1>9, <1>10, ActionsGoOn

LEMMA LeaveBattleKeeps == ASSUME AtbIInv, AtbAssumption, LeaveBattle PROVE AtbIInv'
<1>1. /\ At("battle") /\ s.sub = "begin" /\ phase' = "events"
      /\ s' = IF active = "none" THEN ReturnToMain(s) ELSE SetState(s, s.previous)
      /\ UNCHANGED <<w, full, active, queue, act, page, ending, begun>>
  BY DEF LeaveBattle, WaitFrame, combat, history
<1>2. /\ Turn /\ s.state = "battle" /\ s \in Scenes /\ (active = "none" \/ Exists(w, active))
      /\ s.previous \in {"actor", "auto", "command"}
      /\ active \in Actors \cup {"none"} /\ active \notin ToSet(queue)
  BY <1>1, AtFacts, Parts
<1>3. /\ s' \in Scenes /\ s'.state \in {"actor", "auto", "command"}
      /\ s'.state = "command" => active # "none"
  <2>1. s.previous \in States
    BY <1>2 DEF States, Menus
  <2> QED BY <2>1, <1>1, <1>2, SetStates, Main
<1>4. /\ ~Decided(s) /\ ~UnderWay /\ ~Decided(s') /\ s'.state \notin {"battle", "enemytarget", "allytarget"}
      /\ s'.state \in Menus => s'.state = "command"
      /\ s.state # "escape"
  BY <1>1, <1>2, <1>3 DEF Decided, UnderWay, Menus
<1>5. UNCHANGED <<w, full, queue, act, page, ending, begun>> /\ active' = active
  BY <1>1
<1> QED BY <1>1, <1>2, <1>3, <1>4, <1>5, MenusGoOn

LEMMA ActKeeps == ASSUME AtbIInv, AtbAssumption, Act PROVE AtbIInv'
BY BeginActionKeeps, SchedulePageKeeps, DecideKeeps, PreEventsKeeps, ConditionsKeeps, StartActionKeeps,
   ExecuteActionKeeps, PostEventsKeeps, FinishActionKeeps, LeaveBattleKeeps DEF Act

-----------------------------------------------------------------------------
(* The ends.                                                                *)

LEMMA TryEscapeKeeps == ASSUME AtbIInv, AtbAssumption, TryEscape PROVE AtbIInv'
<1>1. /\ At("escape") /\ phase' = "events"
      /\ UNCHANGED <<w, full, active, queue, act, page, ending, begun>>
      /\ \/ s' = [s EXCEPT !.sub = "success"]
         \/ s' = [s EXCEPT !.sub = "failure"] /\ ~page.flee
  BY DEF TryEscape, WaitFrame, combat, history
<1>2. /\ Turn /\ s.state = "escape" /\ s \in Scenes /\ (active = "none" \/ Exists(w, active))
      /\ active \in Actors \cup {"none"} /\ active \notin ToSet(queue)
  BY <1>1, AtFacts, Parts
<1>3. s' \in Scenes /\ s'.state = "escape" /\ (page.flee => s'.sub = "success")
  BY <1>1, <1>2 DEF Scenes
<1>4. ~Decided(s) /\ ~UnderWay /\ ~Decided(s') /\ s'.state \notin Menus
  BY <1>2, <1>3 DEF Decided, UnderWay, Menus
<1> QED BY <1>1, <1>2, <1>3, <1>4, MenusGoOn

LEMMA EscapedKeeps == ASSUME AtbIInv, AtbAssumption, Escaped PROVE AtbIInv'
<1>1. /\ At("escape") /\ s.sub # "begin"
      /\ UNCHANGED <<w, full, active, queue, act, page, begun>>
  BY DEF Escaped, combat, history
<1>2. /\ Turn /\ s.state = "escape" /\ s \in Scenes /\ (active = "none" \/ Exists(w, active))
      /\ active \in Actors \cup {"none"} /\ active \notin ToSet(queue)
  BY <1>1, AtFacts, Parts
<1>3. CASE s.sub = "success"
  <2>1. place' = "left" /\ result' = "escape" /\ UNCHANGED <<s, phase>>
    BY <1>3 DEF Escaped, EndBattle
  <2>2. Sound(Now)'
    BY <2>1, <1>1 DEF AtbIInv, Sound, Now
  <2>3. Typed' /\ InTurn' /\ Settled'
    BY <2>1, <1>1, <1>2 DEF AtbIInv, Typed, InTurn, UnderWay, Settled
  <2>4. ASSUME Undisturbed PROVE Begun' /\ Sane(w)' /\ Steady'
    BY <2>1, <2>4, <1>1 DEF AtbIInv, Begun, Sane, Steady, UnderWay, Decided
  <2> QED BY <2>2, <2>3, <2>4 DEF AtbIInv, Undisturbed
<1>4. CASE s.sub # "success"
  <2>1. s' = ReturnToMain(s) /\ phase' = "scene" /\ UNCHANGED ending
    BY <1>4 DEF Escaped, Continue
  <2>2. s' \in Scenes /\ s'.state \in {"actor", "auto"}
    BY <2>1, <1>2, Main
  <2>3. ~Decided(s) /\ ~UnderWay /\ ~Decided(s') /\ s'.state \notin Menus
    BY <2>2, <1>2 DEF Decided, UnderWay, Menus
  <2>4. UNCHANGED <<w, full, queue, act, page, ending, begun>> /\ active' = active
    BY <1>1, <2>1
  <2>5. ASSUME Undisturbed PROVE ~page.flee
    BY <2>5, <1>1, <1>2, <1>4 DEF AtbIInv, Steady, Turn, Decided
  <2> QED BY <2>1, <2>2, <2>3, <2>4, <2>5, <1>2, MenusGoOn
<1> QED BY <1>3, <1>4

LEMMA FinishKeeps == ASSUME AtbIInv, AtbAssumption, Finish PROVE AtbIInv'
<1>1. /\ At("victory") \/ At("defeat")
      /\ UNCHANGED <<w, full, active, queue, act, page, begun>>
  BY DEF Finish, combat, history
<1>2. /\ Decided(s) /\ s \in Scenes /\ place = "battle" /\ ~ActiveGone
      /\ s.state \in {"victory", "defeat"}
  BY <1>1, AtFacts, Parts DEF Decided
<1>3. /\ s' \in Scenes /\ s'.state = s.state /\ s'.previous = s.previous /\ Decided(s')
      /\ phase' \in {"events", phase}
      /\ \/ UNCHANGED <<place, result>>
         \/ place' = "left" /\ result' = s.state
  <2>1. CASE s.sub = "begin"
    <3>1. s' = [s EXCEPT !.sub = "end"] /\ phase' = "events" /\ UNCHANGED <<place, result>>
      BY <2>1 DEF Finish, WaitFrame, ending
    <3> QED BY <3>1, <1>2 DEF Scenes, Decided
  <2>2. CASE s.sub # "begin"
    <3>1. s' = s /\ phase' = phase /\ place' = "left" /\ result' = s.state
      BY <2>2 DEF Finish, EndBattle
    <3> QED BY <3>1, <1>2
  <2> QED BY <2>1, <2>2
<1>4. Sound(Now)'
  BY <1>1, <1>3 DEF AtbIInv, Sound, Now
<1>5. Typed' /\ InTurn' /\ Settled'
  <2>1. Typed' /\ InTurn'
    BY <1>1, <1>2, <1>3 DEF AtbIInv, Typed, InTurn, UnderWay, Decided
  <2>2. Settled'
    BY <1>1, <1>2, <1>3 DEF AtbIInv, Settled
  <2> QED BY <2>1, <2>2
<1>6. ASSUME Undisturbed PROVE Begun' /\ Sane(w)' /\ Steady'
  <2>1. Begun /\ Sane(w) /\ Steady
    BY <1>6 DEF AtbIInv
  <2>2. Begun' /\ Sane(w)'
    BY <2>1, <1>1, <1>2, <1>3 DEF Begun, Sane, UnderWay, Decided
  <2>3. Steady'
    BY <2>1, <1>1, <1>2, <1>3 DEF Steady, ActiveGone, UnderWay, Decided
  <2> QED BY <2>2, <2>3
<1> QED BY <1>4, <1>5, <1>6 DEF AtbIInv, Undisturbed

-----------------------------------------------------------------------------
LEMMA AtbNext == ASSUME AtbIInv, AtbAssumption, [Next]_vars PROVE AtbIInv'
<1>1. CASE Choose
  BY <1>1, OptionKeeps, ToBattleKeeps, SelectActorKeeps, AutoBattleKeeps, BrowseKeeps, SelectKeeps DEF Choose
<1>2. CASE Over
  BY <1>2, TryEscapeKeeps, EscapedKeeps, FinishKeeps DEF Over
<1>3. CASE UNCHANGED vars
  <2>1. UNCHANGED <<w, full, active, queue, s, act, page, phase, place, result, begun>>
    BY <1>3 DEF vars, combat, ending, history
  <2>2. Sound(Now)' /\ Typed' /\ InTurn' /\ Settled'
    BY <2>1 DEF AtbIInv, Sound, Now, Typed, InTurn, UnderWay, Settled
  <2>3. ASSUME Undisturbed PROVE Begun' /\ Sane(w)' /\ Steady'
    BY <2>1, <2>3 DEF AtbIInv, Begun, Sane, Steady, ActiveGone, UnderWay, Decided
  <2> QED BY <2>2, <2>3 DEF AtbIInv, Undisturbed
<1> QED BY <1>1, <1>2, <1>3, FrameKeeps, ActKeeps, PauseKeeps DEF Next

\* The inductive invariant is enough.
LEMMA AtbEnough == ASSUME AtbIInv, AtbAssumption PROVE AtbInv
<1>1. TypeOK
  <2>1. /\ w.status \in [All -> Statuses] /\ w.hidden \subseteq Enemies /\ ToSet(w.party) \subseteq Actors
        /\ ToSet(queue) \subseteq All
    BY Parts, FighterFields, Elements
  <2>2. s.state \in Menus \cup {"option", "actor", "auto", "battle", "victory", "defeat", "escape"}
    BY Parts DEF Scenes, States
  <2>3. act.src \in All \cup {"none"} /\ phase \in {"events", "gauges", "scene"} /\ page.left \in 0..PageLength
    BY DEF AtbIInv, Typed, Acting, PageStates
  <2> QED BY <2>1, <2>2, <2>3, Parts DEF TypeOK
<1>2. OneActionEach /\ ChooserIsFree
  BY Parts DEF OneActionEach, ChooserIsFree
<1>3. Undisturbed => ActsOnce
  BY DEF AtbIInv, Begun, ActsOnce
<1>4. ResultIsTrue
  BY DEF AtbIInv, Settled, ResultIsTrue
<1> QED BY <1>1, <1>2, <1>3, <1>4 DEF AtbInv

\* A battle with gauges goes right (Scene_Battle_Rpg2k3): nobody has two actions or a full gauge
\* while an action of his waits, a menu belongs to somebody whose action does not wait, who began to
\* act does not begin again unless something breaks it off, and won or lost is what it is left as.
THEOREM BattlesWithGauges == AtbAssumption => (Spec => []AtbInv)
<1> SUFFICES ASSUME AtbAssumption PROVE Spec => []AtbInv
  OBVIOUS
<1>1. Init => AtbIInv
  BY StartsSound
<1>2. AtbIInv /\ [Next]_vars => AtbIInv'
  BY AtbNext
<1>3. AtbIInv => AtbInv
  BY AtbEnough
<1> QED BY <1>1, <1>2, <1>3, PTL DEF Spec

=============================================================================
