--------------------------- MODULE Battle_proofs ---------------------------
(***************************************************************************)
(* Theorems about battles in turns, for any actors, troop, pages, commands *)
(* and numbers of blows and turns: whoever acts is there and has one       *)
(* action, in the order in which the player chose; an attack finds a       *)
(* target, unless it is aimed at an actor who has left the party; and who  *)
(* has won has won.                                                        *)
(***************************************************************************)
EXTENDS Battle, Battlers_proofs

Actions == [src : All \cup {"none"}, algo : Algos, targets : Seq(All), at : Nat, hit : Nat]
PageStates == [left : 0..PageLength, executed : SUBSET DOMAIN Pages, flee : BOOLEAN]

Deciding == {"actor", "auto"}
Menus == {"command", "skill", "item", "enemytarget", "allytarget"}
States == {"option", "battle", "victory", "defeat", "escape"} \cup Deciding \cup Menus
Steps == {"begin", "input", "start", "usage", "execute", "finished"}

Typed ==
    /\ w \in Fighters /\ IsInjective(w.party)
    /\ state \in States /\ sub \in Steps /\ strike \in BOOLEAN
    /\ index \in Nat /\ queue \in Seq(All)
    /\ act \in Actions /\ act.at \in 0..Len(act.targets)
    /\ page \in PageStates /\ turns \in 0..MaxTurns

\* The queue and the menus: whoever has chosen is in the queue, in the order of the party.
InOrder ==
    /\ state = "option" => index = 0 /\ queue = <<>>
    /\ state \in Deciding => index \in 0..Len(w.party) /\ queue = SubSeq(w.party, 1, index)
    /\ state \in Menus =>
         /\ index \in 1..Len(w.party) /\ active = w.party[index]
         /\ queue = SubSeq(w.party, 1, index - 1)
    /\ state = "escape" => page.flee \/ queue = <<>>
    /\ state = "enemytarget" => previous \in {"command", "skill"}
    /\ state = "allytarget" => previous \in {"skill", "item"}

\* Pages only run between actions; the turn that is chosen is one of the battle.
Scheduled ==
    /\ page.left > 0 => state \in {"option", "battle", "escape"} /\ sub = "begin"
    /\ page.flee => state = "escape"
    /\ sub = "input" => state = "option"
    /\ \/ state \in Deciding \cup Menus
       \/ sub = "input"
       \/ state = "escape" /\ ~page.flee
       => turns < MaxTurns

\* One action.
Acting ==
    /\ sub \in {"start", "usage", "execute", "finished"} =>
         state = "battle" /\ page.left = 0 /\ queue # <<>> /\ act.src \in All
    /\ sub = "start" => Exists(w, act.src) /\ act.algo # Null
    /\ sub \in {"start", "usage"} => Active(w, "allies") # {} /\ Active(w, "enemies") # {}
    /\ sub = "usage" => act.algo \in Acts
    /\ TargetsThere

Ended ==
    /\ state \in {"victory", "defeat"} => page.left = 0 /\ EndOf(w) = state
    /\ result \in {"victory", "defeat"} => place = "left" /\ state = result

TurnInv ==
    /\ Typed /\ QueueIsAParty
    /\ InOrder /\ Scheduled /\ Acting /\ Ended

-----------------------------------------------------------------------------
(* The queue and the end of a battle.                                       *)

\* What is left of the queue and of v when some lose their action.
Keeps(v, u, r) ==
    /\ r \in Seq(All) /\ IsInjective(r)
    /\ u \in Fighters /\ u.status = v.status /\ u.hidden = v.hidden /\ u.party = v.party
    /\ \A b \in ToSet(r) : u.algo[b] # Null

\* Who is kept in the queue keeps his action, whoever else loses his.
LEMMA Kept ==
  ASSUME NEW v \in Fighters, NEW q \in Seq(All), IsInjective(q), \A b \in ToSet(q) : v.algo[b] # Null,
         NEW a \in 1..(Len(q) + 1), NEW z \in (a - 1)..Len(q),
         NEW S, \A i \in a..z : q[i] \notin S
  PROVE  Keeps(v, Idle(v, S), SubSeq(q, a, z))
<1> DEFINE r == SubSeq(q, a, z)
           f == [b \in All |-> IF b \in S THEN Null ELSE v.algo[b]]
           u == Idle(v, S)
<1>1. /\ r \in Seq(All) /\ Len(r) = z - a + 1 /\ DOMAIN r = 1..(z - a + 1)
      /\ \A i \in 1..(z - a + 1) : r[i] = q[a + i - 1]
      /\ IsInjective(r) /\ ToSet(r) \subseteq ToSet(q)
  BY Between
<1>2. f \in [All -> Algos]
  BY FighterFields, Null0
<1>3. u = [v EXCEPT !.algo = f]
  BY DEF Idle
<1> HIDE DEF f, u
<1>4. u \in Fighters /\ u.algo = f /\ u.status = v.status /\ u.hidden = v.hidden /\ u.party = v.party
  BY <1>2, <1>3, NewAlgos
<1>5. ASSUME NEW b \in ToSet(r) PROVE u.algo[b] # Null
  <2>1. PICK i \in 1..(z - a + 1) : r[i] = b
    BY <1>1 DEF ToSet
  <2>2. b \in ToSet(q) /\ b \in All /\ q[a + i - 1] = b
    BY <2>1, <1>1, Elements
  <2>3. a + i - 1 \in a..z
    OBVIOUS
  <2>4. b \notin S
    BY <2>2, <2>3
  <2>5. f[b] = v.algo[b]
    BY <2>2, <2>4 DEF f
  <2> QED BY <2>2, <2>5, <1>4
<1> HIDE DEF r
<1> QED BY <1>1, <1>4, <1>5 DEF r, u, Keeps

\* Those who still stand are the last ones of the queue, from the first who is there.
LEMMA StandingOnes ==
  ASSUME NEW q \in Seq(All)
  PROVE  \E n \in 0..Len(q) :
            /\ Standing(q) = SubSeq(q, n + 1, Len(q))
            /\ n < Len(q) => Exists(w, q[n + 1])
<1> DEFINE there == {i \in DOMAIN q : Exists(w, q[i])}
           first == CHOOSE i \in there : \A j \in there : i <= j
<1>1. DOMAIN q = 1..Len(q) /\ Len(q) \in Nat
  OBVIOUS
<1>2. Standing(q) = IF there = {} THEN <<>> ELSE SubSeq(q, first, Len(q))
  BY DEF Standing
<1>3. there # {} => first \in there
  <2>1. there \in SUBSET Nat
    BY <1>1
  <2> HIDE DEF there
  <2>2. there # {} => \E i \in there : \A j \in there : i <= j
    BY <2>1, LeastNumber
  <2> QED BY <2>2
<1> HIDE DEF first
<1>4. CASE there = {}
  <2>1. SubSeq(q, Len(q) + 1, Len(q)) = <<>>
    BY <1>1, SubSeqEmpty
  <2>2. Len(q) \in 0..Len(q) /\ ~(Len(q) < Len(q))
    BY <1>1
  <2> QED BY <1>2, <1>4, <2>1, <2>2
<1>5. CASE there # {}
  <2>1. first \in 1..Len(q) /\ Exists(w, q[first])
    BY <1>1, <1>3, <1>5
  <2>2. first - 1 \in 0..Len(q) /\ first - 1 + 1 = first
    BY <1>1, <2>1
  <2> QED BY <1>2, <1>5, <2>1, <2>2
<1> QED BY <1>4, <1>5

\* What a check leaves of the queue, and of the actions.
LEMMA Checked ==
  ASSUME w \in Fighters, queue \in Seq(All), QueueIsAParty
  PROVE  /\ Keeps(w, Cleared, Left)
         /\ state # "battle" => Left = queue
         /\ state = "battle" /\ Left # <<>> => Exists(w, Head(Left))
<1>1. PICK n \in 0..Len(queue) :
         /\ Left = SubSeq(queue, n + 1, Len(queue))
         /\ state = "battle" /\ n < Len(queue) => Exists(w, queue[n + 1])
  <2>1. CASE state = "battle"
    BY <2>1, StandingOnes DEF Left
  <2>2. CASE state # "battle"
    <3>1. SubSeq(queue, 1, Len(queue)) = queue
      BY SubSeqFull
    <3>2. 0 \in 0..Len(queue) /\ 0 + 1 = 1
      OBVIOUS
    <3> QED BY <2>2, <3>1, <3>2 DEF Left
  <2> QED BY <2>1, <2>2
<1>2. n + 1 \in 1..(Len(queue) + 1) /\ Len(queue) \in (n + 1 - 1)..Len(queue) /\ Len(queue) \in Nat
  OBVIOUS
<1>3. Len(Left) = Len(queue) - n /\ Left \in Seq(All)
  BY <1>1, <1>2, Between
<1> DEFINE S == {queue[k] : k \in 1..(Len(queue) - Len(Left))}
           u == Idle(w, S)
<1>4. IsInjective(queue) /\ \A b \in ToSet(queue) : w.algo[b] # Null
  BY DEF QueueIsAParty
<1>5. \A i \in (n + 1)..Len(queue) : queue[i] \notin S
  <2>1. \A i \in (n + 1)..Len(queue), k \in 1..(Len(queue) - Len(Left)) :
           i \in DOMAIN queue /\ k \in DOMAIN queue /\ i # k
    BY <1>2, <1>3
  <2> QED BY <2>1, <1>4 DEF IsInjective
<1>6. Cleared = u
  BY DEF Cleared
<1> HIDE DEF S
<1>7. Keeps(w, u, SubSeq(queue, n + 1, Len(queue)))
  BY <1>2, <1>4, <1>5, Kept
<1> HIDE DEF u
<1>8. state # "battle" => Left = queue
  BY DEF Left
<1>9. ASSUME state = "battle", Left # <<>> PROVE Exists(w, Head(Left))
  <2>1. Len(Left) > 0
    BY <1>9, <1>3
  <2>2. n < Len(queue)
    BY <2>1, <1>3
  <2>3. /\ \A i \in 1..(Len(queue) - (n + 1) + 1) : Left[i] = queue[n + 1 + i - 1]
    BY <1>1, <1>2, Between
  <2>4. 1 \in 1..(Len(queue) - (n + 1) + 1) /\ n + 1 + 1 - 1 = n + 1
    BY <1>2, <2>2
  <2>5. Head(Left) = queue[n + 1]
    BY <1>3, <1>9, <2>3, <2>4
  <2> QED BY <1>1, <1>9, <2>2, <2>5
<1> QED BY <1>1, <1>6, <1>7, <1>8, <1>9

\* While the battle is not over, both sides are there.
LEMMA BothThere ==
  ASSUME NEW v, EndOf(v) = "none"
  PROVE  Active(v, "allies") # {} /\ Active(v, "enemies") # {}
<1>1. ~CheckLose(v) /\ ~CheckWin(v)
  BY DEF EndOf
<1>2. PICK a \in ToSet(v.party) : a \notin v.hidden /\ CanActOrRecoverable(v, a)
  BY <1>1 DEF CheckLose
<1>3. a \in Active(v, "allies")
  BY <1>2 DEF Active, Battle, Exists, CanActOrRecoverable
<1> QED BY <1>1, <1>3 DEF CheckWin

\* Who is there and who has won depends on the states, on who is hidden and on the party.
LEMMA SameSides ==
  ASSUME NEW v, NEW u, u.status = v.status, u.hidden = v.hidden, u.party = v.party
  PROVE  /\ EndOf(u) = EndOf(v) /\ \A b : Exists(u, b) <=> Exists(v, b)
         /\ \A side : Active(u, side) = Active(v, side)
BY SameStanding DEF EndOf

-----------------------------------------------------------------------------
(* The player's choices.                                                    *)

\* What is known when the scene is reached.
LEMMA Reached ==
  ASSUME TurnInv, NEW s, NEW b, At(s, b)
  PROVE  /\ state = s /\ sub = b /\ place = "battle" /\ page.left = 0
         /\ page.flee => s = "escape"
         /\ result \notin {"victory", "defeat"}
BY DEF TurnInv, At, Scheduled, Ended

\* Nobody acts, and no page runs.
LEMMA Menu ==
  ASSUME TurnInv, UNCHANGED <<act, page, ending, turns>>, page.left = 0, ~page.flee,
         strike' \in {strike, FALSE}, w' \in Fighters, IsInjective(w'.party), result \notin {"victory", "defeat"},
         state' \in States \ {"victory", "defeat"}, sub' \in {"begin", "input"},
         index' \in Nat, queue' \in Seq(All), QueueIsAParty',
         state' \in Deciding \cup Menus \cup {"escape"} \/ sub' = "input" => turns < MaxTurns,
         sub' = "input" => state' = "option",
         InOrder'
  PROVE  TurnInv'
<1>1. Typed'
  BY DEF TurnInv, Typed, Steps, ending
<1>2. Scheduled'
  BY DEF TurnInv, Scheduled, ending
<1>3. Acting'
  BY DEF Acting, TargetsThere
<1>4. Ended'
  BY DEF Ended, ending
<1> QED BY <1>1, <1>2, <1>3, <1>4 DEF TurnInv

LEMMA OptionKeeps == ASSUME TurnInv, Option PROVE TurnInv'
<1>1. /\ state = "option" /\ sub = "input" /\ page.left = 0 /\ ~page.flee
      /\ result \notin {"victory", "defeat"}
  BY Reached DEF Option
<1>2. /\ UNCHANGED <<w, act, strike, page, ending, turns>> /\ index' = index /\ queue' = queue
      /\ state' \in {"actor", "auto", "escape"} /\ sub' = "begin"
  BY DEF Option, SetState, choosing
<1>3. /\ index = 0 /\ queue = <<>> /\ turns < MaxTurns /\ QueueIsAParty /\ w.party \in Seq(Actors)
  BY <1>1, FighterFields DEF TurnInv, InOrder, Scheduled, Typed
<1>4. InOrder'
  <2>1. SubSeq(w.party, 1, 0) = <<>> /\ 0 \in 0..Len(w.party)
    BY <1>3, SubSeqEmpty
  <2> QED BY <1>2, <1>3, <2>1 DEF InOrder, Deciding, Menus
<1>5. QueueIsAParty'
  BY <1>2, <1>3 DEF QueueIsAParty
<1>6. index' \in Nat /\ queue' \in Seq(All) /\ state' \in States \ {"victory", "defeat"}
  BY <1>2, <1>3 DEF States, Deciding
<1>7. w' \in Fighters /\ IsInjective(w'.party)
  BY <1>2 DEF TurnInv, Typed
<1> QED BY <1>1, <1>2, <1>3, <1>4, <1>5, <1>6, <1>7, Menu

LEMMA BrowseKeeps == ASSUME TurnInv, Browse PROVE TurnInv'
<1>1. /\ state \in Menus /\ page.left = 0 /\ ~page.flee
      /\ result \notin {"victory", "defeat"}
  BY Reached DEF Browse, Menus
<1>2. /\ UNCHANGED <<w, act, strike, page, ending, turns>> /\ index' = index /\ queue' = queue /\ active' = active
      /\ sub' = "begin" /\ previous' = state
  BY DEF Browse, SetState, choosing
<1>3. /\ state' \in Menus
      /\ state' = "enemytarget" => state \in {"command", "skill"}
      /\ state' = "allytarget" => state \in {"skill", "item"}
  <2>1. CASE \/ At("command", "begin") /\ (SetState("skill") \/ SetState("item") \/ SetState("enemytarget"))
             \/ At("skill", "begin") /\ (SetState("enemytarget") \/ SetState("allytarget"))
             \/ At("item", "begin") /\ SetState("allytarget")
             \/ (At("skill", "begin") \/ At("item", "begin")) /\ SetState("command")
    BY <2>1 DEF At, SetState, Menus
  <2>2. CASE (At("enemytarget", "begin") \/ At("allytarget", "begin")) /\ SetState(previous)
    <3>1. previous \in {"command", "skill", "item"}
      BY <2>2 DEF At, TurnInv, InOrder
    <3> QED BY <2>2, <3>1 DEF At, SetState, Menus
  <2> QED BY <2>1, <2>2 DEF Browse
<1>4. /\ index \in 1..Len(w.party) /\ active = w.party[index] /\ queue = SubSeq(w.party, 1, index - 1)
      /\ turns < MaxTurns /\ QueueIsAParty /\ queue \in Seq(All) /\ index \in Nat
  BY <1>1 DEF TurnInv, InOrder, Scheduled, Typed
<1>5. InOrder'
  BY <1>2, <1>3, <1>4 DEF InOrder, Deciding, Menus
<1>6. QueueIsAParty'
  BY <1>2, <1>4 DEF QueueIsAParty
<1>7. state' \in States \ {"victory", "defeat"}
  BY <1>3 DEF States, Menus
<1>8. w' \in Fighters /\ IsInjective(w'.party)
  BY <1>2 DEF TurnInv, Typed
<1> QED BY <1>1, <1>2, <1>4, <1>5, <1>6, <1>7, <1>8, Menu

\* The next of the party gets an action and joins the queue.
LEMMA Joins ==
  ASSUME w \in Fighters, IsInjective(w.party), QueueIsAParty,
         NEW n \in Nat, n < Len(w.party), queue = SubSeq(w.party, 1, n),
         NEW algo \in Algos, algo # Null
  PROVE  LET a == w.party[n + 1]
             u == [w EXCEPT !.algo[a] = algo]
             q == Append(queue, a) IN
         /\ u \in Fighters /\ u.party = w.party
         /\ q \in Seq(All) /\ q = SubSeq(w.party, 1, n + 1)
         /\ IsInjective(q) /\ \A b \in ToSet(q) : u.algo[b] # Null
<1> DEFINE a == w.party[n + 1]
           u == [w EXCEPT !.algo[a] = algo]
           q == Append(queue, a)
<1>1. w.party \in Seq(Actors) /\ w.party \in Seq(All) /\ n \in 0..Len(w.party) /\ n + 1 \in 1..Len(w.party)
  BY FighterFields, SeqMonotonic DEF All
<1>2. a \in All /\ queue \in Seq(All) /\ q = SubSeq(w.party, 1, n + 1)
  <2>1. \A i \in 1..Len(w.party) : w.party[i] \in All
    BY <1>1, Elements
  <2> QED BY <2>1, <1>1, FirstOnes
<1> HIDE DEF a
<1>3. u \in Fighters /\ u.party = w.party /\ u.algo = [w.algo EXCEPT ![a] = algo]
  BY <1>2, NewAlgo
<1>4. q \in Seq(All) /\ IsInjective(q) /\ \A x : x \in ToSet(q) <=> x \in ToSet(queue) \/ x = a
  <2>1. a \notin ToSet(queue)
    BY <1>1, FirstOnes DEF a
  <2>2. IsInjective(queue)
    BY DEF QueueIsAParty
  <2>3. a \in All /\ queue \in Seq(All)
    BY <1>2
  <2>4. \A s \in Seq(All), e \in All :
           /\ Append(s, e) \in Seq(All)
           /\ \A x : x \in ToSet(Append(s, e)) <=> x \in ToSet(s) \/ x = e
           /\ IsInjective(s) /\ e \notin ToSet(s) => IsInjective(Append(s, e))
    BY Appended
  <2> QED BY <2>1, <2>2, <2>3, <2>4
<1> HIDE DEF u, q
<1>5. ASSUME NEW b \in ToSet(q) PROVE u.algo[b] # Null
  <2>1. b \in All /\ (b = a \/ w.algo[b] # Null)
    BY <1>2, <1>4, Elements DEF QueueIsAParty
  <2>2. u.algo[b] = IF b = a THEN algo ELSE w.algo[b]
    BY <2>1, <1>3, FighterFields
  <2> QED BY <2>1, <2>2
<1> QED BY <1>2, <1>3, <1>4, <1>5 DEF a, u, q

LEMMA SelectKeeps ==
  ASSUME TurnInv, state \in Menus, page.left = 0, ~page.flee, result \notin {"victory", "defeat"},
         NEW algo \in Acts, Select(algo)
  PROVE  TurnInv'
<1> DEFINE n == index - 1
<1>1. /\ w \in Fighters /\ IsInjective(w.party) /\ QueueIsAParty
      /\ index \in 1..Len(w.party) /\ active = w.party[index] /\ queue = SubSeq(w.party, 1, index - 1)
      /\ turns < MaxTurns
  BY DEF TurnInv, Typed, InOrder, Scheduled
<1>2. n \in Nat /\ n < Len(w.party) /\ n + 1 = index
  BY <1>1
<1>3. algo \in Algos /\ algo # Null
  BY Null0 DEF Algos
<1>4. /\ w' = [w EXCEPT !.algo[active] = algo] /\ queue' = Append(queue, active) /\ index' = index
      /\ state' = "actor" /\ sub' = "begin" /\ UNCHANGED <<act, strike, page, ending, turns>>
  BY DEF Select, SetState
<1>5. queue = SubSeq(w.party, 1, n) /\ w' = [w EXCEPT !.algo[w.party[n + 1]] = algo]
      /\ queue' = Append(queue, w.party[n + 1])
  BY <1>1, <1>2, <1>4
<1> HIDE DEF n
<1>6. /\ w' \in Fighters /\ w'.party = w.party
      /\ queue' \in Seq(All) /\ queue' = SubSeq(w.party, 1, n + 1)
      /\ IsInjective(queue') /\ \A b \in ToSet(queue') : w'.algo[b] # Null
  BY <1>1, <1>2, <1>3, <1>5, Joins
<1>7. InOrder'
  <2>1. index \in 0..Len(w.party)
    BY <1>1
  <2> QED BY <2>1, <1>2, <1>4, <1>6 DEF InOrder, Deciding, Menus
<1>8. QueueIsAParty'
  BY <1>6 DEF QueueIsAParty
<1>9. state' \in States \ {"victory", "defeat"} /\ index' \in Nat
  BY <1>1, <1>4 DEF States, Deciding
<1> QED BY <1>1, <1>4, <1>6, <1>7, <1>8, <1>9, Menu

LEMMA SelectedKeeps == ASSUME TurnInv, DefendSelected \/ EnemySelected \/ AllySelected PROVE TurnInv'
<1>1. w \in Fighters /\ w.party \in Seq(Actors)
  BY FighterFields DEF TurnInv, Typed
<1>2. CASE DefendSelected
  <2>1. At("command", "begin")
    BY <1>2 DEF DefendSelected
  <2>2. active \in All
    <3>1. index \in 1..Len(w.party) /\ active = w.party[index]
      BY <2>1, Reached DEF TurnInv, InOrder, Menus
    <3> QED BY <3>1, <1>1, Elements DEF All
  <2>3. [type |-> "defend", target |-> active] \in Acts
    BY <2>2 DEF Acts
  <2> QED BY <1>2, <2>1, <2>3, Reached, SelectKeeps DEF DefendSelected, Menus
<1>3. CASE EnemySelected
  <2>1. At("enemytarget", "begin")
    BY <1>3 DEF EnemySelected
  <2>2. previous \in {"command", "skill"}
    BY <2>1, Reached DEF TurnInv, InOrder
  <2>3. PICK t \in Active(w, "enemies") :
           Select([type |-> IF previous = "command" THEN "attack" ELSE previous, target |-> t])
    BY <1>3 DEF EnemySelected
  <2>4. t \in All
    BY DEF Active, Battle, All, Enemies
  <2>5. [type |-> IF previous = "command" THEN "attack" ELSE previous, target |-> t] \in Acts
    BY <2>2, <2>4 DEF Acts
  <2> QED BY <2>1, <2>3, <2>5, Reached, SelectKeeps DEF Menus
<1>4. CASE AllySelected
  <2>1. At("allytarget", "begin")
    BY <1>4 DEF AllySelected
  <2>2. previous \in {"skill", "item"}
    BY <2>1, Reached DEF TurnInv, InOrder
  <2>3. PICK t \in ToSet(w.party) :
           Select([type |-> IF previous = "skill" THEN "heal" ELSE previous, target |-> t])
    BY <1>4 DEF AllySelected
  <2>4. t \in All
    BY <1>1, Elements DEF All
  <2>5. [type |-> IF previous = "skill" THEN "heal" ELSE previous, target |-> t] \in Acts
    BY <2>2, <2>4 DEF Acts
  <2> QED BY <2>1, <2>3, <2>5, Reached, SelectKeeps DEF Menus
<1> QED BY <1>2, <1>3, <1>4

LEMMA SelectNextActorKeeps == ASSUME TurnInv, SelectNextActor, BattleAssumption PROVE TurnInv'
<1> DEFINE actor == w.party[index + 1]
           own == IF Forced(w, actor) # {} THEN Forced(w, actor)
                  ELSE IF state = "auto" \/ actor \in Autos
                       THEN AiActions(w, actor, {"attack", "skill"}) ELSE {}
<1>1. /\ state \in Deciding /\ sub = "begin" /\ page.left = 0 /\ ~page.flee
      /\ result \notin {"victory", "defeat"}
  BY Reached DEF SelectNextActor, Deciding
<1>2. /\ w \in Fighters /\ IsInjective(w.party) /\ QueueIsAParty /\ turns < MaxTurns
      /\ queue = SubSeq(w.party, 1, index) /\ index \in Nat /\ queue \in Seq(All)
      /\ w.party \in Seq(Actors)
  BY <1>1, FighterFields DEF TurnInv, Typed, InOrder, Scheduled
<1>3. /\ index < Len(w.party) /\ index' = index + 1 /\ active' = actor
      /\ UNCHANGED <<act, strike, page, ending, turns>>
      /\ \/ own = {} /\ SetState("command") /\ UNCHANGED <<w, queue>>
         \/ /\ \E algo \in own : w' = [w EXCEPT !.algo[actor] = algo]
            /\ queue' = Append(queue, actor) /\ sub' = sub /\ state' = state
  <2>1. index \in 0..Len(w.party)
    BY <1>1 DEF TurnInv, InOrder
  <2> HIDE DEF own
  <2> QED BY <2>1 DEF SelectNextActor, own, Stay
<1>4. index + 1 \in 1..Len(w.party)
  BY <1>2, <1>3
<1>5. actor \in All
  BY <1>2, <1>4, Elements DEF All
<1> HIDE DEF actor
<1>6. own \subseteq Acts \cup {NoAction}
  BY <1>2, <1>5, ForcedOnes, AiChoices DEF BattleAssumption
<1> HIDE DEF own
<1>7. CASE SetState("command") /\ UNCHANGED <<w, queue>>
  <2>1. state' = "command" /\ sub' = "begin" /\ w' = w /\ queue' = queue
    BY <1>7 DEF SetState
  <2>2. index' - 1 = index
    BY <1>2, <1>3
  <2>3. InOrder'
    BY <1>2, <1>3, <1>4, <2>1, <2>2 DEF InOrder, Deciding, Menus, actor
  <2>4. QueueIsAParty'
    BY <1>2, <2>1 DEF QueueIsAParty
  <2>5. state' \in States \ {"victory", "defeat"} /\ index' \in Nat
    BY <1>2, <1>3, <2>1 DEF States, Menus
  <2> QED BY <1>1, <1>2, <1>3, <2>1, <2>3, <2>4, <2>5, Menu
<1>8. ASSUME NEW algo \in own, w' = [w EXCEPT !.algo[actor] = algo],
             queue' = Append(queue, actor), sub' = sub, state' = state
      PROVE  TurnInv'
  <2>1. algo \in Algos /\ algo # Null
    BY <1>6, Null0 DEF Algos
  <2>2. /\ w' \in Fighters /\ w'.party = w.party
        /\ queue' \in Seq(All) /\ queue' = SubSeq(w.party, 1, index + 1)
        /\ IsInjective(queue') /\ \A b \in ToSet(queue') : w'.algo[b] # Null
    BY <1>2, <1>3, <1>8, <2>1, Joins DEF actor
  <2>3. InOrder'
    <3>1. index + 1 \in 0..Len(w.party)
      BY <1>4
    <3>2. state' \in Deciding /\ state' \notin Menus /\ state' \notin {"option", "escape", "enemytarget", "allytarget"}
      BY <1>1, <1>8 DEF Deciding, Menus
    <3> QED BY <1>3, <2>2, <3>1, <3>2 DEF InOrder
  <2>4. QueueIsAParty'
    BY <2>2 DEF QueueIsAParty
  <2>5. state' \in States \ {"victory", "defeat"} /\ index' \in Nat
    BY <1>1, <1>2, <1>3, <1>8 DEF States, Deciding
  <2> QED BY <1>1, <1>2, <1>3, <1>8, <2>2, <2>3, <2>4, <2>5, Menu
<1> QED BY <1>3, <1>7, <1>8

\* The actors' actions and those of the troop, without anybody twice.
LEMMA TwoSides ==
  ASSUME NEW q \in Seq(Actors), IsInjective(q), BattlersAssumption
  PROVE  /\ q \o Troop \in Seq(All) /\ IsInjective(q \o Troop)
         /\ \A b \in ToSet(q \o Troop) : b \in ToSet(q) \/ b \in Enemies
<1> DEFINE r == q \o Troop
<1>1. /\ Troop \in Seq(Enemies) /\ IsInjective(Troop) /\ Actors \cap Enemies = {}
      /\ Troop \in Seq(All) /\ q \in Seq(All)
  BY SeqMonotonic DEF BattlersAssumption, All
<1>2. /\ r \in Seq(All) /\ Len(r) = Len(q) + Len(Troop)
      /\ \A i \in 1..(Len(q) + Len(Troop)) : r[i] = IF i <= Len(q) THEN q[i] ELSE Troop[i - Len(q)]
  BY <1>1, ConcatProperties
<1> HIDE DEF r
<1>3. /\ Len(q) \in Nat /\ Len(Troop) \in Nat
      /\ DOMAIN q = 1..Len(q) /\ DOMAIN Troop = 1..Len(Troop) /\ DOMAIN r = 1..(Len(q) + Len(Troop))
  BY <1>1, <1>2
<1>4. \A i \in DOMAIN r : \/ i \in DOMAIN q /\ r[i] = q[i]
                          \/ ~(i <= Len(q)) /\ i - Len(q) \in DOMAIN Troop /\ r[i] = Troop[i - Len(q)]
  BY <1>2, <1>3
<1>5. (\A i \in DOMAIN q : q[i] \in Actors) /\ (\A i \in DOMAIN Troop : Troop[i] \in Enemies)
  BY <1>1
<1>6. ASSUME NEW i \in DOMAIN r, NEW j \in DOMAIN r, r[i] = r[j] PROVE i = j
  <2>1. CASE i \in DOMAIN q /\ r[i] = q[i] /\ j \in DOMAIN q /\ r[j] = q[j]
    BY <2>1, <1>6 DEF IsInjective
  <2>2. CASE /\ i - Len(q) \in DOMAIN Troop /\ r[i] = Troop[i - Len(q)]
             /\ j - Len(q) \in DOMAIN Troop /\ r[j] = Troop[j - Len(q)]
    <3>1. i - Len(q) = j - Len(q)
      BY <2>2, <1>1, <1>6 DEF IsInjective
    <3> QED BY <3>1, <1>3
  <2> QED BY <2>1, <2>2, <1>1, <1>4, <1>5, <1>6
<1>7. IsInjective(r)
  BY <1>6 DEF IsInjective
<1>8. \A b \in ToSet(r) : b \in ToSet(q) \/ b \in Enemies
  BY <1>4, <1>5 DEF ToSet
<1> QED BY <1>2, <1>7, <1>8 DEF r

\* In another order.
LEMMA Shuffled ==
  ASSUME NEW s \in Seq(All), IsInjective(s), NEW order \in Bijection(DOMAIN s, DOMAIN s)
  PROVE  LET q == [i \in DOMAIN s |-> s[order[i]]] IN
         q \in Seq(All) /\ IsInjective(q) /\ ToSet(q) \subseteq ToSet(s)
<1> DEFINE D == DOMAIN s
           q == [i \in D |-> s[order[i]]]
<1>1. D = 1..Len(s) /\ Len(s) \in Nat
  OBVIOUS
<1>2. order \in [D -> D] /\ IsInjective(order)
  BY DEF Bijection, Injection
<1>3. s \in [D -> All]
  BY <1>1
<1>4. q \in [D -> All]
  <2> HIDE DEF D
  <2> QED BY <1>2, <1>3
<1>5. q \in Seq(All)
  <2> HIDE DEF q, D
  <2> QED BY <1>1, <1>4, IsASeq
<1>6. IsInjective(q)
  <2> HIDE DEF D
  <2>1. DOMAIN q = D /\ DOMAIN order = D
    BY <1>2
  <2> QED BY <2>1, <1>2 DEF IsInjective, D
<1>7. ToSet(q) \subseteq ToSet(s)
  BY <1>2 DEF ToSet
<1> QED BY <1>5, <1>6, <1>7

\* A turn begins.
LEMMA StartTurnKeeps ==
  ASSUME TurnInv, StartTurn, BattleAssumption, page.left = 0, ~page.flee, turns < MaxTurns,
         result \notin {"victory", "defeat"}, queue \in Seq(Actors)
  PROVE  TurnInv'
<1> DEFINE every == IF strike THEN queue ELSE queue \o Troop
<1>1. /\ w \in Fighters /\ IsInjective(w.party) /\ IsInjective(queue) /\ queue \in Seq(All)
      /\ \A b \in ToSet(queue) : w.algo[b] # Null /\ b \in Actors
      /\ act \in Actions /\ act.at \in 0..Len(act.targets) /\ page \in PageStates /\ turns \in Nat
      /\ index \in Nat /\ strike \in BOOLEAN /\ MaxTurns \in Nat
  BY Elements DEF TurnInv, Typed, QueueIsAParty, BattleAssumption
<1>2. BattlersAssumption /\ Actors \cap Enemies = {}
  BY DEF BattleAssumption, BattlersAssumption
<1>3. /\ state' = "battle" /\ sub' = "begin" /\ turns' = turns + 1
      /\ page' = [page EXCEPT !.executed = {}]
      /\ index' = index /\ act' = act /\ strike' = strike /\ result' = result
  BY DEF StartTurn, SetState, NextTurn, ending
<1>4. PICK order \in Bijection(DOMAIN every, DOMAIN every) : queue' = [i \in DOMAIN every |-> every[order[i]]]
  BY DEF StartTurn
<1>5. /\ every \in Seq(All) /\ IsInjective(every)
      /\ \A b \in ToSet(every) : b \in ToSet(queue) \/ (~strike /\ b \in Enemies)
  <2>1. (strike => every = queue) /\ (~strike => every = queue \o Troop)
    BY Zenon
  <2>2. /\ queue \o Troop \in Seq(All) /\ IsInjective(queue \o Troop)
        /\ \A b \in ToSet(queue \o Troop) : b \in ToSet(queue) \/ b \in Enemies
    BY <1>1, <1>2, TwoSides
  <2> HIDE DEF every
  <2>3. CASE strike
    BY <2>1, <2>3, <1>1
  <2>4. CASE ~strike
    BY <2>1, <2>2, <2>4
  <2> QED BY <2>3, <2>4
<1> HIDE DEF every
<1>6. queue' \in Seq(All) /\ IsInjective(queue') /\ ToSet(queue') \subseteq ToSet(every)
  BY <1>4, <1>5, Shuffled
<1>7. /\ w' \in Fighters /\ w'.party = w.party
      /\ \A b \in All : b \in Actors => w'.algo[b] = w.algo[b]
      /\ ~strike => \A b \in Enemies : w'.algo[b] # Null
  <2>1. CASE strike
    <3>1. w' = w
      BY <2>1 DEF StartTurn
    <3> QED BY <3>1, <2>1, <1>1
  <2>2. CASE ~strike
    <3>1. PICK chosen : /\ \A e \in Enemies : chosen[e] \in AiActions(w, e, EnemyKinds)
                        /\ w' = [w EXCEPT !.algo = [b \in All |-> IF b \in Enemies THEN chosen[b] ELSE w.algo[b]]]
      BY <2>2 DEF StartTurn
    <3> DEFINE f == [b \in All |-> IF b \in Enemies THEN chosen[b] ELSE w.algo[b]]
    <3>2. \A e \in Enemies : chosen[e] \in Algos /\ chosen[e] # Null
      <4>1. \A e \in Enemies : AiActions(w, e, EnemyKinds) \subseteq Acts \cup {NoAction}
        BY <1>1, <1>2, AiChoices DEF All
      <4> QED BY <3>1, <4>1, Null0 DEF Algos
    <3>3. w.algo \in [All -> Algos]
      BY <1>1, FighterFields
    <3>4. f \in [All -> Algos] /\ \A b \in All : f[b] = IF b \in Enemies THEN chosen[b] ELSE w.algo[b]
      BY <3>2, <3>3
    <3>5. w' = [w EXCEPT !.algo = f]
      BY <3>1
    <3> HIDE DEF f
    <3>6. w' \in Fighters /\ w'.party = w.party /\ w'.algo = f
      BY <1>1, <3>4, <3>5, NewAlgos
    <3>7. Enemies \subseteq All
      BY DEF All
    <3> QED BY <3>2, <3>4, <3>6, <3>7, <1>2
  <2> QED BY <2>1, <2>2
<1>8. \A b \in ToSet(queue') : w'.algo[b] # Null
  <2>1. \A b \in ToSet(queue') : b \in All /\ (b \in ToSet(queue) \/ (~strike /\ b \in Enemies))
    BY <1>5, <1>6, Elements
  <2> QED BY <2>1, <1>1, <1>7
<1>9. page' \in PageStates /\ page'.left = 0 /\ ~page'.flee
  BY <1>1, <1>3 DEF PageStates
<1>10. Typed'
  <2>1. turns' \in 0..MaxTurns
    BY <1>1, <1>3
  <2>2. IsInjective(w'.party)
    BY <1>1, <1>7
  <2> QED BY <2>1, <2>2, <1>1, <1>3, <1>6, <1>7, <1>9 DEF Typed, States, Steps
<1>11. QueueIsAParty'
  BY <1>6, <1>8 DEF QueueIsAParty
<1>12. InOrder'
  BY <1>3 DEF InOrder, Deciding, Menus
<1>13. Scheduled'
  BY <1>3, <1>9 DEF Scheduled, Deciding, Menus
<1>14. Acting'
  BY <1>3 DEF Acting, TargetsThere
<1>15. Ended'
  BY <1>3 DEF Ended
<1> QED BY <1>10, <1>11, <1>12, <1>13, <1>14, <1>15 DEF TurnInv

LEMMA AllDecidedKeeps == ASSUME TurnInv, AllDecided, BattleAssumption PROVE TurnInv'
<1>1. /\ state \in Deciding /\ page.left = 0 /\ ~page.flee
      /\ result \notin {"victory", "defeat"} /\ StartTurn
  BY Reached DEF AllDecided, Deciding
<1>2. /\ w.party \in Seq(Actors) /\ index \in 0..Len(w.party) /\ queue = SubSeq(w.party, 1, index)
      /\ turns < MaxTurns
  BY <1>1, FighterFields DEF TurnInv, Typed, InOrder, Scheduled
<1>3. queue \in Seq(Actors)
  BY <1>2, FirstOnes
<1> QED BY <1>1, <1>2, <1>3, StartTurnKeeps

\* One step back.
LEMMA SelectPreviousActorKeeps == ASSUME TurnInv, SelectPreviousActor PROVE TurnInv'
<1> DEFINE free(k) == Restriction(w.status[w.party[k + 1]]) = "normal" /\ w.party[k + 1] \notin Autos
           before == {k \in 0..(index - 2) : k = 0 \/ free(k)}
           back == CHOOSE k \in before : \A l \in before : l <= k
<1>1. /\ state = "command" /\ page.left = 0 /\ ~page.flee /\ result \notin {"victory", "defeat"}
  BY Reached DEF SelectPreviousActor
<1>2. /\ w \in Fighters /\ IsInjective(w.party) /\ QueueIsAParty /\ queue \in Seq(All)
      /\ index \in 1..Len(w.party) /\ active = w.party[index] /\ queue = SubSeq(w.party, 1, index - 1)
      /\ turns < MaxTurns /\ w.party \in Seq(Actors)
  BY <1>1, FighterFields DEF TurnInv, Typed, InOrder, Scheduled, Menus
<1>3. UNCHANGED <<act, strike, page, ending, turns>> /\ sub' = "begin"
  BY DEF SelectPreviousActor, SetState
<1>4. \/ /\ active = w.party[1] /\ state' = "option" /\ index' = 0 /\ UNCHANGED <<w, queue>>
      \/ /\ active # w.party[1] /\ index' = back /\ Backed(back)
         /\ state' = IF free(back) THEN "actor" ELSE "option"
  <2> HIDE DEF free
  <2> QED BY DEF SelectPreviousActor, SetState, free
<1>5. DOMAIN w.party = 1..Len(w.party) /\ Len(w.party) \in Nat
  BY <1>2
<1> SUFFICES /\ w' \in Fighters /\ w'.party = w.party
             /\ queue' \in Seq(All) /\ IsInjective(queue') /\ \A b \in ToSet(queue') : w'.algo[b] # Null
             /\ \/ state' = "option" /\ index' = 0 /\ queue' = <<>>
                \/ state' = "actor" /\ index' \in 0..Len(w.party) /\ queue' = SubSeq(w.party, 1, index')
  <2>1. ASSUME /\ w' \in Fighters /\ w'.party = w.party
               /\ queue' \in Seq(All) /\ IsInjective(queue') /\ \A b \in ToSet(queue') : w'.algo[b] # Null
               /\ \/ state' = "option" /\ index' = 0 /\ queue' = <<>>
                  \/ state' = "actor" /\ index' \in 0..Len(w.party) /\ queue' = SubSeq(w.party, 1, index')
        PROVE  TurnInv'
    <3>1. InOrder'
      BY <2>1 DEF InOrder, Deciding, Menus
    <3>2. QueueIsAParty'
      BY <2>1 DEF QueueIsAParty
    <3>3. state' \in States \ {"victory", "defeat"} /\ index' \in Nat /\ IsInjective(w'.party)
      BY <2>1, <1>2 DEF States, Deciding
    <3> QED BY <1>1, <1>2, <1>3, <2>1, <3>1, <3>2, <3>3, Menu
  <2> QED BY <2>1
<1>6. CASE /\ active = w.party[1] /\ state' = "option" /\ index' = 0 /\ UNCHANGED <<w, queue>>
  <2>1. index = 1
    <3>1. 1 \in DOMAIN w.party /\ index \in DOMAIN w.party
      BY <1>2, <1>5
    <3> QED BY <3>1, <1>2, <1>6 DEF IsInjective
  <2>2. queue = <<>>
    <3>1. index - 1 = 0
      BY <2>1
    <3>2. SubSeq(w.party, 1, 0) = <<>>
      BY SubSeqEmpty
    <3> QED BY <1>2, <3>1, <3>2
  <2> QED BY <1>2, <1>6, <2>2 DEF QueueIsAParty
<1>7. CASE /\ active # w.party[1] /\ index' = back /\ Backed(back)
           /\ state' = IF free(back) THEN "actor" ELSE "option"
  <2>1. index - 2 \in Nat
    <3>1. index # 1
      BY <1>2, <1>7
    <3> QED BY <3>1, <1>2, <1>5
  <2>2. back \in 0..(index - 2) /\ (back = 0 \/ free(back))
    <3> HIDE DEF free
    <3> DEFINE T == {index - 2 - k : k \in before}
    <3>1. T \in SUBSET Nat /\ T # {} /\ before \subseteq 0..(index - 2)
      <4>1. 0 \in before
        BY <2>1
      <4>2. \A k \in 0..(index - 2) : index - 2 - k \in Nat
        BY <2>1
      <4> QED BY <4>1, <4>2
    <3>2. \A k \in before : index - 2 - k \in T
      OBVIOUS
    <3>3. \A t \in T : \E k \in before : t = index - 2 - k
      OBVIOUS
    <3> HIDE DEF T, before
    <3>4. PICK t \in T : \A u \in T : t <= u
      BY <3>1, LeastNumber
    <3>5. PICK k \in before : t = index - 2 - k
      BY <3>3
    <3>6. \A l \in before : l <= k
      <4>1. \A l \in before : t <= index - 2 - l
        BY <3>2, <3>4
      <4>2. index \in Int /\ \A l \in before : l \in Int
        BY <3>1, <1>2
      <4> QED BY <4>1, <4>2, <3>5
    <3>7. back \in before
      BY <3>6
    <3> HIDE DEF back
    <3> QED BY <3>7 DEF before
  <2> HIDE DEF free, before, back
  <2>3. back \in 0..(index - 1) /\ back \in 0..Len(w.party) /\ index - 1 \in 0..Len(w.party)
    BY <1>2, <1>5, <2>1, <2>2
  <2>4. Len(queue) = index - 1 /\ SubSeq(queue, 1, back) = SubSeq(w.party, 1, back)
    BY <1>2, <2>3, FirstOnes
  <2> DEFINE S == {queue[k] : k \in back + 1..Len(queue)}
  <2>5. queue' = SubSeq(queue, 1, back) /\ w' = Idle(w, S)
    BY <1>7 DEF Backed
  <2>6. \A i \in 1..back : queue[i] \notin S
    <3>1. \A i \in 1..back, k \in back + 1..Len(queue) : i \in DOMAIN queue /\ k \in DOMAIN queue /\ i # k
      BY <1>2, <2>3, <2>4
    <3>2. IsInjective(queue)
      BY <1>2 DEF QueueIsAParty
    <3> QED BY <3>1, <3>2 DEF IsInjective
  <2> HIDE DEF S
  <2>7. Keeps(w, Idle(w, S), SubSeq(queue, 1, back))
    <3>1. 1 \in 1..(Len(queue) + 1) /\ back \in (1 - 1)..Len(queue)
      BY <2>3, <2>4
    <3>2. IsInjective(queue) /\ \A b \in ToSet(queue) : w.algo[b] # Null
      BY <1>2 DEF QueueIsAParty
    <3> QED BY <3>1, <3>2, <1>2, <2>6, Kept
  <2>8. \/ state' = "option" /\ index' = 0 /\ queue' = <<>>
        \/ state' = "actor" /\ index' \in 0..Len(w.party) /\ queue' = SubSeq(w.party, 1, index')
    <3>1. index' = back /\ queue' = SubSeq(w.party, 1, back)
      BY <1>7, <2>4, <2>5
    <3>2. CASE free(back)
      BY <3>1, <3>2, <1>7, <2>3
    <3>3. CASE ~free(back)
      <4>1. SubSeq(w.party, 1, 0) = <<>>
        BY SubSeqEmpty
      <4> QED BY <3>1, <3>3, <4>1, <1>7, <2>2
    <3> QED BY <3>2, <3>3
  <2> QED BY <2>5, <2>7, <2>8 DEF Keeps
<1> QED BY <1>4, <1>6, <1>7

-----------------------------------------------------------------------------
(* Between the actions.                                                     *)

\* What is known at a check.
LEMMA Checks ==
  ASSUME TurnInv, Checking
  PROVE  /\ state \in {"option", "battle"} /\ sub = "begin"
         /\ page.left = 0 /\ ~page.flee /\ result \notin {"victory", "defeat"}
         /\ Keeps(w, Cleared, Left) /\ IsInjective(Cleared.party)
         /\ EndOf(Cleared) = EndOf(w) /\ \A b : Exists(Cleared, b) <=> Exists(w, b)
         /\ state = "option" => index = 0 /\ Left = <<>>
         /\ state = "battle" /\ Left # <<>> => Exists(w, Head(Left))
<1>1. /\ state \in {"option", "battle"} /\ sub = "begin"
      /\ page.left = 0 /\ ~page.flee /\ result \notin {"victory", "defeat"}
  BY Reached DEF Checking
<1>2. w \in Fighters /\ IsInjective(w.party) /\ queue \in Seq(All) /\ QueueIsAParty
  BY DEF TurnInv, Typed
<1>3. /\ Keeps(w, Cleared, Left)
      /\ state # "battle" => Left = queue
      /\ state = "battle" /\ Left # <<>> => Exists(w, Head(Left))
  BY <1>2, Checked
<1>4. Cleared.status = w.status /\ Cleared.hidden = w.hidden /\ Cleared.party = w.party
  BY <1>3 DEF Keeps
<1>5. EndOf(Cleared) = EndOf(w) /\ \A b : Exists(Cleared, b) <=> Exists(w, b)
  BY <1>4, SameSides
<1>6. state = "option" => index = 0 /\ Left = <<>>
  BY <1>3 DEF TurnInv, InOrder
<1> QED BY <1>1, <1>2, <1>3, <1>4, <1>5, <1>6

LEMMA BattleIsOverKeeps == ASSUME TurnInv, BattleIsOver PROVE TurnInv'
<1>1. /\ page.left = 0 /\ ~page.flee /\ result \notin {"victory", "defeat"}
      /\ Keeps(w, Cleared, Left) /\ IsInjective(Cleared.party) /\ EndOf(Cleared) = EndOf(w)
  BY Checks DEF BattleIsOver
<1>2. /\ EndOf(w) \in {"victory", "defeat"} /\ state' = EndOf(w) /\ sub' = "begin"
      /\ w' = Cleared /\ queue' = Left
      /\ UNCHANGED <<index, act, strike, page, place, result, turns>>
  BY DEF BattleIsOver, SetState, EndOf, ending
<1> HIDE DEF Cleared, Left
<1>3. Typed'
  BY <1>1, <1>2 DEF TurnInv, Typed, Keeps, States, Steps
<1>4. QueueIsAParty'
  BY <1>1, <1>2 DEF QueueIsAParty, Keeps
<1>5. InOrder'
  BY <1>2 DEF InOrder, Deciding, Menus
<1>6. Scheduled'
  BY <1>1, <1>2 DEF Scheduled, Deciding, Menus
<1>7. Acting'
  BY <1>2 DEF Acting, TargetsThere
<1>8. Ended'
  BY <1>1, <1>2 DEF Ended
<1> QED BY <1>3, <1>4, <1>5, <1>6, <1>7, <1>8 DEF TurnInv

LEMMA ScheduleNextPageKeeps == ASSUME TurnInv, ScheduleNextPage, BattleAssumption PROVE TurnInv'
<1> DEFINE first == CHOOSE i \in Ready(w) : \A j \in Ready(w) : i <= j
<1>1. /\ state \in {"option", "battle"} /\ sub = "begin" /\ page.left = 0 /\ ~page.flee
      /\ result \notin {"victory", "defeat"}
      /\ Keeps(w, Cleared, Left) /\ IsInjective(Cleared.party) /\ (state = "option" => index = 0 /\ Left = <<>>)
  BY Checks DEF ScheduleNextPage
<1>2. /\ page' = [page EXCEPT !.left = PageLength, !.executed = page.executed \cup {first}]
      /\ w' = Cleared /\ queue' = Left /\ sub' = sub /\ state' = state /\ Ready(w) # {}
      /\ UNCHANGED <<index, act, strike, place, result, turns>>
  BY DEF ScheduleNextPage, Stay, ending
<1>3. first \in DOMAIN Pages
  <2>1. Ready(w) \subseteq DOMAIN Pages /\ DOMAIN Pages \subseteq Nat
    BY DEF Ready, BattleAssumption
  <2>2. \E i \in Ready(w) : \A j \in Ready(w) : i <= j
    BY <1>2, <2>1, LeastNumber
  <2>3. first \in Ready(w)
    BY <2>2
  <2> QED BY <2>1, <2>3
<1> HIDE DEF first
<1>4. page' \in PageStates /\ ~page'.flee
  <2>1. page \in PageStates /\ PageLength \in Nat
    BY DEF TurnInv, Typed, BattleAssumption
  <2>2. page.executed \cup {first} \in SUBSET DOMAIN Pages /\ PageLength \in 0..PageLength
    BY <2>1, <1>3 DEF PageStates
  <2> DEFINE ran == page.executed \cup {first}
  <2>3. ran \in SUBSET DOMAIN Pages /\ page' = [page EXCEPT !.left = PageLength, !.executed = ran]
    BY <2>2, <1>2
  <2> HIDE DEF ran
  <2> QED BY <2>1, <2>2, <2>3, <1>1 DEF PageStates
<1>5. Typed'
  BY <1>1, <1>2, <1>4 DEF TurnInv, Typed, Keeps
<1>6. QueueIsAParty'
  BY <1>1, <1>2 DEF QueueIsAParty, Keeps
<1>7. InOrder'
  BY <1>1, <1>2 DEF InOrder, Deciding, Menus
<1>8. Scheduled'
  BY <1>1, <1>2, <1>4 DEF Scheduled, Deciding, Menus
<1>9. Acting'
  BY <1>1, <1>2 DEF Acting, TargetsThere
<1>10. Ended'
  BY <1>1, <1>2 DEF Ended
<1> QED BY <1>5, <1>6, <1>7, <1>8, <1>9, <1>10 DEF TurnInv

LEMMA ShowOptionsKeeps == ASSUME TurnInv, ShowOptions PROVE TurnInv'
<1>1. /\ state = "option" /\ page.left = 0 /\ ~page.flee /\ result \notin {"victory", "defeat"}
  BY Checks DEF ShowOptions
<1>2. /\ w \in Fighters /\ IsInjective(w.party) /\ index = 0 /\ queue = <<>> /\ QueueIsAParty
      /\ w.party \in Seq(Actors)
  BY <1>1, FighterFields DEF TurnInv, Typed, InOrder
<1>3. /\ turns < MaxTurns /\ UNCHANGED <<w, act, strike, page, ending, turns>>
      /\ index' = index /\ queue' = queue
      /\ \/ sub' = "input" /\ state' = "option"
         \/ sub' = "begin" /\ state' = "actor"
  BY <1>1 DEF ShowOptions, SetState, Stay, choosing
<1>4. InOrder'
  <2>1. SubSeq(w.party, 1, 0) = <<>> /\ 0 \in 0..Len(w.party)
    BY <1>2, SubSeqEmpty
  <2> QED BY <1>2, <1>3, <2>1 DEF InOrder, Deciding, Menus
<1>5. QueueIsAParty'
  BY <1>2, <1>3 DEF QueueIsAParty
<1>6. index' \in Nat /\ queue' \in Seq(All) /\ state' \in States \ {"victory", "defeat"}
  BY <1>2, <1>3 DEF States, Deciding
<1> QED BY <1>1, <1>2, <1>3, <1>4, <1>5, <1>6, Menu

LEMMA TurnEndsKeeps == ASSUME TurnInv, TurnEnds PROVE TurnInv'
<1>1. /\ page.left = 0 /\ ~page.flee /\ result \notin {"victory", "defeat"}
      /\ Keeps(w, Cleared, Left) /\ IsInjective(Cleared.party)
  BY Checks DEF TurnEnds
<1>2. /\ UNCHANGED <<act, page, ending, turns>> /\ strike' = FALSE
      /\ w' = Cleared /\ queue' = <<>> /\ index' = 0 /\ state' = "option" /\ sub' = "begin"
  BY DEF TurnEnds, SetState
<1>3. w' \in Fighters /\ IsInjective(w'.party)
  BY <1>1, <1>2 DEF Keeps
<1>4. InOrder'
  BY <1>2 DEF InOrder, Deciding, Menus
<1>5. QueueIsAParty'
  BY <1>2 DEF QueueIsAParty, IsInjective, ToSet
<1>6. index' \in Nat /\ queue' \in Seq(All) /\ state' \in States \ {"victory", "defeat"}
  BY <1>2 DEF States
<1>7. state' \notin Deciding \cup Menus \cup {"escape"} /\ sub' # "input"
  BY <1>2 DEF Deciding, Menus
<1> QED BY <1>1, <1>2, <1>3, <1>4, <1>5, <1>6, <1>7, Menu

LEMMA BeginActionKeeps == ASSUME TurnInv, BeginAction, BattleAssumption PROVE TurnInv'
<1> DEFINE src == Head(Left)
<1>1. /\ page.left = 0 /\ ~page.flee /\ result \notin {"victory", "defeat"}
      /\ Keeps(w, Cleared, Left) /\ IsInjective(Cleared.party)
      /\ \A b : Exists(Cleared, b) <=> Exists(w, b)
      /\ EndOf(Cleared) = EndOf(w)
  BY Checks DEF BeginAction
<1>2. /\ state = "battle" /\ state' = state /\ sub' = "start" /\ queue' = Left /\ Left # <<>>
      /\ UNCHANGED <<index, strike, page, place, result, turns>> /\ EndOf(w) = "none"
  BY DEF BeginAction, Stay, ending, GoesOn
<1>3. PICK algo \in Prepared(Cleared, src) :
         /\ w' = [Cleared EXCEPT !.algo[src] = algo]
         /\ act' = [NoAct EXCEPT !.src = src, !.algo = algo]
  BY DEF BeginAction
<1>4. src \in ToSet(Left) /\ src \in All
  <2>1. Left \in Seq(All) /\ Left # <<>>
    BY <1>1, <1>2 DEF Keeps
  <2> HIDE DEF Left
  <2>2. Len(Left) > 0 /\ 1 \in DOMAIN Left /\ Head(Left) = Left[1]
    BY <2>1
  <2> QED BY <2>1, <2>2 DEF ToSet
<1>5. Exists(w, src)
  BY <1>2, Checks DEF BeginAction
<1> HIDE DEF src
<1>6. algo \in Acts \cup {NoAction}
  <2>1. Cleared \in Fighters /\ Cleared.algo[src] # Null
    BY <1>1, <1>4 DEF Keeps
  <2> HIDE DEF Cleared
  <2> QED BY <2>1, <1>3, <1>4, PreparedOnes DEF BattleAssumption
<1>7. algo \in Algos /\ algo # Null
  BY <1>6, Null0 DEF Algos
<1>8. /\ w' \in Fighters /\ Evolves(Cleared, w')
      /\ w'.status = Cleared.status /\ w'.hidden = Cleared.hidden /\ w'.party = Cleared.party
  <2>1. Cleared \in Fighters
    BY <1>1 DEF Keeps
  <2> HIDE DEF Cleared
  <2> QED BY <2>1, <1>3, <1>4, <1>7, NewAlgo
<1>9. act' \in Actions /\ act'.at \in 0..Len(act'.targets) /\ act'.src = src /\ act'.algo = algo
  <2>1. act' = [src |-> src, algo |-> algo, targets |-> <<>>, at |-> 0, hit |-> 0]
    BY <1>3 DEF NoAct
  <2> QED BY <2>1, <1>4, <1>7 DEF Actions
<1>10. Exists(w', src) /\ EndOf(w') = "none"
  <2> HIDE DEF Cleared
  <2> QED BY <1>1, <1>2, <1>5, <1>8, SameSides
<1> HIDE DEF Cleared, Left
<1>11. Typed'
  BY <1>1, <1>2, <1>8, <1>9 DEF TurnInv, Typed, Keeps, Steps
<1>12. QueueIsAParty'
  <2>1. \A b \in ToSet(Left) : b \in All
    BY <1>1, Elements DEF Keeps
  <2> QED BY <2>1, <1>1, <1>2, <1>8 DEF QueueIsAParty, Keeps, Evolves
<1>13. InOrder'
  BY <1>2 DEF InOrder, Deciding, Menus
<1>14. Scheduled'
  BY <1>1, <1>2 DEF Scheduled, Deciding, Menus
<1>15. Acting'
  <2>1. Active(w', "allies") # {} /\ Active(w', "enemies") # {}
    BY <1>10, BothThere
  <2>2. page'.left = 0 /\ queue' # <<>> /\ act'.src \in All /\ act'.algo # Null
    BY <1>1, <1>2, <1>4, <1>7, <1>9
  <2> QED BY <2>1, <2>2, <1>2, <1>9, <1>10 DEF Acting, TargetsThere
<1>16. Ended'
  BY <1>1, <1>2 DEF Ended
<1> QED BY <1>11, <1>12, <1>13, <1>14, <1>15, <1>16 DEF TurnInv

-----------------------------------------------------------------------------
(* One action.                                                              *)

\* An action goes on.
LEMMA GoesOnActing ==
  ASSUME TurnInv, state = "battle", page.left = 0, ~page.flee, result \notin {"victory", "defeat"},
         UNCHANGED <<state, index, queue, strike, page, place, result, turns>>,
         sub' \in {"usage", "execute", "finished"},
         Evolves(w, w'), act' \in Actions, act'.at \in 0..Len(act'.targets), Acting'
  PROVE  TurnInv'
<1>1. w' \in Fighters /\ w'.party = w.party
  BY DEF Evolves
<1>2. Typed'
  BY <1>1 DEF TurnInv, Typed, Steps
<1>3. QueueIsAParty'
  <2>1. queue \in Seq(All) /\ QueueIsAParty
    BY DEF TurnInv, Typed
  <2>2. \A b \in ToSet(queue) : b \in All
    BY <2>1, Elements
  <2> QED BY <2>1, <2>2 DEF QueueIsAParty, Evolves
<1>4. InOrder'
  BY DEF InOrder, Deciding, Menus
<1>5. Scheduled'
  BY DEF Scheduled, Deciding, Menus
<1>6. Ended'
  BY DEF Ended
<1> QED BY <1>2, <1>3, <1>4, <1>5, <1>6 DEF TurnInv

LEMMA StartActionKeeps == ASSUME TurnInv, StartAction, BattleAssumption PROVE TurnInv'
<1>1. /\ state = "battle" /\ sub = "start" /\ page.left = 0 /\ ~page.flee
      /\ result \notin {"victory", "defeat"}
  BY Reached DEF StartAction
<1>2. /\ w \in Fighters /\ queue # <<>> /\ act \in Actions /\ act.at \in 0..Len(act.targets)
      /\ act.src \in All /\ act.algo # Null
      /\ Active(w, "allies") # {} /\ Active(w, "enemies") # {}
  BY <1>1 DEF TurnInv, Typed, Acting
<1>3. /\ UNCHANGED <<state, index, queue, strike, page, place, result, turns>> /\ act' = act
      /\ sub' = IF act.algo = NoAction THEN "finished" ELSE "usage"
  BY DEF StartAction, Stay, choosing, ending
<1>4. PICK healed \in BattleStateHeal(w, act.src) : w' = ApplyConditions(healed, act.src)
  BY DEF StartAction
<1>5. /\ Evolves(w, w') /\ w'.hidden = w.hidden
      /\ \A b \in All : w.status[b] # "dead" => w'.status[b] # "dead"
  BY <1>2, <1>4, Begins DEF BattleAssumption
<1>6. Active(w', "allies") # {} /\ Active(w', "enemies") # {}
  <2>1. w'.party = w.party /\ ToSet(w.party) \subseteq Actors /\ BattlersAssumption
    BY <1>2, <1>5, FighterFields, Elements DEF Evolves, BattleAssumption
  <2> QED BY <2>1, <1>2, <1>5, StillThere DEF Sides
<1>7. act.algo # NoAction => act.algo \in Acts
  BY <1>2 DEF Actions, Algos
<1>8. Acting'
  BY <1>1, <1>2, <1>3, <1>6, <1>7 DEF Acting, TargetsThere
<1> QED BY <1>1, <1>2, <1>3, <1>5, <1>8, GoesOnActing

LEMMA UseActionKeeps == ASSUME TurnInv, UseAction, BattleAssumption PROVE TurnInv'
<1> DEFINE found == Targets(w, act.algo)
<1>1. /\ state = "battle" /\ sub = "usage" /\ page.left = 0 /\ ~page.flee
      /\ result \notin {"victory", "defeat"}
  BY Reached DEF UseAction
<1>2. /\ w \in Fighters /\ queue # <<>> /\ act \in Actions
      /\ act.src \in All /\ act.algo \in Acts
      /\ Active(w, "allies") # {} /\ Active(w, "enemies") # {} /\ BattlersAssumption
  BY <1>1 DEF TurnInv, Typed, Acting, BattleAssumption
<1>3. /\ UNCHANGED <<state, index, queue, strike, page, place, result, turns>>
      /\ act' = [act EXCEPT !.targets = found.targets, !.at = found.at]
      /\ w' = Paid(w, act.src, act.algo) /\ sub' = "execute"
  BY DEF UseAction, Stay, choosing, ending
<1>4. /\ found.targets \in Seq(All) /\ found.at \in 0..Len(found.targets)
      /\ act.algo.type \in {"attack", "explode", "skill"} /\ found.at = 0
           => act.algo.target \in Actors \ ToSet(w.party)
  BY <1>2, TargetFound
<1>5. found.at \in Nat
  BY <1>4
<1> HIDE DEF found
<1>6. /\ act' \in Actions /\ act'.src = act.src /\ act'.algo = act.algo
      /\ act'.targets = found.targets /\ act'.at = found.at
  BY <1>2, <1>3, <1>4, <1>5 DEF Actions
<1>7. Evolves(w, w')
  BY <1>2, <1>3, Pays
<1>8. Acting'
  <2>1. w'.party = w.party
    BY <1>7 DEF Evolves
  <2> QED BY <2>1, <1>1, <1>2, <1>3, <1>4, <1>6 DEF Acting, TargetsThere
<1> QED BY <1>1, <1>3, <1>4, <1>6, <1>7, <1>8, GoesOnActing

LEMMA ExecuteActionKeeps == ASSUME TurnInv, ExecuteAction, BattleAssumption PROVE TurnInv'
<1> DEFINE gone == Gone(w, act.src, act.algo)
<1>1. /\ state = "battle" /\ sub = "execute" /\ page.left = 0 /\ ~page.flee
      /\ result \notin {"victory", "defeat"}
  BY Reached DEF ExecuteAction
<1>2. /\ w \in Fighters /\ queue # <<>> /\ act \in Actions /\ act.at \in 0..Len(act.targets)
      /\ act.targets \in Seq(All) /\ act.src \in All /\ BattlersAssumption
  BY <1>1 DEF TurnInv, Typed, Acting, Actions, BattleAssumption
<1>3. /\ UNCHANGED <<state, index, queue, strike, page, place, result, turns>>
      /\ act' = act /\ sub' = "finished"
      /\ w' \in IF act.at = 0 THEN {gone} ELSE Struck(gone, act.src, act.algo, act.targets[act.at])
  BY DEF ExecuteAction, Stay, choosing, ending
<1>4. Evolves(w, gone)
  BY <1>2, Goes
<1> HIDE DEF gone
<1>5. Evolves(w, w')
  <2>1. CASE act.at = 0
    BY <2>1, <1>3, <1>4
  <2>2. CASE act.at # 0
    <3>1. act.targets[act.at] \in All
      BY <2>2, <1>2
    <3>2. gone \in Fighters
      BY <1>4 DEF Evolves
    <3>3. Evolves(gone, w')
      BY <2>2, <3>1, <3>2, <1>2, <1>3, Strikes
    <3> QED BY <3>3, <1>4, EvolvesAgain
  <2> QED BY <2>1, <2>2
<1>6. Acting'
  BY <1>1, <1>2, <1>3 DEF Acting, TargetsThere
<1> QED BY <1>1, <1>2, <1>3, <1>5, <1>6, GoesOnActing

LEMMA NextTargetKeeps == ASSUME TurnInv, NextTarget, BattleAssumption PROVE TurnInv'
<1> DEFINE next == IF act.at = 0 THEN 0 ELSE NextValid(w, act.algo, act.targets, act.at)
<1>1. /\ state = "battle" /\ sub = "finished" /\ page.left = 0 /\ ~page.flee
      /\ result \notin {"victory", "defeat"}
  BY Reached DEF NextTarget
<1>2. /\ w \in Fighters /\ queue # <<>> /\ act \in Actions /\ act.at \in 0..Len(act.targets)
      /\ act.targets \in Seq(All) /\ act.src \in All /\ act.at \in Nat /\ act.hit \in Nat
  BY <1>1 DEF TurnInv, Typed, Acting, Actions
<1>3. /\ UNCHANGED <<w, state, index, queue, strike, page, place, result, turns>>
      /\ act' = Following /\ act'.at # 0 /\ sub' = "execute"
  BY DEF NextTarget, Stay, choosing, ending
<1>4. act' = [act EXCEPT !.hit = act.hit + 1] \/ act' = [act EXCEPT !.at = next, !.hit = 0]
  BY <1>3 DEF Following
<1>5. next \in 0..Len(act.targets)
  BY <1>2, FirstValid
<1>6. next \in Nat
  BY <1>5, <1>2
<1> HIDE DEF next
<1>7. /\ act' \in Actions /\ act'.targets = act.targets /\ act'.src = act.src
      /\ (act'.at = act.at \/ act'.at = next)
  <2> DEFINE again == act.hit + 1
  <2>1. again \in Nat /\ 0 \in Nat
    BY <1>2
  <2> HIDE DEF again
  <2>2. CASE act' = [act EXCEPT !.hit = again]
    BY <2>1, <2>2, <1>2 DEF Actions
  <2>3. CASE act' = [act EXCEPT !.at = next, !.hit = 0]
    BY <2>1, <2>3, <1>2, <1>6 DEF Actions
  <2> QED BY <2>2, <2>3, <1>4 DEF again
<1>8. Evolves(w, w')
  BY <1>2, <1>3, EvolvesAgain
<1>9. Acting'
  BY <1>1, <1>2, <1>3, <1>7 DEF Acting, TargetsThere
<1>10. act'.at \in 0..Len(act'.targets)
  BY <1>2, <1>5, <1>7
<1> QED BY <1>1, <1>3, <1>7, <1>8, <1>9, <1>10, GoesOnActing

LEMMA RemoveCurrentActionKeeps == ASSUME TurnInv, RemoveCurrentAction PROVE TurnInv'
<1> DEFINE first == Head(queue)
<1>1. /\ state = "battle" /\ sub = "finished" /\ page.left = 0 /\ ~page.flee
      /\ result \notin {"victory", "defeat"}
  BY Reached DEF RemoveCurrentAction
<1>2. /\ w \in Fighters /\ IsInjective(w.party) /\ queue \in Seq(All) /\ queue # <<>> /\ IsInjective(queue)
      /\ \A b \in ToSet(queue) : w.algo[b] # Null
  BY <1>1 DEF TurnInv, Typed, Acting, QueueIsAParty
<1>3. /\ UNCHANGED <<state, index, strike, page, place, result, turns>>
      /\ w' = [w EXCEPT !.algo[first] = Null] /\ queue' = Tail(queue)
      /\ act' = NoAct /\ sub' = "begin"
  BY DEF RemoveCurrentAction, Stay, ending
<1>4. /\ queue' \in Seq(All) /\ Len(queue') = Len(queue) - 1 /\ Len(queue) \in Nat /\ Len(queue) > 0
      /\ \A i \in 1..(Len(queue) - 1) : queue'[i] = queue[i + 1]
      /\ first = queue[1] /\ first \in All
  BY <1>2, <1>3
<1>5. IsInjective(queue') /\ \A b \in ToSet(queue') : b \in ToSet(queue) /\ b # first /\ b \in All
  <2>1. DOMAIN queue' = 1..(Len(queue) - 1) /\ DOMAIN queue = 1..Len(queue)
    BY <1>2, <1>4
  <2>2. \A i \in DOMAIN queue' : i + 1 \in DOMAIN queue /\ i + 1 # 1 /\ 1 \in DOMAIN queue
    BY <1>4, <2>1
  <2>3. \A i \in DOMAIN queue' : queue'[i] = queue[i + 1] /\ queue[i + 1] # queue[1]
    BY <1>2, <1>4, <2>1, <2>2 DEF IsInjective
  <2>4. IsInjective(queue')
    <3> SUFFICES ASSUME NEW i \in DOMAIN queue', NEW j \in DOMAIN queue', queue'[i] = queue'[j]
                 PROVE  i = j
      BY DEF IsInjective
    <3>1. i + 1 = j + 1
      BY <1>2, <2>2, <2>3 DEF IsInjective
    <3> QED BY <3>1, <2>1
  <2>5. \A b \in ToSet(queue') : b \in ToSet(queue) /\ b # first
    BY <1>4, <2>2, <2>3 DEF ToSet
  <2>6. ToSet(queue) \subseteq All
    BY <1>2, Elements
  <2> QED BY <2>4, <2>5, <2>6
<1> HIDE DEF first
<1>6. w' \in Fighters /\ w'.algo = [w.algo EXCEPT ![first] = Null] /\ w'.party = w.party
  BY <1>2, <1>3, <1>4, Null0, NewAlgo
<1>7. QueueIsAParty'
  <2>1. \A b \in All : w'.algo[b] = IF b = first THEN Null ELSE w.algo[b]
    BY <1>2, <1>6, FighterFields
  <2> QED BY <2>1, <1>2, <1>5 DEF QueueIsAParty
<1>8. act' \in Actions /\ act'.at \in 0..Len(act'.targets)
  BY <1>3, Null0 DEF NoAct, Actions
<1>9. Typed'
  BY <1>2, <1>3, <1>4, <1>6, <1>8 DEF TurnInv, Typed, Steps
<1>10. InOrder'
  BY <1>1, <1>3 DEF InOrder, Deciding, Menus
<1>11. Scheduled'
  BY <1>1, <1>3 DEF Scheduled, Deciding, Menus
<1>12. Acting'
  BY <1>3 DEF Acting, TargetsThere
<1>13. Ended'
  BY <1>1, <1>3 DEF Ended
<1> QED BY <1>7, <1>9, <1>10, <1>11, <1>12, <1>13 DEF TurnInv

-----------------------------------------------------------------------------
(* The ends, and the frames.                                                *)

\* The battle is left, or only shown for longer.
LEMMA Leaves ==
  ASSUME TurnInv, UNCHANGED <<w, state, sub, previous, choosing, act, strike, page, turns>>,
         place' = "left" /\ (result' = state \/ result' \notin {"victory", "defeat"})
  PROVE  TurnInv'
<1>1. Typed'
  BY DEF TurnInv, Typed, choosing
<1>2. QueueIsAParty'
  BY DEF TurnInv, QueueIsAParty, choosing
<1>3. InOrder'
  BY DEF TurnInv, InOrder, choosing
<1>4. Scheduled'
  BY DEF TurnInv, Scheduled
<1>5. Acting'
  BY DEF TurnInv, Acting, TargetsThere, choosing
<1>6. Ended'
  BY DEF TurnInv, Ended
<1> QED BY <1>1, <1>2, <1>3, <1>4, <1>5, <1>6 DEF TurnInv

LEMMA EndsKeep == ASSUME TurnInv, Finish \/ Escape \/ TimerExpires, BattleAssumption PROVE TurnInv'
<1>1. CASE Finish
  BY <1>1, Leaves DEF Finish, EndBattle, Stay
<1>2. CASE Escape /\ EndBattle("escape")
  <2>1. CASE UNCHANGED <<w, state, sub, previous, choosing, act, strike, page, turns>>
    BY <1>2, <2>1, Leaves DEF EndBattle
  <2>2. CASE StartTurn
    BY <1>2, <2>2, Reached DEF StartTurn, Escape, EndBattle, ending
  <2> QED BY <1>2, <2>1, <2>2 DEF Escape, Stay
<1>3. CASE Escape /\ ~page.flee /\ StartTurn
  <2>1. state = "escape" /\ page.left = 0 /\ result \notin {"victory", "defeat"}
    BY <1>3, Reached DEF Escape
  <2>2. queue = <<>> /\ turns < MaxTurns
    BY <1>3, <2>1 DEF TurnInv, InOrder, Scheduled
  <2>3. queue \in Seq(Actors)
    BY <2>2
  <2> QED BY <1>3, <2>1, <2>2, <2>3, StartTurnKeeps
<1>4. CASE TimerExpires
  BY <1>4, Leaves DEF TimerExpires, EndBattle
<1> QED BY <1>1, <1>2, <1>3, <1>4 DEF Escape

LEMMA FrameKeeps == ASSUME TurnInv, Frame, BattleAssumption PROVE TurnInv'
<1>1. /\ place = "battle" /\ page.left > 0 /\ state \in {"option", "battle", "escape"} /\ sub = "begin"
      /\ page \in PageStates /\ w \in Fighters /\ IsInjective(w.party) /\ queue \in Seq(All)
      /\ result \notin {"victory", "defeat"} /\ PageLength \in Nat /\ BattlersAssumption
  BY DEF Frame, TurnInv, Typed, Scheduled, Ended, BattleAssumption
<1>2. PICK c, out :
        LET flee == page.flee \/ c = "forceflee"
        IN /\ w' \in Ran(w, c)
           /\ page' = [page EXCEPT !.left = page.left - 1, !.flee = flee]
           /\ IF flee /\ state # "escape" THEN SetState("escape") ELSE UNCHANGED sub /\ Stay
           /\ IF c = "terminate" \/ out THEN EndBattle("abort")
              ELSE place' = (IF c = "gameover" THEN "gameover" ELSE place) /\ UNCHANGED result
  BY DEF Frame
<1>3. UNCHANGED <<index, queue, act, strike, turns>>
  BY DEF Frame, choosing
<1> DEFINE flee == page.flee \/ c = "forceflee"
<1>4. /\ page' \in PageStates /\ page'.flee = flee
  <2>1. page.left - 1 \in 0..PageLength /\ flee \in BOOLEAN
    BY <1>1 DEF PageStates
  <2>2. page' = [page EXCEPT !.left = page.left - 1, !.flee = flee]
    BY <1>2
  <2> HIDE DEF flee
  <2> QED BY <2>1, <2>2, <1>1 DEF PageStates
<1>5. /\ sub' = "begin"
      /\ state' = (IF flee THEN "escape" ELSE state) /\ result' \notin {"victory", "defeat"}
  BY <1>1, <1>2 DEF SetState, Stay, EndBattle
<1>6. /\ w' \in Fighters /\ IsInjective(w'.party)
      /\ \A b \in All : w.algo[b] # Null => w'.algo[b] # Null
  BY <1>1, <1>2, PagesKeep
<1>7. page.flee => flee
  OBVIOUS
<1> HIDE DEF flee
<1>8. Typed'
  BY <1>1, <1>3, <1>4, <1>5, <1>6 DEF TurnInv, Typed, States, Steps
<1>9. QueueIsAParty'
  <2>1. \A b \in ToSet(queue) : b \in All
    BY <1>1, Elements
  <2> QED BY <2>1, <1>3, <1>6 DEF TurnInv, QueueIsAParty
<1>10. InOrder'
  BY <1>1, <1>3, <1>4, <1>5, <1>7 DEF TurnInv, InOrder, Deciding, Menus
<1>11. Scheduled'
  BY <1>1, <1>3, <1>4, <1>5, <1>7 DEF TurnInv, Scheduled, Deciding, Menus
<1>12. Acting'
  BY <1>5 DEF Acting, TargetsThere
<1>13. Ended'
  BY <1>1, <1>5 DEF Ended
<1> QED BY <1>8, <1>9, <1>10, <1>11, <1>12, <1>13 DEF TurnInv

-----------------------------------------------------------------------------
(* The invariant.                                                           *)

LEMMA Starts == ASSUME Init, BattleAssumption PROVE TurnInv
<1>1. PICK party \in Parties, hidden \in SUBSET Enemies :
         w = [status |-> [b \in All |-> "fine"], hidden |-> hidden, party |-> party,
              sp |-> [b \in All |-> MaxSp], items |-> MaxItems, algo |-> [b \in All |-> Null]]
  BY DEF Init
<1>2. /\ party \in Seq(Actors) /\ IsInjective(party) /\ MaxSp \in Nat /\ MaxItems \in Nat
      /\ PageLength \in Nat /\ MaxTurns \in Nat
  BY DEF BattleAssumption, BattlersAssumption
<1>3. w \in Fighters /\ w.party = party
  <2>1. [b \in All |-> "fine"] \in [All -> Statuses] /\ [b \in All |-> Null] \in [All -> Algos]
    BY Null0 DEF Statuses
  <2>2. [b \in All |-> MaxSp] \in [All -> 0..MaxSp] /\ MaxItems \in 0..MaxItems
    BY <1>2
  <2> QED BY <2>1, <2>2, <1>1, <1>2 DEF Fighters
<1>4. act \in Actions /\ act.at \in 0..Len(act.targets)
  BY Null0 DEF Init, NoAct, Actions
<1>5. page \in PageStates
  BY <1>2 DEF Init, PageStates
<1>6. Typed
  BY <1>2, <1>3, <1>4, <1>5 DEF Init, Typed, States, Steps
<1>7. QueueIsAParty
  BY DEF Init, QueueIsAParty, IsInjective, ToSet
<1>8. InOrder /\ Scheduled /\ Acting /\ Ended
  BY DEF Init, InOrder, Scheduled, Acting, TargetsThere, Ended, Deciding, Menus
<1> QED BY <1>6, <1>7, <1>8 DEF TurnInv

LEMMA StepsKeep == ASSUME TurnInv, BattleAssumption, [Next]_vars PROVE TurnInv'
<1>1. CASE UNCHANGED vars
  <2>1. UNCHANGED <<w, state, sub, previous, index, active, queue, act, strike, page, place, result, turns>>
    BY <1>1 DEF vars, choosing, ending
  <2> QED BY <2>1 DEF TurnInv, Typed, QueueIsAParty, InOrder, Scheduled, Acting, TargetsThere, Ended
<1>2. CASE Choose
  BY <1>2, OptionKeeps, BrowseKeeps, SelectedKeeps, SelectPreviousActorKeeps DEF Choose
<1>3. CASE SelectNextActor \/ AllDecided
  BY <1>3, SelectNextActorKeeps, AllDecidedKeeps
<1>4. CASE Check
  BY <1>4, BattleIsOverKeeps, ScheduleNextPageKeeps, ShowOptionsKeeps, TurnEndsKeeps, BeginActionKeeps DEF Check
<1>5. CASE Act
  BY <1>5, StartActionKeeps, UseActionKeeps, ExecuteActionKeeps, NextTargetKeeps, RemoveCurrentActionKeeps DEF Act
<1>6. CASE Finish \/ Escape \/ TimerExpires
  BY <1>6, EndsKeep
<1>7. CASE Frame
  BY <1>7, FrameKeeps
<1> QED BY <1>1, <1>2, <1>3, <1>4, <1>5, <1>6, <1>7 DEF Next, Proceed

LEMMA Suffices == ASSUME TurnInv, BattleAssumption PROVE BattleInv
<1>1. TypeOK
  <2>1. w \in Fighters /\ w.party \in Seq(Actors) /\ queue \in Seq(All) /\ page \in PageStates
    BY FighterFields DEF TurnInv, Typed
  <2>2. /\ w.status \in [All -> Statuses] /\ w.hidden \subseteq Enemies
        /\ ToSet(w.party) \subseteq Actors /\ w.sp \in [All -> 0..MaxSp] /\ w.items \in 0..MaxItems
    BY <2>1, FighterFields, Elements
  <2>3. page.left \in 0..PageLength /\ page.executed \subseteq DOMAIN Pages
    BY <2>1 DEF PageStates
  <2>4. index \in 0..Len(w.party) \/ state \in {"battle", "victory", "defeat", "escape"}
    <3>1. Len(w.party) \in Nat
      BY <2>1
    <3> QED BY <3>1 DEF TurnInv, Typed, InOrder, States, Deciding, Menus
  <2>5. ToSet(queue) \subseteq All
    BY <2>1, Elements
  <2> QED BY <2>2, <2>3, <2>4, <2>5 DEF TypeOK, TurnInv, Typed, States, Steps, Deciding, Menus
<1>2. ChoosesInOrder
  <2>1. w.party \in Seq(Actors)
    BY FighterFields DEF TurnInv, Typed
  <2> QED BY <2>1 DEF ChoosesInOrder, TurnInv, InOrder, Menus
<1>3. SourcesExist /\ TargetsThere
  BY DEF SourcesExist, TurnInv, Acting
<1>4. ResultIsTrue
  BY DEF ResultIsTrue, TurnInv, Ended, EndOf
<1> QED BY <1>1, <1>2, <1>3, <1>4 DEF BattleInv, TurnInv

\* Everybody who acts in a turn is there and acts once, in the order of the choices; an attack
\* finds a target unless it is aimed at an actor who has left the party; and a battle is won when
\* no enemy is left, lost when the party is beaten. For any actors, troop, pages and commands.
THEOREM BattlesAreFought == BattleAssumption => (Spec => []BattleInv)
<1> SUFFICES ASSUME BattleAssumption PROVE Spec => []BattleInv
  OBVIOUS
<1>1. Init => TurnInv
  BY Starts
<1>2. TurnInv /\ [Next]_vars => TurnInv'
  BY StepsKeep
<1>3. TurnInv => BattleInv
  BY Suffices
<1> QED BY <1>1, <1>2, <1>3, PTL DEF Spec

=============================================================================
