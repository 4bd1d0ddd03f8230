-------------------------- MODULE Battlers_proofs --------------------------
(***************************************************************************)
(* What the two kinds of battles share: facts about sequences, and what    *)
(* becomes of battlers, whom they choose and whom they reach, for any      *)
(* actors, troop and states.                                               *)
(***************************************************************************)
EXTENDS Battlers, FiniteSetTheorems, SequenceTheorems, WellFoundedInduction, TLAPS

Acts ==
    [type : {"attack", "skill", "heal", "item", "defend", "escape"}, target : All]
    \cup [type : {"explode"}, target : Sides]
Algos == Acts \cup {Null, NoAction}

Fighters ==
    [status : [All -> Statuses], hidden : SUBSET Enemies, party : Seq(Actors),
     sp : [All -> 0..MaxSp], items : 0..MaxItems, algo : [All -> Algos]]

-----------------------------------------------------------------------------
(* Sequences.                                                               *)

\* Any set of natural numbers has a least one.
LEMMA LeastNumber == ASSUME NEW T \in SUBSET Nat, T # {} PROVE \E x \in T : \A y \in T : x <= y
<1> DEFINE F == {0..t : t \in T}
<1>1. F \subseteq FiniteSubsetsOf(Nat)
  <2>1. \A t \in Nat : IsFiniteSet(0..t) /\ 0..t \subseteq Nat
    BY FS_Interval
  <2> QED BY <2>1 DEF FiniteSubsetsOf
<1>2. PICK s \in F : \A u \in F : ~(<<u,s>> \in StrictSubsetOrdering(Nat))
  <2>1. IsWellFoundedOn(StrictSubsetOrdering(Nat), FiniteSubsetsOf(Nat))
    BY FS_StrictSubsetOrderingWellFounded
  <2>2. F # {} OBVIOUS
  <2> HIDE DEF F
  <2> QED BY <1>1, <2>1, <2>2, WFMin
<1>3. PICK x \in T : s = 0..x
  OBVIOUS
<1>4. \A y \in T : x <= y
  <2> SUFFICES ASSUME NEW y \in T, y < x PROVE FALSE
    OBVIOUS
  <2>1. 0..y \in F
    OBVIOUS
  <2>2. x \notin 0..y /\ x \in 0..x
    OBVIOUS
  <2>3. 0..y \subseteq 0..x
    OBVIOUS
  <2>4. <<0..y, 0..x>> \in StrictSubsetOrdering(Nat)
    BY <2>2, <2>3 DEF StrictSubsetOrdering
  <2> QED BY <1>2, <1>3, <2>1, <2>4
<1> QED BY <1>4

\* The elements of sequences.
LEMMA Elements ==
  ASSUME NEW S, NEW s \in Seq(S)
  PROVE  /\ DOMAIN s = 1..Len(s) /\ Len(s) \in Nat
         /\ ToSet(s) \subseteq S
         /\ \A i \in 1..Len(s) : s[i] \in ToSet(s) /\ s[i] \in S
         /\ \A x \in ToSet(s) : \E i \in 1..Len(s) : s[i] = x
BY DEF ToSet

LEMMA Appended ==
  ASSUME NEW S, NEW s \in Seq(S), NEW e \in S
  PROVE  /\ Append(s, e) \in Seq(S)
         /\ \A x : x \in ToSet(Append(s, e)) <=> x \in ToSet(s) \/ x = e
         /\ IsInjective(s) /\ e \notin ToSet(s) => IsInjective(Append(s, e))
<1> DEFINE t == Append(s, e)
<1>1. /\ t \in Seq(S) /\ Len(t) = Len(s) + 1 /\ t[Len(s) + 1] = e
      /\ \A i \in 1..Len(s) : t[i] = s[i]
  BY AppendProperties
<1>2. DOMAIN s = 1..Len(s) /\ DOMAIN t = 1..(Len(s) + 1) /\ Len(s) \in Nat
  BY <1>1
<1> HIDE DEF t
<1>3. ASSUME NEW x PROVE x \in ToSet(t) <=> x \in ToSet(s) \/ x = e
  <2>1. x \in ToSet(t) <=> \E i \in 1..(Len(s) + 1) : t[i] = x
    BY <1>2 DEF ToSet
  <2>2. x \in ToSet(s) <=> \E i \in 1..Len(s) : s[i] = x
    BY <1>2 DEF ToSet
  <2> QED BY <2>1, <2>2, <1>1, <1>2
<1>4. ASSUME IsInjective(s), e \notin ToSet(s) PROVE IsInjective(t)
  <2> SUFFICES ASSUME NEW a \in 1..(Len(s) + 1), NEW b \in 1..(Len(s) + 1), t[a] = t[b]
               PROVE  a = b
    BY <1>2 DEF IsInjective
  <2>1. \A i \in 1..Len(s) : t[i] = s[i] /\ s[i] # e
    BY <1>1, <1>2, <1>4 DEF ToSet
  <2>2. CASE a \in 1..Len(s) /\ b \in 1..Len(s)
    BY <2>1, <2>2, <1>2, <1>4 DEF IsInjective
  <2>3. CASE a = Len(s) + 1 \/ b = Len(s) + 1
    BY <2>1, <2>3, <1>1, <1>2
  <2> QED BY <2>2, <2>3, <1>2
<1> QED BY <1>1, <1>3, <1>4 DEF t

\* Sequences between two positions.
LEMMA Between ==
  ASSUME NEW S, NEW s \in Seq(S), NEW m \in 1..(Len(s) + 1), NEW n \in (m - 1)..Len(s)
  PROVE  LET t == SubSeq(s, m, n) IN
         /\ t \in Seq(S) /\ Len(t) = n - m + 1 /\ DOMAIN t = 1..(n - m + 1)
         /\ \A i \in 1..(n - m + 1) : t[i] = s[m + i - 1]
         /\ IsInjective(s) => IsInjective(t)
         /\ ToSet(t) \subseteq ToSet(s)
<1> DEFINE t == SubSeq(s, m, n)
<1>1. /\ t \in Seq(S) /\ Len(t) = n - m + 1 /\ DOMAIN t = 1..(n - m + 1)
      /\ \A i \in 1..(n - m + 1) : t[i] = s[m + i - 1]
  <2>1. m \in Int /\ n \in Int /\ \A i \in m..n : s[i] \in S
    OBVIOUS
  <2>2. /\ t \in Seq(S) /\ Len(t) = (IF m <= n THEN n - m + 1 ELSE 0)
        /\ \A i \in 1..(n - m + 1) : t[i] = s[m + i - 1]
    BY <2>1, SubSeqProperties
  <2>3. (IF m <= n THEN n - m + 1 ELSE 0) = n - m + 1
    OBVIOUS
  <2> HIDE DEF t
  <2> QED BY <2>2, <2>3
<1> HIDE DEF t
<1>2. \A i \in 1..(n - m + 1) : m + i - 1 \in 1..Len(s) /\ m + i - 1 \in Int
  OBVIOUS
<1>3. ASSUME IsInjective(s) PROVE IsInjective(t)
  <2> SUFFICES ASSUME NEW i \in 1..(n - m + 1), NEW j \in 1..(n - m + 1), t[i] = t[j]
               PROVE  i = j
    BY <1>1 DEF IsInjective
  <2>1. s[m + i - 1] = s[m + j - 1] /\ m + i - 1 \in DOMAIN s /\ m + j - 1 \in DOMAIN s
    BY <1>1, <1>2
  <2>2. m + i - 1 = m + j - 1
    BY <2>1, <1>3 DEF IsInjective
  <2> QED BY <2>2
<1>4. ToSet(t) \subseteq ToSet(s)
  BY <1>1, <1>2 DEF ToSet
<1> QED BY <1>1, <1>3, <1>4 DEF t

\* The rest of a sequence.
LEMMA Tails ==
  ASSUME NEW S, NEW q \in Seq(S), q # <<>>
  PROVE  /\ Tail(q) \in Seq(S) /\ Head(q) \in S /\ Head(q) \in ToSet(q) /\ ToSet(Tail(q)) \subseteq ToSet(q)
         /\ IsInjective(q) => IsInjective(Tail(q)) /\ Head(q) \notin ToSet(Tail(q))
<1> DEFINE t == Tail(q)
<1>1. Len(q) \in Nat /\ Len(q) # 0 /\ DOMAIN q = 1..Len(q)
  BY EmptySeq
<1>2. /\ t \in Seq(S) /\ Len(t) = Len(q) - 1 /\ DOMAIN t = 1..(Len(q) - 1)
      /\ \A i \in 1..(Len(q) - 1) : t[i] = q[i + 1]
  BY <1>1, HeadTailProperties
<1>3. Head(q) = q[1]
  OBVIOUS
<1> HIDE DEF t
<1>4. 1 \in DOMAIN q /\ \A i \in 1..(Len(q) - 1) : i + 1 \in DOMAIN q /\ i + 1 # 1
  BY <1>1
<1>5. Head(q) \in S /\ Head(q) \in ToSet(q)
  BY <1>3, <1>4, Elements, <1>1
<1>6. ToSet(t) \subseteq ToSet(q)
  BY <1>2, <1>4 DEF ToSet
<1>7. ASSUME IsInjective(q) PROVE IsInjective(t) /\ Head(q) \notin ToSet(t)
  <2>1. \A i, j \in DOMAIN q : q[i] = q[j] => i = j
    BY <1>7 DEF IsInjective
  <2>2. ASSUME NEW i \in 1..(Len(q) - 1), NEW j \in 1..(Len(q) - 1), t[i] = t[j] PROVE i = j
    <3>1. q[i + 1] = q[j + 1]
      BY <1>2, <2>2
    <3>2. i + 1 = j + 1
      BY <2>1, <3>1, <1>4
    <3> QED BY <3>2
  <2>3. \A i \in 1..(Len(q) - 1) : t[i] # Head(q)
    BY <1>2, <1>3, <1>4, <2>1
  <2> QED BY <1>2, <2>2, <2>3 DEF IsInjective, ToSet
<1> QED BY <1>2, <1>5, <1>6, <1>7 DEF t

\* The first n of s, and one more, and fewer of them.
LEMMA FirstOnes ==
  ASSUME NEW S, NEW s \in Seq(S), NEW n \in 0..Len(s)
  PROVE  /\ SubSeq(s, 1, n) \in Seq(S) /\ Len(SubSeq(s, 1, n)) = n
         /\ IsInjective(s) => IsInjective(SubSeq(s, 1, n))
         /\ n < Len(s) => Append(SubSeq(s, 1, n), s[n + 1]) = SubSeq(s, 1, n + 1)
         /\ n < Len(s) /\ IsInjective(s) => s[n + 1] \notin ToSet(SubSeq(s, 1, n))
         /\ SubSeq(s, 1, 0) = <<>>
         /\ \A k \in 0..n : SubSeq(SubSeq(s, 1, n), 1, k) = SubSeq(s, 1, k)
<1> DEFINE P(k) == SubSeq(s, 1, k)
<1>0. Len(s) \in Nat /\ n \in Nat /\ \A i \in 1..Len(s) : s[i] \in S
  OBVIOUS
<1>1. ASSUME NEW k \in 0..Len(s)
      PROVE  /\ P(k) \in Seq(S) /\ Len(P(k)) = k /\ DOMAIN P(k) = 1..k
             /\ \A i \in 1..k : P(k)[i] = s[i]
             /\ IsInjective(s) => IsInjective(P(k))
  <2>1. 1 \in 1..(Len(s) + 1) /\ k \in (1 - 1)..Len(s) /\ k - 1 + 1 = k
    BY <1>0
  <2>2. \A i \in 1..k : 1 + i - 1 = i
    BY <1>0
  <2> HIDE DEF P
  <2> QED BY <2>1, <2>2, Between DEF P
<1>2. ASSUME n < Len(s) PROVE Append(P(n), s[n + 1]) = P(n + 1)
  <2>1. n + 1 \in 0..Len(s) /\ s[n + 1] \in S
    BY <1>0, <1>2
  <2>2. /\ P(n) \in Seq(S) /\ Len(P(n)) = n /\ \A i \in 1..n : P(n)[i] = s[i]
        /\ P(n + 1) \in Seq(S) /\ Len(P(n + 1)) = n + 1 /\ \A i \in 1..(n + 1) : P(n + 1)[i] = s[i]
    BY <1>1, <2>1
  <2> HIDE DEF P
  <2>3. /\ Append(P(n), s[n + 1]) \in Seq(S) /\ Len(Append(P(n), s[n + 1])) = n + 1
        /\ \A i \in 1..n : Append(P(n), s[n + 1])[i] = s[i]
        /\ Append(P(n), s[n + 1])[n + 1] = s[n + 1]
    BY <2>1, <2>2, AppendProperties
  <2>4. \A i \in 1..(n + 1) : i \in 1..n \/ i = n + 1
    BY <1>0
  <2>5. \A i \in 1..(n + 1) : Append(P(n), s[n + 1])[i] = P(n + 1)[i]
    BY <2>2, <2>3, <2>4
  <2> QED BY <2>2, <2>3, <2>5, SeqEqual
<1>3. ASSUME n < Len(s), IsInjective(s) PROVE s[n + 1] \notin ToSet(P(n))
  <2>1. DOMAIN P(n) = 1..n /\ \A i \in 1..n : P(n)[i] = s[i]
    BY <1>1
  <2>2. \A i \in 1..n : s[i] # s[n + 1]
    <3>1. \A i \in 1..n : i \in DOMAIN s /\ n + 1 \in DOMAIN s /\ i # n + 1
      BY <1>0, <1>3
    <3> QED BY <3>1, <1>3 DEF IsInjective
  <2> HIDE DEF P
  <2> QED BY <2>1, <2>2 DEF ToSet
<1>4. ASSUME NEW k \in 0..n PROVE SubSeq(P(n), 1, k) = P(k)
  <2>1. /\ P(n) \in Seq(S) /\ Len(P(n)) = n /\ \A i \in 1..n : P(n)[i] = s[i]
        /\ P(k) \in Seq(S) /\ Len(P(k)) = k /\ \A i \in 1..k : P(k)[i] = s[i]
    BY <1>0, <1>1
  <2> HIDE DEF P
  <2>2. 1 \in 1..(Len(P(n)) + 1) /\ k \in (1 - 1)..Len(P(n)) /\ k - 1 + 1 = k
    BY <2>1, <1>0
  <2>3. /\ SubSeq(P(n), 1, k) \in Seq(S) /\ Len(SubSeq(P(n), 1, k)) = k
        /\ \A i \in 1..k : SubSeq(P(n), 1, k)[i] = P(n)[1 + i - 1]
    BY <2>1, <2>2, Between
  <2>4. \A i \in 1..k : 1 + i - 1 = i /\ i \in 1..n
    BY <1>0
  <2>5. \A i \in 1..k : SubSeq(P(n), 1, k)[i] = P(k)[i]
    BY <2>1, <2>3, <2>4
  <2> QED BY <2>1, <2>3, <2>5, SeqEqual
<1>5. P(0) = <<>>
  BY SubSeqEmpty
<1>6. n \in 0..Len(s)
  OBVIOUS
<1>7. P(n) \in Seq(S) /\ Len(P(n)) = n /\ (IsInjective(s) => IsInjective(P(n)))
  BY <1>1, <1>6
<1> HIDE DEF P
<1>8. /\ n < Len(s) => Append(P(n), s[n + 1]) = P(n + 1)
      /\ n < Len(s) /\ IsInjective(s) => s[n + 1] \notin ToSet(P(n))
      /\ \A k \in 0..n : SubSeq(P(n), 1, k) = P(k)
  BY <1>2, <1>3, <1>4
<1> QED BY <1>5, <1>7, <1>8 DEF P

-----------------------------------------------------------------------------
(* The battlers, and what can happen to them.                               *)

\* What may become of v: the party is the same, and whoever has an action has one still.
Evolves(v, u) ==
    /\ u \in Fighters /\ u.party = v.party
    /\ \A b \in All : v.algo[b] # Null => u.algo[b] # Null

LEMMA Null0 == Null \in Algos /\ NoAction \in Algos /\ Null # NoAction /\ Null \notin Acts /\ NoAction \notin Acts
<1>1. Null.type = "null" /\ NoAction.type = "none"
  BY DEF Null, NoAction
<1>2. \A x \in Acts : x.type \in {"attack", "skill", "heal", "item", "defend", "escape", "explode"}
  BY DEF Acts
<1> QED BY <1>1, <1>2 DEF Algos

LEMMA FighterFields ==
  ASSUME NEW v \in Fighters
  PROVE  /\ v.status \in [All -> Statuses] /\ v.hidden \subseteq Enemies /\ v.party \in Seq(Actors)
         /\ v.sp \in [All -> 0..MaxSp] /\ v.items \in 0..MaxItems /\ v.algo \in [All -> Algos]
BY DEF Fighters

LEMMA NewStatus ==
  ASSUME NEW v \in Fighters, NEW b \in All, NEW s \in Statuses
  PROVE  LET u == [v EXCEPT !.status[b] = s] IN
         /\ u \in Fighters /\ Evolves(v, u) /\ u.status = [v.status EXCEPT ![b] = s]
         /\ u.hidden = v.hidden /\ u.party = v.party /\ u.algo = v.algo
<1> DEFINE u == [v EXCEPT !.status[b] = s]
<1>1. u.status = [v.status EXCEPT ![b] = s] /\ u.hidden = v.hidden /\ u.party = v.party /\ u.algo = v.algo
  BY DEF Fighters
<1>2. u \in Fighters
  BY DEF Fighters
<1> HIDE DEF u
<1>3. Evolves(v, u)
  BY <1>1, <1>2 DEF Evolves
<1> QED BY <1>1, <1>2, <1>3 DEF u

LEMMA NewAlgo ==
  ASSUME NEW v \in Fighters, NEW b \in All, NEW a \in Algos
  PROVE  LET u == [v EXCEPT !.algo[b] = a] IN
         /\ u \in Fighters /\ u.algo = [v.algo EXCEPT ![b] = a]
         /\ u.status = v.status /\ u.hidden = v.hidden /\ u.party = v.party
         /\ a # Null => Evolves(v, u)
<1> DEFINE u == [v EXCEPT !.algo[b] = a]
<1>1. u.algo = [v.algo EXCEPT ![b] = a] /\ u.status = v.status /\ u.hidden = v.hidden /\ u.party = v.party
  BY DEF Fighters
<1>2. u \in Fighters
  BY DEF Fighters
<1> HIDE DEF u
<1>3. ASSUME a # Null PROVE Evolves(v, u)
  <2>1. \A c \in All : u.algo[c] = IF c = b THEN a ELSE v.algo[c]
    BY <1>1, FighterFields
  <2> QED BY <2>1, <1>1, <1>2, <1>3 DEF Evolves
<1> QED BY <1>1, <1>2, <1>3 DEF u

\* All actions at once.
LEMMA NewAlgos ==
  ASSUME NEW v \in Fighters, NEW f \in [All -> Algos]
  PROVE  LET u == [v EXCEPT !.algo = f] IN
         /\ u \in Fighters /\ u.algo = f
         /\ u.status = v.status /\ u.hidden = v.hidden /\ u.party = v.party
BY DEF Fighters

LEMMA Hiding ==
  ASSUME NEW v \in Fighters, NEW H \in SUBSET Enemies
  PROVE  Evolves(v, [v EXCEPT !.hidden = H])
<1> DEFINE u == [v EXCEPT !.hidden = H]
<1>1. u.party = v.party /\ u.algo = v.algo /\ u \in Fighters
  BY DEF Fighters
<1> HIDE DEF u
<1>2. Evolves(v, u)
  BY <1>1 DEF Evolves
<1> QED BY <1>2 DEF u

LEMMA NewParty ==
  ASSUME NEW v \in Fighters, NEW p \in Seq(Actors)
  PROVE  LET u == [v EXCEPT !.party = p] IN
         u \in Fighters /\ u.party = p /\ u.algo = v.algo
BY DEF Fighters

\* What is spent.
LEMMA Spending ==
  ASSUME NEW v \in Fighters, NEW b \in All, NEW n \in 0..MaxSp, NEW m \in 0..MaxItems
  PROVE  /\ LET u == [v EXCEPT !.sp[b] = n] IN
            Evolves(v, u) /\ u.status = v.status /\ u.hidden = v.hidden
         /\ LET u == [v EXCEPT !.items = m] IN
            Evolves(v, u) /\ u.status = v.status /\ u.hidden = v.hidden
<1>1. LET u == [v EXCEPT !.sp[b] = n] IN
      u \in Fighters /\ u.status = v.status /\ u.hidden = v.hidden /\ u.party = v.party /\ u.algo = v.algo
  BY DEF Fighters
<1>2. LET u == [v EXCEPT !.items = m] IN
      u \in Fighters /\ u.status = v.status /\ u.hidden = v.hidden /\ u.party = v.party /\ u.algo = v.algo
  BY DEF Fighters
<1> QED BY <1>1, <1>2 DEF Evolves

LEMMA EvolvesAgain ==
  /\ \A v \in Fighters : Evolves(v, v)
  /\ \A v, x, u : Evolves(v, x) /\ Evolves(x, u) => Evolves(v, u)
BY DEF Evolves

LEMMA Interrupts ==
  ASSUME NEW v \in Fighters, NEW b \in All
  PROVE  /\ Evolves(v, Interrupt(v, b))
         /\ Interrupt(v, b).status = v.status /\ Interrupt(v, b).hidden = v.hidden
<1>1. CASE v.algo[b] \in {Null, NoAction}
  BY <1>1, EvolvesAgain DEF Interrupt
<1>2. CASE v.algo[b] \notin {Null, NoAction}
  <2>1. Interrupt(v, b) = [v EXCEPT !.algo[b] = NoAction]
    BY <1>2 DEF Interrupt
  <2>2. NoAction \in Algos /\ NoAction # Null
    BY Null0
  <2> QED BY <2>1, <2>2, NewAlgo
<1> QED BY <1>1, <1>2

LEMMA Adds ==
  ASSUME NEW v \in Fighters, NEW b \in All, NEW s \in Statuses
  PROVE  Evolves(v, AddState(v, b, s))
<1>1. CASE v.status[b] = "dead"
  BY <1>1, EvolvesAgain DEF AddState
<1>2. CASE v.status[b] # "dead"
  <2> DEFINE u == [v EXCEPT !.status[b] = s]
  <2>1. u \in Fighters /\ Evolves(v, u)
    BY NewStatus
  <2>2. AddState(v, b, s) = IF Restriction(s) = "normal" THEN u ELSE Interrupt(u, b)
    BY <1>2 DEF AddState
  <2> HIDE DEF u
  <2>3. Evolves(u, Interrupt(u, b))
    BY <2>1, Interrupts
  <2> QED BY <2>1, <2>2, <2>3, EvolvesAgain
<1> QED BY <1>1, <1>2

\* A state is added, and nobody disappears but by death.
LEMMA AddedStates ==
  ASSUME NEW v \in Fighters, NEW b \in All, NEW s \in Statuses
  PROVE  LET u == AddState(v, b, s) IN
         /\ u.hidden = v.hidden /\ \A x \in All : u.status[x] \in {v.status[x], s}
<1>1. CASE v.status[b] = "dead"
  BY <1>1 DEF AddState
<1>2. CASE v.status[b] # "dead"
  <2> DEFINE u == [v EXCEPT !.status[b] = s]
  <2>1. u \in Fighters /\ u.status = [v.status EXCEPT ![b] = s] /\ u.hidden = v.hidden
    BY NewStatus
  <2>2. AddState(v, b, s) = IF Restriction(s) = "normal" THEN u ELSE Interrupt(u, b)
    BY <1>2 DEF AddState
  <2> HIDE DEF u
  <2>3. Interrupt(u, b).status = u.status /\ Interrupt(u, b).hidden = u.hidden
    BY <2>1, Interrupts
  <2>4. AddState(v, b, s).status = u.status /\ AddState(v, b, s).hidden = u.hidden
    BY <2>2, <2>3
  <2>5. \A x \in All : u.status[x] = IF x = b THEN s ELSE v.status[x]
    BY <2>1, FighterFields
  <2> QED BY <2>1, <2>4, <2>5
<1> QED BY <1>1, <1>2

LEMMA Removes ==
  ASSUME NEW v \in Fighters, NEW b \in All
  PROVE  /\ Evolves(v, RemoveState(v, b))
         /\ RemoveState(v, b).status = [v.status EXCEPT ![b] = "fine"]
         /\ RemoveState(v, b).hidden = v.hidden
<1> DEFINE u == [v EXCEPT !.status[b] = "fine"]
<1>1. u \in Fighters /\ Evolves(v, u) /\ u.status = [v.status EXCEPT ![b] = "fine"] /\ u.hidden = v.hidden
  <2>1. "fine" \in Statuses BY DEF Statuses
  <2> QED BY <2>1, NewStatus
<1>2. RemoveState(v, b) = IF Restriction(v.status[b]) = "normal" THEN u ELSE Interrupt(u, b)
  BY DEF RemoveState
<1> HIDE DEF u
<1>3. Evolves(u, Interrupt(u, b)) /\ Interrupt(u, b).status = u.status /\ Interrupt(u, b).hidden = u.hidden
  BY <1>1, Interrupts
<1> QED BY <1>1, <1>2, <1>3, EvolvesAgain

\* Nobody disappears unless he is hidden or dies.
LEMMA StillThere ==
  ASSUME NEW v, NEW u, u.party = v.party, u.hidden = v.hidden,
         \A b \in All : v.status[b] # "dead" => u.status[b] # "dead", BattlersAssumption,
         ToSet(v.party) \subseteq Actors
  PROVE  /\ \A b \in All : Exists(v, b) => Exists(u, b)
         /\ \A side \in Sides : Active(v, side) # {} => Active(u, side) # {}
<1>1. \A b \in All : Exists(v, b) => Exists(u, b)
  BY DEF Exists
<1>2. ASSUME NEW side \in Sides, NEW b \in Active(v, side) PROVE b \in Active(u, side)
  <2>1. b \in ToSet(Battle(v, side)) /\ Exists(v, b)
    BY <1>2 DEF Active
  <2>2. Battle(u, side) = Battle(v, side)
    BY DEF Battle
  <2>3. b \in All
    BY <2>1 DEF Battle, All, Enemies
  <2> QED BY <2>1, <2>2, <2>3, <1>1 DEF Active
<1> QED BY <1>1, <1>2

\* States end and hurt.
LEMMA Begins ==
  ASSUME NEW v \in Fighters, NEW b \in All, NEW h \in BattleStateHeal(v, b), BattlersAssumption
  PROVE  LET u == ApplyConditions(h, b) IN
         /\ Evolves(v, u) /\ u.hidden = v.hidden
         /\ \A x \in All : v.status[x] # "dead" => u.status[x] # "dead"
         /\ \A x \in All : u.status[x] \in {v.status[x], "fine"}
<1>1. /\ Evolves(v, h) /\ h.hidden = v.hidden
      /\ \A x \in All : v.status[x] # "dead" => h.status[x] # "dead"
      /\ \A x \in All : h.status[x] \in {v.status[x], "fine"}
  <2>1. CASE h = v
    BY <2>1, EvolvesAgain
  <2>2. CASE h = RemoveState(v, b)
    <3>1. /\ Evolves(v, h) /\ h.hidden = v.hidden /\ h.status = [v.status EXCEPT ![b] = "fine"]
      BY <2>2, Removes
    <3>2. \A x \in All : h.status[x] = IF x = b THEN "fine" ELSE v.status[x]
      BY <3>1, FighterFields
    <3> QED BY <3>1, <3>2
  <2>3. h \in {v, RemoveState(v, b)}
    BY DEF BattleStateHeal
  <2> QED BY <2>1, <2>2, <2>3
<1> DEFINE u == ApplyConditions(h, b)
<1>2. Evolves(h, u) /\ u.hidden = h.hidden /\ u.status = h.status
  <2>1. h \in Fighters
    BY <1>1 DEF Evolves
  <2>2. CASE h.status[b] = "poisoned" /\ h.sp[b] > 0
    <3>1. u = [h EXCEPT !.sp[b] = h.sp[b] - 1]
      BY <2>2 DEF ApplyConditions
    <3>2. h.sp[b] \in 0..MaxSp /\ h.items \in 0..MaxItems /\ MaxSp \in Nat
      BY <2>1, FighterFields DEF BattlersAssumption
    <3>3. h.sp[b] - 1 \in 0..MaxSp
      BY <3>2, <2>2
    <3> HIDE DEF u
    <3> QED BY <3>1, <3>2, <3>3, <2>1, Spending
  <2>3. CASE ~(h.status[b] = "poisoned" /\ h.sp[b] > 0)
    BY <2>1, <2>3, EvolvesAgain DEF ApplyConditions
  <2> QED BY <2>2, <2>3
<1> HIDE DEF u
<1>3. Evolves(v, u)
  BY <1>1, <1>2, EvolvesAgain
<1> QED BY <1>1, <1>2, <1>3 DEF u

LEMMA Pays ==
  ASSUME NEW v \in Fighters, NEW b \in All, NEW algo, BattlersAssumption
  PROVE  LET u == Paid(v, b, algo) IN
         Evolves(v, u) /\ u.status = v.status /\ u.hidden = v.hidden
<1>1. v.sp[b] \in 0..MaxSp /\ v.items \in 0..MaxItems /\ MaxSp \in Nat /\ MaxItems \in Nat
  BY FighterFields DEF BattlersAssumption
<1> DEFINE n == IF Cost(algo) > v.sp[b] THEN 0 ELSE v.sp[b] - Cost(algo)
           m == IF v.items = 0 THEN 0 ELSE v.items - 1
<1>2. n \in 0..MaxSp
  <2>1. Cost(algo) \in {0, 1}
    BY DEF Cost
  <2> QED BY <1>1, <2>1
<1>3. m \in 0..MaxItems
  BY <1>1
<1>4. Paid(v, b, algo) = IF algo.type = "item" THEN [v EXCEPT !.items = m] ELSE [v EXCEPT !.sp[b] = n]
  BY DEF Paid
<1> HIDE DEF n, m
<1> QED BY <1>2, <1>3, <1>4, Spending

LEMMA Goes ==
  ASSUME NEW v \in Fighters, NEW b \in All, NEW algo
  PROVE  Evolves(v, Gone(v, b, algo))
<1>1. CASE algo.type \in {"escape", "explode"} /\ b \in Enemies
  <2>1. Gone(v, b, algo) = [v EXCEPT !.hidden = v.hidden \cup {b}]
    BY <1>1 DEF Gone
  <2>2. v.hidden \cup {b} \in SUBSET Enemies
    BY <1>1, FighterFields
  <2> QED BY <2>1, <2>2, Hiding
<1>2. CASE ~(algo.type \in {"escape", "explode"} /\ b \in Enemies)
  BY <1>2, EvolvesAgain DEF Gone
<1> QED BY <1>1, <1>2

LEMMA Strikes ==
  ASSUME NEW v \in Fighters, NEW b, NEW algo, NEW t \in All, NEW u \in Struck(v, b, algo, t),
         BattlersAssumption
  PROVE  Evolves(v, u)
<1>1. \/ u = v
      \/ u = AddState(v, t, "dead")
      \/ u = RemoveState(v, t)
      \/ \E s \in Inflicted : u = AddState(v, t, s)
  BY DEF Struck
<1>2. "dead" \in Statuses /\ Inflicted \subseteq Statuses
  BY DEF Statuses, BattlersAssumption
<1>3. /\ Evolves(v, v) /\ Evolves(v, RemoveState(v, t))
      /\ \A s \in Statuses : Evolves(v, AddState(v, t, s))
  BY Adds, Removes, EvolvesAgain
<1> QED BY <1>1, <1>2, <1>3

\* What a blow makes of their states.
LEMMA StruckStates ==
  ASSUME NEW v \in Fighters, NEW b, NEW algo, NEW t \in All, NEW u \in Struck(v, b, algo, t),
         BattlersAssumption
  PROVE  \A x \in All : u.status[x] \in {v.status[x], "dead", "fine"} \cup Inflicted
<1>1. \/ u = v
      \/ u = AddState(v, t, "dead")
      \/ u = RemoveState(v, t)
      \/ \E s \in Inflicted : u = AddState(v, t, s)
  BY DEF Struck
<1>2. "dead" \in Statuses /\ Inflicted \subseteq Statuses
  BY DEF Statuses, BattlersAssumption
<1>3. \A x \in All : RemoveState(v, t).status[x] \in {v.status[x], "fine"}
  <2>1. v.status \in [All -> Statuses] /\ RemoveState(v, t).status = [v.status EXCEPT ![t] = "fine"]
    BY Removes, FighterFields
  <2> QED BY <2>1
<1>4. \A s \in Statuses : \A x \in All : AddState(v, t, s).status[x] \in {v.status[x], s}
  BY AddedStates
<1> QED BY <1>1, <1>2, <1>3, <1>4

\* The party without one, or with one more.
LEMMA PartyWithout ==
  ASSUME NEW p \in Seq(Actors), NEW a \in ToSet(p), IsInjective(p)
  PROVE  Without(p, a) \in Seq(Actors) /\ IsInjective(Without(p, a))
<1> DEFINE i == CHOOSE i \in DOMAIN p : p[i] = a
<1>1. i \in 1..Len(p) /\ Len(p) \in Nat
  <2>1. \E k \in DOMAIN p : p[k] = a
    BY DEF ToSet
  <2> QED BY <2>1
<1>2. Without(p, a) = SubSeq(p, 1, i - 1) \o SubSeq(p, i + 1, Len(p))
  BY DEF Without, RemoveAt
<1> HIDE DEF i
<1> DEFINE s == SubSeq(p, 1, i - 1)
           t == SubSeq(p, i + 1, Len(p))
<1>3. s \in Seq(Actors) /\ Len(s) = i - 1 /\ \A k \in 1..(i - 1) : s[k] = p[k]
  <2>1. 1 \in 1..(Len(p) + 1) /\ i - 1 \in (1 - 1)..Len(p) /\ i - 1 - 1 + 1 = i - 1
    BY <1>1
  <2>2. \A k \in 1..(i - 1) : 1 + k - 1 = k
    BY <1>1
  <2>3. i - 1 \in Int BY <1>1
  <2> HIDE DEF s
  <2> QED BY <2>1, <2>2, <2>3, Between DEF s
<1>4. t \in Seq(Actors) /\ Len(t) = Len(p) - i /\ \A k \in 1..(Len(p) - i) : t[k] = p[i + k]
  <2>1. i + 1 \in 1..(Len(p) + 1) /\ Len(p) \in (i + 1 - 1)..Len(p) /\ Len(p) - (i + 1) + 1 = Len(p) - i
    BY <1>1
  <2>2. \A k \in 1..(Len(p) - i) : i + 1 + k - 1 = i + k
    BY <1>1
  <2> HIDE DEF t
  <2> QED BY <2>1, <2>2, Between DEF t
<1> HIDE DEF s, t
<1>5. /\ s \o t \in Seq(Actors) /\ Len(s \o t) = Len(p) - 1
      /\ \A k \in 1..(Len(p) - 1) : (s \o t)[k] = IF k < i THEN p[k] ELSE p[k + 1]
  <2>1. /\ s \o t \in Seq(Actors) /\ Len(s \o t) = Len(s) + Len(t)
        /\ \A k \in 1..(Len(s) + Len(t)) : (s \o t)[k] = IF k <= Len(s) THEN s[k] ELSE t[k - Len(s)]
    BY <1>3, <1>4, ConcatProperties
  <2>2. Len(s) + Len(t) = Len(p) - 1
    BY <1>1, <1>3, <1>4
  <2>3. ASSUME NEW k \in 1..(Len(p) - 1)
        PROVE  (s \o t)[k] = IF k < i THEN p[k] ELSE p[k + 1]
    <3>1. CASE k < i
      <4>1. k \in 1..(i - 1) /\ k <= Len(s)
        BY <1>1, <1>3, <3>1
      <4> QED BY <4>1, <2>1, <2>2, <1>3, <3>1
    <3>2. CASE ~(k < i)
      <4>1. ~(k <= Len(s)) /\ k - Len(s) \in 1..(Len(p) - i) /\ i + (k - Len(s)) = k + 1
        BY <1>1, <1>3, <3>2
      <4>2. (s \o t)[k] = t[k - Len(s)]
        BY <4>1, <2>1, <2>2
      <4> QED BY <4>1, <4>2, <1>4, <3>2
    <3> QED BY <3>1, <3>2
  <2> QED BY <2>1, <2>2, <2>3
<1> DEFINE r == s \o t
<1> HIDE DEF r
<1>6. r \in Seq(Actors) /\ Len(r) = Len(p) - 1 /\ DOMAIN r = 1..(Len(p) - 1)
      /\ \A k \in 1..(Len(p) - 1) : r[k] = IF k < i THEN p[k] ELSE p[k + 1]
  BY <1>5 DEF r
<1>7. ASSUME NEW k \in 1..(Len(p) - 1), NEW l \in 1..(Len(p) - 1), r[k] = r[l] PROVE k = l
  <2>1. DOMAIN p = 1..Len(p) /\ k \in 1..Len(p) /\ k + 1 \in 1..Len(p) /\ l \in 1..Len(p) /\ l + 1 \in 1..Len(p)
    BY <1>1
  <2>2. \A x, y \in 1..Len(p) : p[x] = p[y] => x = y
    BY <2>1 DEF IsInjective
  <2>3. CASE k < i /\ l < i
    BY <2>1, <2>2, <2>3, <1>6, <1>7
  <2>4. CASE ~(k < i) /\ ~(l < i)
    BY <2>1, <2>2, <2>4, <1>6, <1>7
  <2>5. CASE k < i /\ ~(l < i)
    BY <2>1, <2>2, <2>5, <1>6, <1>7, <1>1
  <2>6. CASE ~(k < i) /\ l < i
    BY <2>1, <2>2, <2>6, <1>6, <1>7, <1>1
  <2> QED BY <2>3, <2>4, <2>5, <2>6
<1>8. IsInjective(r)
  BY <1>6, <1>7 DEF IsInjective
<1> QED BY <1>2, <1>6, <1>8 DEF r, s, t

\* What a page makes of them.
LEMMA PagesKeep ==
  ASSUME NEW v \in Fighters, IsInjective(v.party), NEW c, NEW u \in Ran(v, c), BattlersAssumption
  PROVE  /\ u \in Fighters /\ IsInjective(u.party)
         /\ \A b \in All : v.algo[b] # Null => u.algo[b] # Null
<1>0. "dead" \in Statuses /\ Inflicted \subseteq Statuses
  BY DEF Statuses, BattlersAssumption
<1>1. \/ \E b \in All : u = AddState(v, b, "dead")
      \/ \E b \in All, s \in Inflicted : u = AddState(v, b, s)
      \/ \E b \in All : u = RemoveState(v, b)
      \/ \E e \in Active(v, "enemies") : u = [v EXCEPT !.hidden = v.hidden \cup {e}]
      \/ \E e \in v.hidden : u = [v EXCEPT !.hidden = v.hidden \ {e}]
      \/ \E a \in ToSet(v.party) : u = [v EXCEPT !.party = Without(v.party, a)]
      \/ \E a \in Actors \ ToSet(v.party) : u = [v EXCEPT !.party = Append(v.party, a)]
      \/ u = v
  BY DEF Ran
<1>2. CASE \/ \E b \in All : u = AddState(v, b, "dead")
           \/ \E b \in All, s \in Inflicted : u = AddState(v, b, s)
           \/ \E b \in All : u = RemoveState(v, b)
           \/ u = v
  <2>1. Evolves(v, u)
    <3>1. \A b \in All : Evolves(v, RemoveState(v, b)) /\ \A s \in Statuses : Evolves(v, AddState(v, b, s))
      BY Adds, Removes
    <3>2. Evolves(v, v)
      BY EvolvesAgain
    <3> QED BY <1>0, <1>2, <3>1, <3>2
  <2> QED BY <2>1 DEF Evolves
<1>3. CASE \/ \E e \in Active(v, "enemies") : u = [v EXCEPT !.hidden = v.hidden \cup {e}]
           \/ \E e \in v.hidden : u = [v EXCEPT !.hidden = v.hidden \ {e}]
  <2>1. Active(v, "enemies") \subseteq Enemies
    BY DEF Active, Battle, Enemies
  <2>2. \E H \in SUBSET Enemies : u = [v EXCEPT !.hidden = H]
    BY <1>3, <2>1, FighterFields
  <2>3. Evolves(v, u)
    BY <2>2, Hiding
  <2> QED BY <2>3 DEF Evolves
<1>4. CASE \/ \E a \in ToSet(v.party) : u = [v EXCEPT !.party = Without(v.party, a)]
           \/ \E a \in Actors \ ToSet(v.party) : u = [v EXCEPT !.party = Append(v.party, a)]
  <2>1. v.party \in Seq(Actors)
    BY FighterFields
  <2>2. PICK p \in Seq(Actors) : IsInjective(p) /\ u = [v EXCEPT !.party = p]
    BY <1>4, <2>1, PartyWithout, Appended
  <2> QED BY <2>2, NewParty
<1> QED BY <1>1, <1>2, <1>3, <1>4

\* What a page makes of their states; and who is there stays there unless the page kills or removes.
LEMMA PagesLeave ==
  ASSUME NEW v \in Fighters, NEW c, NEW u \in Ran(v, c), BattlersAssumption
  PROVE  /\ \A x \in All : u.status[x] \in {v.status[x], "dead", "fine"} \cup Inflicted
         /\ c \notin {"kill", "remove"} => \A a \in Actors : Exists(v, a) => Exists(u, a)
<1>0. "dead" \in Statuses /\ Inflicted \subseteq Statuses \ {"dead"} /\ Actors \cap Enemies = {}
  BY DEF Statuses, BattlersAssumption
<1>1. \/ c = "kill" /\ \E b \in All : u = AddState(v, b, "dead")
      \/ \E b \in All, s \in Inflicted : u = AddState(v, b, s)
      \/ \E b \in All : u = RemoveState(v, b)
      \/ \E e \in Active(v, "enemies") : u = [v EXCEPT !.hidden = v.hidden \cup {e}]
      \/ \E e \in v.hidden : u = [v EXCEPT !.hidden = v.hidden \ {e}]
      \/ c = "remove" /\ \E a \in ToSet(v.party) : u = [v EXCEPT !.party = Without(v.party, a)]
      \/ \E a \in Actors \ ToSet(v.party) : u = [v EXCEPT !.party = Append(v.party, a)]
      \/ u = v
  BY DEF Ran
<1>2. CASE c = "kill" /\ \E b \in All : u = AddState(v, b, "dead")
  BY <1>0, <1>2, AddedStates
<1>3. CASE \E b \in All, s \in Inflicted : u = AddState(v, b, s)
  <2>1. PICK b \in All, s \in Inflicted : u = AddState(v, b, s)
    BY <1>3
  <2>2. u.hidden = v.hidden /\ u.party = v.party /\ \A x \in All : u.status[x] \in {v.status[x], s}
    BY <2>1, <1>0, AddedStates, Adds DEF Evolves
  <2> QED BY <2>2, <1>0 DEF Exists, All
<1>4. CASE \E b \in All : u = RemoveState(v, b)
  <2>1. PICK b \in All : u = RemoveState(v, b)
    BY <1>4
  <2>2. u.hidden = v.hidden /\ u.party = v.party /\ u.status = [v.status EXCEPT ![b] = "fine"]
    BY <2>1, Removes DEF Evolves
  <2>3. \A x \in All : u.status[x] \in {v.status[x], "fine"}
    BY <2>2, FighterFields
  <2> QED BY <2>2, <2>3 DEF Exists, All
<1>5. CASE \/ \E e \in Active(v, "enemies") : u = [v EXCEPT !.hidden = v.hidden \cup {e}]
           \/ \E e \in v.hidden : u = [v EXCEPT !.hidden = v.hidden \ {e}]
  <2>1. v.hidden \subseteq Enemies /\ Active(v, "enemies") \subseteq Enemies
    BY FighterFields DEF Active, Battle, Enemies
  <2>2. PICK H \in SUBSET Enemies : u = [v EXCEPT !.hidden = H]
    BY <1>5, <2>1
  <2>3. u.status = v.status /\ u.party = v.party /\ u.hidden = H
    BY <2>2 DEF Fighters
  <2>4. \A a \in Actors : a \notin H
    BY <1>0
  <2> QED BY <2>3, <2>4 DEF Exists
<1>6. CASE c = "remove" /\ \E a \in ToSet(v.party) : u = [v EXCEPT !.party = Without(v.party, a)]
  BY <1>6 DEF Fighters
<1>7. CASE \E a \in Actors \ ToSet(v.party) : u = [v EXCEPT !.party = Append(v.party, a)]
  <2>1. PICK a \in Actors \ ToSet(v.party) : u = [v EXCEPT !.party = Append(v.party, a)]
    BY <1>7
  <2>2. u.status = v.status /\ u.hidden = v.hidden /\ u.party = Append(v.party, a)
    BY <2>1 DEF Fighters
  <2>3. \A x : x \in ToSet(v.party) => x \in ToSet(u.party)
    BY <2>2, Appended, FighterFields
  <2> QED BY <2>2, <2>3 DEF Exists
<1>8. CASE u = v
  BY <1>8
<1> QED BY <1>1, <1>2, <1>3, <1>4, <1>5, <1>6, <1>7, <1>8

\* Who is there and who has won depends on the states, on who is hidden and on the party.
LEMMA SameStanding ==
  ASSUME NEW v, NEW u, u.status = v.status, u.hidden = v.hidden, u.party = v.party
  PROVE  /\ CheckLose(u) <=> CheckLose(v)
         /\ CheckWin(u) <=> CheckWin(v)
         /\ \A b : Exists(u, b) <=> Exists(v, b)
         /\ \A side : Active(u, side) = Active(v, side)
<1>1. \A b : Exists(u, b) <=> Exists(v, b)
  BY DEF Exists
<1>2. \A side : Battle(u, side) = Battle(v, side)
  BY DEF Battle
<1>3. \A side : Active(u, side) = Active(v, side)
  BY <1>1, <1>2 DEF Active
<1>4. CheckLose(u) <=> CheckLose(v)
  BY DEF CheckLose, CanActOrRecoverable
<1>5. CheckWin(u) <=> CheckWin(v)
  BY <1>3 DEF CheckWin
<1> QED BY <1>1, <1>3, <1>4, <1>5

-----------------------------------------------------------------------------
(* What battlers that do not choose do.                                     *)

LEMMA Members ==
  ASSUME NEW v \in Fighters, NEW side, BattlersAssumption
  PROVE  Active(v, side) \subseteq All /\ Battle(v, side) \in Seq(All)
<1>1. v.party \in Seq(Actors) /\ Troop \in Seq(Enemies)
  BY FighterFields DEF BattlersAssumption
<1>2. v.party \in Seq(All) /\ Troop \in Seq(All)
  BY <1>1, SeqMonotonic DEF All
<1>3. Battle(v, side) \in Seq(All)
  BY <1>2 DEF Battle
<1>4. ToSet(Battle(v, side)) \subseteq All
  BY <1>3, Elements
<1> QED BY <1>3, <1>4 DEF Active

LEMMA SidesOf ==
  /\ \A b : SideOf(b) \in Sides
  /\ \A side \in Sides : Other(side) \in Sides
BY DEF SideOf, Other, Sides

LEMMA ForcedOnes ==
  ASSUME NEW v \in Fighters, NEW b \in All, BattlersAssumption
  PROVE  Forced(v, b) \subseteq Acts \cup {NoAction}
<1>1. \A side : Active(v, side) \subseteq All
  BY Members
<1>2. \A t \in All : [type |-> "attack", target |-> t] \in Acts
  BY DEF Acts
<1> QED BY <1>1, <1>2 DEF Forced

LEMMA AiChoices ==
  ASSUME NEW v \in Fighters, NEW b \in All, NEW kinds, BattlersAssumption
  PROVE  AiActions(v, b, kinds) \subseteq Acts \cup {NoAction}
<1>1. \A side : Active(v, side) \subseteq All
  BY Members
<1>2. Forced(v, b) \subseteq Acts \cup {NoAction}
  BY ForcedOnes
<1>3. Chosen(v, b, kinds) \subseteq Acts
  <2>1. \A k \in {"attack", "skill", "escape", "defend"}, t \in All : [type |-> k, target |-> t] \in Acts
    BY DEF Acts
  <2>2. [type |-> "explode", target |-> Other(SideOf(b))] \in Acts
    BY SidesOf DEF Acts
  <2> QED BY <2>1, <2>2, <1>1 DEF Chosen
<1> QED BY <1>2, <1>3 DEF AiActions

LEMMA PreparedOnes ==
  ASSUME NEW v \in Fighters, NEW b \in All, v.algo[b] # Null, BattlersAssumption
  PROVE  Prepared(v, b) \subseteq Acts \cup {NoAction}
<1>1. Forced(v, b) \subseteq Acts \cup {NoAction}
  BY ForcedOnes
<1>2. v.algo[b] \in Acts \cup {NoAction}
  BY FighterFields DEF Algos
<1> QED BY <1>1, <1>2 DEF Prepared

-----------------------------------------------------------------------------
(* Targets.                                                                 *)

\* Around a table of n one comes by everybody else.
LEMMA Around ==
  ASSUME NEW n \in Nat, NEW at \in 1..n, NEW m \in 1..n, m # at
  PROVE  \E i \in 1..(n - 1) : ((at + i - 1) % n) + 1 = m
<1>1. CASE m > at
  <2>1. m - at \in 1..(n - 1) /\ at + (m - at) - 1 = m - 1 /\ m - 1 \in 0..(n - 1)
    BY <1>1
  <2>2. \A k \in 0..(n - 1) : k % n = k
    OBVIOUS
  <2>3. ((at + (m - at) - 1) % n) + 1 = m
    BY <2>1, <2>2
  <2> QED BY <2>1, <2>3
<1>2. CASE ~(m > at)
  <2>1. n + m - at \in 1..(n - 1) /\ at + (n + m - at) - 1 = n + (m - 1) /\ m - 1 \in 0..(n - 1)
    BY <1>2
  <2>2. \A k \in 0..(n - 1) : (n + k) % n = k
    OBVIOUS
  <2>3. ((at + (n + m - at) - 1) % n) + 1 = m
    BY <2>1, <2>2
  <2> QED BY <2>1, <2>3
<1> QED BY <1>1, <1>2

\* The battler that stands in for b, if anybody can.
LEMMA StandsIn ==
  ASSUME NEW v \in Fighters, NEW b \in All, BattlersAssumption
  PROVE  /\ NextActive(v, b) = <<>> \/ \E d \in Active(v, SideOf(b)) : NextActive(v, b) = <<d>>
         /\ b \in ToSet(Battle(v, SideOf(b))) =>
              \A c \in Active(v, SideOf(b)) \ {b} : NextActive(v, b) # <<>>
<1> DEFINE p == Battle(v, SideOf(b))
           n == Len(p)
           at == CHOOSE k \in DOMAIN p : p[k] = b
           Next1(i) == p[((at + i - 1) % n) + 1]
           found == {i \in 1..(n - 1) : Exists(v, Next1(i))}
           first == CHOOSE i \in found : \A j \in found : i <= j
<1>1. p \in Seq(All) /\ n \in Nat /\ DOMAIN p = 1..n
  <2>1. p \in Seq(All)
    BY Members
  <2> HIDE DEF p
  <2> QED BY <2>1 DEF n
<1>2. NextActive(v, b) = IF b \notin ToSet(p) \/ found = {} THEN <<>> ELSE <<Next1(first)>>
  BY DEF NextActive
<1>3. found # {} => first \in found
  <2>1. found \in SUBSET Nat
    BY <1>1
  <2> HIDE DEF found
  <2>2. found # {} => \E i \in found : \A j \in found : i <= j
    BY <2>1, LeastNumber
  <2> QED BY <2>2
<1> HIDE DEF first
<1>4. ASSUME b \in ToSet(p) PROVE at \in 1..n /\ p[at] = b
  <2>1. \E k \in DOMAIN p : p[k] = b
    BY <1>4 DEF ToSet
  <2> QED BY <2>1, <1>1
<1> HIDE DEF at
<1>5. ASSUME b \in ToSet(p), NEW i \in found PROVE Next1(i) \in Active(v, SideOf(b))
  <2>1. at \in 1..n /\ i \in 1..(n - 1) /\ Exists(v, Next1(i))
    BY <1>4, <1>5
  <2>2. n \in Nat \ {0} /\ at + i - 1 \in Nat
    BY <2>1, <1>1
  <2>3. \A x, y : x \in Nat /\ y \in Nat \ {0} => x % y \in 0..(y - 1)
    OBVIOUS
  <2>4. ((at + i - 1) % n) + 1 \in 1..n
    <3> DEFINE r == (at + i - 1) % n
    <3>1. r \in 0..(n - 1)
      BY <2>2, <2>3
    <3> HIDE DEF r, n
    <3>2. r + 1 \in 1..n
      BY <3>1, <2>2
    <3> QED BY <3>2 DEF r
  <2>5. Next1(i) \in ToSet(p)
    BY <2>4, <1>1 DEF ToSet
  <2> QED BY <2>1, <2>5 DEF Active
<1>6. ASSUME b \in ToSet(p), NEW c \in Active(v, SideOf(b)) \ {b} PROVE found # {}
  <2>1. c \in ToSet(p) /\ Exists(v, c) /\ c # b
    BY DEF Active
  <2>2. PICK m \in 1..n : p[m] = c
    BY <2>1, <1>1 DEF ToSet
  <2>3. at \in 1..n /\ m # at
    BY <2>1, <2>2, <1>4, <1>6
  <2> HIDE DEF n
  <2>4. PICK i \in 1..(n - 1) : ((at + i - 1) % n) + 1 = m
    BY <2>3, <1>1, Around
  <2>5. Next1(i) = c
    BY <2>4, <2>2
  <2>6. i \in found
    BY <2>1, <2>4, <2>5
  <2> QED BY <2>6
<1> HIDE DEF found
<1>7. NextActive(v, b) = <<>> \/ \E d \in Active(v, SideOf(b)) : NextActive(v, b) = <<d>>
  BY <1>2, <1>3, <1>5
<1>8. ASSUME b \in ToSet(p), NEW c \in Active(v, SideOf(b)) \ {b} PROVE NextActive(v, b) # <<>>
  <2>1. found # {}
    BY <1>6, <1>8
  <2>2. NextActive(v, b) = <<Next1(first)>>
    BY <2>1, <1>2, <1>8
  <2> QED BY <2>2
<1> QED BY <1>7, <1>8

\* The first valid target.
LEMMA FirstValid ==
  ASSUME NEW v, NEW algo, NEW targets \in Seq(All), NEW i
  PROVE  LET k == NextValid(v, algo, targets, i) IN
         /\ k \in 0..Len(targets)
         /\ k = 0 => \A j \in 1..Len(targets) : j > i => ~IsTargetValid(v, algo, targets[j])
<1> DEFINE valid == {j \in DOMAIN targets : j > i /\ IsTargetValid(v, algo, targets[j])}
           k == NextValid(v, algo, targets, i)
<1>1. DOMAIN targets = 1..Len(targets) /\ Len(targets) \in Nat
  OBVIOUS
<1>2. k = IF valid = {} THEN 0 ELSE CHOOSE j \in valid : \A l \in valid : j <= l
  BY DEF NextValid
<1>3. valid # {} => k \in valid
  <2>1. valid \in SUBSET Nat
    BY <1>1
  <2> HIDE DEF valid, k
  <2>2. valid # {} => \E j \in valid : \A l \in valid : j <= l
    BY <2>1, LeastNumber
  <2> QED BY <2>2, <1>2
<1> HIDE DEF k
<1>4. k \in 0..Len(targets) /\ (k = 0 => valid = {})
  <2>1. valid \subseteq 1..Len(targets)
    BY <1>1
  <2>2. k = 0 \/ valid # {}
    BY <1>2
  <2>3. 0 \notin valid
    BY <1>1
  <2> HIDE DEF valid
  <2>4. k \in 0..Len(targets)
    <3>1. k = 0 \/ k \in 1..Len(targets)
      BY <1>3, <2>1, <2>2
    <3> QED BY <1>1, <3>1
  <2>5. k = 0 => valid = {}
    BY <1>3, <2>3
  <2> QED BY <2>4, <2>5
<1>5. valid = {} => \A j \in 1..Len(targets) : j > i => ~IsTargetValid(v, algo, targets[j])
  BY <1>1
<1> QED BY <1>4, <1>5 DEF k

\* Whoever is there can be attacked.
LEMMA Attackable ==
  ASSUME NEW v, NEW algo, NEW b, algo.type \in {"attack", "explode", "skill"}, Exists(v, b)
  PROVE  IsTargetValid(v, algo, b)
BY DEF IsTargetValid, Exists

\* While both sides are there, an attack finds a target unless it is aimed at an actor who left.
LEMMA TargetFound ==
  ASSUME NEW v \in Fighters, NEW algo \in Acts, BattlersAssumption
  PROVE  LET found == Targets(v, algo) IN
         /\ found.targets \in Seq(All) /\ found.at \in 0..Len(found.targets)
         /\ /\ Active(v, "allies") # {} /\ Active(v, "enemies") # {}
            /\ algo.type \in {"attack", "explode", "skill"} /\ found.at = 0
            => algo.target \in Actors \ ToSet(v.party)
<1> DEFINE targets == IF algo.target \in All THEN <<algo.target>> ELSE Battle(v, algo.target)
           at == NextValid(v, algo, targets, 0)
           instead == IF at = 0 /\ algo.target \in All THEN NextActive(v, algo.target) ELSE <<>>
           extended == targets \o instead
           last == NextValid(v, algo, extended, 0)
           found == Targets(v, algo)
<1>1. found.targets = extended /\ found.at = IF at # 0 THEN at ELSE last
  BY DEF Targets
<1>2. targets \in Seq(All)
  BY Members
<1>3. instead \in Seq(All)
  <2>1. CASE at = 0 /\ algo.target \in All
    <3>1. \/ NextActive(v, algo.target) = <<>>
          \/ \E d \in Active(v, SideOf(algo.target)) : NextActive(v, algo.target) = <<d>>
      BY <2>1, StandsIn
    <3>2. Active(v, SideOf(algo.target)) \subseteq All
      BY Members
    <3>3. instead = NextActive(v, algo.target)
      BY <2>1
    <3>4. instead = <<>> \/ \E d \in All : instead = <<d>>
      BY <3>1, <3>2, <3>3
    <3>5. <<>> \in Seq(All) /\ \A d \in All : <<d>> \in Seq(All)
      OBVIOUS
    <3> HIDE DEF instead
    <3> QED BY <3>4, <3>5
  <2>2. CASE ~(at = 0 /\ algo.target \in All)
    <3>1. instead = <<>>
      BY <2>2
    <3> HIDE DEF instead
    <3> QED BY <3>1
  <2> QED BY <2>1, <2>2
<1>5. algo.target \in All \/ algo.target \in Sides
  BY DEF Acts
<1>7. Sides \cap All = {} /\ Actors \cap Enemies = {}
  BY DEF BattlersAssumption
<1> HIDE DEF targets, instead, at, last, found
<1>8. /\ extended \in Seq(All) /\ Len(extended) = Len(targets) + Len(instead)
      /\ \A i \in 1..Len(targets) : extended[i] = targets[i]
      /\ \A i \in 1..Len(instead) : extended[Len(targets) + i] = instead[i]
  <2>1. /\ extended \in Seq(All) /\ Len(extended) = Len(targets) + Len(instead)
        /\ \A i \in 1..(Len(targets) + Len(instead)) :
              extended[i] = IF i <= Len(targets) THEN targets[i] ELSE instead[i - Len(targets)]
    BY <1>2, <1>3, ConcatProperties
  <2>2. Len(targets) \in Nat /\ Len(instead) \in Nat
    BY <1>2, <1>3
  <2> HIDE DEF extended
  <2>3. \A i \in 1..Len(targets) : i \in 1..(Len(targets) + Len(instead)) /\ i <= Len(targets)
    BY <2>2
  <2>4. \A i \in 1..Len(instead) : /\ Len(targets) + i \in 1..(Len(targets) + Len(instead))
                                   /\ ~(Len(targets) + i <= Len(targets))
                                   /\ Len(targets) + i - Len(targets) = i
    BY <2>2
  <2> QED BY <2>1, <2>3, <2>4
<1> HIDE DEF extended
<1>9. /\ at \in 0..Len(targets) /\ (at = 0 => \A j \in 1..Len(targets) : ~IsTargetValid(v, algo, targets[j]))
      /\ last \in 0..Len(extended) /\ (last = 0 => \A j \in 1..Len(extended) : ~IsTargetValid(v, algo, extended[j]))
  <2>1. \A s \in Seq(All) : \A j \in 1..Len(s) : j > 0
    OBVIOUS
  <2> QED BY <2>1, <1>2, <1>8, FirstValid DEF at, last
<1>10. found.targets \in Seq(All) /\ found.at \in 0..Len(found.targets)
  BY <1>1, <1>2, <1>3, <1>8, <1>9
<1>11. ASSUME algo.type \in {"attack", "explode", "skill"}, found.at = 0,
              Active(v, "allies") # {}, Active(v, "enemies") # {}
       PROVE  algo.target \in Actors \ ToSet(v.party)
  <2>4. \A side \in Sides : Active(v, side) # {}
    BY <1>11 DEF Sides
  <2>1. at = 0 /\ last = 0
    BY <1>1, <1>11
  <2>2. CASE algo.target \in Sides
    <3>1. targets = Battle(v, algo.target)
      BY <2>2, <1>7 DEF targets
    <3>2. PICK b \in Active(v, algo.target) : TRUE
      BY <2>2, <2>4
    <3>3. PICK j \in 1..Len(targets) : targets[j] = b
      BY <3>1, <3>2, <1>2, Elements DEF Active
    <3>4. Exists(v, b)
      BY <3>2 DEF Active
    <3> QED BY <3>3, <3>4, <2>1, <1>9, <1>11, Attackable
  <2>3. CASE algo.target \in All
    <3> DEFINE t == algo.target
    <3> SUFFICES ASSUME t \notin Actors \ ToSet(v.party) PROVE FALSE
      OBVIOUS
    <3>1. targets = <<t>> /\ instead = NextActive(v, t)
      BY <2>1, <2>3 DEF targets, instead
    <3>2. Len(targets) = 1 /\ targets[1] = t
      BY <3>1
    <3>3. ~Exists(v, t)
      BY <3>2, <2>1, <1>9, <1>11, Attackable
    <3>4. t \in ToSet(Battle(v, SideOf(t)))
      <4>1. t \in ToSet(v.party) \/ t \in Enemies
        BY <2>3 DEF All
      <4>2. ToSet(v.party) \subseteq Actors
        BY FighterFields, Elements
      <4> QED BY <4>1, <4>2, <1>7 DEF SideOf, Battle, Enemies
    <3>5. PICK c \in Active(v, SideOf(t)) : TRUE
      BY <2>4, SidesOf
    <3>6. Exists(v, c)
      BY DEF Active
    <3>7. c # t
      BY <3>3, <3>6
    <3>8. NextActive(v, t) # <<>>
      BY <2>3, <3>4, <3>5, <3>7, StandsIn
    <3>9. PICK d \in Active(v, SideOf(t)) : NextActive(v, t) = <<d>>
      BY <2>3, <3>8, StandsIn
    <3>10. Exists(v, d)
      BY DEF Active
    <3>11. Len(instead) = 1 /\ instead[1] = d
      BY <3>1, <3>9
    <3>12. Len(extended) = 2 /\ extended[2] = d
      BY <3>2, <3>11, <1>8
    <3>13. IsTargetValid(v, algo, d)
      BY <3>10, <1>11, Attackable
    <3> QED BY <3>12, <3>13, <2>1, <1>9
  <2> QED BY <2>2, <2>3, <1>5
<1> QED BY <1>10, <1>11 DEF found

=============================================================================
