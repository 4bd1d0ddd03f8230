---------------------------- MODULE Rooms_proofs ----------------------------
(***************************************************************************)
(* Theorems about the others. NameTags, for any number of players,         *)
(* addresses, tiles and system graphics: tags and stacks stay in step.     *)
(* OtherPlayers, for any number of players and packets, any map, speeds    *)
(* and thresholds: players and nametags stay in step, and the place a      *)
(* player was last reported at is never lost. Rooms, for any rooms and     *)
(* packets in flight: however room changes, packets and lost connections   *)
(* cross, the client and the server agree on the room, and whoever is in   *)
(* it gets to the screen.                                                  *)
(***************************************************************************)
EXTENDS Rooms, FiniteSetTheorems, SequenceTheorems, TLAPS

-----------------------------------------------------------------------------
(* Erasing a pointer from a vector.                                         *)

Distinct(s) == \A i, j \in DOMAIN s : s[i] = s[j] => i = j
In(p, s) == \E i \in DOMAIN s : s[i] = p

\* vector::erase of one position.
LEMMA RemoveAtFacts ==
    ASSUME NEW S, NEW s \in Seq(S), NEW i \in 1 .. Len(s)
    PROVE  /\ RemoveAt(s, i) \in Seq(S)
           /\ Len(RemoveAt(s, i)) = Len(s) - 1
           /\ \A j \in 1 .. Len(s) - 1 : RemoveAt(s, i)[j] = IF j < i THEN s[j] ELSE s[j + 1]
<1> DEFINE a == SubSeq(s, 1, i - 1)
           b == SubSeq(s, i + 1, Len(s))
<1>1. /\ a \in Seq(S) /\ Len(a) = i - 1
      /\ \A j \in 1 .. i - 1 : a[j] = s[j]
  OBVIOUS
<1>2. /\ b \in Seq(S) /\ Len(b) = Len(s) - i
      /\ \A j \in 1 .. Len(s) - i : b[j] = s[i + j]
  OBVIOUS
<1>3. RemoveAt(s, i) = a \o b
  BY DEF RemoveAt
<1> HIDE DEF a, b
<1>4. /\ a \o b \in Seq(S)
      /\ Len(a \o b) = Len(a) + Len(b)
      /\ \A j \in 1 .. Len(a) + Len(b) :
            (a \o b)[j] = IF j <= Len(a) THEN a[j] ELSE b[j - Len(a)]
  BY <1>1, <1>2, ConcatProperties, Zenon
<1>5. ASSUME NEW j \in 1 .. Len(s) - 1
      PROVE  (a \o b)[j] = IF j < i THEN s[j] ELSE s[j + 1]
  <2>1. CASE j < i
    BY <2>1, <1>1, <1>2, <1>4
  <2>2. CASE j >= i
    <3>1. j - Len(a) \in 1 .. Len(s) - i /\ i + (j - Len(a)) = j + 1
      BY <2>2, <1>1
    <3> QED
      BY <2>2, <3>1, <1>1, <1>2, <1>4
  <2>3. j < i \/ j >= i
    OBVIOUS
  <2> QED
    BY <2>1, <2>2, <2>3
<1> QED
  BY <1>1, <1>2, <1>3, <1>4, <1>5

\* Erase takes p away and nothing else.
LEMMA EraseFacts ==
    ASSUME NEW S, NEW s \in Seq(S), NEW p
    PROVE  /\ Erase(s, p) \in Seq(S)
           /\ Distinct(s) => /\ Distinct(Erase(s, p))
                             /\ \A q : In(q, Erase(s, p)) <=> In(q, s) /\ q # p
<1>1. CASE ~\E i \in DOMAIN s : s[i] = p
  BY <1>1 DEF Erase, In
<1>2. CASE \E i \in DOMAIN s : s[i] = p
  <2> DEFINE c == CHOOSE i \in DOMAIN s : s[i] = p
             e == RemoveAt(s, c)
  <2>1. c \in 1 .. Len(s) /\ s[c] = p
    BY <1>2
  <2>2. Erase(s, p) = e
    BY <1>2 DEF Erase
  <2> HIDE DEF c
  <2>3. /\ e \in Seq(S) /\ Len(e) = Len(s) - 1
        /\ \A j \in 1 .. Len(s) - 1 : e[j] = IF j < c THEN s[j] ELSE s[j + 1]
    BY <2>1, RemoveAtFacts
  <2> HIDE DEF e
  <2>4. DOMAIN e = 1 .. Len(s) - 1 /\ DOMAIN s = 1 .. Len(s) /\ Len(s) \in Nat
    BY <2>3
  <2>5. \A i \in DOMAIN e : \E j \in DOMAIN s : s[j] = e[i]
    <3> SUFFICES ASSUME NEW i \in DOMAIN e PROVE \E j \in DOMAIN s : s[j] = e[i]
      OBVIOUS
    <3>1. i \in DOMAIN s /\ i + 1 \in DOMAIN s
      BY <2>4
    <3>2. e[i] = s[i] \/ e[i] = s[i + 1]
      BY <2>3, <2>4
    <3> QED BY <3>1, <3>2, Zenon
  <2>6. \A j \in DOMAIN s : s[j] # p => \E i \in DOMAIN e : e[i] = s[j]
    <3> SUFFICES ASSUME NEW j \in DOMAIN s, s[j] # p PROVE \E i \in DOMAIN e : e[i] = s[j]
      OBVIOUS
    <3>1. CASE j < c
      <4>1. j \in DOMAIN e /\ e[j] = s[j]
        BY <3>1, <2>1, <2>3, <2>4
      <4> QED BY <4>1
    <3>2. CASE j > c
      <4>1. j - 1 \in DOMAIN e /\ e[j - 1] = s[j]
        BY <3>2, <2>1, <2>3, <2>4
      <4> QED BY <4>1
    <3>3. j # c
      BY <2>1
    <3> QED BY <3>1, <3>2, <3>3, <2>1, <2>4
  <2>7. ASSUME Distinct(s)
        PROVE  Distinct(e) /\ \A i \in DOMAIN e : e[i] # p
    <3> DEFINE from(i) == IF i < c THEN i ELSE i + 1
    <3>1. \A i \in DOMAIN e : from(i) \in DOMAIN s /\ from(i) # c /\ e[i] = s[from(i)]
      BY <2>1, <2>3, <2>4
    <3>2. \A i, j \in DOMAIN e : from(i) = from(j) => i = j
      BY <2>1, <2>4
    <3> HIDE DEF from
    <3>3. \A i, j \in DOMAIN e : e[i] = e[j] => i = j
      BY <2>7, <3>1, <3>2 DEF Distinct
    <3>4. \A i \in DOMAIN e : e[i] # p
      BY <2>7, <3>1, <2>1, <2>4 DEF Distinct
    <3> QED BY <3>3, <3>4 DEF Distinct
  <2>8. ASSUME Distinct(s), NEW q
        PROVE  In(q, e) <=> In(q, s) /\ q # p
    BY <2>5, <2>6, <2>7, <2>8 DEF In
  <2> QED BY <2>2, <2>3, <2>7, <2>8
<1> QED BY <1>1, <1>2

\* vector::push_back.
LEMMA AppendFacts ==
    ASSUME NEW S, NEW s \in Seq(S), NEW p \in S
    PROVE  /\ Append(s, p) \in Seq(S)
           /\ \A q : In(q, Append(s, p)) <=> In(q, s) \/ q = p
           /\ Distinct(s) /\ ~In(p, s) => Distinct(Append(s, p))
<1> DEFINE a == Append(s, p)
<1>1. /\ a \in Seq(S)
      /\ DOMAIN a = 1 .. Len(s) + 1 /\ DOMAIN s = 1 .. Len(s) /\ Len(s) \in Nat
      /\ a[Len(s) + 1] = p
      /\ \A i \in 1 .. Len(s) : a[i] = s[i]
  BY AppendProperties
<1> HIDE DEF a
<1>2. ASSUME NEW q PROVE In(q, a) <=> In(q, s) \/ q = p
  <2>1. ASSUME NEW i \in DOMAIN a, a[i] = q PROVE In(q, s) \/ q = p
    BY <2>1, <1>1 DEF In
  <2>2. ASSUME NEW i \in DOMAIN s, s[i] = q PROVE In(q, a)
    BY <2>2, <1>1 DEF In
  <2>3. In(p, a)
    BY <1>1 DEF In
  <2> QED
    BY <2>1, <2>2, <2>3 DEF In
<1>3. ASSUME Distinct(s), ~In(p, s) PROVE Distinct(a)
  BY <1>1, <1>3 DEF Distinct, In
<1> QED
  BY <1>1, <1>2, <1>3 DEF a

-----------------------------------------------------------------------------
(* The inductive invariant. StacksHoldTags and TagsAreStacked say together   *)
(* that the pointers on the stack of a tile are, once each, the tags there.  *)

Stacked ==
    \A k \in Keys :
        /\ Distinct(nameStacks[k])
        /\ \A p : In(p, nameStacks[k]) <=> p \in Live /\ KeyOf(tags[p]) = k

TagsInv == TagsTypeOK /\ OneOwner /\ Stacked

LEMMA KeyOfTag == ASSUME NEW t \in Tag PROVE KeyOf(t) \in Keys
  BY DEF KeyOf, Tag, Keys

LEMMA StackedMeans ==
    ASSUME TagsTypeOK PROVE Stacked <=> StacksHoldTags /\ TagsAreStacked
<1>1. \A p \in Live : KeyOf(tags[p]) \in Keys
  BY KeyOfTag DEF TagsTypeOK
<1>2. Stacked => StacksHoldTags
  BY DEF Stacked, StacksHoldTags, Distinct, In
<1>3. Stacked => TagsAreStacked
  BY <1>1 DEF Stacked, TagsAreStacked, In
<1>4. StacksHoldTags /\ TagsAreStacked => Stacked
  BY DEF Stacked, StacksHoldTags, TagsAreStacked, Distinct, In
<1> QED
  BY <1>2, <1>3, <1>4

LEMMA NewTagFacts == NewTag \in Tag /\ KeyOf(NewTag) \in Keys
<1>1. NewTag \in Tag
  BY NameTagsAssumption DEF NewTag, Tag
<1> QED
  BY <1>1, KeyOfTag

LEMMA InitTags == TagsInit => TagsInv
<1> SUFFICES ASSUME TagsInit PROVE TagsInv
  OBVIOUS
<1> USE DEF Tagged, Live
<1>1. TagsTypeOK
  BY DEF TagsInit, TagsTypeOK, NoCallback
<1>2. OneOwner
  BY DEF TagsInit, OneOwner
<1>3. Stacked
  BY DEF TagsInit, Stacked, Distinct, In
<1> QED
  BY <1>1, <1>2, <1>3 DEF TagsInv

LEMMA CreateKeeps ==
    ASSUME TagsInv, NEW uid \in Uids, createNameTag(uid) PROVE TagsInv'
<1> USE DEF Tagged, Live
<1>1. PICK p \in Ptrs \ Live :
         /\ tags' = [q \in Live \cup {p} |-> IF q = p THEN NewTag ELSE tags[q]]
         /\ nameStacks' = [nameStacks EXCEPT ![KeyOf(NewTag)] = Append(@, p)]
         /\ nameTags' = [u \in Tagged \cup {uid} |-> IF u = uid THEN p ELSE nameTags[u]]
  BY DEF createNameTag
<1> DEFINE home == nameStacks[KeyOf(NewTag)]
<1>2. home \in Seq(Ptrs) /\ Distinct(home) /\ ~In(p, home)
  BY <1>1, NewTagFacts DEF TagsInv, TagsTypeOK, Stacked
<1>3. /\ Append(home, p) \in Seq(Ptrs) /\ Distinct(Append(home, p))
      /\ \A q : In(q, Append(home, p)) <=> In(q, home) \/ q = p
  BY <1>1, <1>2, AppendFacts
<1>4. /\ DOMAIN tags' = Live \cup {p} /\ tags'[p] = NewTag
      /\ \A q \in Live : tags'[q] = tags[q]
  BY <1>1
<1>5. /\ DOMAIN nameTags' = Tagged \cup {uid} /\ nameTags'[uid] = p
      /\ \A u \in Tagged : nameTags'[u] = nameTags[u]
  BY <1>1 DEF createNameTag
<1>6. TagsTypeOK'
  <2>1. nameTags' \in [Tagged' -> Ptrs] /\ Tagged' \subseteq Uids
    BY <1>1, <1>5 DEF TagsInv, TagsTypeOK
  <2>2. tags' \in [Live' -> Tag] /\ Live' \subseteq Ptrs
    BY <1>1, <1>4, NewTagFacts DEF TagsInv, TagsTypeOK
  <2>3. nameStacks' \in [Keys -> Seq(Ptrs)]
    BY <1>1, <1>3 DEF TagsInv, TagsTypeOK
  <2>4. /\ systemRequest' \in Callback \cup {NoCallback}
        /\ files' \in [Systems -> {"waiting", "pending", "done"}]
        /\ asked' \in [Tagged' -> Systems \cup {NoFile}]
        /\ lastAsk' \in Tagged' \cup {NoUid}
    BY <1>5 DEF createNameTag, TagsInv, TagsTypeOK
  <2> QED
    BY <2>1, <2>2, <2>3, <2>4 DEF TagsTypeOK
<1>7. OneOwner'
  BY <1>1, <1>4, <1>5 DEF TagsInv, OneOwner
<1>8. Stacked'
  BY <1>1, <1>3, <1>4, NewTagFacts DEF TagsInv, TagsTypeOK, Stacked
<1> QED
  BY <1>6, <1>7, <1>8 DEF TagsInv

LEMMA DeleteKeeps ==
    ASSUME TagsInv, NEW uid \in Uids, deleteNameTag(uid) PROVE TagsInv'
<1> USE DEF Tagged, Live
<1> DEFINE p == nameTags[uid]
           key == KeyOf(tags[p])
           stack == nameStacks[key]
<1>1. uid \in Tagged /\ p \in Live /\ p \in Ptrs /\ key \in Keys
  BY KeyOfTag DEF deleteNameTag, TagsInv, TagsTypeOK, OneOwner
<1>2. stack \in Seq(Ptrs) /\ Distinct(stack)
  BY <1>1 DEF TagsInv, TagsTypeOK, Stacked
<1>3. /\ Erase(stack, p) \in Seq(Ptrs) /\ Distinct(Erase(stack, p))
      /\ \A q : In(q, Erase(stack, p)) <=> In(q, stack) /\ q # p
  BY <1>2, EraseFacts
<1>4. /\ nameStacks' = [nameStacks EXCEPT ![key] = Erase(stack, p)]
      /\ tags' = [q \in Live \ {p} |-> tags[q]]
      /\ nameTags' = [u \in Tagged \ {uid} |-> nameTags[u]]
  BY DEF deleteNameTag
<1>5. TagsTypeOK'
  <2>1. nameTags' \in [Tagged' -> Ptrs] /\ Tagged' \subseteq Uids
    BY <1>4 DEF TagsInv, TagsTypeOK
  <2>2. tags' \in [Live' -> Tag] /\ Live' \subseteq Ptrs
    BY <1>4 DEF TagsInv, TagsTypeOK
  <2>3. nameStacks' \in [Keys -> Seq(Ptrs)]
    BY <1>3, <1>4 DEF TagsInv, TagsTypeOK
  <2>4. /\ systemRequest' \in Callback \cup {NoCallback}
        /\ files' \in [Systems -> {"waiting", "pending", "done"}]
        /\ asked' \in [Tagged' -> Systems \cup {NoFile}]
        /\ lastAsk' \in Tagged' \cup {NoUid}
    BY <1>4 DEF deleteNameTag, TagsInv, TagsTypeOK
  <2> QED
    BY <2>1, <2>2, <2>3, <2>4 DEF TagsTypeOK
<1>6. OneOwner'
  BY <1>1, <1>4 DEF TagsInv, OneOwner
<1>7. Stacked'
  <2> SUFFICES ASSUME NEW k \in Keys
               PROVE  /\ Distinct(nameStacks'[k])
                      /\ \A q : In(q, nameStacks'[k]) <=> q \in Live' /\ KeyOf(tags'[q]) = k
    BY DEF Stacked
  <2>1. \A q : q \in Live' <=> q \in Live /\ q # p
    BY <1>4
  <2>2. \A q \in Live' : tags'[q] = tags[q]
    BY <1>4
  <2>3. CASE k = key
    BY <2>1, <2>2, <2>3, <1>1, <1>3, <1>4 DEF TagsInv, TagsTypeOK, Stacked
  <2>4. CASE k # key
    BY <2>1, <2>2, <2>4, <1>1, <1>4 DEF TagsInv, TagsTypeOK, Stacked
  <2> QED
    BY <2>3, <2>4
<1> QED
  BY <1>5, <1>6, <1>7 DEF TagsInv

LEMMA MoveKeeps ==
    ASSUME TagsInv, NEW uid \in Uids, NEW x \in Xs, NEW y \in Ys, moveNameTag(uid, x, y)
    PROVE  TagsInv'
<1> USE DEF Tagged, Live
<1> DEFINE p == nameTags[uid]
           moved == [tags[p] EXCEPT !.x = x, !.y = y]
           from == KeyOf(tags[p])
           to == KeyOf(moved)
           erased == [nameStacks EXCEPT ![from] = Erase(@, p)]
<1>1. uid \in Tagged /\ p \in Live /\ p \in Ptrs /\ tags[p] \in Tag
  BY DEF moveNameTag, TagsInv, TagsTypeOK, OneOwner
<1>2. moved \in Tag
  BY <1>1 DEF Tag
<1>3. from \in Keys /\ to \in Keys
  BY <1>1, <1>2, KeyOfTag
<1>4. /\ tags' = [tags EXCEPT ![p] = moved]
      /\ nameStacks' = [erased EXCEPT ![to] = Append(@, p)]
      /\ UNCHANGED <<nameTags, systemRequest, files, asked, lastAsk>>
  BY DEF moveNameTag
<1> HIDE DEF moved, to, from
\* The tag is taken off its stack ...
<1>5. /\ erased \in [Keys -> Seq(Ptrs)]
      /\ \A k \in Keys : /\ Distinct(erased[k])
                         /\ \A q : In(q, erased[k]) <=>
                                 q \in Live /\ q # p /\ KeyOf(tags[q]) = k
  <2>1. nameStacks[from] \in Seq(Ptrs) /\ Distinct(nameStacks[from])
    BY <1>3 DEF TagsInv, TagsTypeOK, Stacked
  <2>2. /\ Erase(nameStacks[from], p) \in Seq(Ptrs)
        /\ Distinct(Erase(nameStacks[from], p))
        /\ \A q : In(q, Erase(nameStacks[from], p)) <=> In(q, nameStacks[from]) /\ q # p
    BY <2>1, EraseFacts
  <2>3. erased \in [Keys -> Seq(Ptrs)]
    BY <2>2, <1>3 DEF TagsInv, TagsTypeOK
  <2>4. ASSUME NEW k \in Keys
        PROVE  /\ Distinct(erased[k])
               /\ \A q : In(q, erased[k]) <=> q \in Live /\ q # p /\ KeyOf(tags[q]) = k
    <3>1. CASE k = from
      BY <3>1, <2>2, <1>3 DEF TagsInv, TagsTypeOK, Stacked
    <3>2. CASE k # from
      <4>1. erased[k] = nameStacks[k]
        BY <3>2 DEF TagsInv, TagsTypeOK
      <4> QED
        BY <3>2, <4>1 DEF TagsInv, Stacked, from
    <3> QED
      BY <3>1, <3>2
  <2> QED
    BY <2>3, <2>4
<1> HIDE DEF erased
\* ... and put on top of the one of its new tile.
<1>6. /\ Append(erased[to], p) \in Seq(Ptrs) /\ Distinct(Append(erased[to], p))
      /\ \A q : In(q, Append(erased[to], p)) <=> In(q, erased[to]) \/ q = p
  BY <1>1, <1>3, <1>5, AppendFacts
<1>7. /\ DOMAIN tags' = Live /\ tags'[p] = moved
      /\ \A q \in Live : q # p => tags'[q] = tags[q]
  BY <1>1, <1>4 DEF TagsInv, TagsTypeOK
<1>8. TagsTypeOK'
  <2>1. tags' \in [Live' -> Tag]
    BY <1>1, <1>2, <1>4 DEF TagsInv, TagsTypeOK
  <2>2. nameStacks' \in [Keys -> Seq(Ptrs)]
    BY <1>4, <1>5, <1>6
  <2> QED
    BY <2>1, <2>2, <1>4, <1>7 DEF TagsInv, TagsTypeOK
<1>9. OneOwner'
  BY <1>4, <1>7 DEF TagsInv, OneOwner
<1>10. Stacked'
  <2> SUFFICES ASSUME NEW k \in Keys
               PROVE  /\ Distinct(nameStacks'[k])
                      /\ \A q : In(q, nameStacks'[k]) <=> q \in Live' /\ KeyOf(tags'[q]) = k
    BY DEF Stacked
  <2>1. KeyOf(tags'[p]) = to
    BY <1>7 DEF to
  <2>2. CASE k = to
    <3>1. nameStacks'[k] = Append(erased[to], p)
      BY <2>2, <1>3, <1>4, <1>5
    <3> QED
      BY <3>1, <2>1, <2>2, <1>1, <1>5, <1>6, <1>7
  <2>3. CASE k # to
    <3>1. nameStacks'[k] = erased[k]
      BY <2>3, <1>3, <1>4, <1>5
    <3> QED
      BY <3>1, <2>1, <2>3, <1>1, <1>5, <1>7
  <2> QED
    BY <2>2, <2>3
<1> QED
  BY <1>8, <1>9, <1>10 DEF TagsInv

\* An answer changes the system graphic of at most one tag, and no tag's place.
LEMMA ArrivalFacts ==
    ASSUME TagsInv, NEW p, NEW f \in Systems, SystemArrives(p, f), UNCHANGED nameStacks
    PROVE  tags' \in [Live -> Tag] /\ Live' = Live /\ Stacked'
<1> USE DEF Live
<1>1. \A q \in Live : tags[q] \in Tag /\ [tags[q] EXCEPT !.system = f] \in Tag
  BY DEF TagsInv, TagsTypeOK, Tag
<1>2. Live' = Live /\ tags' \in [Live -> Tag]
  BY <1>1 DEF SystemArrives
<1>3. \A q \in Live : KeyOf(tags'[q]) = KeyOf(tags[q])
  BY DEF SystemArrives, KeyOf, TagsInv, TagsTypeOK, Tag
<1>4. Stacked'
  BY <1>2, <1>3 DEF TagsInv, Stacked
<1> QED
  BY <1>2, <1>4

LEMMA SetSystemKeeps ==
    ASSUME TagsInv, NEW uid \in Uids, NEW f \in Systems, setTagSystem(uid, f) PROVE TagsInv'
<1> USE DEF Tagged, Live
<1>1. nameTags[uid] \in Ptrs /\ uid \in Tagged
  BY DEF setTagSystem, TagsInv, TagsTypeOK
<1>2. tags' \in [Live -> Tag] /\ Live' = Live /\ Stacked'
  <2>1. CASE files[f] = "done"
    BY <2>1, ArrivalFacts DEF setTagSystem
  <2>2. CASE files[f] # "done"
    BY <2>2 DEF setTagSystem, TagsInv, TagsTypeOK, Stacked
  <2> QED
    BY <2>1, <2>2
<1>3. /\ systemRequest' \in Callback \cup {NoCallback}
      /\ files' \in [Systems -> {"waiting", "pending", "done"}]
  BY <1>1 DEF setTagSystem, TagsInv, TagsTypeOK, Callback
<1>4. TagsTypeOK'
  BY <1>1, <1>2, <1>3 DEF setTagSystem, TagsInv, TagsTypeOK
<1>5. OneOwner'
  BY <1>2 DEF setTagSystem, TagsInv, OneOwner
<1> QED
  BY <1>2, <1>4, <1>5 DEF TagsInv

LEMMA DownloadKeeps ==
    ASSUME TagsInv, NEW f \in Systems, DownloadDone(f) PROVE TagsInv'
<1> USE DEF Tagged, Live
<1>1. tags' \in [Live -> Tag] /\ Live' = Live /\ Stacked'
  <2>1. CASE systemRequest.file = f
    BY <2>1, ArrivalFacts DEF DownloadDone
  <2>2. CASE systemRequest.file # f
    BY <2>2 DEF DownloadDone, TagsInv, TagsTypeOK, Stacked
  <2> QED
    BY <2>1, <2>2
<1>2. TagsTypeOK'
  BY <1>1 DEF DownloadDone, TagsInv, TagsTypeOK
<1>3. OneOwner'
  BY <1>1 DEF DownloadDone, TagsInv, OneOwner
<1> QED
  BY <1>1, <1>2, <1>3 DEF TagsInv

LEMMA ClearKeeps == ASSUME TagsInv, clearNameTags PROVE TagsInv'
<1> USE DEF Tagged, Live
<1>1. TagsTypeOK'
  BY DEF clearNameTags, TagsInv, TagsTypeOK
<1>2. OneOwner' /\ Stacked'
  BY DEF clearNameTags, OneOwner, Stacked, Distinct, In
<1> QED
  BY <1>1, <1>2 DEF TagsInv

-----------------------------------------------------------------------------
(* The theorems.                                                            *)

LEMMA TagsInvariant == TagsSpec => []TagsInv
<1>1. TagsInv /\ [TagsNext]_tagVars => TagsInv'
  <2> SUFFICES ASSUME TagsInv, [TagsNext]_tagVars PROVE TagsInv'
    OBVIOUS
  <2>1. CASE UNCHANGED tagVars
    BY <2>1 DEF tagVars, TagsInv, TagsTypeOK, OneOwner, Stacked, Tagged, Live
  <2>2. CASE TagsNext
    BY <2>2, CreateKeeps, DeleteKeeps, ClearKeeps, MoveKeeps, SetSystemKeeps, DownloadKeeps
       DEF TagsNext
  <2> QED
    BY <2>1, <2>2
<1> QED
  BY <1>1, InitTags, PTL DEF TagsSpec

\* The types of NameTags hold in every state: every pointer on a stack is an address,
\* every tag stands on a tile (game_multiplayer_nametags.h:29-32).
THEOREM TagsTypeCorrect == TagsSpec => []TagsTypeOK
<1>1. TagsInv => TagsTypeOK
  BY DEF TagsInv
<1> QED
  BY <1>1, TagsInvariant, PTL

\* nameTags owns the tags: no tag is leaked, shared or freed while its player is there.
THEOREM TagsHaveOneOwner == TagsSpec => []OneOwner
<1>1. TagsInv => OneOwner
  BY DEF TagsInv
<1> QED
  BY <1>1, TagsInvariant, PTL

\* Draw never follows a dangling pointer, draws no tag twice and leaves none out: the
\* stacks hold the live tags, each once, each in the stack of its tile.
THEOREM StacksAreExact == TagsSpec => []StacksExact
<1>1. TagsInv => StacksExact
  BY StackedMeans DEF TagsInv, StacksExact
<1> QED
  BY <1>1, TagsInvariant, PTL

\* No order of creations, moves and deletions leaves a pointer on a stack to a tag that was
\* deleted or went to another tile, nor twice (DrawableNameTags::Draw,
\* deleteNameTag, moveNameTag).
THEOREM NothingDangles == TagsSpec => []StacksHoldTags
<1>1. TagsInv => StacksHoldTags
  BY StackedMeans DEF TagsInv
<1> QED
  BY <1>1, TagsInvariant, PTL

-----------------------------------------------------------------------------
(* Who is served. LastAskIsServed is inductive once it says that a tag that *)
(* was served leaves no callback behind, which could write over it.         *)

Served(p, f) ==
    IF files[f] = "done" THEN tags[p].system = f /\ systemRequest = NoCallback
                         ELSE systemRequest = [file |-> f, tag |-> p]

Serving ==
    lastAsk # NoUid => /\ asked[lastAsk] \in Systems
                       /\ Served(nameTags[lastAsk], asked[lastAsk])

LEMMA InitServing == TagsInit => Serving
  BY DEF TagsInit, Serving

LEMMA CreateServes ==
    ASSUME TagsInv, Serving, NEW uid \in Uids, createNameTag(uid) PROVE Serving'
<1> USE DEF Tagged, Live
<1>1. PICK p \in Ptrs \ Live :
         /\ tags' = [q \in Live \cup {p} |-> IF q = p THEN NewTag ELSE tags[q]]
         /\ nameTags' = [u \in Tagged \cup {uid} |-> IF u = uid THEN p ELSE nameTags[u]]
  BY DEF createNameTag
<1>2. SUFFICES ASSUME lastAsk # NoUid
      PROVE  asked'[lastAsk] \in Systems /\ Served(nameTags[lastAsk], asked[lastAsk])'
  BY DEF createNameTag, Serving
<1>3. lastAsk \in Tagged /\ lastAsk # uid /\ nameTags[lastAsk] \in Live
  BY <1>2 DEF createNameTag, TagsInv, TagsTypeOK, OneOwner
<1>4. /\ asked'[lastAsk] = asked[lastAsk] /\ nameTags'[lastAsk] = nameTags[lastAsk]
      /\ tags'[nameTags[lastAsk]] = tags[nameTags[lastAsk]]
      /\ UNCHANGED <<systemRequest, files, lastAsk>>
  BY <1>1, <1>3 DEF createNameTag
<1> QED
  BY <1>2, <1>4 DEF Serving, Served

LEMMA DeleteServes ==
    ASSUME TagsInv, Serving, NEW uid \in Uids, deleteNameTag(uid) PROVE Serving'
<1> USE DEF Tagged, Live
<1>1. SUFFICES ASSUME lastAsk # NoUid, lastAsk # uid
      PROVE  asked'[lastAsk] \in Systems /\ Served(nameTags[lastAsk], asked[lastAsk])'
  BY DEF deleteNameTag, Serving
<1>2. /\ lastAsk \in Tagged \ {uid}
      /\ nameTags[lastAsk] \in Live \ {nameTags[uid]}
  BY <1>1 DEF deleteNameTag, TagsInv, TagsTypeOK, OneOwner
<1>3. /\ asked'[lastAsk] = asked[lastAsk] /\ nameTags'[lastAsk] = nameTags[lastAsk]
      /\ tags'[nameTags[lastAsk]] = tags[nameTags[lastAsk]]
      /\ UNCHANGED <<systemRequest, files>> /\ lastAsk' = lastAsk
  BY <1>1, <1>2 DEF deleteNameTag
<1> QED
  BY <1>1, <1>3 DEF Serving, Served

LEMMA ClearServes == ASSUME clearNameTags PROVE Serving'
  BY DEF clearNameTags, Serving

LEMMA MoveServes ==
    ASSUME TagsInv, Serving, NEW uid \in Uids, NEW x \in Xs, NEW y \in Ys,
           moveNameTag(uid, x, y)
    PROVE  Serving'
<1> USE DEF Tagged, Live
<1>1. SUFFICES ASSUME lastAsk # NoUid
      PROVE  asked'[lastAsk] \in Systems /\ Served(nameTags[lastAsk], asked[lastAsk])'
  BY DEF moveNameTag, Serving
<1>2. /\ nameTags[lastAsk] \in Live /\ nameTags[uid] \in Live
      /\ tags[nameTags[uid]] \in Tag
  BY <1>1 DEF moveNameTag, TagsInv, TagsTypeOK, OneOwner
<1>3. /\ tags' = [tags EXCEPT ![nameTags[uid]] = [tags[nameTags[uid]] EXCEPT !.x = x, !.y = y]]
      /\ UNCHANGED <<nameTags, systemRequest, files, asked, lastAsk>>
  BY DEF moveNameTag
<1>4. tags'[nameTags[lastAsk]].system = tags[nameTags[lastAsk]].system
  BY <1>2, <1>3 DEF TagsInv, TagsTypeOK, Tag
<1> QED
  BY <1>1, <1>3, <1>4 DEF Serving, Served

\* The tag a callback writes to has its system graphic afterwards.
LEMMA ArrivalWrites ==
    ASSUME TagsInv, NEW p \in Live, NEW f, SystemArrives(p, f) PROVE tags'[p].system = f
  BY DEF TagsInv, TagsTypeOK, Live, Tag, SystemArrives

LEMMA SetSystemServes ==
    ASSUME TagsInv, NEW uid \in Uids, NEW f \in Systems, setTagSystem(uid, f) PROVE Serving'
<1> USE DEF Tagged, Live
<1>1. /\ uid \in Tagged /\ nameTags[uid] \in Live
      /\ lastAsk' = uid /\ asked'[uid] = f /\ nameTags' = nameTags
      /\ files \in [Systems -> {"waiting", "pending", "done"}]
  BY DEF setTagSystem, TagsInv, TagsTypeOK, OneOwner
<1>2. Served(nameTags[uid], f)'
  <2>1. CASE files[f] = "done"
    BY <1>1, <2>1, ArrivalWrites DEF setTagSystem, Served
  <2>2. CASE files[f] # "done"
    <3>1. files'[f] = "pending" /\ systemRequest' = [file |-> f, tag |-> nameTags[uid]]
      BY <1>1, <2>2 DEF setTagSystem
    <3> QED
      BY <1>1, <3>1 DEF Served
  <2> QED
    BY <2>1, <2>2
<1> QED
  BY <1>1, <1>2 DEF Serving, Served

LEMMA DownloadServes ==
    ASSUME TagsInv, Serving, NEW f \in Systems, DownloadDone(f) PROVE Serving'
<1> USE DEF Tagged, Live
<1>1. /\ files[f] = "pending" /\ files' = [files EXCEPT ![f] = "done"]
      /\ UNCHANGED <<nameTags, asked, lastAsk>>
      /\ files \in [Systems -> {"waiting", "pending", "done"}]
  BY DEF DownloadDone, TagsInv, TagsTypeOK
<1>2. SUFFICES ASSUME lastAsk # NoUid PROVE Served(nameTags[lastAsk], asked[lastAsk])'
  BY <1>1 DEF Serving
<1> DEFINE p == nameTags[lastAsk]
           g == asked[lastAsk]
<1>3. /\ p \in Live /\ g \in Systems /\ Served(p, g)
  BY <1>2 DEF TagsInv, TagsTypeOK, OneOwner, Serving
<1> HIDE DEF p, g
<1>4. f # NoFile
  BY NameTagsAssumption
<1>5. CASE g = f
  <2>1. systemRequest = [file |-> f, tag |-> p]
    BY <1>1, <1>3, <1>5 DEF Served
  <2>2. SystemArrives(p, f) /\ systemRequest' = NoCallback
    BY <2>1 DEF DownloadDone
  <2>3. tags'[p].system = f
    BY <1>3, <2>2, ArrivalWrites
  <2> QED
    BY <1>1, <1>3, <1>5, <2>2, <2>3 DEF Served, p, g
<1>6. CASE g # f
  <2>1. systemRequest.file # f
    BY <1>3, <1>4, <1>6 DEF Served, NoCallback
  <2>2. UNCHANGED <<tags, systemRequest>>
    BY <2>1 DEF DownloadDone
  <2> QED
    BY <1>1, <1>3, <1>6, <2>2 DEF Served, p, g
<1> QED
  BY <1>5, <1>6

\* Whoever setTagSystem was called for last gets the system graphic asked for: nobody
\* else's answer and no deleted or re-created tag comes in between.
THEOREM LastAskServed == TagsSpec => []LastAskIsServed
<1>1. TagsInv /\ Serving /\ [TagsNext]_tagVars => Serving'
  <2> SUFFICES ASSUME TagsInv, Serving, [TagsNext]_tagVars PROVE Serving'
    OBVIOUS
  <2>1. CASE UNCHANGED tagVars
    BY <2>1 DEF tagVars, Serving, Served
  <2>2. CASE TagsNext
    BY <2>2, CreateServes, DeleteServes, ClearServes, MoveServes, SetSystemServes,
       DownloadServes DEF TagsNext
  <2> QED
    BY <2>1, <2>2
<1>2. Serving => LastAskIsServed
  BY DEF Serving, Served, LastAskIsServed
<1> QED
  BY <1>1, <1>2, InitServing, TagsInvariant, PTL DEF TagsSpec

-----------------------------------------------------------------------------
(* NameTags implements TagBoard, for any number of players, addresses and  *)
(* tiles: the stacks of pointers, read as players, go through the steps of *)
(* the board and no others.                                                *)

Pictured == [k \in Keys |-> Owners(nameStacks[k])]

-----------------------------------------------------------------------------
(* Owners.                                                                  *)

LEMMA OnlyOne ==
    ASSUME NEW f, NEW q, NEW u \in DOMAIN f, f[u] = q, \A v \in DOMAIN f : f[v] = q => v = u
    PROVE  (CHOOSE w \in DOMAIN f : f[w] = q) = u
  OBVIOUS

LEMMA OwnerFacts ==
    ASSUME TagsInv
    PROVE  /\ \A u \in Tagged : nameTags[u] \in Live /\ Owner(nameTags[u]) = u
           /\ \A p \in Live : Owner(p) \in Tagged /\ nameTags[Owner(p)] = p
<1>1. ASSUME NEW u \in Tagged PROVE Owner(nameTags[u]) = u
  <2>1. \A v \in DOMAIN nameTags : nameTags[v] = nameTags[u] => v = u
    BY DEF TagsInv, OneOwner, Tagged
  <2> QED
    BY <2>1, OnlyOne DEF Owner, Tagged
<1>2. ASSUME NEW p \in Live PROVE Owner(p) \in Tagged /\ nameTags[Owner(p)] = p
  <2>1. PICK u \in Tagged : nameTags[u] = p
    BY DEF TagsInv, OneOwner
  <2> QED
    BY <1>1, <2>1
<1> QED
  BY <1>1, <1>2 DEF TagsInv, OneOwner

\* The pointers of a stack are live, so each has an owner.
LEMMA StackFacts ==
    ASSUME TagsInv, NEW k \in Keys
    PROVE  /\ nameStacks[k] \in Seq(Ptrs)
           /\ \A i \in 1 .. Len(nameStacks[k]) : nameStacks[k][i] \in Live
           /\ Distinct(nameStacks[k])
           /\ \A p : In(p, nameStacks[k]) <=> p \in Live /\ KeyOf(tags[p]) = k
<1>1. nameStacks[k] \in Seq(Ptrs)
  BY DEF TagsInv, TagsTypeOK
<1>2. \A p : In(p, nameStacks[k]) <=> p \in Live /\ KeyOf(tags[p]) = k
  BY DEF TagsInv, Stacked
<1>3. \A i \in 1 .. Len(nameStacks[k]) : In(nameStacks[k][i], nameStacks[k])
  BY <1>1 DEF In
<1> QED
  BY <1>1, <1>2, <1>3 DEF TagsInv, Stacked

LEMMA OwnersFacts ==
    ASSUME NEW s \in Seq(Ptrs), \A i \in 1 .. Len(s) : Owner(s[i]) \in Uids
    PROVE  /\ Owners(s) \in Seq(Uids) /\ Len(Owners(s)) = Len(s)
           /\ \A i \in 1 .. Len(s) : Owners(s)[i] = Owner(s[i])
<1>1. Owners(s) = [i \in 1 .. Len(s) |-> Owner(s[i])] /\ Len(s) \in Nat
  BY DEF Owners
<1>2. [i \in 1 .. Len(s) |-> Owner(s[i])] \in Seq(Uids)
  BY <1>1, IsASeq
<1> QED
  BY <1>1, <1>2

LEMMA AppendIs ==
    ASSUME NEW S, NEW s \in Seq(S), NEW e \in S
    PROVE  Append(s, e) = [i \in 1 .. Len(s) + 1 |-> IF i = Len(s) + 1 THEN e ELSE s[i]]
<1> DEFINE a == Append(s, e)
<1>1. /\ DOMAIN a = 1 .. Len(s) + 1 /\ a \in Seq(S) /\ Len(s) \in Nat
      /\ a[Len(s) + 1] = e /\ \A i \in 1 .. Len(s) : a[i] = s[i]
  BY AppendProperties
<1> HIDE DEF a
<1>2. a = [i \in DOMAIN a |-> a[i]]
  BY <1>1, LenProperties
<1>3. \A i \in 1 .. Len(s) + 1 : a[i] = IF i = Len(s) + 1 THEN e ELSE s[i]
  BY <1>1
<1> QED
  BY <1>1, <1>2, <1>3 DEF a

\* A pointer put on top of a stack puts its owner on top.
LEMMA OwnersOfAppend ==
    ASSUME NEW s \in Seq(Ptrs), NEW p \in Ptrs, Owner(p) \in Uids,
           \A i \in 1 .. Len(s) : Owner(s[i]) \in Uids
    PROVE  Owners(Append(s, p)) = Append(Owners(s), Owner(p))
<1> DEFINE t == Append(s, p)
           o == Owners(s)
<1>1. /\ Len(s) \in Nat /\ DOMAIN t = 1 .. Len(s) + 1
      /\ t[Len(s) + 1] = p /\ \A i \in 1 .. Len(s) : t[i] = s[i]
  BY AppendProperties
<1>2. o \in Seq(Uids) /\ Len(o) = Len(s) /\ \A i \in 1 .. Len(s) : o[i] = Owner(s[i])
  BY OwnersFacts
<1> HIDE DEF t, o
<1>3. Append(o, Owner(p)) = [i \in 1 .. Len(o) + 1 |-> IF i = Len(o) + 1 THEN Owner(p) ELSE o[i]]
  BY <1>2, AppendIs
<1>4. Owners(t) = [i \in 1 .. Len(s) + 1 |-> Owner(t[i])]
  BY <1>1 DEF Owners
<1>5. \A i \in 1 .. Len(s) + 1 : Owner(t[i]) = IF i = Len(s) + 1 THEN Owner(p) ELSE o[i]
  BY <1>1, <1>2
<1> QED
  BY <1>2, <1>3, <1>4, <1>5 DEF t, o

\* Whoever has a tag stands somewhere on the board, and nobody else.
LEMMA ShownAreTagged == ASSUME TagsInv PROVE Board!Shown = Tagged
<1>1. Board!Shown = UNION {ToSet(Owners(nameStacks[k])) : k \in Keys}
  <2>1. \A k \in Keys : Board!Standing(k) = ToSet(Owners(nameStacks[k]))
    BY DEF Board!Standing, Board!ToSet, ToSet
  <2>2. Board!Shown = UNION {Board!Standing(k) : k \in Keys}
    BY DEF Board!Shown
  <2> QED
    BY <2>1, <2>2
<1>2. ASSUME NEW k \in Keys, NEW u \in ToSet(Owners(nameStacks[k])) PROVE u \in Tagged
  <2>1. PICK i \in DOMAIN Owners(nameStacks[k]) : u = Owners(nameStacks[k])[i]
    BY <1>2 DEF ToSet
  <2>2. i \in DOMAIN nameStacks[k] /\ u = Owner(nameStacks[k][i])
    BY <2>1 DEF Owners
  <2>3. nameStacks[k][i] \in Live
    BY <2>2, StackFacts
  <2> QED
    BY <2>2, <2>3, OwnerFacts
<1>3. ASSUME NEW u \in Tagged PROVE \E k \in Keys : u \in ToSet(Owners(nameStacks[k]))
  <2> DEFINE p == nameTags[u]
             k == KeyOf(tags[p])
  <2>1. p \in Live /\ Owner(p) = u
    BY OwnerFacts
  <2>2. k \in Keys
    BY <2>1, KeyOfTag DEF TagsInv, TagsTypeOK
  <2> HIDE DEF p
  <2>3. PICK i \in DOMAIN nameStacks[k] : nameStacks[k][i] = p
    BY <2>1, <2>2, StackFacts DEF In
  <2> HIDE DEF k
  <2>4. i \in DOMAIN Owners(nameStacks[k]) /\ Owners(nameStacks[k])[i] = u
    BY <2>1, <2>3 DEF Owners
  <2> QED
    BY <2>2, <2>4 DEF ToSet
<1> QED
  BY <1>1, <1>2, <1>3

\* Taking a pointer off a stack takes its owner off the board.
LEMMA Removal ==
    ASSUME TagsInv, NEW k \in Keys, NEW u \in Tagged
    PROVE  RemoveFirst(Owners(nameStacks[k]), u) = Owners(Erase(nameStacks[k], nameTags[u]))
<1> DEFINE s == nameStacks[k]
           p == nameTags[u]
           b == Owners(s)
<1>1. /\ s \in Seq(Ptrs) /\ \A i \in 1 .. Len(s) : s[i] \in Live
      /\ Distinct(s) /\ Len(s) \in Nat /\ DOMAIN s = 1 .. Len(s)
  BY StackFacts
<1>2. \A i \in 1 .. Len(s) : Owner(s[i]) \in Uids /\ (Owner(s[i]) = u <=> s[i] = p)
  BY <1>1, OwnerFacts DEF TagsInv, TagsTypeOK
<1> HIDE DEF s, p
<1>3. /\ b \in Seq(Uids) /\ Len(b) = Len(s)
      /\ \A i \in 1 .. Len(s) : b[i] = Owner(s[i])
  BY <1>1, <1>2, OwnersFacts
<1> HIDE DEF b
<1>4. CASE ~\E i \in 1 .. Len(s) : s[i] = p
  BY <1>1, <1>2, <1>3, <1>4 DEF RemoveFirst, Erase, b, s, p
<1>5. CASE \E i \in 1 .. Len(s) : s[i] = p
  <2> DEFINE c == CHOOSE i \in DOMAIN s : s[i] = p
             rest == RemoveAt(s, c)
  <2>1. c \in 1 .. Len(s) /\ s[c] = p
    BY <1>1, <1>5
  <2>2. Erase(s, p) = rest
    BY <1>1, <1>5 DEF Erase
  <2> HIDE DEF c
  <2>3. {i \in 1 .. Len(b) : b[i] = u} = {c}
    BY <1>1, <1>2, <1>3, <2>1 DEF Distinct
  <2>4. SelectInSeq(b, LAMBDA v : v = u) = c
    <3>1. c \in Int /\ Min({c}) = c
      BY <2>1 DEF Min
    <3> QED
      BY <2>3, <3>1 DEF SelectInSeq
  <2>5. RemoveFirst(b, u) = RemoveAt(b, c)
    BY <1>2, <1>3, <1>5, <2>4 DEF RemoveFirst
  <2>6. /\ RemoveAt(b, c) \in Seq(Uids) /\ Len(RemoveAt(b, c)) = Len(s) - 1
        /\ \A j \in 1 .. Len(s) - 1 : RemoveAt(b, c)[j] = IF j < c THEN b[j] ELSE b[j + 1]
    BY <1>3, <2>1, RemoveAtFacts
  <2>7. /\ rest \in Seq(Ptrs) /\ Len(rest) = Len(s) - 1
        /\ \A j \in 1 .. Len(s) - 1 : rest[j] = IF j < c THEN s[j] ELSE s[j + 1]
    BY <1>1, <2>1, RemoveAtFacts
  <2> HIDE DEF rest
  <2>8. \A j \in 1 .. Len(s) - 1 : Owner(rest[j]) = IF j < c THEN b[j] ELSE b[j + 1]
    BY <1>1, <1>3, <2>1, <2>7
  <2>9. \A j \in 1 .. Len(s) - 1 : Owner(rest[j]) \in Uids
    BY <1>1, <1>2, <1>3, <2>1, <2>8
  <2>10. /\ Owners(rest) \in Seq(Uids) /\ Len(Owners(rest)) = Len(s) - 1
         /\ \A j \in 1 .. Len(s) - 1 : Owners(rest)[j] = Owner(rest[j])
    BY <2>7, <2>9, OwnersFacts
  <2>11. Owners(rest) = RemoveAt(b, c)
    BY <2>6, <2>8, <2>10, SeqEqual
  <2> QED
    BY <2>2, <2>5, <2>11 DEF b, s, p
<1> QED
  BY <1>4, <1>5

LEMMA WithoutFacts ==
    ASSUME TagsInv, NEW u \in Tagged
    PROVE  Board!Without(u) = [k \in Keys |-> Owners(Erase(nameStacks[k], nameTags[u]))]
<1>1. \A s : Board!RemoveFirst(s, u) = RemoveFirst(s, u)
  BY DEF Board!RemoveFirst, RemoveFirst, Board!RemoveAt, RemoveAt,
         Board!SelectInSeq, SelectInSeq, Board!Min, Min
<1>2. Board!Without(u) = [k \in Keys |-> RemoveFirst(Owners(nameStacks[k]), u)]
  BY <1>1 DEF Board!Without
<1>3. \A k \in Keys : RemoveFirst(Owners(nameStacks[k]), u)
                      = Owners(Erase(nameStacks[k], nameTags[u]))
  BY Removal
<1> QED
  BY <1>2, <1>3

\* A pointer erased where it is not changes nothing.
LEMMA EraseElsewhere ==
    ASSUME TagsInv, NEW k \in Keys, NEW p, p \in Live => KeyOf(tags[p]) # k
    PROVE  Erase(nameStacks[k], p) = nameStacks[k]
  BY StackFacts DEF Erase, In

-----------------------------------------------------------------------------
(* Every operation is a step of the board.                                  *)

LEMMA CreateArrives ==
    ASSUME TagsInv, NEW uid \in Uids, createNameTag(uid) PROVE Board!Arrive(uid)
<1> USE DEF Tagged, Live
<1> DEFINE home == KeyOf(NewTag)
<1>1. PICK p \in Ptrs \ Live :
         /\ tags' = [q \in Live \cup {p} |-> IF q = p THEN NewTag ELSE tags[q]]
         /\ nameStacks' = [nameStacks EXCEPT ![home] = Append(@, p)]
         /\ nameTags' = [u \in Tagged \cup {uid} |-> IF u = uid THEN p ELSE nameTags[u]]
  BY DEF createNameTag
<1>2. uid \notin Tagged /\ home \in Keys
  BY NewTagFacts DEF createNameTag
<1> HIDE DEF home
<1> DEFINE After(q) == CHOOSE u \in DOMAIN nameTags' : nameTags'[u] = q
<1>3. After(p) = uid
  <2>1. \A v \in DOMAIN nameTags' : nameTags'[v] = p => v = uid
    BY <1>1 DEF TagsInv, OneOwner
  <2>2. uid \in DOMAIN nameTags' /\ nameTags'[uid] = p
    BY <1>1
  <2> QED
    BY <2>1, <2>2, OnlyOne
<1>4. ASSUME NEW q \in Live PROVE After(q) = Owner(q)
  <2>1. Owner(q) \in Tagged /\ nameTags[Owner(q)] = q
    BY OwnerFacts
  <2>2. Owner(q) \in DOMAIN nameTags' /\ nameTags'[Owner(q)] = q
    BY <1>1, <1>2, <2>1
  <2>3. \A v \in DOMAIN nameTags' : nameTags'[v] = q => v = Owner(q)
    BY <1>1, <2>1 DEF TagsInv, OneOwner
  <2> QED
    BY <2>2, <2>3, OnlyOne
<1> HIDE DEF After
<1>5. ASSUME NEW k \in Keys, k # home PROVE Pictured'[k] = Pictured[k]
  <2>1. nameStacks'[k] = nameStacks[k]
    BY <1>1, <1>5 DEF TagsInv, TagsTypeOK
  <2> QED
    BY <1>4, <2>1, StackFacts DEF Pictured, Owners, Owner, After
<1>6. Pictured'[home] = Append(Pictured[home], uid)
  <2> DEFINE s == nameStacks[home]
             t == Append(s, p)
  <2>1. /\ s \in Seq(Ptrs) /\ \A i \in 1 .. Len(s) : s[i] \in Live
    BY <1>2, StackFacts
  <2>2. nameStacks'[home] = t
    BY <1>1, <1>2 DEF TagsInv, TagsTypeOK
  <2> HIDE DEF s
  <2>3. /\ Len(s) \in Nat /\ DOMAIN s = 1 .. Len(s) /\ DOMAIN t = 1 .. Len(s) + 1
        /\ t[Len(s) + 1] = p /\ \A i \in 1 .. Len(s) : t[i] = s[i]
    BY <2>1, AppendProperties
  <2> HIDE DEF t
  <2>4. \A i \in 1 .. Len(s) : Owner(s[i]) \in Uids
    BY <2>1, OwnerFacts DEF TagsInv, TagsTypeOK
  <2>5. /\ Owners(s) \in Seq(Uids) /\ Len(Owners(s)) = Len(s)
        /\ \A i \in 1 .. Len(s) : Owners(s)[i] = Owner(s[i])
    BY <2>1, <2>4, OwnersFacts
  <2>6. Append(Owners(s), uid) = [i \in 1 .. Len(s) + 1 |->
                                     IF i = Len(s) + 1 THEN uid ELSE Owners(s)[i]]
    BY <2>5, AppendIs
  <2>7. Pictured'[home] = [i \in 1 .. Len(s) + 1 |-> After(t[i])]
    BY <1>2, <2>2, <2>3 DEF Pictured, Owners, Owner, After
  <2>8. \A i \in 1 .. Len(s) + 1 : After(t[i]) = IF i = Len(s) + 1 THEN uid ELSE Owner(s[i])
    BY <1>3, <1>4, <2>1, <2>3
  <2>9. Pictured[home] = Owners(s)
    BY <1>2 DEF Pictured, s
  <2> QED
    BY <2>5, <2>6, <2>7, <2>8, <2>9
<1>7. Pictured' = [Pictured EXCEPT ![home] = Append(@, uid)]
  BY <1>2, <1>5, <1>6 DEF Pictured
<1>8. uid \notin Board!Shown
  BY <1>2, ShownAreTagged
<1> QED
  BY <1>7, <1>8 DEF Board!Arrive, Board!OnTop, Pictured, home

LEMMA DeleteLeaves ==
    ASSUME TagsInv, NEW uid \in Uids, deleteNameTag(uid) PROVE Board!Leave(uid)
<1> USE DEF Tagged, Live
<1> DEFINE p == nameTags[uid]
           key == KeyOf(tags[p])
<1>1. /\ uid \in Tagged
      /\ nameStacks' = [nameStacks EXCEPT ![key] = Erase(@, p)]
      /\ nameTags' = [u \in Tagged \ {uid} |-> nameTags[u]]
  BY DEF deleteNameTag
<1>2. p \in Live /\ key \in Keys
  BY <1>1, KeyOfTag DEF TagsInv, TagsTypeOK, OneOwner
<1>3. ASSUME NEW q \in Live, q # p PROVE Owner(q)' = Owner(q)
  <2>1. Owner(q) \in Tagged \ {uid} /\ nameTags[Owner(q)] = q
    BY <1>3, OwnerFacts
  <2>2. Owner(q) \in DOMAIN nameTags' /\ nameTags'[Owner(q)] = q
    BY <1>1, <2>1
  <2>3. \A v \in DOMAIN nameTags' : nameTags'[v] = q => v = Owner(q)
    BY <1>1, <2>1 DEF TagsInv, OneOwner
  <2> QED
    BY <2>2, <2>3, OnlyOne DEF Owner
<1>4. ASSUME NEW k \in Keys PROVE nameStacks'[k] = Erase(nameStacks[k], p)
  <2>1. CASE k = key
    BY <1>1, <2>1 DEF TagsInv, TagsTypeOK
  <2>2. CASE k # key
    BY <1>1, <2>2, EraseElsewhere DEF TagsInv, TagsTypeOK
  <2> QED
    BY <2>1, <2>2
<1>5. ASSUME NEW k \in Keys PROVE Pictured'[k] = Owners(Erase(nameStacks[k], p))
  <2> DEFINE s == nameStacks[k]
             t == Erase(s, p)
  <2>1. t \in Seq(Ptrs) /\ \A q : In(q, t) <=> In(q, s) /\ q # p
    BY StackFacts, EraseFacts
  <2>2. \A i \in DOMAIN t : t[i] \in Live /\ t[i] # p
    BY <2>1, StackFacts DEF In
  <2>3. nameStacks'[k] = t
    BY <1>4
  <2> HIDE DEF t
  <2> QED
    BY <1>3, <2>2, <2>3 DEF Pictured, Owners, t
<1>6. Pictured' = Board!Without(uid)
  <2>1. Board!Without(uid) = [k \in Keys |-> Owners(Erase(nameStacks[k], p))]
    BY <1>1, WithoutFacts
  <2> HIDE DEF p
  <2>2. Pictured' = [k \in Keys |-> Pictured'[k]]
    BY DEF Pictured
  <2> QED
    BY <1>5, <2>1, <2>2
<1> QED
  BY <1>1, <1>6, ShownAreTagged DEF Board!Leave, Pictured

LEMMA MoveMoves ==
    ASSUME TagsInv, NEW uid \in Uids, NEW x \in Xs, NEW y \in Ys, moveNameTag(uid, x, y)
    PROVE  \E tile \in Keys : Board!MoveTo(uid, tile)
<1> USE DEF Tagged, Live
<1> DEFINE p == nameTags[uid]
           moved == [tags[p] EXCEPT !.x = x, !.y = y]
           from == KeyOf(tags[p])
           to == KeyOf(moved)
           erased == [nameStacks EXCEPT ![from] = Erase(@, p)]
<1>1. /\ uid \in Tagged
      /\ nameStacks' = [erased EXCEPT ![to] = Append(@, p)]
      /\ nameTags' = nameTags
  BY DEF moveNameTag
<1>2. p \in Live /\ p \in Ptrs /\ from \in Keys /\ to \in Keys
  <2>1. p \in Live /\ p \in Ptrs /\ tags[p] \in Tag
    BY <1>1 DEF TagsInv, TagsTypeOK, OneOwner
  <2>2. moved \in Tag
    BY <2>1 DEF Tag
  <2> QED
    BY <2>1, <2>2, KeyOfTag
<1>3. Owner(p) = uid
  BY <1>1, OwnerFacts
<1> HIDE DEF p, from, to
<1>4. ASSUME NEW k \in Keys PROVE erased[k] = Erase(nameStacks[k], p)
  <2>1. CASE k = from
    BY <2>1 DEF TagsInv, TagsTypeOK
  <2>2. CASE k # from
    BY <2>2, EraseElsewhere DEF TagsInv, TagsTypeOK, from
  <2> QED
    BY <2>1, <2>2
<1>5. erased = [k \in Keys |-> Erase(nameStacks[k], p)]
  BY <1>4 DEF TagsInv, TagsTypeOK
<1> HIDE DEF erased
<1>6. nameStacks' = [k \in Keys |-> IF k = to THEN Append(Erase(nameStacks[k], p), p)
                                             ELSE Erase(nameStacks[k], p)]
  BY <1>1, <1>2, <1>5
<1>7. Owners(Append(Erase(nameStacks[to], p), p)) = Append(Owners(Erase(nameStacks[to], p)), uid)
  <2> DEFINE t == Erase(nameStacks[to], p)
  <2>1. t \in Seq(Ptrs) /\ \A q : In(q, t) <=> In(q, nameStacks[to]) /\ q # p
    BY <1>2, StackFacts, EraseFacts
  <2>2. \A i \in 1 .. Len(t) : Owner(t[i]) \in Uids
    <3>1. \A i \in 1 .. Len(t) : In(t[i], t)
      BY <2>1 DEF In
    <3>2. \A i \in 1 .. Len(t) : t[i] \in Live
      BY <1>2, <2>1, <3>1, StackFacts
    <3> QED
      BY <3>2, OwnerFacts DEF TagsInv, TagsTypeOK
  <2> HIDE DEF t
  <2>3. Owners(Append(t, p)) = Append(Owners(t), uid)
    BY <1>2, <1>3, <2>1, <2>2, OwnersOfAppend
  <2> QED
    BY <2>3 DEF t
<1>8. Pictured' = [Board!Without(uid) EXCEPT ![to] = Append(@, uid)]
  <2>1. Board!Without(uid) = [k \in Keys |-> Owners(Erase(nameStacks[k], p))]
    BY <1>1, WithoutFacts DEF p
  <2>2. Pictured' = [k \in Keys |-> Owners(nameStacks'[k])]
    BY <1>1 DEF Pictured, Owners, Owner
  <2> QED
    BY <1>2, <1>6, <1>7, <2>1, <2>2
<1>9. uid \in Board!Shown
  BY <1>1, ShownAreTagged
<1> QED
  BY <1>2, <1>8, <1>9 DEF Board!MoveTo, Board!OnTop, Pictured

\* Asking for a system graphic and its arrival are no steps of the board.
LEMMA OthersStutter ==
    ASSUME UNCHANGED <<nameTags, nameStacks>> PROVE UNCHANGED Pictured
  BY DEF Pictured, Owners, Owner, Tagged

-----------------------------------------------------------------------------
(* The theorem.                                                             *)

\* The stacks draw the board: a tag that arrives on a tile goes on top, every other keeps
\* its place in the order, and no tag moves but those of the player that was moved.
THEOREM TagsDrawTheBoard == TagsSpec => DrawsTheBoard
<1>1. TagsInit => Board!BoardInit
  <2>1. Owners(<<>>) = <<>>
    BY DEF Owners
  <2> QED
    BY <2>1 DEF TagsInit, Board!BoardInit
<1>2. TagsInv /\ [TagsNext]_tagVars => [Board!BoardNext]_Pictured
  <2> SUFFICES ASSUME TagsInv, [TagsNext]_tagVars
               PROVE  Board!BoardNext \/ UNCHANGED Pictured
    OBVIOUS
  <2>1. CASE \E uid \in Uids : createNameTag(uid)
    BY <2>1, CreateArrives DEF Board!BoardNext
  <2>2. CASE \E uid \in Uids : deleteNameTag(uid)
    BY <2>2, DeleteLeaves DEF Board!BoardNext
  <2>3. CASE \E uid \in Uids, x \in Xs, y \in Ys : moveNameTag(uid, x, y)
    BY <2>3, MoveMoves DEF Board!BoardNext
  <2>4. CASE clearNameTags
    <3>1. Board!Clear
      BY <2>4 DEF clearNameTags, Board!Clear, Owners
    <3> QED
      BY <3>1 DEF Board!BoardNext
  <2>5. CASE \/ \E uid \in Uids, f \in Systems : setTagSystem(uid, f)
             \/ \E f \in Systems : DownloadDone(f)
             \/ UNCHANGED tagVars
    BY <2>5, OthersStutter DEF setTagSystem, DownloadDone, tagVars
  <2> QED
    BY <2>1, <2>2, <2>3, <2>4, <2>5 DEF TagsNext
<1> QED
  BY <1>1, <1>2, TagsInvariant, PTL DEF TagsSpec, DrawsTheBoard, Board!BoardSpec, Pictured

-----------------------------------------------------------------------------
(* What the operations on nametags do to the places of the tags.            *)

TagOf(u) == tags[nameTags[u]]

LEMMA TagOfType == ASSUME TagsInv, NEW u \in Tagged PROVE TagOf(u) \in Tag
  BY DEF TagsInv, TagsTypeOK, OneOwner, TagOf, Tagged, Live

LEMMA CreateMovesNone ==
    ASSUME TagsInv, NEW uid \in Uids, createNameTag(uid)
    PROVE  Tagged' = Tagged \cup {uid} /\ \A u \in Tagged : TagOf(u)' = TagOf(u)
<1>1. PICK p \in Ptrs \ Live :
         /\ tags' = [q \in Live \cup {p} |-> IF q = p THEN NewTag ELSE tags[q]]
         /\ nameTags' = [u \in Tagged \cup {uid} |-> IF u = uid THEN p ELSE nameTags[u]]
  BY DEF createNameTag
<1>2. uid \notin Tagged
  BY DEF createNameTag
<1>3. \A u \in Tagged : nameTags[u] \in Live /\ nameTags'[u] = nameTags[u]
  BY <1>1, <1>2 DEF TagsInv, OneOwner
<1> QED
  BY <1>1, <1>3 DEF TagOf, Tagged, Live

LEMMA DeleteMovesNone ==
    ASSUME TagsInv, NEW uid \in Uids, deleteNameTag(uid)
    PROVE  Tagged' = Tagged \ {uid} /\ \A u \in Tagged \ {uid} : TagOf(u)' = TagOf(u)
<1>1. /\ tags' = [q \in Live \ {nameTags[uid]} |-> tags[q]]
      /\ nameTags' = [u \in Tagged \ {uid} |-> nameTags[u]]
      /\ uid \in Tagged
  BY DEF deleteNameTag
<1>2. \A u \in Tagged \ {uid} : nameTags[u] \in Live \ {nameTags[uid]}
  BY <1>1 DEF TagsInv, OneOwner
<1> QED
  BY <1>1, <1>2 DEF TagOf, Tagged

LEMMA MoveMovesOne ==
    ASSUME TagsInv, NEW uid \in Uids, NEW x \in Xs, NEW y \in Ys, moveNameTag(uid, x, y)
    PROVE  /\ Tagged' = Tagged
           /\ TagOf(uid).x' = x /\ TagOf(uid).y' = y
           /\ \A u \in Tagged \ {uid} : TagOf(u)' = TagOf(u)
<1>1. /\ tags' = [tags EXCEPT ![nameTags[uid]] = [tags[nameTags[uid]] EXCEPT !.x = x, !.y = y]]
      /\ nameTags' = nameTags /\ uid \in Tagged
  BY DEF moveNameTag
<1>2. /\ nameTags[uid] \in Live /\ tags[nameTags[uid]] \in Tag
      /\ \A u \in Tagged \ {uid} : nameTags[u] \in Live /\ nameTags[u] # nameTags[uid]
  BY <1>1 DEF TagsInv, OneOwner, TagsTypeOK
<1>3. tags \in [Live -> Tag]
  BY DEF TagsInv, TagsTypeOK
<1> QED
  BY <1>1, <1>2, <1>3 DEF TagOf, Tagged, Tag

LEMMA ArrivalMovesNone ==
    ASSUME TagsInv, NEW p, NEW f, SystemArrives(p, f), UNCHANGED nameTags
    PROVE  /\ Tagged' = Tagged
           /\ \A u \in Tagged : TagOf(u).x' = TagOf(u).x /\ TagOf(u).y' = TagOf(u).y
<1>1. /\ tags' = [q \in Live |-> IF q = p THEN [tags[q] EXCEPT !.system = f] ELSE tags[q]]
      /\ \A q \in Live : tags[q] \in Tag
      /\ \A u \in Tagged : nameTags[u] \in Live
  BY DEF SystemArrives, TagsInv, TagsTypeOK, OneOwner
<1>2. \A q \in Live : tags'[q].x = tags[q].x /\ tags'[q].y = tags[q].y
  BY <1>1 DEF Tag
<1> QED
  BY <1>1, <1>2 DEF TagOf, Tagged

-----------------------------------------------------------------------------
(* The walk along the queue.                                                *)

\* Trimming drops positions from the front only and leaves at least two.
LEMMA TrimmedFacts ==
    ASSUME NEW q \in Seq(Pos), q # <<>>
    PROVE  /\ Trimmed(q) \in Seq(Pos) /\ Trimmed(q) # <<>>
           /\ Last(Trimmed(q)) = Last(q)
           /\ Len(Trimmed(q)) = 1 => q = <<q[1]>>
<1>1. CASE Len(q) > TrimAbove
  <2> DEFINE t == SubSeq(q, Len(q) - TrimAbove + 1, Len(q))
  <2>1. TrimAbove \in Nat /\ TrimAbove >= 2
    BY OtherPlayersAssumption
  <2>2. /\ t \in Seq(Pos) /\ Len(t) = TrimAbove
        /\ t[TrimAbove] = q[Len(q)]
    BY <1>1, <2>1
  <2>3. Trimmed(q) = t
    BY <1>1 DEF Trimmed
  <2> HIDE DEF t
  <2> QED
    BY <2>1, <2>2, <2>3 DEF Last
<1>2. CASE ~(Len(q) > TrimAbove)
  BY <1>2 DEF Trimmed
<1> QED
  BY <1>1, <1>2

LEMMA TailFacts ==
    ASSUME NEW S, NEW s \in Seq(S), s # <<>>
    PROVE  /\ Tail(s) \in Seq(S)
           /\ IF Tail(s) = <<>> THEN Len(s) = 1 ELSE Last(Tail(s)) = Last(s)
<1>1. /\ Tail(s) \in Seq(S) /\ Len(Tail(s)) = Len(s) - 1
      /\ \A i \in 1 .. Len(Tail(s)) : Tail(s)[i] = s[i + 1]
  BY HeadTailProperties
<1>2. CASE Tail(s) = <<>>
  <2>1. Len(Tail(s)) = 0
    BY <1>2, EmptySeq
  <2>2. Len(s) \in Nat
    OBVIOUS
  <2> QED
    BY <1>1, <1>2, <2>1, <2>2
<1>3. CASE Tail(s) # <<>>
  <2>1. Len(Tail(s)) \in 1 .. Len(Tail(s)) /\ Len(Tail(s)) + 1 = Len(s)
    BY <1>1, <1>3, EmptySeq
  <2> QED
    BY <1>1, <1>3, <2>1 DEF Last
<1> QED
  BY <1>2, <1>3

LEMMA MoveFacts ==
    ASSUME NEW ch \in MPPlayer, NEW pos \in Pos
    PROVE  MovePlayerToPos(ch, pos) \in MPPlayer /\ MovePlayerToPos(ch, pos).at = pos
<1>1. TileSize \in Int
  BY OtherPlayersAssumption
<1>2. /\ [ch EXCEPT !.at = pos] \in MPPlayer
      /\ [ch EXCEPT !.at = pos].at = pos
  BY DEF MPPlayer
<1>3. /\ [ch EXCEPT !.at = pos, !.remaining = TileSize] \in MPPlayer
      /\ [ch EXCEPT !.at = pos, !.remaining = TileSize].at = pos
  BY <1>1 DEF MPPlayer
<1> QED
  BY <1>2, <1>3 DEF MovePlayerToPos

\* A player that takes up a position still ends where it was last reported.
LEMMA FollowFacts ==
    ASSUME NEW ch \in MPPlayer, ch.mvq # <<>>
    PROVE  /\ Follow(ch) \in MPPlayer
           /\ Head(ch.mvq) \in Pos
           /\ Follow(ch).at = Head(ch.mvq)
           /\ IF Follow(ch).mvq = <<>> THEN Last(ch.mvq) = Head(ch.mvq)
                                      ELSE Last(Follow(ch).mvq) = Last(ch.mvq)
<1> DEFINE q == ch.mvq
           lags == Len(q) > FastAbove
           rest == IF lags THEN Trimmed(q) ELSE q
           moved == MovePlayerToPos(ch, Head(q))
<1>1. q \in Seq(Pos) /\ Head(q) \in Pos /\ Head(q) = q[1]
  BY DEF MPPlayer
<1>2. moved \in MPPlayer /\ moved.at = Head(q)
  BY <1>1, MoveFacts
<1>3. /\ rest \in Seq(Pos) /\ rest # <<>> /\ Last(rest) = Last(q)
      /\ Len(rest) = 1 => q = <<q[1]>>
  BY <1>1, TrimmedFacts DEF Last
<1>4. Follow(ch) = [moved EXCEPT !.speed = IF lags THEN FastSpeed ELSE ch.moveSpeed,
                                 !.mvq = Tail(rest)]
  BY DEF Follow
<1> HIDE DEF moved, rest
<1>5. /\ Tail(rest) \in Seq(Pos)
      /\ IF Tail(rest) = <<>> THEN Len(rest) = 1 ELSE Last(Tail(rest)) = Last(rest)
  BY <1>3, TailFacts
<1>6. Follow(ch).at = Head(q) /\ Follow(ch).mvq = Tail(rest)
  BY <1>2, <1>4 DEF MPPlayer
<1>7. Follow(ch) \in MPPlayer
  BY <1>2, <1>4, <1>5, OtherPlayersAssumption DEF MPPlayer
<1>8. Tail(rest) = <<>> => Last(q) = Head(q)
  BY <1>1, <1>3, <1>5 DEF Last
<1> QED
  BY <1>1, <1>3, <1>5, <1>6, <1>7, <1>8

LEMMA AdvanceFacts ==
    ASSUME NEW ch \in MPPlayer
    PROVE  Advance(ch) \in MPPlayer /\ Advance(ch).at = ch.at /\ Advance(ch).mvq = ch.mvq
<1>1. 2 ^ (1 + ch.speed) \in Int
  <2>1. 1 + ch.speed \in Nat
    BY DEF MPPlayer
  <2> QED
    BY <2>1
<1> QED
  BY <1>1 DEF Advance, MPPlayer

-----------------------------------------------------------------------------
(* The inductive invariant: the tags are in order (TagsInv), the types are  *)
(* right, players and tags are in step, and every report is kept. Each of   *)
(* the last two needs the ones before it: a report may be kept on a tag,    *)
(* which must be there, be the player's own, and hold a position.           *)

PlayerTypes ==
    /\ other_players \in [Present -> MPPlayer]
    /\ todo \subseteq Present
    /\ asking \in Ask \cup {NoAsk}
    /\ aborted \in BOOLEAN
    /\ packets \in 0..MaxPackets
    /\ reported \in [Present -> Report]

KeptAt(u) ==
    reported[u].pos # <<>> =>
        LET p == other_players[u]
        IN  IF p.mvq = <<>>
            THEN p.at = reported[u].pos /\ TagOf(u).x = p.at[1] /\ TagOf(u).y = p.at[2]
            ELSE Last(p.mvq) = reported[u].pos

AllKept == \A u \in Present : KeptAt(u)

PlayersInv == TagsInv /\ PlayerTypes /\ PlayersHaveTags /\ AllKept

LEMMA KeptMeans ==
    ASSUME PlayerTypes PROVE LastReportKept <=> AllKept
<1>1. ASSUME NEW u \in Present
      PROVE  <<TagOf(u).x, TagOf(u).y>> = other_players[u].at
             <=> TagOf(u).x = other_players[u].at[1] /\ TagOf(u).y = other_players[u].at[2]
  <2>1. other_players[u].at \in Xs \X Ys
    BY DEF PlayerTypes, MPPlayer, Pos
  <2> QED
    BY <2>1
<1> QED
  BY <1>1 DEF LastReportKept, AllKept, KeptAt, TagOf

\* A player nobody reports, moves or walks keeps its report.
LEMMA StaysKept ==
    ASSUME NEW u, KeptAt(u), reported'[u] = reported[u],
           other_players'[u].mvq = other_players[u].mvq,
           other_players'[u].at = other_players[u].at,
           TagOf(u).x' = TagOf(u).x, TagOf(u).y' = TagOf(u).y
    PROVE  KeptAt(u)'
  BY DEF KeptAt

LEMMA InitPlayers == Init => PlayersInv
<1> SUFFICES ASSUME Init PROVE PlayersInv
  OBVIOUS
<1>1. TagsInv
  BY InitTags DEF Init
<1>2. PlayerTypes
  <2>1. Present = {} /\ DOMAIN reported = {}
    BY DEF Init, PlayersInit, Present
  <2>2. packets \in 0..MaxPackets
    BY OtherPlayersAssumption DEF Init, PlayersInit
  <2> QED
    BY <2>1, <2>2 DEF Init, PlayersInit, PlayerTypes, Present
<1>3. PlayersHaveTags /\ AllKept
  BY DEF Init, PlayersInit, TagsInit, PlayersHaveTags, AllKept, Present, Tagged
<1> QED
  BY <1>1, <1>2, <1>3 DEF PlayersInv

-----------------------------------------------------------------------------
(* One lemma per action.                                                    *)

LEMMA DisconnectKeeps ==
    ASSUME PlayersInv, Idle, packets' \in 0..MaxPackets, NEW uid \in Uids, Disconnect(uid)
    PROVE  PlayersInv'
<1> USE DEF PlayersInv, Present
<1>1. uid \in Tagged => deleteNameTag(uid)
  BY DEF Disconnect
<1>2. CASE uid \in Tagged
  <2>1. TagsInv'
    BY <1>1, <1>2, DeleteKeeps
  <2>2. Tagged' = Tagged \ {uid} /\ \A u \in Tagged \ {uid} : TagOf(u)' = TagOf(u)
    BY <1>1, <1>2, DeleteMovesNone
  <2>3. /\ other_players' = [u \in Present \ {uid} |-> other_players[u]]
        /\ reported' = [u \in Present \ {uid} |-> reported[u]]
        /\ UNCHANGED <<todo, asking, aborted>>
        /\ todo = {} /\ asking = NoAsk
    BY <1>2 DEF Disconnect, Idle
  <2>4. PlayerTypes'
    BY <2>3 DEF PlayerTypes
  <2>5. PlayersHaveTags'
    BY <2>2, <2>3 DEF PlayersHaveTags
  <2>6. AllKept'
    BY <2>2, <2>3, StaysKept DEF PlayersHaveTags, AllKept
  <2> QED
    BY <2>1, <2>4, <2>5, <2>6
<1>3. CASE uid \notin Tagged
  <2>1. UNCHANGED <<tagVars, other_players, reported, todo, asking>> /\ aborted' = TRUE
    BY <1>3 DEF Disconnect
  <2>2. TagsInv'
    BY <2>1 DEF tagVars, TagsInv, TagsTypeOK, OneOwner, Stacked, Tagged, Live
  <2>3. PlayerTypes' /\ PlayersHaveTags'
    BY <2>1 DEF PlayerTypes, PlayersHaveTags, tagVars, Tagged
  <2>4. AllKept'
    BY <2>1 DEF AllKept, KeptAt, TagOf, tagVars
  <2> QED
    BY <2>2, <2>3, <2>4
<1> QED
  BY <1>2, <1>3

LEMMA LeaveRoomKeeps ==
    ASSUME PlayersInv, LeaveRoom PROVE PlayersInv'
<1> USE DEF PlayersInv, Present
<1>1. TagsInv'
  BY ClearKeeps DEF LeaveRoom, ClearPlayers
<1>2. /\ DOMAIN other_players' = {} /\ DOMAIN reported' = {} /\ Tagged' = {}
      /\ todo' = {} /\ asking' = NoAsk /\ UNCHANGED <<aborted, packets>>
  BY DEF LeaveRoom, ClearPlayers, clearNameTags, Idle, Tagged
<1>3. PlayerTypes'
  BY <1>2 DEF PlayerTypes, LeaveRoom, ClearPlayers
<1>4. PlayersHaveTags' /\ AllKept'
  BY <1>2 DEF PlayersHaveTags, AllKept
<1> QED
  BY <1>1, <1>3, <1>4

LEMMA StartFrameKeeps ==
    ASSUME PlayersInv, StartFrame PROVE PlayersInv'
<1> USE DEF PlayersInv
<1>1. /\ UNCHANGED <<nameTags, tags, nameStacks, systemRequest, files, asked, lastAsk>>
      /\ UNCHANGED <<other_players, asking, aborted, packets, reported>> /\ todo' = Present
  BY DEF StartFrame, tagVars
<1>2. TagsInv'
  BY <1>1 DEF TagsInv, TagsTypeOK, OneOwner, Stacked, Tagged, Live
<1>3. PlayerTypes' /\ PlayersHaveTags'
  BY <1>1 DEF PlayerTypes, PlayersHaveTags, Present, Tagged
<1>4. AllKept'
  BY <1>1 DEF AllKept, KeptAt, TagOf, Present
<1> QED
  BY <1>2, <1>3, <1>4

LEMMA FileArrivesKeeps ==
    ASSUME PlayersInv, FileArrives PROVE PlayersInv'
<1> USE DEF PlayersInv
<1>1. PICK f \in Systems : DownloadDone(f)
  BY DEF FileArrives
<1>2. UNCHANGED <<other_players, todo, asking, aborted, packets, reported>>
  BY DEF FileArrives, playerVars
<1>3. TagsInv'
  BY <1>1, DownloadKeeps
<1>4. /\ Tagged' = Tagged
      /\ \A u \in Tagged : TagOf(u).x' = TagOf(u).x /\ TagOf(u).y' = TagOf(u).y
  <2>1. CASE systemRequest.file = f
    BY <1>1, <2>1, ArrivalMovesNone DEF DownloadDone
  <2>2. CASE systemRequest.file # f
    BY <1>1, <2>2 DEF DownloadDone, TagOf, Tagged
  <2> QED
    BY <2>1, <2>2
<1>5. PlayerTypes' /\ PlayersHaveTags'
  BY <1>2, <1>4 DEF PlayerTypes, PlayersHaveTags, Present
<1>6. AllKept'
  BY <1>2, <1>4, StaysKept DEF AllKept, PlayersHaveTags, Present
<1> QED
  BY <1>3, <1>5, <1>6

LEMMA AskSystemKeeps ==
    ASSUME PlayersInv, AskSystem PROVE PlayersInv'
<1> USE DEF PlayersInv
<1> DEFINE uid == asking.uid
           f == asking.file
<1>1. uid \in Uids /\ f \in Systems
  BY DEF AskSystem, PlayerTypes, Ask
<1>2. setTagSystem(uid, f) /\ asking' = NoAsk
  BY DEF AskSystem
<1>3. UNCHANGED <<other_players, todo, aborted, packets, reported>>
  BY DEF AskSystem
<1> HIDE DEF uid, f
<1>4. TagsInv'
  BY <1>1, <1>2, SetSystemKeeps
<1>5. /\ Tagged' = Tagged
      /\ \A u \in Tagged : TagOf(u).x' = TagOf(u).x /\ TagOf(u).y' = TagOf(u).y
  <2>1. CASE files[f] = "done"
    BY <1>2, <2>1, ArrivalMovesNone DEF setTagSystem
  <2>2. CASE files[f] # "done"
    BY <1>2, <2>2 DEF setTagSystem, TagOf, Tagged
  <2> QED
    BY <2>1, <2>2
<1>6. PlayerTypes' /\ PlayersHaveTags'
  BY <1>2, <1>3, <1>5 DEF PlayerTypes, PlayersHaveTags, Present
<1>7. AllKept'
  BY <1>3, <1>5, StaysKept DEF AllKept, PlayersHaveTags, Present
<1> QED
  BY <1>4, <1>6, <1>7

LEMMA UpdatePlayerKeeps ==
    ASSUME PlayersInv, NEW uid \in Uids, UpdatePlayer(uid) PROVE PlayersInv'
<1> USE DEF PlayersInv
<1> DEFINE ch == other_players[uid]
           follows == ch.mvq # <<>> /\ IsStopping(ch)
           to == Head(ch.mvq)
           next == IF follows THEN Follow(ch) ELSE ch
<1>1. /\ uid \in Present /\ ch \in MPPlayer /\ uid \in Tagged
      /\ todo' = todo \ {uid}
      /\ other_players' = [other_players EXCEPT ![uid] = Advance(next)]
      /\ UNCHANGED <<asking, aborted, packets, reported>>
  BY DEF UpdatePlayer, PlayerTypes, PlayersHaveTags
<1>2. CASE ~follows
  <2>1. UNCHANGED <<nameTags, tags, nameStacks, systemRequest, files, asked, lastAsk>>
    BY <1>2 DEF UpdatePlayer, tagVars
  <2>2. TagsInv'
    BY <2>1 DEF TagsInv, TagsTypeOK, OneOwner, Stacked, Tagged, Live
  <2>3. Advance(ch) \in MPPlayer /\ Advance(ch).at = ch.at /\ Advance(ch).mvq = ch.mvq
    BY <1>1, AdvanceFacts
  <2>4. other_players' = [other_players EXCEPT ![uid] = Advance(ch)]
    BY <1>1, <1>2
  <2> HIDE DEF ch
  <2>5. PlayerTypes'
    BY <1>1, <2>3, <2>4 DEF PlayerTypes, Present
  <2>6. PlayersHaveTags'
    BY <1>1, <2>1, <2>4 DEF PlayersHaveTags, Present, Tagged
  <2>7. \A u \in Present : /\ other_players'[u].at = other_players[u].at
                           /\ other_players'[u].mvq = other_players[u].mvq
    BY <2>3, <2>4 DEF PlayerTypes, ch, Present
  <2>8. AllKept'
    BY <1>1, <2>1, <2>4, <2>7, StaysKept DEF AllKept, TagOf, Present
  <2> QED
    BY <2>2, <2>5, <2>6, <2>8
<1>3. CASE follows
  <2>1. /\ Follow(ch) \in MPPlayer /\ to \in Pos /\ Follow(ch).at = to
        /\ IF Follow(ch).mvq = <<>> THEN Last(ch.mvq) = to
                                    ELSE Last(Follow(ch).mvq) = Last(ch.mvq)
    BY <1>1, <1>3, FollowFacts
  <2> DEFINE new == Advance(Follow(ch))
  <2>2. /\ new \in MPPlayer /\ new.at = to
        /\ IF new.mvq = <<>> THEN Last(ch.mvq) = to ELSE Last(new.mvq) = Last(ch.mvq)
    BY <2>1, AdvanceFacts
  <2>3. /\ moveNameTag(uid, to[1], to[2]) /\ to[1] \in Xs /\ to[2] \in Ys
    BY <1>3, <2>1 DEF UpdatePlayer, Pos
  <2>4. other_players' = [other_players EXCEPT ![uid] = new]
    BY <1>1, <1>3
  <2>5. ch.mvq # <<>>
    BY <1>3
  <2> HIDE DEF to, new, follows
  <2>6. TagsInv'
    BY <2>3, MoveKeeps
  <2>7. /\ Tagged' = Tagged
        /\ TagOf(uid).x' = to[1] /\ TagOf(uid).y' = to[2]
        /\ \A u \in Tagged \ {uid} : TagOf(u)' = TagOf(u)
    BY <2>3, MoveMovesOne
  <2>8. PlayerTypes'
    BY <1>1, <2>2, <2>4 DEF PlayerTypes, Present
  <2>9. PlayersHaveTags'
    BY <1>1, <2>4, <2>7 DEF PlayersHaveTags, Present
  <2>10. other_players'[uid] = new /\ Present' = Present
    BY <1>1, <2>4 DEF PlayerTypes, Present
  <2>11. KeptAt(uid)'
    <3>1. reported[uid].pos # <<>> => Last(ch.mvq) = reported[uid].pos
      BY <1>1, <2>5 DEF AllKept, KeptAt
    <3> QED
      BY <1>1, <2>2, <2>7, <2>10, <3>1 DEF KeptAt
  <2>12. ASSUME NEW u \in Present, u # uid PROVE KeptAt(u)'
    <3>1. other_players'[u] = other_players[u]
      BY <2>4, <2>12 DEF PlayerTypes
    <3> QED
      BY <1>1, <2>7, <2>12, <3>1, StaysKept DEF AllKept, PlayersHaveTags
  <2>13. AllKept'
    BY <2>10, <2>11, <2>12 DEF AllKept
  <2> QED
    BY <2>6, <2>8, <2>9, <2>13
<1> QED
  BY <1>2, <1>3

\* A queue a path was added to ends where the path ends.
LEMMA QueuedFacts ==
    ASSUME NEW q \in Seq(Pos), NEW path \in Seq(Pos)
    PROVE  /\ q \o path \in Seq(Pos)
           /\ path = <<>> => q \o path = q
           /\ path # <<>> => /\ Last(path) \in Pos
                             /\ q \o path # <<>> /\ Last(q \o path) = Last(path)
<1>1. /\ q \o path \in Seq(Pos) /\ Len(q \o path) = Len(q) + Len(path)
      /\ \A i \in 1 .. Len(q) + Len(path) :
            (q \o path)[i] = IF i <= Len(q) THEN q[i] ELSE path[i - Len(q)]
      /\ Len(q) \in Nat /\ Len(path) \in Nat
  BY ConcatProperties
<1>2. ASSUME path = <<>> PROVE q \o path = q
  BY <1>2
<1>3. ASSUME path # <<>>
      PROVE Last(path) \in Pos /\ q \o path # <<>> /\ Last(q \o path) = Last(path)
  <2>1. Len(path) > 0
    BY <1>1, <1>3, EmptySeq
  <2>2. (q \o path)[Len(q) + Len(path)] = path[Len(path)]
    BY <1>1, <2>1
  <2>3. path[Len(path)] \in Pos
    BY <1>1, <2>1, ElementOfSeq
  <2>4. q \o path # <<>>
    BY <1>1, <2>1, EmptySeq
  <2> QED
    BY <1>1, <2>2, <2>3, <2>4 DEF Last
<1> QED
  BY <1>1, <1>2, <1>3

LEMMA ObjectSyncKeeps ==
    ASSUME PlayersInv, Idle, packets' \in 0..MaxPackets,
           NEW uid \in Uids, NEW path \in Seq(Pos), NEW speed \in Speeds \cup {-1},
           NEW system \in Systems \cup {NoFile}, NEW at \in Pos, NEW hereSpeed \in Speeds,
           ObjectSync(uid, path, speed, system, at, hereSpeed)
    PROVE  PlayersInv'
<1> USE DEF PlayersInv
<1> DEFINE p == GetPlayerOrCreate(uid, at, hereSpeed)
           r == KnownOf(uid, hereSpeed)
           p2 == [p EXCEPT !.mvq = @ \o path, !.moveSpeed = IF speed = -1 THEN @ ELSE speed]
           r2 == [pos   |-> IF path = <<>> THEN r.pos ELSE Last(path),
                  speed |-> IF speed = -1 THEN r.speed ELSE speed]
<1>1. p \in MPPlayer /\ r \in Report
  <2>1. hereSpeed \in Nat
    BY OtherPlayersAssumption
  <2> QED
    BY <2>1 DEF GetPlayerOrCreate, KnownOf, NewPlayer, PlayerTypes, MPPlayer, Report
<1>2. /\ p.mvq \in Seq(Pos) /\ p.mvq \o path \in Seq(Pos)
      /\ path = <<>> => p.mvq \o path = p.mvq
      /\ path # <<>> => /\ Last(path) \in Pos
                        /\ p.mvq \o path # <<>> /\ Last(p.mvq \o path) = Last(path)
  BY <1>1, QueuedFacts DEF MPPlayer
<1>3. speed # -1 => speed \in Nat
  BY OtherPlayersAssumption
<1>4. /\ other_players' = [u \in Present \cup {uid} |->
                              IF u = uid THEN p2 ELSE other_players[u]]
      /\ reported' = [u \in Present \cup {uid} |-> IF u = uid THEN r2 ELSE reported[u]]
      /\ IF uid \in Present THEN UNCHANGED tagVars ELSE createNameTag(uid)
      /\ asking' = IF system = NoFile THEN NoAsk ELSE [uid |-> uid, file |-> system]
      /\ UNCHANGED <<todo, aborted>> /\ todo = {}
  BY DEF ObjectSync, Idle
<1>5. \/ uid \notin Present /\ p.mvq = <<>> /\ r.pos = <<>>
      \/ uid \in Present /\ p = other_players[uid] /\ r = reported[uid]
  BY DEF GetPlayerOrCreate, KnownOf, NewPlayer
<1> HIDE DEF p, r
<1>6. p2 \in MPPlayer /\ p2.mvq = p.mvq \o path /\ p2.at = p.at
  BY <1>1, <1>2, <1>3 DEF MPPlayer
<1>7. r2 \in Report /\ r2.pos = IF path = <<>> THEN r.pos ELSE Last(path)
  BY <1>1, <1>2, <1>3 DEF Report
<1> HIDE DEF p2, r2
<1>8. TagsInv' /\ Tagged' = Tagged \cup {uid} /\ \A u \in Tagged : TagOf(u)' = TagOf(u)
  <2>1. CASE uid \in Present
    <3>1. UNCHANGED <<nameTags, tags, nameStacks, systemRequest, files, asked, lastAsk>>
      BY <1>4, <2>1 DEF tagVars
    <3>2. TagsInv'
      BY <3>1 DEF TagsInv, TagsTypeOK, OneOwner, Stacked, Tagged, Live
    <3> QED
      BY <2>1, <3>1, <3>2 DEF PlayersHaveTags, TagOf, Tagged
  <2>2. CASE uid \notin Present
    BY <1>4, <2>2, CreateKeeps, CreateMovesNone
  <2> QED
    BY <2>1, <2>2
<1>9. PlayerTypes'
  <2>1. asking' \in Ask \cup {NoAsk}
    BY <1>4 DEF Ask
  <2>2. aborted' \in BOOLEAN /\ todo' = {}
    BY <1>4 DEF PlayerTypes
  <2>3. Present' = Present \cup {uid}
    BY <1>4 DEF Present
  <2>4. other_players' \in [Present' -> MPPlayer]
    BY <1>4, <1>6, <2>3 DEF PlayerTypes
  <2>5. reported' \in [Present' -> Report]
    BY <1>4, <1>7, <2>3 DEF PlayerTypes
  <2> QED
    BY <2>1, <2>2, <2>4, <2>5 DEF PlayerTypes
<1>10. PlayersHaveTags'
  BY <1>4, <1>8 DEF PlayersHaveTags, Present, NoAsk
<1>11. KeptAt(uid)'
  <2>1. other_players'[uid] = p2 /\ reported'[uid] = r2
    BY <1>4
  <2>2. CASE path # <<>>
    BY <1>2, <1>6, <1>7, <2>1, <2>2 DEF KeptAt
  <2>3. CASE path = <<>> /\ uid \notin Present
    BY <1>5, <1>7, <2>1, <2>3 DEF KeptAt
  <2>4. CASE path = <<>> /\ uid \in Present
    <3>1. p2.mvq = other_players[uid].mvq /\ p2.at = other_players[uid].at
          /\ r2.pos = reported[uid].pos
      BY <1>2, <1>5, <1>6, <1>7, <2>4
    <3>2. KeptAt(uid) /\ TagOf(uid)' = TagOf(uid)
      BY <1>8, <2>4 DEF AllKept, PlayersHaveTags
    <3> QED
      BY <2>1, <3>1, <3>2 DEF KeptAt
  <2> QED
    BY <2>2, <2>3, <2>4
<1>12. ASSUME NEW u \in Present, u # uid PROVE KeptAt(u)'
  <2>1. other_players'[u] = other_players[u] /\ reported'[u] = reported[u]
    BY <1>4, <1>12
  <2> QED
    BY <1>8, <2>1, StaysKept DEF AllKept, PlayersHaveTags
<1>13. AllKept'
  BY <1>4, <1>11, <1>12 DEF AllKept, Present
<1> QED
  BY <1>8, <1>9, <1>10, <1>13

LEMMA PathsAreQueues == Paths \subseteq Seq(Pos)
<1> SUFFICES ASSUME NEW path \in Paths PROVE path \in Seq(Pos)
  OBVIOUS
<1>1. PICK m \in 0 .. 2 : path \in [1 .. m -> Pos]
  BY DEF Paths, SeqOf
<1>2. \A i \in 1 .. m : path[i] \in Pos
  BY <1>1
<1>3. path = [i \in 1 .. m |-> path[i]] /\ m \in Nat
  BY <1>1
<1> QED
  BY <1>2, <1>3, IsASeq

LEMMA ReceivePacketKeeps ==
    ASSUME PlayersInv, ReceivePacket PROVE PlayersInv'
<1>1. Idle /\ packets' \in 0..MaxPackets
  BY OtherPlayersAssumption DEF ReceivePacket, PlayersInv, PlayerTypes
<1>2. PICK uid \in Uids :
         \/ \E path \in Paths, speed \in Speeds \cup {-1},
               system \in Systems \cup {NoFile}, at \in Pos, hereSpeed \in Speeds :
               ObjectSync(uid, path, speed, system, at, hereSpeed)
         \/ Disconnect(uid)
  BY <1>1 DEF ReceivePacket
<1>3. Paths \subseteq Seq(Pos)
  BY PathsAreQueues
<1>4. CASE Disconnect(uid)
  BY <1>1, <1>4, DisconnectKeeps
<1>5. ASSUME NEW path \in Seq(Pos), NEW speed \in Speeds \cup {-1},
             NEW system \in Systems \cup {NoFile}, NEW at \in Pos, NEW hereSpeed \in Speeds,
             ObjectSync(uid, path, speed, system, at, hereSpeed)
      PROVE  PlayersInv'
  BY <1>1, <1>5, ObjectSyncKeeps
<1> QED
  BY <1>2, <1>3, <1>4, <1>5

-----------------------------------------------------------------------------
(* The theorems.                                                            *)

LEMMA PlayersInvariant == PlayersSpec => []PlayersInv
<1>1. PlayersInv /\ [PlayersNext]_vars => PlayersInv'
  <2> SUFFICES ASSUME PlayersInv, [PlayersNext]_vars PROVE PlayersInv'
    OBVIOUS
  <2>1. CASE UNCHANGED vars
    <3>1. /\ UNCHANGED <<nameTags, tags, nameStacks, systemRequest, files, asked, lastAsk>>
          /\ UNCHANGED <<other_players, todo, asking, aborted, packets, reported>>
      BY <2>1 DEF vars, tagVars, playerVars
    <3>2. TagsInv'
      BY <3>1 DEF PlayersInv, TagsInv, TagsTypeOK, OneOwner, Stacked, Tagged, Live
    <3>3. PlayerTypes' /\ PlayersHaveTags'
      BY <3>1 DEF PlayersInv, PlayerTypes, PlayersHaveTags, Present, Tagged
    <3>4. AllKept'
      BY <3>1 DEF PlayersInv, AllKept, KeptAt, TagOf, Present
    <3> QED
      BY <3>2, <3>3, <3>4 DEF PlayersInv
  <2>2. CASE PlayersNext
    BY <2>2, ReceivePacketKeeps, AskSystemKeeps, LeaveRoomKeeps, FileArrivesKeeps,
       StartFrameKeeps, UpdatePlayerKeeps DEF PlayersNext
  <2> QED
    BY <2>1, <2>2
<1> QED
  BY <1>1, InitPlayers, PTL DEF PlayersSpec

\* The types of OtherPlayers hold in every state: the players the loop has yet to
\* visit are still there, a walking player stands on a tile of the map, its queue and
\* its report hold tiles of the map.
THEOREM PlayersTypeCorrect == PlayersSpec => []PlayersTypeOK
<1>1. PlayersInv => PlayersTypeOK
  BY DEF PlayersInv, PlayerTypes, PlayersHaveTags, PlayersTypeOK, TagsInv, TagsTypeOK
<1> QED
  BY <1>1, PlayersInvariant, PTL

\* Every player has a tag and every tag a player, so the assertions of moveNameTag,
\* setTagSystem and createNameTag never fail, whatever packets arrive.
THEOREM PlayersAlwaysHaveTags == PlayersSpec => []PlayersHaveTags
<1>1. PlayersInv => PlayersHaveTags
  BY DEF PlayersInv
<1> QED
  BY <1>1, PlayersInvariant, PTL

\* The place a player was last reported at is never lost, whatever its queue drops,
\* however far it lags behind and however it gets there.
THEOREM ReportsAreKept == PlayersSpec => []LastReportKept
<1>1. PlayersInv => LastReportKept
  BY KeptMeans DEF PlayersInv
<1> QED
  BY <1>1, PlayersInvariant, PTL

-----------------------------------------------------------------------------
(* Where steps end: what is left of a step is a number of whole frames, as  *)
(* a speed only changes between two steps.                                  *)

Walk == Speeds \cup {FastSpeed, 0}

Frames(ch) == \E k \in Nat : ch.remaining = k * 2 ^ (1 + ch.speed)

OnSchedule(ch) ==
    /\ ch.remaining >= 0 /\ Frames(ch)
    /\ ch.speed \in Walk /\ ch.moveSpeed \in Speeds \cup {0}

AllOnSchedule == \A u \in Present : OnSchedule(other_players[u])

LEMMA OneFrame ==
    ASSUME NEW r \in Int, NEW n \in Int, NEW k \in Nat, r = k * n, r > 0
    PROVE  r - n >= 0 /\ k - 1 \in Nat /\ r - n = (k - 1) * n
<1>1. k # 0
  OBVIOUS
<1>2. k - 1 \in Nat /\ r - n = (k - 1) * n
  BY <1>1
<1>3. n > 0
  OBVIOUS
<1>4. (k - 1) * n >= 0
  BY <1>2, <1>3
<1> QED
  BY <1>2, <1>4

LEMMA FrameLength == ASSUME NEW s \in Nat PROVE 2 ^ (1 + s) \in Int
<1>1. 1 + s \in Nat
  OBVIOUS
<1> QED
  BY <1>1

LEMMA AdvanceOnTime ==
    ASSUME NEW ch \in MPPlayer, OnSchedule(ch) PROVE OnSchedule(Advance(ch))
<1> DEFINE n == 2 ^ (1 + ch.speed)
           next == [ch EXCEPT !.remaining = @ - n]
<1>1. CASE IsStopping(ch)
  BY <1>1 DEF Advance
<1>2. CASE ~IsStopping(ch)
  <2>1. ch.remaining \in Int /\ n \in Int /\ ch.remaining > 0
    BY <1>2, FrameLength DEF MPPlayer, IsStopping
  <2>2. PICK k \in Nat : ch.remaining = k * n
    BY DEF OnSchedule, Frames
  <2> HIDE DEF n
  <2>3. ch.remaining - n >= 0 /\ k - 1 \in Nat /\ ch.remaining - n = (k - 1) * n
    BY <2>1, <2>2, OneFrame
  <2>4. /\ next.remaining = ch.remaining - n
        /\ next.speed = ch.speed /\ next.moveSpeed = ch.moveSpeed
    BY DEF MPPlayer
  <2>5. Advance(ch) = next
    BY <1>2 DEF Advance, n
  <2> HIDE DEF next
  <2>6. next.remaining = (k - 1) * 2 ^ (1 + next.speed)
    BY <2>3, <2>4 DEF n
  <2> QED
    BY <2>3, <2>4, <2>5, <2>6 DEF OnSchedule, Frames
<1> QED
  BY <1>1, <1>2

LEMMA FollowOnTime ==
    ASSUME NEW ch \in MPPlayer, OnSchedule(ch), ch.mvq # <<>>, IsStopping(ch)
    PROVE  OnSchedule(Follow(ch))
<1> DEFINE q == ch.mvq
           moved == MovePlayerToPos(ch, Head(q))
           pace == IF Len(q) > FastAbove THEN FastSpeed ELSE ch.moveSpeed
<1>1. moved \in MPPlayer
  <2>1. Head(q) \in Pos
    BY DEF MPPlayer
  <2> QED
    BY <2>1, MoveFacts
<1>2. ch.remaining = 0
  BY DEF OnSchedule, IsStopping, MPPlayer
<1>3. moved.moveSpeed = ch.moveSpeed /\ moved.remaining \in {0, TileSize}
  BY <1>2 DEF MovePlayerToPos, MPPlayer
<1>4. /\ Follow(ch).remaining = moved.remaining
      /\ Follow(ch).moveSpeed = ch.moveSpeed
      /\ Follow(ch).speed = pace
  BY <1>1, <1>3 DEF Follow, MPPlayer
<1>5. pace \in Walk
  BY DEF OnSchedule, Walk
<1> HIDE DEF pace, moved
<1>6. pace \in Nat /\ TileSize \in Nat
  BY <1>5, OtherPlayersAssumption DEF Walk
<1> DEFINE n == 2 ^ (1 + pace)
<1>7. n \in Int
  BY <1>6, FrameLength
<1>8. \E k \in Nat : TileSize = k * n
  BY <1>5, <1>6, StepAssumption DEF Walk
<1> HIDE DEF n
<1>9. \E k \in Nat : moved.remaining = k * n
  <2>1. 0 = 0 * n
    BY <1>7
  <2> QED
    BY <1>3, <1>8, <2>1
<1>10. Frames(Follow(ch))
  BY <1>4, <1>9 DEF Frames, n
<1> QED
  BY <1>3, <1>4, <1>5, <1>6, <1>10 DEF OnSchedule

LEMMA SyncOnTime ==
    ASSUME PlayersInv, AllOnSchedule,
           NEW uid \in Uids, NEW path \in Seq(Pos), NEW speed \in Speeds \cup {-1},
           NEW system \in Systems \cup {NoFile}, NEW at \in Pos, NEW hereSpeed \in Speeds,
           ObjectSync(uid, path, speed, system, at, hereSpeed)
    PROVE  AllOnSchedule'
<1> DEFINE p == GetPlayerOrCreate(uid, at, hereSpeed)
           p2 == [p EXCEPT !.mvq = @ \o path, !.moveSpeed = IF speed = -1 THEN @ ELSE speed]
<1>1. hereSpeed \in Nat
  BY OtherPlayersAssumption
<1>2. p \in MPPlayer
  BY <1>1 DEF GetPlayerOrCreate, NewPlayer, PlayersInv, PlayerTypes, MPPlayer
<1>3. OnSchedule(p)
  <2>1. CASE uid \in Present
    BY <2>1 DEF GetPlayerOrCreate, AllOnSchedule
  <2>2. CASE uid \notin Present
    <3>1. p = NewPlayer(at, hereSpeed)
      BY <2>2 DEF GetPlayerOrCreate
    <3>2. /\ p.remaining = 0 /\ p.speed = hereSpeed /\ p.moveSpeed = 0
      BY <3>1 DEF NewPlayer
    <3>3. 0 = 0 * 2 ^ (1 + hereSpeed)
      BY <1>1, FrameLength
    <3> HIDE DEF p
    <3> QED
      BY <3>2, <3>3 DEF OnSchedule, Frames, Walk
  <2> QED
    BY <2>1, <2>2
<1> HIDE DEF p
<1>4. /\ p2.remaining = p.remaining /\ p2.speed = p.speed
      /\ p2.moveSpeed = IF speed = -1 THEN p.moveSpeed ELSE speed
  BY <1>2 DEF MPPlayer
<1>5. OnSchedule(p2)
  BY <1>3, <1>4 DEF OnSchedule, Frames
<1>6. other_players' = [u \in Present \cup {uid} |-> IF u = uid THEN p2 ELSE other_players[u]]
  BY DEF ObjectSync, p
<1> HIDE DEF p2
<1> QED
  BY <1>5, <1>6 DEF AllOnSchedule, Present

LEMMA UpdateOnTime ==
    ASSUME PlayersInv, AllOnSchedule, NEW uid \in Uids, UpdatePlayer(uid) PROVE AllOnSchedule'
<1> DEFINE ch == other_players[uid]
           follows == ch.mvq # <<>> /\ IsStopping(ch)
           next == IF follows THEN Follow(ch) ELSE ch
<1>1. /\ uid \in Present /\ ch \in MPPlayer /\ OnSchedule(ch)
      /\ other_players' = [other_players EXCEPT ![uid] = Advance(next)]
      /\ other_players \in [Present -> MPPlayer]
  BY DEF UpdatePlayer, PlayersInv, PlayerTypes, AllOnSchedule
<1>2. next \in MPPlayer /\ OnSchedule(next)
  BY <1>1, FollowFacts, FollowOnTime
<1> HIDE DEF next
<1>3. OnSchedule(Advance(next))
  BY <1>2, AdvanceOnTime
<1> QED
  BY <1>1, <1>3 DEF AllOnSchedule, Present

\* A step ends exactly on a tile, whatever speeds are reported in the middle of it and
\* however far the player lags behind.
THEOREM StepsEndOnTiles == PlayersSpec => []StepEndsOnTile
<1>1. PlayersInv /\ AllOnSchedule /\ [PlayersNext]_vars => AllOnSchedule'
  <2> SUFFICES ASSUME PlayersInv, AllOnSchedule, [PlayersNext]_vars PROVE AllOnSchedule'
    OBVIOUS
  <2>1. CASE UNCHANGED other_players
    BY <2>1 DEF AllOnSchedule, Present
  <2>2. CASE ReceivePacket
    <3>1. PICK uid \in Uids :
             \/ \E path \in Paths, speed \in Speeds \cup {-1},
                   system \in Systems \cup {NoFile}, at \in Pos, hereSpeed \in Speeds :
                   ObjectSync(uid, path, speed, system, at, hereSpeed)
             \/ Disconnect(uid)
      BY <2>2 DEF ReceivePacket
    <3>2. CASE Disconnect(uid)
      BY <3>2 DEF Disconnect, AllOnSchedule, Present
    <3>3. ASSUME NEW path \in Paths, NEW speed \in Speeds \cup {-1},
                 NEW system \in Systems \cup {NoFile}, NEW at \in Pos, NEW hereSpeed \in Speeds,
                 ObjectSync(uid, path, speed, system, at, hereSpeed)
          PROVE  AllOnSchedule'
      BY <3>3, PathsAreQueues, SyncOnTime
    <3> QED
      BY <3>1, <3>2, <3>3
  <2>3. CASE LeaveRoom
    BY <2>3 DEF LeaveRoom, ClearPlayers, AllOnSchedule, Present
  <2>4. CASE AskSystem \/ FileArrives \/ StartFrame \/ UNCHANGED vars
    BY <2>1, <2>4 DEF AskSystem, FileArrives, StartFrame, vars, playerVars
  <2>5. CASE \E uid \in Uids : UpdatePlayer(uid)
    BY <2>5, UpdateOnTime
  <2> QED
    BY <2>2, <2>3, <2>4, <2>5 DEF PlayersNext
<1>2. Init => AllOnSchedule
  BY DEF Init, PlayersInit, AllOnSchedule, Present
<1>3. AllOnSchedule => StepEndsOnTile
  BY DEF AllOnSchedule, OnSchedule, StepEndsOnTile
<1> QED
  BY <1>1, <1>2, <1>3, PlayersInvariant, PTL DEF PlayersSpec

-----------------------------------------------------------------------------
(* The order in which positions are taken up.                               *)

LEMMA PrefixFacts ==
    ASSUME NEW q \in Seq(Pos), NEW path \in Seq(Pos) PROVE IsPrefix(q, q \o path)
<1> DEFINE s == q \o path
<1>1. /\ s \in Seq(Pos) /\ Len(s) = Len(q) + Len(path) /\ Len(q) \in Nat /\ Len(path) \in Nat
      /\ \A i \in 1 .. Len(q) : s[i] = q[i]
  BY ConcatProperties
<1> HIDE DEF s
<1>2. SubSeq(q, 1, Len(q)) = [i \in 1 .. Len(q) |-> q[i]]
  BY <1>1
<1>3. SubSeq(s, 1, Len(q)) = [i \in 1 .. Len(q) |-> s[i]]
  BY <1>1
<1>4. [i \in 1 .. Len(q) |-> q[i]] = [i \in 1 .. Len(q) |-> s[i]]
  BY <1>1
<1>5. Len(q) <= Len(s)
  BY <1>1
<1> QED
  BY <1>2, <1>3, <1>4, <1>5 DEF IsPrefix, s

LEMMA SuffixFacts ==
    ASSUME NEW q \in Seq(Pos), NEW m \in 1 .. Len(q) + 1
    PROVE  /\ Len(SubSeq(q, m, Len(q))) = Len(q) - m + 1
           /\ IsSuffix(SubSeq(q, m, Len(q)), q)
<1> DEFINE n == Len(q) - m + 1
           r == SubSeq(q, m, Len(q))
           back == [i \in 1 .. n |-> q[Len(q) - i + 1]]
<1>1. Len(q) \in Nat /\ n \in Nat /\ n <= Len(q)
  OBVIOUS
<1>2. r \in Seq(Pos) /\ Len(r) = n /\ \A i \in 1 .. n : r[i] = q[m + i - 1]
  BY <1>1
<1>3. Reverse(r) = back
  <2>1. \A i \in 1 .. n : r[n - i + 1] = q[Len(q) - i + 1]
    BY <1>1, <1>2
  <2> HIDE DEF r, n
  <2> QED
    BY <1>2, <2>1 DEF Reverse
<1>4. /\ Reverse(q) \in Seq(Pos) /\ Len(Reverse(q)) = Len(q)
      /\ \A i \in 1 .. Len(q) : Reverse(q)[i] = q[Len(q) - i + 1]
  <2>1. \A i \in 1 .. Len(q) : q[Len(q) - i + 1] \in Pos
    BY <1>1
  <2> QED
    BY <1>1, <2>1, IsASeq DEF Reverse
<1>5. back \in Seq(Pos) /\ Len(back) = n
  <2>1. \A i \in 1 .. n : q[Len(q) - i + 1] \in Pos
    BY <1>1
  <2> HIDE DEF n
  <2> QED
    BY <1>1, <2>1, IsASeq
<1>6. SubSeq(Reverse(q), 1, n) = back
  <2>1. SubSeq(Reverse(q), 1, n) = [i \in 1 .. n |-> Reverse(q)[i]]
    BY <1>1, <1>4
  <2> QED
    BY <1>1, <1>4, <2>1
<1>7. SubSeq(back, 1, n) = back
  <2> HIDE DEF n
  <2> QED
    BY <1>1, <1>5
<1> HIDE DEF n, r, back
<1> QED
  BY <1>1, <1>2, <1>3, <1>4, <1>5, <1>6, <1>7 DEF IsSuffix, IsPrefix, n, r

\* Following takes one position, after those that are skipped.
LEMMA FollowNext ==
    ASSUME NEW ch \in MPPlayer, ch.mvq # <<>> PROVE NextOf(ch.mvq, Follow(ch).mvq)
<1> DEFINE q == ch.mvq
           moved == MovePlayerToPos(ch, Head(q))
           rest == IF Len(q) > FastAbove THEN Trimmed(q) ELSE q
<1>1. q \in Seq(Pos) /\ Len(q) \in Nat /\ Len(q) > 0 /\ Head(q) \in Pos
  BY EmptySeq DEF MPPlayer
<1>2. Follow(ch).mvq = Tail(rest)
  <2>1. moved \in MPPlayer
    BY <1>1, MoveFacts
  <2> HIDE DEF moved, rest
  <2>2. \A n, t : [moved EXCEPT !.speed = n, !.mvq = t].mvq = t
    BY <2>1 DEF MPPlayer
  <2> QED
    BY <2>2 DEF Follow, moved, rest
<1>3. TrimAbove \in Nat /\ TrimAbove >= 2
  BY OtherPlayersAssumption
<1> HIDE DEF moved, q
<1>4. CASE rest = q
  <2>1. Tail(q) = SubSeq(q, 2, Len(q))
    BY <1>1
  <2>2. 2 \in 1 .. Len(q) + 1
    BY <1>1
  <2>3. /\ Len(SubSeq(q, 2, Len(q))) = Len(q) - 2 + 1
        /\ IsSuffix(SubSeq(q, 2, Len(q)), q)
    BY <1>1, <2>2, SuffixFacts, Zenon
  <2>4. Len(q) - 2 + 1 = Len(q) - 1
    BY <1>1
  <2> QED
    BY <1>2, <1>4, <2>1, <2>3, <2>4 DEF NextOf, q
<1>5. CASE rest # q
  <2> DEFINE m == Len(q) - TrimAbove + 1
  <2>1. rest = SubSeq(q, m, Len(q)) /\ Len(q) > TrimAbove
    BY <1>5 DEF Trimmed
  <2> HIDE DEF rest
  <2>2. m \in 1 .. Len(q) /\ m + 1 \in 1 .. Len(q) + 1 /\ Len(q) \in m .. Len(q)
    BY <1>1, <1>3, <2>1
  <2>3. Tail(rest) = SubSeq(q, m + 1, Len(q))
    BY <1>1, <2>1, <2>2, HeadTailOfSubSeq
  <2>4. /\ Len(SubSeq(q, m + 1, Len(q))) = Len(q) - (m + 1) + 1
        /\ IsSuffix(SubSeq(q, m + 1, Len(q)), q)
    BY <1>1, <2>2, SuffixFacts, Zenon
  <2>5. Len(q) - (m + 1) + 1 = TrimAbove - 1
    BY <1>1, <1>3
  <2> QED
    BY <1>2, <2>1, <2>3, <2>4, <2>5 DEF NextOf, q
<1> QED
  BY <1>4, <1>5

InOrder(u) ==
    u \in Present /\ u \in Present' =>
        \/ IsPrefix(other_players[u].mvq, other_players'[u].mvq)
        \/ NextOf(other_players[u].mvq, other_players'[u].mvq)

\* A queue nobody touches is a prefix of itself.
LEMMA SameQueue ==
    ASSUME PlayersInv, NEW u, u \in Present => other_players'[u].mvq = other_players[u].mvq
    PROVE  InOrder(u)
  BY DEF InOrder, IsPrefix, PlayersInv, PlayerTypes, MPPlayer

LEMMA SyncInOrder ==
    ASSUME PlayersInv,
           NEW uid \in Uids, NEW path \in Seq(Pos), NEW speed \in Speeds \cup {-1},
           NEW system \in Systems \cup {NoFile}, NEW at \in Pos, NEW hereSpeed \in Speeds,
           ObjectSync(uid, path, speed, system, at, hereSpeed), NEW u \in Uids
    PROVE  InOrder(u)
<1>1. CASE u \in Present /\ u = uid
  <2>1. other_players[u] \in MPPlayer
    BY <1>1 DEF PlayersInv, PlayerTypes
  <2>2. other_players'[u].mvq = other_players[u].mvq \o path
    BY <1>1, <2>1 DEF ObjectSync, GetPlayerOrCreate, MPPlayer
  <2>3. other_players[u].mvq \in Seq(Pos)
    BY <2>1 DEF MPPlayer
  <2> QED
    BY <2>2, <2>3, PrefixFacts DEF InOrder
<1>2. CASE u \in Present /\ u # uid
  <2>1. other_players'[u] = other_players[u]
    BY <1>2 DEF ObjectSync
  <2> QED
    BY <2>1, SameQueue
<1>3. CASE u \notin Present
  BY <1>3 DEF InOrder
<1> QED
  BY <1>1, <1>2, <1>3

LEMMA UpdateInOrder ==
    ASSUME PlayersInv, NEW uid \in Uids, UpdatePlayer(uid), NEW u \in Uids PROVE InOrder(u)
<1> DEFINE ch == other_players[uid]
           follows == ch.mvq # <<>> /\ IsStopping(ch)
           next == IF follows THEN Follow(ch) ELSE ch
<1>1. /\ uid \in Present /\ ch \in MPPlayer
      /\ other_players' = [other_players EXCEPT ![uid] = Advance(next)]
      /\ other_players \in [Present -> MPPlayer]
  BY DEF UpdatePlayer, PlayersInv, PlayerTypes
<1>2. next \in MPPlayer
  BY <1>1, FollowFacts
<1>3. next.mvq = ch.mvq \/ NextOf(ch.mvq, next.mvq)
  BY <1>1, FollowNext
<1> HIDE DEF next
<1>4. Advance(next).mvq = next.mvq
  BY <1>2, AdvanceFacts
<1>5. CASE u = uid
  <2>1. other_players'[u].mvq = next.mvq
    BY <1>1, <1>4, <1>5 DEF Present
  <2>2. CASE next.mvq = ch.mvq
    BY <1>5, <2>1, <2>2, SameQueue
  <2>3. CASE NextOf(ch.mvq, next.mvq)
    BY <1>5, <2>1, <2>3 DEF InOrder
  <2> QED
    BY <1>3, <2>2, <2>3
<1>6. CASE u # uid
  <2>1. u \in Present => other_players'[u] = other_players[u]
    BY <1>1, <1>6 DEF Present
  <2> QED
    BY <2>1, SameQueue
<1> QED
  BY <1>5, <1>6

\* Positions are taken up in the order in which they were reported, and none is skipped
\* before more than TrimAbove wait, in any order of packets and frames.
THEOREM PlayersWalkInOrder == PlayersSpec => WalksInOrder
<1>1. PlayersInv /\ [PlayersNext]_vars => [\A u \in Uids : InOrder(u)]_vars
  <2> SUFFICES ASSUME PlayersInv, PlayersNext, NEW u \in Uids PROVE InOrder(u)
    OBVIOUS
  <2>1. CASE ReceivePacket
    <3>1. PICK uid \in Uids :
             \/ \E path \in Paths, speed \in Speeds \cup {-1},
                   system \in Systems \cup {NoFile}, at \in Pos, hereSpeed \in Speeds :
                   ObjectSync(uid, path, speed, system, at, hereSpeed)
             \/ Disconnect(uid)
      BY <2>1 DEF ReceivePacket
    <3>2. CASE Disconnect(uid)
      <4>1. u \in Present' => other_players'[u] = other_players[u]
        BY <3>2 DEF Disconnect, Present
      <4> QED
        BY <4>1, SameQueue DEF InOrder
    <3>3. ASSUME NEW path \in Paths, NEW speed \in Speeds \cup {-1},
                 NEW system \in Systems \cup {NoFile}, NEW at \in Pos, NEW hereSpeed \in Speeds,
                 ObjectSync(uid, path, speed, system, at, hereSpeed)
          PROVE  InOrder(u)
      BY <3>3, PathsAreQueues, SyncInOrder
    <3> QED
      BY <3>1, <3>2, <3>3
  <2>2. CASE LeaveRoom
    BY <2>2 DEF LeaveRoom, ClearPlayers, InOrder, Present
  <2>3. CASE AskSystem \/ FileArrives \/ StartFrame
    BY <2>3, SameQueue DEF AskSystem, FileArrives, StartFrame, playerVars
  <2>4. CASE \E uid \in Uids : UpdatePlayer(uid)
    BY <2>4, UpdateInOrder
  <2> QED
    BY <2>1, <2>2, <2>3, <2>4 DEF PlayersNext
<1>2. [\A u \in Uids : InOrder(u)]_vars
      <=> [\A u \in Uids : u \in Present /\ u \in Present' =>
              \/ IsPrefix(other_players[u].mvq, other_players'[u].mvq)
              \/ NextOf(other_players[u].mvq, other_players'[u].mvq)]_vars
  BY DEF InOrder
<1> QED
  BY <1>1, <1>2, PlayersInvariant, PTL DEF PlayersSpec, WalksInOrder

-----------------------------------------------------------------------------
(* Rooms: what is in flight, and what it will lead to.                      *)

Places == RoomIds \cup {Lobby}

RoomsTypes ==
    /\ connected \in BOOLEAN
    /\ room_id \in Places /\ session \in Places
    /\ up \in Seq(Places) /\ down \in Seq(Packet)
    /\ peers \in [Uids -> RoomIds]

\* Without a connection nothing is in flight and the server knows nothing of us; with one,
\* the last room packet in flight names our room, or else the server has us there.
Agreement ==
    /\ ~connected => up = <<>> /\ down = <<>> /\ session = Lobby
    /\ connected => room_id = IF up = <<>> THEN session ELSE up[Len(up)]

\* The packets in flight end in one that shows u, or do not hide it.
Coming(u, s) == \E i \in DOMAIN s : /\ s[i] = Sync(u)
                                    /\ \A j \in i + 1 .. Len(s) : s[j] # Gone(u)
NotGoing(u, s) == \A j \in DOMAIN s : s[j] # Gone(u)

\* Whoever is in our room is on the screen to stay, or on the way to it, unless a room change
\* of ours is yet to be answered. MissingIsOnItsWay alone is not inductive: it says nothing
\* of a player on the screen whom a packet in flight will remove.
ShownOrComing ==
    ~aborted /\ up = <<>> =>
        \A u \in Here : Coming(u, down) \/ (u \in Present /\ NotGoing(u, down))

RoomsInv == RoomsTypes /\ Agreement /\ ShownOrComing

-----------------------------------------------------------------------------
(* What packets do to those who are coming.                                 *)

LEMMA PacketFacts ==
    \A u, v \in Uids : /\ Sync(u) \in Packet /\ Gone(u) \in Packet
                       /\ Sync(u) # Gone(v)
                       /\ Sync(u) = Sync(v) => u = v
                       /\ Gone(u) = Gone(v) => u = v
  BY DEF Sync, Gone, Packet

LEMMA OneMore ==
    ASSUME NEW s \in Seq(Packet), NEW e \in Packet, NEW u \in Uids
    PROVE  /\ e = Sync(u) => Coming(u, Append(s, e))
           /\ e # Gone(u) /\ Coming(u, s) => Coming(u, Append(s, e))
           /\ e # Gone(u) /\ NotGoing(u, s) => NotGoing(u, Append(s, e))
<1> DEFINE t == Append(s, e)
<1>1. /\ Len(t) = Len(s) + 1 /\ \A i \in 1 .. Len(s) : t[i] = s[i]
      /\ t[Len(s) + 1] = e /\ DOMAIN s = 1 .. Len(s) /\ DOMAIN t = 1 .. Len(s) + 1
      /\ Len(s) \in Nat
  BY AppendProperties, LenProperties
<1> HIDE DEF t
<1>2. e = Sync(u) => Coming(u, t)
  BY <1>1 DEF Coming
<1>3. ASSUME e # Gone(u), Coming(u, s) PROVE Coming(u, t)
  <2>1. PICK i \in DOMAIN s : s[i] = Sync(u) /\ \A j \in i + 1 .. Len(s) : s[j] # Gone(u)
    BY <1>3 DEF Coming
  <2>2. i \in DOMAIN t /\ t[i] = Sync(u)
    BY <1>1, <2>1
  <2>3. \A j \in i + 1 .. Len(t) : t[j] # Gone(u)
    BY <1>1, <1>3, <2>1
  <2> QED
    BY <2>2, <2>3 DEF Coming
<1>4. e # Gone(u) /\ NotGoing(u, s) => NotGoing(u, t)
  BY <1>1 DEF NotGoing
<1> QED
  BY <1>2, <1>3, <1>4 DEF t

LEMMA OneLess ==
    ASSUME NEW s \in Seq(Packet), s # <<>>, NEW u \in Uids
    PROVE  /\ Head(s) # Sync(u) /\ Coming(u, s) => Coming(u, Tail(s))
           /\ Coming(u, s) => Coming(u, Tail(s)) \/ (Head(s) = Sync(u) /\ NotGoing(u, Tail(s)))
           /\ NotGoing(u, s) => Head(s) # Gone(u) /\ NotGoing(u, Tail(s))
<1> DEFINE t == Tail(s)
<1>1. /\ Len(t) = Len(s) - 1 /\ \A i \in 1 .. Len(t) : t[i] = s[i + 1]
      /\ Head(s) = s[1] /\ DOMAIN s = 1 .. Len(s) /\ DOMAIN t = 1 .. Len(s) - 1
      /\ Len(s) \in Nat \ {0}
  BY HeadTailProperties, LenProperties
<1> HIDE DEF t
<1>2. ASSUME Coming(u, s) PROVE Coming(u, t) \/ (Head(s) = Sync(u) /\ NotGoing(u, t))
  <2>1. PICK i \in DOMAIN s : s[i] = Sync(u) /\ \A j \in i + 1 .. Len(s) : s[j] # Gone(u)
    BY <1>2 DEF Coming
  <2>2. CASE i = 1
    <3>1. \A j \in DOMAIN t : t[j] # Gone(u)
      BY <1>1, <2>1, <2>2
    <3> QED
      BY <1>1, <2>1, <2>2, <3>1 DEF NotGoing
  <2>3. CASE i # 1
    <3>1. i - 1 \in DOMAIN t /\ t[i - 1] = Sync(u)
      BY <1>1, <2>1, <2>3
    <3>2. \A j \in i .. Len(t) : t[j] # Gone(u)
      BY <1>1, <2>1, <2>3
    <3>3. (i - 1) + 1 = i
      BY <1>1, <2>1
    <3> QED
      BY <3>1, <3>2, <3>3 DEF Coming
  <2> QED
    BY <2>2, <2>3
<1>3. NotGoing(u, s) => Head(s) # Gone(u) /\ NotGoing(u, t)
  BY <1>1 DEF NotGoing
<1> QED
  BY <1>2, <1>3 DEF t

\* Everyone in a room is described when the server takes up our packet.
LEMMA AllComing ==
    ASSUME NEW s \in Seq(Packet), NEW S \in SUBSET Uids, NEW all \in SetToSeqs(S)
    PROVE  LET t == s \o [i \in DOMAIN all |-> Sync(all[i])] IN
           t \in Seq(Packet) /\ \A u \in S : Coming(u, t)
<1> DEFINE n == Cardinality(S)
           r == [i \in DOMAIN all |-> Sync(all[i])]
<1>1. IsFiniteSet(S)
  BY RoomsAssumption, FS_Subset
<1>2. n \in Nat
  BY <1>1, FS_CardinalityType
<1>3. all \in [1 .. n -> S] /\ \A i, j \in 1 .. n : i # j => all[i] # all[j]
  BY DEF SetToSeqs
<1>4. all \in Surjection(1 .. n, S)
  <2>1. all \in Injection(1 .. n, S)
    BY <1>3 DEF Injection, IsInjective
  <2>2. Cardinality(1 .. n) = n
    BY <1>2, FS_Interval
  <2> HIDE DEF n
  <2>3. Cardinality(1 .. n) = Cardinality(S) <=> all \in Surjection(1 .. n, S)
    BY <1>1, <2>1, FS_Injection
  <2> QED
    BY <2>2, <2>3 DEF n
<1>5. r \in Seq(Packet) /\ Len(r) = n /\ \A i \in 1 .. n : r[i] = Sync(all[i])
  <2>1. r = [i \in 1 .. n |-> Sync(all[i])] /\ \A i \in 1 .. n : Sync(all[i]) \in Packet
    BY <1>3, PacketFacts
  <2>2. r \in Seq(Packet)
    BY <1>2, <2>1, IsASeq
  <2> QED
    BY <1>2, <2>1, <2>2, LenProperties
<1> DEFINE t == s \o r
<1> HIDE DEF n, r
<1>6. /\ t \in Seq(Packet) /\ Len(t) = Len(s) + n /\ Len(s) \in Nat
      /\ DOMAIN t = 1 .. Len(s) + n
      /\ \A i \in 1 .. Len(s) + n : t[i] = IF i <= Len(s) THEN s[i] ELSE r[i - Len(s)]
  <2>1. /\ t \in Seq(Packet) /\ Len(t) = Len(s) + Len(r)
        /\ \A i \in 1 .. Len(s) + Len(r) : t[i] = IF i <= Len(s) THEN s[i] ELSE r[i - Len(s)]
    BY <1>5, ConcatProperties
  <2> HIDE DEF t
  <2>2. Len(s) \in Nat /\ DOMAIN t = 1 .. Len(t)
    BY <2>1, LenProperties
  <2> QED
    BY <1>5, <2>1, <2>2
<1> HIDE DEF t
<1>7. ASSUME NEW u \in S PROVE Coming(u, t)
  <2>1. PICK k \in 1 .. n : all[k] = u
    BY <1>4 DEF Surjection
  <2>2. Len(s) + k \in DOMAIN t /\ t[Len(s) + k] = Sync(u)
    <3>1. Len(s) + k \in 1 .. Len(s) + n /\ ~(Len(s) + k <= Len(s)) /\ (Len(s) + k) - Len(s) = k
      BY <1>2, <1>6, <2>1
    <3> QED
      BY <1>5, <1>6, <2>1, <3>1
  <2>3. ASSUME NEW j \in Len(s) + k + 1 .. Len(t) PROVE t[j] # Gone(u)
    <3>1. j \in 1 .. Len(s) + n /\ ~(j <= Len(s)) /\ j - Len(s) \in 1 .. n
      BY <1>2, <1>6, <2>1
    <3>2. t[j] = Sync(all[j - Len(s)]) /\ all[j - Len(s)] \in Uids
      BY <1>3, <1>5, <1>6, <3>1
    <3> QED
      BY <3>2, PacketFacts
  <2> QED
    BY <2>2, <2>3 DEF Coming
<1> QED
  BY <1>6, <1>7 DEF t, r

-----------------------------------------------------------------------------
(* Who is on the screen.                                                    *)

LEMMA ClearedFacts == ASSUME ClearPlayers PROVE aborted' = aborted
  BY DEF ClearPlayers

LEMMA SyncFacts ==
    ASSUME NEW uid, NEW path, NEW speed, NEW system, NEW at, NEW hereSpeed,
           ObjectSync(uid, path, speed, system, at, hereSpeed)
    PROVE  Present' = Present \cup {uid} /\ aborted' = aborted
  BY DEF ObjectSync, Present

LEMMA DisconnectFacts ==
    ASSUME NEW uid, Disconnect(uid)
    PROVE  aborted' \/ (Present' = Present \ {uid} /\ aborted' = aborted)
  BY DEF Disconnect, Present

LEMMA FrameFacts == ASSUME Frame PROVE Present' = Present /\ aborted' = aborted
  BY DEF Frame, StartFrame, UpdatePlayer, Present

-----------------------------------------------------------------------------
(* One lemma per action.                                                    *)

LEMMA InitRooms == RoomsInit => RoomsInv
  BY EmptySeq, RoomsAssumption
  DEF RoomsInit, RoomsInv, RoomsTypes, Agreement, ShownOrComing, Places, Here

\* A room packet goes out, or there is no connection for it.
LEMMA TrySendFacts ==
    ASSUME RoomsTypes, NEW map \in Places, TrySend(map)
    PROVE  /\ up' \in Seq(Places)
           /\ connected => up' # <<>> /\ up'[Len(up')] = map
           /\ ~connected => up' = up
  BY AppendProperties DEF TrySend, RoomsTypes

LEMMA ChangeMapKeeps ==
    ASSUME RoomsInv, NEW map \in RoomIds, ChangeMap(map) PROVE RoomsInv'
<1>1. /\ room_id' = map /\ TrySend(map)
      /\ UNCHANGED <<connected, down, session, peers>>
  BY DEF ChangeMap, ConnectToRoom
<1>2. /\ up' \in Seq(Places)
      /\ connected => up' # <<>> /\ up'[Len(up')] = map
      /\ ~connected => up' = up
  BY <1>1, TrySendFacts DEF RoomsInv, Places
<1>3. RoomsTypes' /\ Agreement'
  BY <1>1, <1>2 DEF RoomsInv, RoomsTypes, Agreement, Places
<1>4. ShownOrComing'
  BY <1>1, <1>2, RoomsAssumption DEF RoomsInv, RoomsTypes, Agreement, ShownOrComing, Here
<1> QED
  BY <1>3, <1>4 DEF RoomsInv

LEMMA OpenKeeps == ASSUME RoomsInv, onopen PROVE RoomsInv'
<1>1. /\ connected' = TRUE /\ up' = <<room_id>>
      /\ UNCHANGED <<room_id, down, session, peers>>
  BY DEF onopen
<1>2. up' \in Seq(Places) /\ Len(up') = 1 /\ up'[1] = room_id /\ up' # <<>>
  BY <1>1 DEF RoomsInv, RoomsTypes
<1> QED
  BY <1>1, <1>2 DEF RoomsInv, RoomsTypes, Agreement, ShownOrComing

LEMMA CloseKeeps == ASSUME RoomsInv, onclose PROVE RoomsInv'
<1>1. /\ connected' = FALSE /\ up' = <<>> /\ down' = <<>> /\ session' = Lobby
      /\ UNCHANGED <<room_id, peers>>
  BY DEF onclose
<1>2. RoomsTypes' /\ Agreement'
  BY <1>1, EmptySeq DEF RoomsInv, RoomsTypes, Agreement, Places
<1>3. Here' = {}
  BY <1>1, RoomsAssumption DEF RoomsInv, RoomsTypes, Here
<1> QED
  BY <1>2, <1>3 DEF RoomsInv, ShownOrComing

LEMMA MessageKeeps == ASSUME RoomsInv, onmessage PROVE RoomsInv'
<1> DEFINE uid == Head(down).uid
<1>1. /\ down # <<>> /\ down' = Tail(down) /\ ~aborted
      /\ UNCHANGED <<connected, room_id, up, session, peers>>
  BY DEF onmessage, Idle
<1>2. /\ down \in Seq(Packet) /\ Head(down) \in Packet /\ Tail(down) \in Seq(Packet)
      /\ uid \in Uids
  <2>1. down \in Seq(Packet)
    BY DEF RoomsInv, RoomsTypes
  <2>2. Head(down) \in Packet /\ Tail(down) \in Seq(Packet)
    BY <1>1, <2>1, HeadTailProperties
  <2> QED
    BY <2>1, <2>2 DEF Packet
<1>3. RoomsTypes' /\ Agreement'
  BY <1>1, <1>2 DEF RoomsInv, RoomsTypes, Agreement
<1>4. \/ Head(down) = Sync(uid) /\ Present' = Present \cup {uid}
      \/ Head(down) = Gone(uid) /\ (aborted' \/ Present' = Present \ {uid})
  <2>1. CASE Head(down).type = "objectSync"
    <3>1. Head(down) = Sync(uid)
      BY <1>2, <2>1 DEF Sync, Packet
    <3>2. PICK at \in Pos, speed \in Speeds : ObjectSync(uid, <<at>>, speed, NoFile, at, speed)
      BY <2>1 DEF onmessage
    <3> QED
      BY <3>1, <3>2, SyncFacts
  <2>2. CASE Head(down).type = "disconnect"
    <3>1. Head(down) = Gone(uid)
      BY <1>2, <2>2 DEF Gone, Packet
    <3>2. Disconnect(uid)
      BY <2>2 DEF onmessage
    <3> QED
      BY <3>1, <3>2, DisconnectFacts
  <2> QED
    BY <2>1, <2>2 DEF onmessage
<1>5. ASSUME ~aborted', up' = <<>>, NEW u \in Here'
      PROVE  Coming(u, down') \/ (u \in Present' /\ NotGoing(u, down'))
  <2>1. u \in Here /\ u \in Uids
    BY <1>1 DEF Here
  <2>2. Coming(u, down) \/ (u \in Present /\ NotGoing(u, down))
    BY <1>1, <1>5, <2>1 DEF RoomsInv, ShownOrComing
  <2>3. CASE Coming(u, down)
    <3>1. Coming(u, Tail(down)) \/ (Head(down) = Sync(u) /\ NotGoing(u, Tail(down)))
      BY <1>1, <1>2, <2>1, <2>3, OneLess
    <3>2. Head(down) = Sync(u) => u \in Present'
      BY <1>2, <1>4, <2>1, PacketFacts
    <3> QED
      BY <1>1, <3>1, <3>2
  <2>4. CASE u \in Present /\ NotGoing(u, down)
    <3>1. Head(down) # Gone(u) /\ NotGoing(u, Tail(down))
      BY <1>1, <1>2, <2>1, <2>4, OneLess
    <3>2. u \in Present'
      BY <1>4, <1>5, <2>4, <3>1
    <3> QED
      BY <1>1, <3>1, <3>2
  <2> QED
    BY <2>2, <2>3, <2>4
<1> QED
  BY <1>3, <1>5 DEF RoomsInv, ShownOrComing

LEMMA PlayKeeps == ASSUME RoomsInv, PlayFrame PROVE RoomsInv'
<1>1. /\ Present' = Present /\ aborted' = aborted
      /\ UNCHANGED <<connected, room_id, up, down, session, peers>>
  BY FrameFacts DEF PlayFrame, netVars
<1> QED
  BY <1>1 DEF RoomsInv, RoomsTypes, Agreement, ShownOrComing, Here

LEMMA ServerKeeps == ASSUME RoomsInv, ServerMovesUs PROVE RoomsInv'
<1> DEFINE S == {u \in Uids : peers[u] = Head(up)}
<1>1. /\ up # <<>> /\ up' = Tail(up) /\ session' = Head(up)
      /\ UNCHANGED <<connected, room_id, peers, aborted, Present>>
  BY DEF ServerMovesUs, vars, playerVars, Present
<1>2. PICK all \in SetToSeqs(S) : down' = down \o [i \in DOMAIN all |-> Sync(all[i])]
  BY DEF ServerMovesUs
<1>3. /\ Head(up) = up[1] /\ Head(up) \in Places /\ Tail(up) \in Seq(Places)
      /\ Len(Tail(up)) = Len(up) - 1 /\ Len(up) \in Nat \ {0}
      /\ \A i \in 1 .. Len(Tail(up)) : Tail(up)[i] = up[i + 1]
      /\ Tail(up) = <<>> <=> Len(up) = 1
  <2>1. up \in Seq(Places) /\ up # <<>>
    BY <1>1 DEF RoomsInv, RoomsTypes
  <2>2. /\ Head(up) \in Places /\ Tail(up) \in Seq(Places) /\ Len(Tail(up)) = Len(up) - 1
        /\ \A i \in 1 .. Len(Tail(up)) : Tail(up)[i] = up[i + 1]
    BY <2>1, HeadTailProperties
  <2>3. Len(up) \in Nat \ {0} /\ (Tail(up) = <<>> <=> Len(Tail(up)) = 0)
    BY <2>1, <2>2, EmptySeq, LenProperties
  <2>4. Head(up) = up[1]
    BY <2>1
  <2> QED
    BY <2>2, <2>3, <2>4
<1>4. down \in Seq(Packet) /\ S \in SUBSET Uids
  BY DEF RoomsInv, RoomsTypes
<1> HIDE DEF S
<1>5. down' \in Seq(Packet) /\ \A u \in S : Coming(u, down')
  BY <1>2, <1>4, AllComing
<1>6. RoomsTypes'
  BY <1>1, <1>3, <1>5 DEF RoomsInv, RoomsTypes
<1>7. Agreement'
  <2>1. connected /\ room_id = up[Len(up)]
    BY <1>1 DEF RoomsInv, Agreement
  <2>2. CASE Len(up) = 1
    BY <1>1, <1>3, <2>1, <2>2 DEF Agreement
  <2>3. CASE Len(up) # 1
    <3>1. Len(up) - 1 \in 1 .. Len(Tail(up)) /\ Tail(up) # <<>> /\ (Len(up) - 1) + 1 = Len(up)
      BY <1>3, <2>3
    <3>2. Tail(up)[Len(Tail(up))] = up[Len(up)]
      BY <1>3, <3>1
    <3> QED
      BY <1>1, <2>1, <3>1, <3>2 DEF Agreement
  <2> QED
    BY <2>2, <2>3
<1>8. Here' = S
  BY <1>1 DEF Here, S
<1> QED
  BY <1>5, <1>6, <1>7, <1>8 DEF RoomsInv, ShownOrComing

\* What a packet about v that comes last does to the others.
LEMMA ArrivalKeeps ==
    ASSUME RoomsInv, NEW v \in Uids, NEW e \in {Sync(v), Gone(v)}, down' = Append(down, e),
           NEW u \in Uids, u \in Here, up = <<>>, ~aborted, e = Gone(v) => u # v
    PROVE  Coming(u, down') \/ (u \in Present /\ NotGoing(u, down'))
<1>1. e \in Packet /\ e # Gone(u)
  BY PacketFacts
<1>2. Coming(u, down) \/ (u \in Present /\ NotGoing(u, down))
  BY DEF RoomsInv, ShownOrComing
<1> QED
  BY <1>1, <1>2, OneMore DEF RoomsInv, RoomsTypes

LEMMA PeerActsKeeps == ASSUME RoomsInv, NEW v \in Uids, PeerActs(v) PROVE RoomsInv'
<1>1. /\ peers[v] = session /\ down' = Append(down, Sync(v))
      /\ UNCHANGED <<connected, room_id, up, session, peers, aborted, Present>>
  BY DEF PeerActs, vars, playerVars, Present
<1>2. down' \in Seq(Packet)
  BY <1>1, PacketFacts, AppendProperties DEF RoomsInv, RoomsTypes
<1>3. session # Lobby
  BY <1>1, RoomsAssumption DEF RoomsInv, RoomsTypes
<1>4. RoomsTypes' /\ Agreement'
  BY <1>1, <1>2, <1>3 DEF RoomsInv, RoomsTypes, Agreement
<1>5. Here' = Here /\ Here \subseteq Uids
  BY <1>1 DEF Here
<1>6. Sync(v) # Gone(v)
  BY PacketFacts
<1>7. ShownOrComing'
  BY <1>1, <1>5, <1>6, ArrivalKeeps DEF ShownOrComing
<1> QED
  BY <1>4, <1>7 DEF RoomsInv

LEMMA PeerMovesKeeps ==
    ASSUME RoomsInv, NEW v \in Uids, NEW room \in RoomIds, PeerMoves(v, room) PROVE RoomsInv'
<1>1. /\ room # peers[v] /\ peers' = [peers EXCEPT ![v] = room]
      /\ down' = CASE peers[v] = session -> Append(down, Gone(v))
                   [] room = session     -> Append(down, Sync(v))
                   [] OTHER              -> down
      /\ UNCHANGED <<connected, room_id, up, session, aborted, Present>>
  BY DEF PeerMoves, vars, playerVars, Present
<1>2. Here \subseteq Uids /\ Here' \subseteq Uids /\ peers' \in [Uids -> RoomIds]
  BY <1>1 DEF RoomsInv, RoomsTypes, Here
<1>3. \A u \in Uids \ {v} : u \in Here' <=> u \in Here
  BY <1>1 DEF RoomsInv, RoomsTypes, Here
<1>4. v \in Here' <=> room = session
  BY <1>1 DEF RoomsInv, RoomsTypes, Here
<1>5. CASE peers[v] = session
  <2>1. down' = Append(down, Gone(v)) /\ v \notin Here' /\ session # Lobby
    BY <1>1, <1>4, <1>5, RoomsAssumption DEF RoomsInv, RoomsTypes
  <2>2. down' \in Seq(Packet)
    BY <2>1, PacketFacts, AppendProperties DEF RoomsInv, RoomsTypes
  <2>3. ShownOrComing'
    BY <1>1, <1>2, <1>3, <2>1, ArrivalKeeps DEF ShownOrComing
  <2>4. RoomsTypes' /\ Agreement'
    BY <1>1, <1>2, <2>1, <2>2 DEF RoomsInv, RoomsTypes, Agreement
  <2> QED
    BY <2>3, <2>4 DEF RoomsInv
<1>6. CASE peers[v] # session /\ room = session
  <2>1. down' = Append(down, Sync(v)) /\ session # Lobby
    BY <1>1, <1>6, RoomsAssumption
  <2>2. down' \in Seq(Packet) /\ Coming(v, down') /\ Sync(v) # Gone(v)
    BY <2>1, PacketFacts, AppendProperties, OneMore DEF RoomsInv, RoomsTypes
  <2>3. ShownOrComing'
    BY <1>1, <1>2, <1>3, <2>1, <2>2, ArrivalKeeps DEF ShownOrComing
  <2>4. RoomsTypes' /\ Agreement'
    BY <1>1, <1>2, <2>1, <2>2 DEF RoomsInv, RoomsTypes, Agreement
  <2> QED
    BY <2>3, <2>4 DEF RoomsInv
<1>7. CASE peers[v] # session /\ room # session
  <2>1. down' = down /\ Here' = Here
    BY <1>1, <1>2, <1>3, <1>4, <1>7 DEF Here
  <2> QED
    BY <1>1, <1>2, <2>1 DEF RoomsInv, RoomsTypes, Agreement, ShownOrComing
<1> QED
  BY <1>5, <1>6, <1>7

-----------------------------------------------------------------------------
(* The theorems.                                                            *)

LEMMA RoomsInvariant == RoomsSpec => []RoomsInv
<1>1. RoomsInv /\ [RoomsNext]_allVars => RoomsInv'
  <2> SUFFICES ASSUME RoomsInv, [RoomsNext]_allVars PROVE RoomsInv'
    OBVIOUS
  <2>1. CASE UNCHANGED allVars
    BY <2>1 DEF allVars, netVars, vars, playerVars, RoomsInv, RoomsTypes, Agreement,
                ShownOrComing, Here, Present
  <2>2. CASE RoomsNext
    BY <2>2, ChangeMapKeeps, OpenKeeps, CloseKeeps, MessageKeeps, PlayKeeps, ServerKeeps,
       PeerActsKeeps, PeerMovesKeeps DEF RoomsNext
  <2> QED
    BY <2>1, <2>2
<1> QED
  BY <1>1, InitRooms, PTL DEF RoomsSpec

\* The client and the server agree on the room whenever nothing is in flight, however often
\* the client changed rooms, with and without a connection.
THEOREM RoomsAgree == RoomsSpec => []SameRoom
<1>1. RoomsInv => SameRoom
  BY DEF RoomsInv, Agreement, SameRoom, Quiet
<1> QED
  BY <1>1, RoomsInvariant, PTL

\* Whoever is in our room and not on the screen is on the way there, whatever crosses.
THEOREM NobodyStaysMissing == RoomsSpec => []MissingIsOnItsWay
<1>1. RoomsInv => MissingIsOnItsWay
  BY DEF RoomsInv, ShownOrComing, MissingIsOnItsWay, Coming
<1> QED
  BY <1>1, RoomsInvariant, PTL

=============================================================================
