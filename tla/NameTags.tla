------------------------------ MODULE NameTags ------------------------------
(***************************************************************************)
(* DrawableNameTags (src/src/game_multiplayer_nametags.{h,cpp}): the one   *)
(* drawable that renders every player's nametag. It owns one heap object   *)
(* per tag (nameTags, by player uid) and, per tile, a vector of raw        *)
(* pointers to the tags standing there (nameStacks), so that tags on one   *)
(* tile are drawn stacked. Pointers are modelled as addresses: a freed     *)
(* address may be handed out again.                                        *)
(*                                                                         *)
(* setTagSystem asks the asynchronous file layer for a system graphic and  *)
(* leaves a callback holding the raw pointer behind; one member,           *)
(* systemRequest, keeps that callback bound.                               *)
(***************************************************************************)
EXTENDS Integers, Sequences, SequencesExt, CoordHash

CONSTANTS Uids,      \* player ids
          Ptrs,      \* heap addresses a Tag can live at
          Xs, Ys,    \* tile coordinates
          Systems,   \* names of system graphics
          NoFile,    \* the empty file name
          NoUid

ASSUME NameTagsAssumption ==
    /\ 0 \in Xs /\ Xs \subseteq Int
    /\ 0 \in Ys /\ Ys \subseteq Int
    /\ NoFile \notin Systems /\ NoUid \notin Uids

VARIABLES nameTags,       \* uid -> address, for the uids that have a tag
          tags,           \* address -> Tag, for the addresses in use
          nameStacks,     \* coordHash -> addresses, bottom of the stack first
          systemRequest,  \* the bound, not yet fired callback of setTagSystem
          files,          \* state of the request of each system graphic
          asked,          \* uid -> the system graphic last asked for its tag (history)
          lastAsk         \* the player setTagSystem was called for last (history)

tagVars == <<nameTags, tags, nameStacks, systemRequest, files, asked, lastAsk>>

-----------------------------------------------------------------------------
Keys == {coordHash(x, y) : x \in Xs, y \in Ys}
Tag  == [x : Xs, y : Ys, system : Systems \cup {NoFile}]

Tagged == DOMAIN nameTags
Live   == DOMAIN tags

\* What the lambda of setTagSystem captures, and the file it is bound to.
Callback == [file : Systems, tag : Ptrs]
NoCallback == [file |-> NoFile]

TagsInit ==
    /\ nameTags = [u \in {} |-> u]
    /\ tags = [p \in {} |-> p]
    /\ nameStacks = [k \in Keys |-> <<>>]
    /\ systemRequest = NoCallback
    /\ files = [f \in Systems |-> "waiting"]
    /\ asked = [u \in {} |-> u]
    /\ lastAsk = NoUid

KeyOf(t) == coordHash(t.x, t.y)

\* stack.erase(std::remove(stack.begin(), stack.end(), p), stack.end()) for a
\* pointer that is in the vector at most once.
Erase(stack, p) ==
    IF \E i \in DOMAIN stack : stack[i] = p
    THEN RemoveAt(stack, CHOOSE i \in DOMAIN stack : stack[i] = p)
    ELSE stack

-----------------------------------------------------------------------------
\* A new tag is stacked on tile (0, 0) until its player is moved somewhere.
NewTag == [x |-> 0, y |-> 0, system |-> NoFile]

\* Wrong variant: the new tag is not put on the stack of its tile.
createNameTag_unstacked(uid) ==
    /\ uid \notin Tagged
    /\ \E p \in Ptrs \ Live :
          /\ tags' = [q \in Live \cup {p} |-> IF q = p THEN NewTag ELSE tags[q]]
          /\ nameTags' = [u \in Tagged \cup {uid} |-> IF u = uid THEN p ELSE nameTags[u]]
    /\ asked' = [u \in Tagged \cup {uid} |-> IF u = uid THEN NoFile ELSE asked[u]]
    /\ UNCHANGED <<nameStacks, systemRequest, files, lastAsk>>

createNameTag(uid) ==
    /\ uid \notin Tagged                    \* the assertion
    /\ \E p \in Ptrs \ Live :
          /\ tags' = [q \in Live \cup {p} |-> IF q = p THEN NewTag ELSE tags[q]]
          /\ nameStacks' = [nameStacks EXCEPT ![KeyOf(NewTag)] = Append(@, p)]
          /\ nameTags' = [u \in Tagged \cup {uid} |-> IF u = uid THEN p ELSE nameTags[u]]
    /\ asked' = [u \in Tagged \cup {uid} |-> IF u = uid THEN NoFile ELSE asked[u]]
    /\ UNCHANGED <<systemRequest, files, lastAsk>>

\* Wrong variant: the tag is taken off its stack and forgotten, but never freed.
deleteNameTag_leaks(uid) ==
    /\ uid \in Tagged
    /\ LET p == nameTags[uid] IN
          nameStacks' = [nameStacks EXCEPT ![KeyOf(tags[p])] = Erase(@, p)]
    /\ nameTags' = [u \in Tagged \ {uid} |-> nameTags[u]]
    /\ asked' = [u \in Tagged \ {uid} |-> asked[u]]
    /\ lastAsk' = IF lastAsk = uid THEN NoUid ELSE lastAsk
    /\ UNCHANGED <<tags, systemRequest, files>>

\* The tag is freed; a callback that captured it stays bound.
deleteNameTag(uid) ==
    /\ uid \in Tagged                       \* the assertion
    /\ LET p == nameTags[uid] IN
          /\ nameStacks' = [nameStacks EXCEPT ![KeyOf(tags[p])] = Erase(@, p)]
          /\ tags' = [q \in Live \ {p} |-> tags[q]]
    /\ nameTags' = [u \in Tagged \ {uid} |-> nameTags[u]]
    /\ asked' = [u \in Tagged \ {uid} |-> asked[u]]
    /\ lastAsk' = IF lastAsk = uid THEN NoUid ELSE lastAsk
    /\ UNCHANGED <<systemRequest, files>>

\* Wrong variant: the stacks keep their pointers.
clearNameTags_dangling ==
    /\ nameTags' = [u \in {} |-> u]
    /\ tags' = [p \in {} |-> p]
    /\ asked' = [u \in {} |-> u]
    /\ lastAsk' = NoUid
    /\ UNCHANGED <<nameStacks, systemRequest, files>>

clearNameTags ==
    /\ nameTags' = [u \in {} |-> u]
    /\ tags' = [p \in {} |-> p]
    /\ nameStacks' = [k \in Keys |-> <<>>]
    /\ asked' = [u \in {} |-> u]
    /\ lastAsk' = NoUid
    /\ UNCHANGED <<systemRequest, files>>

\* Wrong variants: the coordinates change places, the tag slides under the others.
moveNameTag_swapped(uid, x, y) ==
    /\ uid \in Tagged
    /\ LET p == nameTags[uid]
           moved == [tags[p] EXCEPT !.x = y, !.y = x]
           erased == [nameStacks EXCEPT ![KeyOf(tags[p])] = Erase(@, p)]
       IN  /\ tags' = [tags EXCEPT ![p] = moved]
           /\ nameStacks' = [erased EXCEPT ![KeyOf(moved)] = Append(@, p)]
    /\ UNCHANGED <<nameTags, systemRequest, files, asked, lastAsk>>

moveNameTag_under(uid, x, y) ==
    /\ uid \in Tagged
    /\ LET p == nameTags[uid]
           moved == [tags[p] EXCEPT !.x = x, !.y = y]
           erased == [nameStacks EXCEPT ![KeyOf(tags[p])] = Erase(@, p)]
       IN  /\ tags' = [tags EXCEPT ![p] = moved]
           /\ nameStacks' = [erased EXCEPT ![KeyOf(moved)] = <<p>> \o @]
    /\ UNCHANGED <<nameTags, systemRequest, files, asked, lastAsk>>

moveNameTag(uid, x, y) ==
    /\ uid \in Tagged                       \* the assertion
    /\ LET p == nameTags[uid]
           moved == [tags[p] EXCEPT !.x = x, !.y = y]
           erased == [nameStacks EXCEPT ![KeyOf(tags[p])] = Erase(@, p)]
       IN  /\ tags' = [tags EXCEPT ![p] = moved]
           /\ nameStacks' = [erased EXCEPT ![KeyOf(moved)] = Append(@, p)]
    /\ UNCHANGED <<nameTags, systemRequest, files, asked, lastAsk>>

\* The lambda: a write through the captured pointer, whoever lives there now. A
\* write to a freed address changes no tag.
SystemArrives(p, f) ==
    tags' = [q \in Live |-> IF q = p THEN [tags[q] EXCEPT !.system = f] ELSE tags[q]]

\* Wrong variant: while a callback is bound, the new one does not replace it.
setTagSystem_first(uid, f) ==
    /\ uid \in Tagged
    /\ asked' = [asked EXCEPT ![uid] = f]
    /\ lastAsk' = uid
    /\ IF files[f] = "done"
       THEN SystemArrives(nameTags[uid], f) /\ UNCHANGED <<systemRequest, files>>
       ELSE /\ systemRequest' = IF systemRequest = NoCallback
                                THEN [file |-> f, tag |-> nameTags[uid]] ELSE systemRequest
            /\ files' = [files EXCEPT ![f] = "pending"]
            /\ UNCHANGED tags
    /\ UNCHANGED <<nameTags, nameStacks>>

\* RequestFile, Bind, Start. Assigning systemRequest unbinds the callback it
\* held. Start on a finished request fires the new callback at once.
setTagSystem(uid, f) ==
    /\ uid \in Tagged                       \* the assertion
    /\ asked' = [asked EXCEPT ![uid] = f]
    /\ lastAsk' = uid
    /\ IF files[f] = "done"
       THEN /\ SystemArrives(nameTags[uid], f)
            /\ systemRequest' = NoCallback
            /\ UNCHANGED files
       ELSE /\ systemRequest' = [file |-> f, tag |-> nameTags[uid]]
            /\ files' = [files EXCEPT ![f] = "pending"]
            /\ UNCHANGED tags
    /\ UNCHANGED <<nameTags, nameStacks>>

\* FileRequestAsync::DownloadDone, for a success and for a failure alike: the
\* callback does not look at the result's success flag.
DownloadDone(f) ==
    /\ files[f] = "pending"
    /\ files' = [files EXCEPT ![f] = "done"]
    /\ IF systemRequest.file = f
       THEN SystemArrives(systemRequest.tag, f) /\ systemRequest' = NoCallback
       ELSE UNCHANGED <<tags, systemRequest>>
    /\ UNCHANGED <<nameTags, nameStacks, asked, lastAsk>>

TagsNext ==
    \/ \E uid \in Uids : createNameTag(uid)
    \/ \E uid \in Uids : deleteNameTag(uid)
    \/ clearNameTags
    \/ \E uid \in Uids, x \in Xs, y \in Ys : moveNameTag(uid, x, y)
    \/ \E uid \in Uids, f \in Systems : setTagSystem(uid, f)
    \/ \E f \in Systems : DownloadDone(f)

TagsSpec == TagsInit /\ [][TagsNext]_tagVars

-----------------------------------------------------------------------------
TagsTypeOK ==
    /\ nameTags \in [Tagged -> Ptrs] /\ Tagged \subseteq Uids
    /\ tags \in [Live -> Tag] /\ Live \subseteq Ptrs
    /\ nameStacks \in [Keys -> Seq(Ptrs)]
    /\ systemRequest \in Callback \cup {NoCallback}
    /\ files \in [Systems -> {"waiting", "pending", "done"}]
    /\ asked \in [Tagged -> Systems \cup {NoFile}]
    /\ lastAsk \in Tagged \cup {NoUid}

\* Every tag in use belongs to exactly one player (nameTags owns the tags).
OneOwner ==
    /\ \A p \in Live : \E u \in Tagged : nameTags[u] = p
    /\ \A u, v \in Tagged : nameTags[u] = nameTags[v] => u = v
    /\ \A u \in Tagged : nameTags[u] \in Live

\* What Draw relies on: the raw pointers of the stacks are all live, each stands
\* in the stack of its own tile and nowhere else, once.
StacksHoldTags ==
    \A k \in Keys : \A i \in DOMAIN nameStacks[k] :
        /\ nameStacks[k][i] \in Live
        /\ KeyOf(tags[nameStacks[k][i]]) = k
        /\ \A j \in DOMAIN nameStacks[k] : nameStacks[k][i] = nameStacks[k][j] => i = j

\* No player's tag is missing from the tile it stands on: Draw draws them all.
TagsAreStacked ==
    \A p \in Live : \E i \in DOMAIN nameStacks[KeyOf(tags[p])] :
        nameStacks[KeyOf(tags[p])][i] = p

\* The stacks hold the tags exactly: Draw meets every tag, and nothing that is gone.
StacksExact == StacksHoldTags /\ TagsAreStacked

\* The tag setTagSystem was called for last is shown with that system graphic as
\* soon as the file is there: nobody else's answer, deletion or re-creation of a tag
\* gets in between.
LastAskIsServed ==
    lastAsk # NoUid =>
        LET p == nameTags[lastAsk]
            f == asked[lastAsk]
        IN  IF files[f] = "done" THEN tags[p].system = f
                                 ELSE systemRequest = [file |-> f, tag |-> p]

\* The pointers draw the board that was asked for: seen as players, the stacks follow
\* TagBoard step by step, whatever addresses are freed and used again.
Owner(p) == CHOOSE u \in Tagged : nameTags[u] = p

Owners(stack) == [i \in DOMAIN stack |-> Owner(stack[i])]

Board == INSTANCE TagBoard
    WITH Tiles <- Keys, Home <- KeyOf(NewTag),
         board <- [k \in Keys |-> Owners(nameStacks[k])]

DrawsTheBoard == Board!BoardSpec
=============================================================================
