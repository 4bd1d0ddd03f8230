------------------------------ MODULE Pictures ------------------------------
(***************************************************************************)
(* The pictures of events (src/src/game_pictures.cpp, sprite_picture.cpp): *)
(* shown, erased and saved while their files are on the way. A picture     *)
(* keeps one binding: the file whose arrival it is called for.             *)
(*                                                                         *)
(* Sheets: a "still" picture, a sheet that shows a frame it does "wrong"ly *)
(* not have, and one that plays "loop" or "once" over two frames.          *)
(***************************************************************************)
EXTENDS Naturals, Sequences

CONSTANTS Ids,          \* picture numbers events use: 1..n
          Files, NoName, NoFile,
          PictureNames,   \* what ShowPicture names: files, or NoName to reuse the image
          Sheets,
          PictureBudget   \* bound on the commands

PicturesAssumption ==
    /\ Ids \subseteq Nat \ {0} /\ \A n \in Ids : 1..n \subseteq Ids
    /\ NoName \notin Files /\ NoFile \notin Files \cup {NoName}
    /\ PictureNames \subseteq Files \cup {NoName}
    /\ Sheets \subseteq {"still", "wrong", "loop", "once"}
    /\ PictureBudget \in Nat

VARIABLES
    pictures,   \* Game_Pictures::pictures with their sprites and bindings
    filesReady, \* files whose request is done
    battle,     \* Game_Battle::IsBattleRunning()
    saved,      \* the pictures of the savegame
    pictureBudget,
    erased,     \* pictures that were erased and not shown since (history)
    asksForAll, \* every picture that was shown has asked for its image (history)
    blind       \* an image was loaded that was never asked for (history)

askVars == <<asksForAll, blind>>
pictureVars == <<pictures, filesReady, battle, saved, pictureBudget, erased, askVars>>

Layers == {{"map"}, {"battle"}, {"map", "battle"}}

Picture == [name : Files \cup {NoName}, sheet : {"still", "wrong", "loop", "once"}, frame : 0..1,
            layers : Layers, on_map_change : BOOLEAN, on_battle_end : BOOLEAN,
            request_id : Files \cup {NoFile},
            sprite : BOOLEAN, bitmap : Files \cup {NoName, NoFile}, visible : BOOLEAN]

PicturesTypeOK ==
    /\ pictures \in Seq(Picture)
    /\ filesReady \subseteq Files /\ battle \in BOOLEAN
    /\ pictureBudget \in 0..PictureBudget /\ erased \subseteq Ids
    /\ asksForAll \in BOOLEAN /\ blind \in BOOLEAN

Empty == [name |-> NoName, sheet |-> "still", frame |-> 0, layers |-> {"map"},
          on_map_change |-> TRUE, on_battle_end |-> FALSE, request_id |-> NoFile,
          sprite |-> FALSE, bitmap |-> NoFile, visible |-> TRUE]

PicturesInit ==
    /\ pictures = <<>> /\ filesReady = {} /\ battle = FALSE /\ saved = <<>>
    /\ pictureBudget = PictureBudget /\ erased = {} /\ asksForAll = TRUE /\ blind = FALSE

-----------------------------------------------------------------------------
\* GetPicture grows the vector as far as the number.
Grown(ps, id) == [i \in 1..(IF id > Len(ps) THEN id ELSE Len(ps)) |->
                      IF i <= Len(ps) THEN ps[i] ELSE Empty]

\* Picture::OnPictureSpriteReady. It loads the name the picture has by now.
SpriteReady(p) ==
    [p EXCEPT !.sprite = TRUE, !.bitmap = p.name, !.visible = TRUE, !.request_id = NoFile]

\* RequestPictureSprite: a file that is there is delivered at once.
Requested(p) ==
    IF p.name = NoName THEN p
    ELSE IF p.name \in filesReady THEN SpriteReady(p)
    ELSE [p EXCEPT !.request_id = p.name]

ShowPicture_seen(p, name, sheet, layers, mapErase, battleErase) ==
    Requested([p EXCEPT !.name = name, !.sheet = sheet, !.frame = 0, !.layers = layers,
                        !.on_map_change = mapErase, !.on_battle_end = battleErase])

\* Game_Pictures::Show.
ShowPicture(p, name, sheet, layers, mapErase, battleErase) ==
    LET shown == [p EXCEPT !.name = name, !.sheet = sheet, !.frame = 0, !.layers = layers,
                           !.on_map_change = mapErase, !.on_battle_end = battleErase]
    IN IF sheet = "wrong" THEN [shown EXCEPT !.bitmap = NoFile]
       ELSE Requested([shown EXCEPT !.visible = @ /\ ~(p.sprite /\ name # NoName)])

\* Picture::Erase.
Erase_keepsRequest(p) == [p EXCEPT !.name = NoName, !.bitmap = NoFile]

Erase(p) == [p EXCEPT !.name = NoName, !.bitmap = NoFile, !.request_id = NoFile]

Update_over(p) ==
    IF p.sheet = "loop" /\ p.frame < 2 THEN [p EXCEPT !.frame = @ + 1] ELSE p

\* Picture::Update: the sheet plays, once or for ever.
Update(p) ==
    LET next == [p EXCEPT !.frame = 1 - @] IN
    IF p.sheet \notin {"loop", "once"} THEN p
    ELSE IF p.sheet = "once" /\ p.frame = 1 /\ p.name # NoName THEN Erase(next)
    ELSE next

IsShown(p) == IF battle THEN "battle" \in p.layers ELSE "map" \in p.layers

EraseAll(S) ==
    /\ pictures' = [i \in DOMAIN pictures |-> IF i \in S THEN Erase(pictures[i]) ELSE pictures[i]]
    /\ erased' = erased \cup (S \cap DOMAIN pictures)

PictureCommand == pictureBudget > 0 /\ pictureBudget' = pictureBudget - 1

-----------------------------------------------------------------------------
Show(id) ==
    /\ PictureCommand
    /\ \E name \in PictureNames, sheet \in Sheets, layers \in Layers, m, b \in BOOLEAN :
          LET ps == Grown(pictures, id) IN
          /\ pictures' = [ps EXCEPT ![id] = ShowPicture(@, name, sheet, layers, m, b)]
          /\ asksForAll' = (asksForAll /\ name # NoName /\ sheet # "wrong")
    /\ erased' = erased \ {id}
    /\ UNCHANGED <<filesReady, battle, saved, blind>>

\* CommandErasePicture: one picture, or a range of them.
ErasePicture(from, to) ==
    PictureCommand /\ EraseAll(from..to) /\ UNCHANGED <<filesReady, battle, saved, askVars>>

OnMapChange ==
    /\ PictureCommand /\ ~battle
    /\ EraseAll({i \in DOMAIN pictures : pictures[i].on_map_change})
    /\ UNCHANGED <<filesReady, battle, saved, askVars>>

BattleBegins ==
    /\ PictureCommand /\ ~battle /\ battle' = TRUE
    /\ UNCHANGED <<pictures, filesReady, saved, erased, askVars>>

OnBattleEnd ==
    /\ battle /\ battle' = FALSE
    /\ EraseAll({i \in DOMAIN pictures : pictures[i].on_battle_end})
    /\ UNCHANGED <<filesReady, saved, pictureBudget, askVars>>

\* A frame: Game_Pictures::Update.
UpdateAll ==
    /\ pictures' = [i \in DOMAIN pictures |->
                       IF IsShown(pictures[i]) THEN Update(pictures[i]) ELSE pictures[i]]
    /\ erased' = erased \cup {i \in DOMAIN pictures : pictures'[i].name # pictures[i].name}
    /\ UNCHANGED <<filesReady, battle, saved, pictureBudget, askVars>>

\* A file arrives: OnPictureSpriteReady of every picture that is bound to it.
ImageArrives_hidden(f) ==
    /\ f \notin filesReady /\ \E i \in DOMAIN pictures : pictures[i].request_id = f
    /\ filesReady' = filesReady \cup {f}
    /\ pictures' = [i \in DOMAIN pictures |->
                       IF pictures[i].request_id = f
                         THEN [SpriteReady(pictures[i]) EXCEPT !.visible = pictures[i].visible]
                         ELSE pictures[i]]
    /\ UNCHANGED <<battle, saved, pictureBudget, erased, askVars>>

ImageArrives(f) ==
    /\ f \notin filesReady /\ \E i \in DOMAIN pictures : pictures[i].request_id = f
    /\ filesReady' = filesReady \cup {f}
    /\ pictures' = [i \in DOMAIN pictures |->
                       IF pictures[i].request_id = f THEN SpriteReady(pictures[i]) ELSE pictures[i]]
    /\ blind' = (blind \/ \E i \in DOMAIN pictures :
                              pictures[i].request_id = f /\ pictures[i].name \notin filesReady')
    /\ UNCHANGED <<battle, saved, pictureBudget, erased, asksForAll>>

\* GetSaveData, without the sprites and the bindings.
Save ==
    /\ PictureCommand /\ ~battle
    /\ saved' = [i \in DOMAIN pictures |->
                    [pictures[i] EXCEPT !.request_id = NoFile, !.sprite = FALSE, !.bitmap = NoFile,
                                        !.visible = TRUE]]
    /\ UNCHANGED <<pictures, filesReady, battle, erased, askVars>>

\* SetSaveData drops the empty pictures at the end; InitGraphics asks for the others.
Load ==
    /\ PictureCommand /\ ~battle
    /\ \E n \in 0..Len(saved) :
          /\ \A i \in (n + 1)..Len(saved) : saved[i] = Empty
          /\ n > 0 => saved[n] # Empty
          /\ pictures' = [i \in 1..n |-> Requested(saved[i])]
    /\ erased' = {}
    /\ UNCHANGED <<filesReady, battle, saved, askVars>>

PicturesNext ==
    \/ \E id \in Ids : Show(id)
    \/ \E from, to \in Ids : from <= to /\ ErasePicture(from, to)
    \/ OnMapChange
    \/ BattleBegins
    \/ OnBattleEnd
    \/ UpdateAll
    \/ \E f \in Files : ImageArrives(f)
    \/ Save
    \/ Load

PicturesSpec == PicturesInit /\ [][PicturesNext]_pictureVars

\* Requested files arrive.
FairPicturesSpec == PicturesSpec /\ \A f \in Files : WF_pictureVars(ImageArrives(f))

-----------------------------------------------------------------------------
(* Properties.                                                             *)

\* What can be seen is what the picture names now, however many files it has named while
\* others were on the way; a picture shown without a name reuses an image.
ShowsWhatItNames ==
    \A i \in DOMAIN pictures :
        LET p == pictures[i] IN
        p.sprite /\ p.visible /\ p.bitmap # NoFile /\ p.name # NoName => p.bitmap = p.name

\* An erased picture is not seen again, not even when its file arrives late, whether an
\* event, the end of its animation, of the battle or of the map has erased it.
ErasedIsGone == \A i \in erased \cap DOMAIN pictures : pictures[i].bitmap = NoFile

\* "Test if the file was requested asynchronously before. If not the file can't be expected
\* to exist -> bug." (Cache::LoadBitmap)
AskedBeforeLoaded == ~blind

\* All of these, the last as long as every picture asks for the image it names: one shown
\* without a name, or with a frame its sheet does not have, asks for nothing and keeps the
\* binding to the image before it, whose arrival loads what the picture is called by then.
PicturesInv ==
    /\ PicturesTypeOK
    /\ ShowsWhatItNames /\ ErasedIsGone
    /\ asksForAll => AskedBeforeLoaded

\* A picture is seen in the end: its file is not forgotten, and it is not left hidden.
Waits(i) ==
    /\ i \in DOMAIN pictures
    /\ pictures[i].name # NoName /\ pictures[i].sheet # "wrong"
    /\ ~(pictures[i].sprite /\ pictures[i].visible /\ pictures[i].bitmap = pictures[i].name)

PicturesAppear == \A i \in Ids : []<>~Waits(i)

=============================================================================
