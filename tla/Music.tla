-------------------------------- MODULE Music --------------------------------
(***************************************************************************)
(* The background music: Game_System with its one request                  *)
(* (src/src/game_system.cpp), the two channels of GenericAudio             *)
(* (audio_generic.cpp) and the fades of a decoder (audio_decoder.cpp). The  *)
(* audio thread mixes a block of samples between any two commands.         *)
(*                                                                         *)
(* Volumes count in a unit that makes every step of a fade a whole number; *)
(* a fade takes FadeTime mixes.                                            *)
(***************************************************************************)
EXTENDS Integers, Sequences

CONSTANTS Songs, Missing, Links, Broken,    \* what is behind the name of a file
          Off,          \* "(OFF)"
          Volumes,
          FadeIns,      \* fade-in times, 0 for none
          FadeTime,     \* time a fade takes
          Budget        \* bound on the commands

Names == Songs \cup Missing \cup Links \cup Broken
Sounding == Songs \cup Links

MusicAssumption ==
    /\ Off \notin Names /\ Missing \cap Links = {}
    /\ Volumes \subseteq Nat \ {0} /\ \E v \in Volumes : \A u \in Volumes : u <= v
    /\ FadeIns \subseteq {0, FadeTime}
    /\ FadeTime \in Nat \ {0} /\ Budget \in Nat

VARIABLES
    current,    \* data.current_music: [name, volume, fadein]
    stopping,   \* data.music_stopping
    pending,    \* bgm_pending
    request,    \* music_request_id: the file it is bound to, "second" for the one behind a link
    ready,      \* requests that are done
    channels,   \* BGM_Channels
    budget,
    refused     \* BGM_Play found no unused channel (history)

musicVars == <<current, stopping, pending, request, ready, channels, budget, refused>>

Requests == Names \X {"first", "second"}
NoRequest == <<Off, "first">>

Unused == [song |-> Off, paused |-> FALSE, stopped |-> TRUE, volume |-> 0, left |-> 0, step |-> 0]

MusicInit ==
    /\ current = [name |-> Off, volume |-> 0, fadein |-> 0]
    /\ stopping = FALSE /\ pending = FALSE /\ request = NoRequest /\ ready = {}
    /\ channels = [c \in 1..2 |-> [Unused EXCEPT !.stopped = FALSE]]
    /\ budget = Budget /\ refused = FALSE

-----------------------------------------------------------------------------
(* A decoder, and the channels. s: [current, stopping, pending, request, channels, refused]. *)

Clamped(v, high) == IF v < 0 THEN 0 ELSE IF v > high THEN high ELSE v
High == CHOOSE v \in Volumes : \A u \in Volumes : u <= v

IsUsed(ch) == ch.song # Off

SetVolume(ch, volume) == [ch EXCEPT !.volume = volume]

SetFade(ch, end, duration) ==
    IF duration = 0 THEN SetVolume([ch EXCEPT !.left = 0], end)
    ELSE [ch EXCEPT !.left = duration, !.step = (end - ch.volume) \div duration]

\* AudioDecoder::Update.
Faded(ch) ==
    IF ch.left = 0 THEN ch
    ELSE [ch EXCEPT !.left = @ - 1, !.volume = Clamped(@ + ch.step, High)]

BGM_Stop(s) ==
    [s EXCEPT !.channels = [c \in 1..2 |-> [@[c] EXCEPT !.stopped = TRUE, !.song = Off]]]

\* PlayOnChannel: a file in an unknown format leaves the channel paused.
PlayOnChannel(ch, m) ==
    SetFade([Unused EXCEPT !.song = m.name, !.stopped = FALSE, !.paused = m.name \in Broken],
            m.volume, m.fadein)

BGM_Play(s, m) ==
    LET One(cs, c) == [cs EXCEPT ![c] = PlayOnChannel(@, m)]
        Stopped(c) == [s.channels EXCEPT ![c].stopped = TRUE]
    IN CASE ~IsUsed(s.channels[1]) -> [s EXCEPT !.channels = One(@, 1)]
         [] IsUsed(s.channels[1]) /\ ~IsUsed(s.channels[2]) -> [s EXCEPT !.channels = One(Stopped(1), 2)]
         [] OTHER -> [s EXCEPT !.refused = TRUE,
                               !.channels = [c \in 1..2 |-> [@[c] EXCEPT !.stopped = TRUE]]]

-----------------------------------------------------------------------------
(* Game_System.                                                            *)

System == [current |-> current, stopping |-> stopping, pending |-> pending, request |-> request,
           channels |-> channels, refused |-> refused]

SystemBecomes(s) ==
    /\ current' = s.current /\ stopping' = s.stopping /\ pending' = s.pending
    /\ request' = s.request /\ channels' = s.channels /\ refused' = s.refused

\* OnBgmInelukiReady: the file the link names is played under the name of the link.
SecondReady(s, name) ==
    BGM_Play([s EXCEPT !.pending = FALSE, !.request = NoRequest], [s.current EXCEPT !.name = name])

\* OnBgmReady. A link needs another request. The file is the one that arrived, volume and
\* fade-in are those of now.
BgmReady_unmarked(s, name) ==
    LET arrived == [s EXCEPT !.pending = FALSE, !.request = NoRequest] IN
    IF name \in Links THEN [arrived EXCEPT !.request = <<name, "second">>]
    ELSE IF name \in Missing THEN arrived ELSE BGM_Play(arrived, [s.current EXCEPT !.name = name])

BgmReady(s, name) ==
    LET arrived == [s EXCEPT !.pending = FALSE, !.request = NoRequest] IN
    CASE name \in Missing -> arrived
      [] name \in Links ->
           (IF <<name, "second">> \in ready THEN SecondReady(arrived, name)
            ELSE [arrived EXCEPT !.pending = TRUE, !.request = <<name, "second">>])
      [] OTHER -> BGM_Play(arrived, [s.current EXCEPT !.name = name])

BgmStop_keepsRequest(s) == BGM_Stop([s EXCEPT !.current.name = Off])

BgmStop(s) == BGM_Stop([s EXCEPT !.request = NoRequest, !.current.name = Off])

BgmPlay_same(s, m) ==
    LET asked == [s EXCEPT !.current = m, !.stopping = FALSE] IN
    IF m.name = Off THEN BgmStop(asked)
    ELSE IF m.name = s.current.name THEN asked
    ELSE IF <<m.name, "first">> \in ready THEN BgmReady(BGM_Stop(asked), m.name)
    ELSE [BGM_Stop(asked) EXCEPT !.pending = TRUE, !.request = <<m.name, "first">>]

BgmPlay_over(s, m) ==
    LET asked == [s EXCEPT !.current = m, !.stopping = FALSE] IN
    CASE m.name = Off -> BgmStop(asked)
      [] m.name # Off /\ <<m.name, "first">> \in ready -> BgmReady(asked, m.name)
      [] OTHER -> [asked EXCEPT !.pending = TRUE, !.request = <<m.name, "first">>]

\* Same music: only the volume is adjusted, and not even that before the file is there.
BgmPlay(s, m) ==
    LET asked == [s EXCEPT !.current = m, !.stopping = FALSE]
        stopped == [BGM_Stop(asked) EXCEPT !.pending = TRUE, !.request = <<m.name, "first">>]
    IN CASE m.name = Off -> BgmStop(asked)
         [] m.name # Off /\ ~s.stopping /\ s.current.name = m.name ->
              (IF s.current.volume = m.volume \/ s.pending THEN asked
               ELSE [asked EXCEPT !.channels = [c \in 1..2 |->
                        IF IsUsed(@[c]) THEN SetVolume(@[c], m.volume) ELSE @[c]]])
         [] OTHER -> IF <<m.name, "first">> \in ready THEN BgmReady(stopped, m.name) ELSE stopped

BgmFade(s, clear) ==
    [s EXCEPT !.stopping = TRUE, !.current.name = IF clear THEN Off ELSE @,
              !.channels = [c \in 1..2 |-> IF IsUsed(@[c]) THEN SetFade(@[c], 0, FadeTime) ELSE @[c]]]

-----------------------------------------------------------------------------
Command == budget > 0 /\ budget' = budget - 1

Play ==
    /\ Command
    /\ \E name \in Names \cup {Off}, volume \in Volumes, fadein \in FadeIns :
          SystemBecomes(BgmPlay(System, [name |-> name, volume |-> volume, fadein |-> fadein]))
    /\ UNCHANGED ready

Stop == Command /\ SystemBecomes(BgmStop(System)) /\ UNCHANGED ready

Fade == Command /\ \E clear \in BOOLEAN : SystemBecomes(BgmFade(System, clear)) /\ UNCHANGED ready

\* Player::Pause and Resume, when the window loses and gets the focus.
SetPaused(paused) ==
    /\ Command
    /\ channels' = [c \in 1..2 |-> IF IsUsed(channels[c]) THEN [channels[c] EXCEPT !.paused = paused]
                                   ELSE channels[c]]
    /\ UNCHANGED <<current, stopping, pending, request, ready, refused>>

\* The file of the binding arrives; those of lost bindings do not matter.
Arrive ==
    /\ request # NoRequest
    /\ ready' = ready \cup {request}
    /\ SystemBecomes(
           IF request[2] = "first" THEN BgmReady([System EXCEPT !.request = NoRequest], request[1])
           ELSE SecondReady(System, request[1]))
    /\ UNCHANGED budget

\* GenericAudio::Decode mixes the channels: a faulty or a stopped one is freed.
Mixed(ch) ==
    IF ~IsUsed(ch) \/ ch.paused THEN ch
    ELSE IF ch.stopped \/ ch.song \in Broken THEN [ch EXCEPT !.song = Off]
    ELSE Faded(ch)

Mix ==
    /\ channels' = [c \in 1..2 |-> Mixed(channels[c])]
    /\ UNCHANGED <<current, stopping, pending, request, ready, budget, refused>>

MusicNext == Play \/ Stop \/ Fade \/ SetPaused(TRUE) \/ SetPaused(FALSE) \/ Arrive \/ Mix

MusicSpec == MusicInit /\ [][MusicNext]_musicVars

\* Files arrive and the audio thread mixes.
MusicFairSpec == MusicSpec /\ WF_musicVars(Arrive) /\ WF_musicVars(Mix)

-----------------------------------------------------------------------------
(* Properties.                                                             *)

Channel == [song : Names \cup {Off}, paused : BOOLEAN, stopped : BOOLEAN, volume : 0..High,
            left : 0..FadeTime, step : (-High)..High]

\* Type correctness; a request is only kept while the music is pending.
MusicTypeOK ==
    /\ current \in [name : Names \cup {Off}, volume : Volumes \cup {0}, fadein : FadeIns \cup {0}]
    /\ stopping \in BOOLEAN /\ pending \in BOOLEAN /\ refused \in BOOLEAN
    /\ request \in Requests \cup {NoRequest} /\ ready \subseteq Requests
    /\ channels \in [1..2 -> Channel] /\ budget \in 0..Budget
    /\ request # NoRequest => pending /\ request \notin ready

Heard(ch) == IsUsed(ch) /\ ~ch.stopped /\ ~ch.paused

\* What is heard is the current music, however many others were asked for while files were on
\* the way. It has the volume that was asked for last ("Same music: Only adjust volume and
\* speed", BgmPlay) unless it fades, and unless music fades in: a volume that is adjusted
\* meanwhile is adjusted by the fade again.
HearsCurrent ==
    ~stopping => \A c \in 1..2 :
        Heard(channels[c]) =>
            /\ channels[c].song = current.name
            /\ FadeIns \subseteq {0} /\ channels[c].left = 0 => channels[c].volume = current.volume

\* BGM_Play always finds a channel, though the audio thread frees those it stops only later.
AlwaysAChannel == ~refused

\* All of these: the current music and no other.
MusicInv == MusicTypeOK /\ HearsCurrent /\ AlwaysAChannel

\* The current music is heard in the end, if its file is good and nobody pauses or fades it:
\* asking for the music that fades, or was stopped, starts it again.
MusicPlays ==
    []<>(\/ current.name \notin Sounding \/ stopping \/ \E c \in 1..2 : channels[c].paused
         \/ \E c \in 1..2 : IsUsed(channels[c]) /\ channels[c].song = current.name
                            /\ ~channels[c].stopped /\ channels[c].volume > 0)

=============================================================================
