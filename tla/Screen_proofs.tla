---------------------------- MODULE Screen_proofs ----------------------------
(***************************************************************************)
(* Theorems about what is heard and shown. Music: for any songs, links and *)
(* missing or broken files, any volumes and any length of a fade, any      *)
(* number of commands and any mixes between them, only the current music   *)
(* is heard, and a channel is always unused when one is needed. Pictures:  *)
(* for any picture numbers, any files and any sheets, however commands,    *)
(* frames, battles, savegames and the arrival of files follow each other,  *)
(* a picture shows what it names. Scenes: for any outcomes of the map      *)
(* updates, any number of them and of keys, and any delays, continuations, *)
(* transitions and the stack of scenes do not disturb each other.          *)
(***************************************************************************)
EXTENDS Music, Pictures, Scenes, SequenceTheorems, TLAPS

Current == [name : Names \cup {Off}, volume : Volumes \cup {0}, fadein : FadeIns \cup {0}]

Systems == [current : Current, stopping : BOOLEAN, pending : BOOLEAN,
            request : Requests \cup {NoRequest}, channels : [1..2 -> Channel], refused : BOOLEAN]

Silent(s) == \A c \in 1..2 : s.channels[c].song = Off

\* While a file is awaited nothing sounds, so that a channel is unused when it comes; what a
\* request is bound to is the current music; and a channel that is not stopped, paused or not,
\* has the current music, and its volume if none fades in.
Awaits(s) == /\ s.request # NoRequest => s.pending
             /\ s.pending => Silent(s)
             /\ s.request # NoRequest /\ ~s.stopping => s.request[1] = s.current.name
InTune(s) ==
    ~s.stopping => \A c \in 1..2 :
        IsUsed(s.channels[c]) /\ ~s.channels[c].stopped =>
            /\ s.channels[c].song = s.current.name
            /\ FadeIns \subseteq {0} =>
                 s.channels[c].left = 0 /\ s.channels[c].volume = s.current.volume

Sound(s) == s \in Systems /\ ~s.refused /\ Awaits(s) /\ InTune(s)

Inv ==
    /\ Sound(System)
    /\ ready \subseteq Requests /\ budget \in 0..Budget
    /\ request # NoRequest => request \notin ready

-----------------------------------------------------------------------------
(* Decoders and channels.                                                   *)

LEMMA HighFacts ==
    ASSUME MusicAssumption
    PROVE  /\ High \in Nat /\ Volumes \subseteq 0..High
           /\ FadeTime \in Nat \ {0} /\ FadeIns \cup {0} \subseteq 0..FadeTime
<1>1. \E v \in Volumes : \A u \in Volumes : u <= v
  BY DEF MusicAssumption
<1>2. High \in Volumes /\ \A u \in Volumes : u <= High
  BY <1>1 DEF High
<1>3. Volumes \subseteq Nat /\ FadeTime \in Nat \ {0} /\ FadeIns \subseteq {0, FadeTime}
  BY DEF MusicAssumption
<1> HIDE DEF High
<1>4. High \in Nat
  BY <1>2, <1>3
<1>5. \A u \in Volumes : u \in 0..High
  BY <1>2, <1>3, <1>4
<1> QED
  BY <1>3, <1>4, <1>5

\* No step of a fade is longer than the way it goes.
LEMMA StepFacts ==
    ASSUME NEW h \in Nat, NEW a \in 0..h, NEW b \in 0..h, NEW d \in Nat \ {0}
    PROVE  (b - a) \div d \in (-h)..h
<1> DEFINE q == (b - a) \div d
           r == (b - a) % d
<1>1. b - a \in Int /\ b - a <= h /\ -h <= b - a
  OBVIOUS
<1>2. q \in Int /\ r \in 0..d - 1 /\ b - a = d * q + r
  BY <1>1
<1> HIDE DEF q, r
<1>3. q <= h
  BY <1>1, <1>2
<1>4. -h <= q
  BY <1>1, <1>2
<1> QED
  BY <1>2, <1>3, <1>4 DEF q

LEMMA UnusedFacts ==
    ASSUME MusicAssumption
    PROVE  /\ Unused \in Channel /\ [Unused EXCEPT !.stopped = FALSE] \in Channel
           /\ [Unused EXCEPT !.stopped = FALSE].song = Off
<1>1. High \in Nat /\ FadeTime \in Nat
  BY HighFacts
<1>2. 0 \in 0..High /\ 0 \in 0..FadeTime /\ 0 \in (-High)..High
  BY <1>1
<1> QED
  BY <1>2 DEF Unused, Channel

LEMMA FadeFacts ==
    ASSUME MusicAssumption, NEW ch \in Channel, NEW end \in 0..High, NEW duration \in 0..FadeTime
    PROVE  /\ SetVolume(ch, end) \in Channel
           /\ SetVolume(ch, end).volume = end
           /\ SetVolume(ch, end).song = ch.song /\ SetVolume(ch, end).left = ch.left
           /\ SetVolume(ch, end).stopped = ch.stopped
           /\ SetFade(ch, end, duration) \in Channel
           /\ SetFade(ch, end, duration).song = ch.song
           /\ SetFade(ch, end, duration).paused = ch.paused
           /\ SetFade(ch, end, duration).stopped = ch.stopped
           /\ duration = 0 => /\ SetFade(ch, end, duration).left = 0
                              /\ SetFade(ch, end, duration).volume = end
<1>1. High \in Nat /\ FadeTime \in Nat
  BY HighFacts
<1>2. ch.volume \in 0..High
  BY DEF Channel
<1>3. ASSUME NEW x \in Channel
      PROVE  /\ SetVolume(x, end) \in Channel /\ SetVolume(x, end).volume = end
             /\ SetVolume(x, end).song = x.song /\ SetVolume(x, end).paused = x.paused
             /\ SetVolume(x, end).stopped = x.stopped /\ SetVolume(x, end).left = x.left
             /\ SetVolume(x, end).step = x.step
  BY DEF SetVolume, Channel
<1>4. CASE duration = 0
  <2> DEFINE x == [ch EXCEPT !.left = 0]
  <2>1. /\ x \in Channel /\ x.song = ch.song /\ x.paused = ch.paused /\ x.stopped = ch.stopped
        /\ x.left = 0
    BY <1>1 DEF Channel
  <2>2. SetFade(ch, end, duration) = SetVolume(x, end)
    BY <1>4 DEF SetFade
  <2> HIDE DEF x
  <2> QED
    BY <1>3, <1>4, <2>1, <2>2
<1>5. CASE duration # 0
  <2> DEFINE step == (end - ch.volume) \div duration
             x == [ch EXCEPT !.left = duration]
             y == [x EXCEPT !.step = step]
  <2>1. step \in (-High)..High
    BY <1>1, <1>2, <1>5, StepFacts
  <2>2. /\ x \in Channel /\ x.song = ch.song /\ x.paused = ch.paused /\ x.stopped = ch.stopped
    BY <1>1 DEF Channel
  <2> HIDE DEF step
  <2>3. y = [ch EXCEPT !.left = duration, !.step = step]
    BY DEF Channel
  <2>4. SetFade(ch, end, duration) = y
    BY <1>5, <2>3 DEF SetFade, step
  <2> HIDE DEF x
  <2>5. /\ y \in Channel /\ y.song = ch.song /\ y.paused = ch.paused /\ y.stopped = ch.stopped
    BY <2>1, <2>2 DEF Channel
  <2> HIDE DEF y
  <2> QED
    BY <1>3, <1>5, <2>4, <2>5
<1> QED
  BY <1>3, <1>4, <1>5

LEMMA MixedFacts ==
    ASSUME MusicAssumption, NEW ch \in Channel
    PROVE  /\ Mixed(ch) \in Channel
           /\ IsUsed(Mixed(ch)) => /\ IsUsed(ch) /\ Mixed(ch).song = ch.song
                                   /\ Mixed(ch).stopped = ch.stopped
                                   /\ ch.left = 0 => /\ Mixed(ch).left = 0
                                                     /\ Mixed(ch).volume = ch.volume
<1>1. /\ High \in Nat /\ FadeTime \in Nat /\ ch.left \in 0..FadeTime /\ ch.volume \in 0..High
      /\ ch.step \in (-High)..High
  BY HighFacts DEF Channel
<1>2. CASE ~IsUsed(ch) \/ ch.paused
  BY <1>2 DEF Mixed
<1>3. CASE ~(~IsUsed(ch) \/ ch.paused) /\ (ch.stopped \/ ch.song \in Broken)
  <2>1. Mixed(ch) = [ch EXCEPT !.song = Off]
    BY <1>3 DEF Mixed
  <2>2. [ch EXCEPT !.song = Off] \in Channel /\ [ch EXCEPT !.song = Off].song = Off
    BY DEF Channel
  <2> QED
    BY <2>1, <2>2 DEF IsUsed
<1>4. CASE ~(~IsUsed(ch) \/ ch.paused) /\ ~(ch.stopped \/ ch.song \in Broken)
  <2>1. Mixed(ch) = Faded(ch) /\ IsUsed(ch)
    BY <1>4 DEF Mixed
  <2>2. CASE ch.left = 0
    BY <2>1, <2>2 DEF Faded
  <2>3. CASE ch.left # 0
    <3> DEFINE volume == Clamped(ch.volume + ch.step, High)
               x == [ch EXCEPT !.left = ch.left - 1]
               y == [x EXCEPT !.volume = volume]
    <3>1. volume \in 0..High
      BY <1>1 DEF Clamped
    <3>2. ch.left - 1 \in 0..FadeTime
      BY <1>1, <2>3
    <3>3. x \in Channel /\ x.song = ch.song /\ x.stopped = ch.stopped
      BY <3>2 DEF Channel
    <3> HIDE DEF volume
    <3>4. y = [ch EXCEPT !.left = ch.left - 1, !.volume = volume]
      BY DEF Channel
    <3>5. Faded(ch) = y
      BY <2>3, <3>4 DEF Faded, volume
    <3> HIDE DEF x
    <3>6. y \in Channel /\ y.song = ch.song /\ y.stopped = ch.stopped
      BY <3>1, <3>3 DEF Channel
    <3> HIDE DEF y
    <3> QED
      BY <2>1, <2>3, <3>5, <3>6 DEF IsUsed
  <2> QED
    BY <2>2, <2>3
<1> QED
  BY <1>2, <1>3, <1>4

LEMMA PlayFacts ==
    ASSUME MusicAssumption, NEW ch, NEW m \in Current
    PROVE  /\ PlayOnChannel(ch, m) \in Channel
           /\ PlayOnChannel(ch, m).song = m.name
           /\ FadeIns \subseteq {0} => /\ PlayOnChannel(ch, m).left = 0
                                       /\ PlayOnChannel(ch, m).volume = m.volume
<1> DEFINE x == [Unused EXCEPT !.song = m.name]
           y == [x EXCEPT !.stopped = FALSE]
           broken == m.name \in Broken
           z == [y EXCEPT !.paused = broken]
<1>1. /\ m.name \in Names \cup {Off} /\ m.volume \in 0..High /\ m.fadein \in 0..FadeTime
      /\ m.fadein \in FadeIns \cup {0}
  BY HighFacts DEF Current
<1>2. x \in Channel /\ x.song = m.name
  BY <1>1, UnusedFacts DEF Channel
<1>3. y = [Unused EXCEPT !.song = m.name, !.stopped = FALSE]
  BY DEF Unused
<1>4. z = [Unused EXCEPT !.song = m.name, !.stopped = FALSE, !.paused = m.name \in Broken]
  BY DEF Unused
<1> HIDE DEF x
<1>5. y \in Channel /\ y.song = m.name
  BY <1>2 DEF Channel
<1> HIDE DEF y
<1>6. PlayOnChannel(ch, m) = SetFade(z, m.volume, m.fadein)
  BY <1>4 DEF PlayOnChannel
<1>7. z \in Channel /\ z.song = m.name
  <2>1. broken \in BOOLEAN
    OBVIOUS
  <2> HIDE DEF broken
  <2> QED
    BY <1>5, <2>1 DEF Channel
<1> HIDE DEF z
<1>8. FadeIns \subseteq {0} => m.fadein = 0
  BY <1>1
<1> QED
  BY <1>1, <1>6, <1>7, <1>8, FadeFacts

LEMMA StoppedFacts ==
    ASSUME MusicAssumption, NEW s \in Systems
    PROVE  /\ BGM_Stop(s) \in Systems /\ Silent(BGM_Stop(s))
           /\ BGM_Stop(s).current = s.current /\ BGM_Stop(s).stopping = s.stopping
           /\ BGM_Stop(s).pending = s.pending /\ BGM_Stop(s).request = s.request
           /\ BGM_Stop(s).refused = s.refused
<1> DEFINE freed(ch) == [ch EXCEPT !.stopped = TRUE, !.song = Off]
           cs == [c \in 1..2 |-> freed(s.channels[c])]
<1>1. ASSUME NEW ch \in Channel PROVE freed(ch) \in Channel /\ freed(ch).song = Off
  BY DEF Channel
<1>2. s.channels \in [1..2 -> Channel]
  BY DEF Systems
<1> HIDE DEF freed
<1>3. cs \in [1..2 -> Channel] /\ \A c \in 1..2 : cs[c].song = Off
  BY <1>1, <1>2
<1>4. BGM_Stop(s) = [s EXCEPT !.channels = cs]
  BY DEF BGM_Stop, freed
<1> HIDE DEF cs
<1> QED
  BY <1>3, <1>4 DEF Systems, Silent

\* In silence, the first channel takes the music.
LEMMA BGMPlayFacts ==
    ASSUME MusicAssumption, NEW s \in Systems, ~s.refused, s.request = NoRequest, ~s.pending,
           Silent(s), NEW m \in Current, m.name = s.current.name \/ s.stopping,
           m.volume = s.current.volume
    PROVE  Sound(BGM_Play(s, m)) /\ BGM_Play(s, m).request = NoRequest
<1> DEFINE ch == PlayOnChannel(s.channels[1], m)
           cs == [s.channels EXCEPT ![1] = ch]
           t == [s EXCEPT !.channels = cs]
<1>1. s.channels \in [1..2 -> Channel]
  BY DEF Systems
<1>2. /\ ch \in Channel /\ ch.song = m.name
      /\ FadeIns \subseteq {0} => ch.left = 0 /\ ch.volume = m.volume
  BY PlayFacts
<1>3. BGM_Play(s, m) = t
  <2>1. ~IsUsed(s.channels[1])
    BY DEF Silent, IsUsed
  <2> QED
    BY <2>1 DEF BGM_Play
<1> HIDE DEF ch
<1>4. cs \in [1..2 -> Channel] /\ cs[1] = ch /\ cs[2] = s.channels[2]
  BY <1>1, <1>2
<1> HIDE DEF cs
<1>5. /\ t \in Systems /\ t.current = s.current /\ t.stopping = s.stopping
      /\ t.pending = s.pending /\ t.request = s.request /\ t.refused = s.refused
      /\ t.channels = cs
  BY <1>4 DEF Systems
<1> HIDE DEF t
<1>6. Awaits(t)
  BY <1>5 DEF Awaits
<1>7. InTune(t)
  <2> SUFFICES ASSUME ~s.stopping, NEW c \in 1..2, IsUsed(cs[c])
               PROVE  /\ cs[c].song = s.current.name
                      /\ FadeIns \subseteq {0} =>
                           cs[c].left = 0 /\ cs[c].volume = s.current.volume
    BY <1>5 DEF InTune
  <2>1. c = 1
    BY <1>4 DEF Silent, IsUsed
  <2> QED
    BY <1>2, <1>4, <2>1
<1> QED
  BY <1>3, <1>5, <1>6, <1>7 DEF Sound

-----------------------------------------------------------------------------
(* Game_System.                                                             *)

LEMMA SecondReadyFacts ==
    ASSUME MusicAssumption, NEW s \in Systems, ~s.refused, Silent(s), NEW name \in Names,
           name = s.current.name \/ s.stopping
    PROVE  Sound(SecondReady(s, name)) /\ SecondReady(s, name).request = NoRequest
<1> DEFINE x == [s EXCEPT !.pending = FALSE]
           t == [x EXCEPT !.request = NoRequest]
           m == [s.current EXCEPT !.name = name]
<1>1. /\ x \in Systems /\ x.current = s.current /\ x.stopping = s.stopping /\ ~x.pending
      /\ x.refused = s.refused /\ x.channels = s.channels
  BY DEF Systems
<1>2. t = [s EXCEPT !.pending = FALSE, !.request = NoRequest]
  BY DEF Systems
<1> HIDE DEF x
<1>3. /\ t \in Systems /\ t.current = s.current /\ t.stopping = s.stopping /\ ~t.pending
      /\ t.refused = s.refused /\ t.channels = s.channels /\ t.request = NoRequest
  BY <1>1 DEF Systems
<1>4. m \in Current /\ m.name = name /\ m.volume = s.current.volume
  <2>1. s.current \in Current
    BY DEF Systems
  <2> QED
    BY <2>1 DEF Current
<1>5. SecondReady(s, name) = BGM_Play(t, m)
  BY <1>2 DEF SecondReady
<1> HIDE DEF t, m
<1>6. Silent(t)
  BY <1>3 DEF Silent
<1> QED
  BY <1>3, <1>4, <1>5, <1>6, BGMPlayFacts

LEMMA BgmReadyFacts ==
    ASSUME MusicAssumption, NEW s \in Systems, ~s.refused, Silent(s), NEW name \in Names,
           name = s.current.name \/ s.stopping
    PROVE  /\ Sound(BgmReady(s, name))
           /\ \/ BgmReady(s, name).request = NoRequest
              \/ /\ BgmReady(s, name).request = <<name, "second">>
                 /\ <<name, "second">> \notin ready
<1> DEFINE x == [s EXCEPT !.pending = FALSE]
           t == [x EXCEPT !.request = NoRequest]
           m == [s.current EXCEPT !.name = name]
<1>1. /\ x \in Systems /\ x.current = s.current /\ x.stopping = s.stopping /\ ~x.pending
      /\ x.refused = s.refused /\ x.channels = s.channels
  BY DEF Systems
<1>2. t = [s EXCEPT !.pending = FALSE, !.request = NoRequest]
  BY DEF Systems
<1> HIDE DEF x
<1>3. /\ t \in Systems /\ t.current = s.current /\ t.stopping = s.stopping /\ ~t.pending
      /\ t.refused = s.refused /\ t.channels = s.channels /\ t.request = NoRequest
  BY <1>1 DEF Systems
<1>4. m \in Current /\ m.name = name /\ m.volume = s.current.volume
  <2>1. s.current \in Current
    BY DEF Systems
  <2> QED
    BY <2>1 DEF Current
<1>5. BgmReady(s, name) =
        CASE name \in Missing -> t
          [] name \in Links ->
               (IF <<name, "second">> \in ready THEN SecondReady(t, name)
                ELSE [t EXCEPT !.pending = TRUE, !.request = <<name, "second">>])
          [] OTHER -> BGM_Play(t, m)
  BY <1>2 DEF BgmReady
<1> HIDE DEF t, m
<1>6. Silent(t)
  BY <1>3 DEF Silent
<1>7. CASE name \in Missing
  <2>1. BgmReady(s, name) = t
    BY <1>5, <1>7 DEF MusicAssumption
  <2>2. InTune(t)
    BY <1>6 DEF InTune, Silent, IsUsed
  <2> QED
    BY <1>3, <1>6, <2>1, <2>2 DEF Sound, Awaits
<1>8. CASE name \in Links /\ <<name, "second">> \in ready
  <2>1. BgmReady(s, name) = SecondReady(t, name)
    BY <1>5, <1>8 DEF MusicAssumption
  <2> QED
    BY <1>3, <1>6, <2>1, SecondReadyFacts
<1>9. CASE name \in Links /\ <<name, "second">> \notin ready
  <2> DEFINE y == [t EXCEPT !.pending = TRUE]
             z == [y EXCEPT !.request = <<name, "second">>]
  <2>1. BgmReady(s, name) = [t EXCEPT !.pending = TRUE, !.request = <<name, "second">>]
    BY <1>5, <1>9 DEF MusicAssumption
  <2>2. z = [t EXCEPT !.pending = TRUE, !.request = <<name, "second">>]
    BY <1>3 DEF Systems
  <2>3. /\ y \in Systems /\ y.current = t.current /\ y.stopping = t.stopping /\ y.pending
        /\ y.refused = t.refused /\ y.channels = t.channels
    BY <1>3 DEF Systems
  <2> HIDE DEF y
  <2>4. <<name, "second">> \in Requests
    BY DEF Requests
  <2>5. /\ z \in Systems /\ z.current = t.current /\ z.stopping = t.stopping /\ z.pending
        /\ z.refused = t.refused /\ z.channels = t.channels /\ z.request = <<name, "second">>
    BY <2>3, <2>4 DEF Systems
  <2> HIDE DEF z
  <2>6. Silent(z)
    BY <1>6, <2>5 DEF Silent
  <2>7. InTune(z)
    BY <2>6 DEF InTune, Silent, IsUsed
  <2>8. Awaits(z)
    BY <1>3, <2>5, <2>6 DEF Awaits
  <2> QED
    BY <1>3, <1>9, <2>1, <2>2, <2>5, <2>7, <2>8 DEF Sound
<1>10. CASE name \notin Missing /\ name \notin Links
  <2>1. BgmReady(s, name) = BGM_Play(t, m)
    BY <1>5, <1>10
  <2> QED
    BY <1>3, <1>4, <1>6, <2>1, BGMPlayFacts
<1> QED
  BY <1>7, <1>8, <1>9, <1>10

LEMMA BgmStopFacts ==
    ASSUME MusicAssumption, NEW s \in Systems, ~s.refused
    PROVE  Sound(BgmStop(s)) /\ BgmStop(s).request = NoRequest
<1> DEFINE x == [s EXCEPT !.request = NoRequest]
           m == [s.current EXCEPT !.name = Off]
           t == [x EXCEPT !.current = m]
<1>1. m \in Current
  <2>1. s.current \in Current
    BY DEF Systems
  <2> QED
    BY <2>1 DEF Current
<1>2. /\ x \in Systems /\ x.request = NoRequest /\ x.refused = s.refused
      /\ x.current = s.current
  BY DEF Systems
<1>3. [s EXCEPT !.request = NoRequest, !.current.name = Off] = t
  BY <1>2 DEF Systems
<1> HIDE DEF x, m
<1>4. t \in Systems /\ t.request = NoRequest /\ t.refused = s.refused
  BY <1>1, <1>2 DEF Systems
<1>5. BgmStop(s) = BGM_Stop(t)
  BY <1>3 DEF BgmStop
<1> HIDE DEF t
<1> DEFINE u == BGM_Stop(t)
<1>6. u \in Systems /\ Silent(u) /\ u.request = NoRequest /\ ~u.refused
  BY <1>4, StoppedFacts
<1> HIDE DEF u
<1>7. Awaits(u) /\ InTune(u)
  BY <1>6 DEF Awaits, InTune, Silent, IsUsed
<1> QED
  BY <1>5, <1>6, <1>7 DEF Sound, u

Asked(s, m) == [s EXCEPT !.current = m, !.stopping = FALSE]
Adjusted(s, volume) ==
    [s EXCEPT !.channels = [c \in 1..2 |->
        IF IsUsed(@[c]) THEN SetVolume(@[c], volume) ELSE @[c]]]

\* The music is asked for again while it plays: only its volume changes, and not even that
\* while its file is awaited.
LEMMA SameMusicFacts ==
    ASSUME MusicAssumption, NEW s \in Systems, Sound(s), ~s.stopping, NEW m \in Current,
           s.current.name = m.name
    PROVE  /\ s.current.volume = m.volume \/ s.pending =>
                Sound(Asked(s, m)) /\ Asked(s, m).request = s.request
           /\ ~s.pending => /\ Sound(Adjusted(Asked(s, m), m.volume))
                            /\ Adjusted(Asked(s, m), m.volume).request = s.request
<1> DEFINE x == [s EXCEPT !.current = m]
           asked == [x EXCEPT !.stopping = FALSE]
           set(ch) == IF IsUsed(ch) THEN SetVolume(ch, m.volume) ELSE ch
           cs == [c \in 1..2 |-> set(asked.channels[c])]
           adjusted == [asked EXCEPT !.channels = cs]
<1>1. /\ x \in Systems /\ x.current = m /\ x.stopping = s.stopping /\ x.pending = s.pending
      /\ x.request = s.request /\ x.channels = s.channels /\ x.refused = s.refused
  BY DEF Systems
<1>2. Asked(s, m) = asked
  BY DEF Systems, Asked
<1> HIDE DEF x
<1>3. /\ asked \in Systems /\ asked.current = m /\ ~asked.stopping
      /\ asked.pending = s.pending /\ asked.request = s.request
      /\ asked.channels = s.channels /\ asked.refused = s.refused
  BY <1>1 DEF Systems
<1> HIDE DEF asked
<1>4. Adjusted(asked, m.volume) = adjusted
  BY DEF Adjusted
<1>5. s.channels \in [1..2 -> Channel] /\ m.volume \in 0..High
  BY HighFacts DEF Systems, Current
<1>6. ASSUME NEW ch \in Channel
      PROVE  /\ set(ch) \in Channel /\ set(ch).song = ch.song /\ set(ch).stopped = ch.stopped
             /\ set(ch).left = ch.left
             /\ IsUsed(ch) => set(ch).volume = m.volume
  <2>1. 0 \in 0..FadeTime
    BY HighFacts
  <2> QED
    BY <1>5, <2>1, FadeFacts
<1> HIDE DEF set
<1>7. cs \in [1..2 -> Channel] /\ \A c \in 1..2 : cs[c] = set(s.channels[c])
  BY <1>3, <1>5, <1>6
<1> HIDE DEF cs
<1>8. /\ adjusted \in Systems /\ adjusted.current = m /\ ~adjusted.stopping
      /\ adjusted.pending = s.pending /\ adjusted.request = s.request
      /\ adjusted.channels = cs /\ adjusted.refused = s.refused
  BY <1>3, <1>7 DEF Systems
<1> HIDE DEF adjusted
<1>9. ~s.refused /\ Awaits(s) /\ InTune(s)
  BY DEF Sound
<1>10. ASSUME s.current.volume = m.volume \/ s.pending PROVE Sound(asked)
  <2>1. Awaits(asked)
    BY <1>3, <1>9 DEF Awaits, Silent
  <2>2. InTune(asked)
    <3>1. CASE s.current.volume = m.volume
      BY <1>3, <1>9, <3>1 DEF InTune
    <3>2. CASE s.pending
      BY <1>3, <1>9, <3>2 DEF InTune, Awaits, Silent, IsUsed
    <3> QED
      BY <1>10, <3>1, <3>2
  <2> QED
    BY <1>3, <1>9, <2>1, <2>2 DEF Sound
<1>11. ASSUME ~s.pending PROVE Sound(adjusted)
  <2>1. Awaits(adjusted)
    BY <1>8, <1>9, <1>11 DEF Awaits
  <2>2. InTune(adjusted)
    <3> SUFFICES ASSUME NEW c \in 1..2, IsUsed(cs[c]), ~cs[c].stopped
                 PROVE  /\ cs[c].song = m.name
                        /\ FadeIns \subseteq {0} => cs[c].left = 0 /\ cs[c].volume = m.volume
      BY <1>8 DEF InTune
    <3>1. s.channels[c] \in Channel /\ cs[c] = set(s.channels[c])
      BY <1>5, <1>7
    <3>2. /\ cs[c].song = s.channels[c].song /\ cs[c].stopped = s.channels[c].stopped
          /\ cs[c].left = s.channels[c].left
          /\ IsUsed(s.channels[c]) => cs[c].volume = m.volume
      BY <1>6, <3>1
    <3>3. IsUsed(s.channels[c]) /\ ~s.channels[c].stopped
      BY <3>2 DEF IsUsed
    <3>4. /\ s.channels[c].song = s.current.name
          /\ FadeIns \subseteq {0} => s.channels[c].left = 0
      BY <1>9, <3>3 DEF InTune
    <3> QED
      BY <3>2, <3>3, <3>4
  <2> QED
    BY <1>8, <1>9, <2>1, <2>2 DEF Sound
<1> QED
  BY <1>2, <1>3, <1>4, <1>8, <1>10, <1>11

LEMMA BgmPlayFacts ==
    ASSUME MusicAssumption, NEW s \in Systems, Sound(s), s.request # NoRequest => s.request \notin ready,
           NEW m \in Current
    PROVE  /\ Sound(BgmPlay(s, m))
           /\ BgmPlay(s, m).request # NoRequest => BgmPlay(s, m).request \notin ready
<1> DEFINE x == [s EXCEPT !.current = m]
           asked == [x EXCEPT !.stopping = FALSE]
           u == BGM_Stop(asked)
           y == [u EXCEPT !.pending = TRUE]
           stopped == [y EXCEPT !.request = <<m.name, "first">>]
<1>1. /\ x \in Systems /\ x.current = m /\ x.refused = s.refused
  BY DEF Systems
<1>2. Asked(s, m) = asked
  BY DEF Systems, Asked
<1> HIDE DEF x
<1>3. asked \in Systems /\ asked.current = m /\ ~asked.stopping /\ asked.refused = s.refused
  BY <1>1 DEF Systems
<1>4. ~s.refused
  BY DEF Sound
<1>5. CASE m.name = Off
  <2>1. BgmPlay(s, m) = BgmStop(Asked(s, m))
    BY <1>5 DEF BgmPlay, Asked
  <2>2. BgmPlay(s, m) = BgmStop(asked)
    BY <1>2, <2>1
  <2> HIDE DEF asked
  <2> QED
    BY <1>3, <1>4, <2>2, BgmStopFacts
<1>6. CASE m.name # Off /\ ~s.stopping /\ s.current.name = m.name
  <2>1. BgmPlay(s, m) = IF s.current.volume = m.volume \/ s.pending THEN Asked(s, m)
                        ELSE Adjusted(Asked(s, m), m.volume)
    BY <1>6 DEF BgmPlay, Asked, Adjusted
  <2> QED
    BY <1>6, <2>1, SameMusicFacts
<1>7. CASE m.name # Off /\ ~(~s.stopping /\ s.current.name = m.name)
  <2>0. BgmPlay(s, m) =
          LET st == [BGM_Stop(Asked(s, m)) EXCEPT !.pending = TRUE, !.request = <<m.name, "first">>]
          IN IF <<m.name, "first">> \in ready THEN BgmReady(st, m.name) ELSE st
    BY <1>7 DEF BgmPlay, Asked
  <2>1. BgmPlay(s, m) =
          LET st == [u EXCEPT !.pending = TRUE, !.request = <<m.name, "first">>]
          IN IF <<m.name, "first">> \in ready THEN BgmReady(st, m.name) ELSE st
    BY <1>2, <2>0
  <2> HIDE DEF asked
  <2>2. /\ u \in Systems /\ Silent(u) /\ u.current = m /\ ~u.stopping /\ ~u.refused
    BY <1>3, <1>4, StoppedFacts
  <2>3. stopped = [u EXCEPT !.pending = TRUE, !.request = <<m.name, "first">>]
    BY <2>2 DEF Systems
  <2>4. BgmPlay(s, m) = IF <<m.name, "first">> \in ready THEN BgmReady(stopped, m.name) ELSE stopped
    BY <2>1, <2>3
  <2> HIDE DEF u
  <2>5. y \in Systems /\ y.current = m /\ ~y.stopping /\ ~y.refused /\ y.channels = u.channels
        /\ y.pending
    BY <2>2 DEF Systems
  <2> HIDE DEF y
  <2>6. m.name \in Names /\ <<m.name, "first">> \in Requests
    BY <1>7 DEF Current, Requests
  <2>7. /\ stopped \in Systems /\ stopped.current = m /\ ~stopped.stopping /\ ~stopped.refused
        /\ stopped.channels = u.channels /\ stopped.pending
        /\ stopped.request = <<m.name, "first">>
    BY <2>5, <2>6 DEF Systems
  <2> HIDE DEF stopped
  <2>8. Silent(stopped)
    BY <2>2, <2>7 DEF Silent
  <2>9. CASE <<m.name, "first">> \in ready
    <3>1. /\ Sound(BgmReady(stopped, m.name))
          /\ \/ BgmReady(stopped, m.name).request = NoRequest
             \/ /\ BgmReady(stopped, m.name).request = <<m.name, "second">>
                /\ <<m.name, "second">> \notin ready
      BY <2>6, <2>7, <2>8, BgmReadyFacts
    <3> QED
      BY <2>4, <2>9, <3>1
  <2>10. CASE <<m.name, "first">> \notin ready
    <3>1. Awaits(stopped) /\ InTune(stopped)
      BY <2>7, <2>8 DEF Awaits, InTune, Silent, IsUsed
    <3> QED
      BY <2>4, <2>7, <2>10, <3>1 DEF Sound
  <2> QED
    BY <2>9, <2>10
<1> QED
  BY <1>5, <1>6, <1>7

LEMMA BgmFadeFacts ==
    ASSUME MusicAssumption, NEW s \in Systems, Sound(s), NEW clear \in BOOLEAN
    PROVE  Sound(BgmFade(s, clear)) /\ BgmFade(s, clear).request = s.request
<1> DEFINE name == IF clear THEN Off ELSE s.current.name
           m == [s.current EXCEPT !.name = name]
           fading(ch) == IF IsUsed(ch) THEN SetFade(ch, 0, FadeTime) ELSE ch
           cs == [c \in 1..2 |-> fading(s.channels[c])]
           x == [s EXCEPT !.stopping = TRUE]
           y == [x EXCEPT !.current = m]
           z == [y EXCEPT !.channels = cs]
<1>1. m \in Current
  <2>1. s.current \in Current
    BY DEF Systems
  <2> QED
    BY <2>1 DEF Current
<1>2. s.channels \in [1..2 -> Channel] /\ 0 \in 0..High /\ FadeTime \in 0..FadeTime
  BY HighFacts DEF Systems
<1>3. ASSUME NEW ch \in Channel PROVE fading(ch) \in Channel /\ fading(ch).song = ch.song
  BY <1>2, FadeFacts
<1>4. z = BgmFade(s, clear)
  BY DEF BgmFade, Systems
<1> HIDE DEF fading, m
<1>5. cs \in [1..2 -> Channel] /\ \A c \in 1..2 : cs[c].song = s.channels[c].song
  BY <1>2, <1>3
<1> HIDE DEF cs
<1>6. /\ x \in Systems /\ x.stopping /\ x.pending = s.pending /\ x.request = s.request
      /\ x.refused = s.refused
  BY DEF Systems
<1> HIDE DEF x
<1>7. /\ y \in Systems /\ y.stopping /\ y.pending = s.pending /\ y.request = s.request
      /\ y.refused = s.refused
  BY <1>1, <1>6 DEF Systems
<1> HIDE DEF y
<1>8. /\ z \in Systems /\ z.stopping /\ z.pending = s.pending /\ z.request = s.request
      /\ z.refused = s.refused /\ z.channels = cs
  BY <1>5, <1>7 DEF Systems
<1> HIDE DEF z
<1>9. Awaits(z) /\ InTune(z) /\ ~s.refused
  BY <1>5, <1>8 DEF Sound, Awaits, InTune, Silent
<1> QED
  BY <1>4, <1>8, <1>9 DEF Sound

-----------------------------------------------------------------------------
(* Each action keeps Inv.                                                   *)

LEMMA InitInv == ASSUME MusicAssumption, MusicInit PROVE Inv
<1>1. current \in Current /\ NoRequest \in Requests \cup {NoRequest} /\ Budget \in Nat
  BY DEF MusicInit, Current, MusicAssumption
<1>2. channels \in [1..2 -> Channel] /\ \A c \in 1..2 : channels[c].song = Off
  BY UnusedFacts DEF MusicInit
<1>3. System \in Systems
  BY <1>1, <1>2 DEF System, Systems, MusicInit
<1>4. Silent(System)
  BY <1>2 DEF Silent, System
<1>5. Awaits(System) /\ InTune(System)
  BY <1>4 DEF Awaits, InTune, System, MusicInit, Silent, IsUsed
<1> QED
  BY <1>1, <1>3, <1>5 DEF Inv, Sound, System, MusicInit

LEMMA BecomesFacts ==
    ASSUME NEW s \in Systems, SystemBecomes(s)
    PROVE  System' = s /\ request' = s.request
  BY DEF SystemBecomes, System, Systems

LEMMA NextKeeps ==
    ASSUME MusicAssumption, Inv, [MusicNext]_musicVars PROVE Inv'
<1>1. /\ System \in Systems /\ Sound(System) /\ ready \subseteq Requests /\ budget \in 0..Budget
      /\ request # NoRequest => request \notin ready
      /\ System.request = request /\ System.current = current /\ System.pending = pending
      /\ System.stopping = stopping /\ System.channels = channels /\ System.refused = refused
      /\ Budget \in Nat
  BY DEF Inv, Sound, System, MusicAssumption
<1>2. ASSUME NEW s, Sound(s), SystemBecomes(s), s.request # NoRequest => s.request \notin ready',
             ready' \subseteq Requests, budget' \in 0..Budget
      PROVE  Inv'
  <2>1. s \in Systems
    BY <1>2 DEF Sound
  <2>2. System' = s /\ request' = s.request
    BY <1>2, <2>1, BecomesFacts
  <2>3. Sound(System)' <=> Sound(s)
    BY <2>2 DEF Sound, Awaits, InTune, Silent, Systems
  <2> QED
    BY <1>2, <2>2, <2>3 DEF Inv
<1>3. ASSUME Command PROVE budget' \in 0..Budget
  BY <1>1, <1>3 DEF Command
<1>4. CASE Play
  <2>1. PICK m \in Current : SystemBecomes(BgmPlay(System, m))
    <3>1. PICK name \in Names \cup {Off}, volume \in Volumes, fadein \in FadeIns :
             SystemBecomes(BgmPlay(System, [name |-> name, volume |-> volume, fadein |-> fadein]))
      BY <1>4 DEF Play
    <3>2. [name |-> name, volume |-> volume, fadein |-> fadein] \in Current
      BY DEF Current
    <3> QED
      BY <3>1, <3>2
  <2>2. /\ Sound(BgmPlay(System, m))
        /\ BgmPlay(System, m).request # NoRequest => BgmPlay(System, m).request \notin ready
    BY <1>1, BgmPlayFacts
  <2>3. ready' = ready /\ Command
    BY <1>4 DEF Play
  <2> QED
    BY <1>1, <1>2, <1>3, <2>1, <2>2, <2>3
<1>5. CASE Stop
  <2>1. SystemBecomes(BgmStop(System)) /\ ready' = ready /\ Command
    BY <1>5 DEF Stop
  <2>2. Sound(BgmStop(System)) /\ BgmStop(System).request = NoRequest
    BY <1>1, BgmStopFacts DEF Sound
  <2> QED
    BY <1>1, <1>2, <1>3, <2>1, <2>2
<1>6. CASE Fade
  <2>1. PICK clear \in BOOLEAN : SystemBecomes(BgmFade(System, clear)) /\ ready' = ready /\ Command
    BY <1>6 DEF Fade
  <2>2. Sound(BgmFade(System, clear)) /\ BgmFade(System, clear).request = request
    BY <1>1, BgmFadeFacts
  <2> QED
    BY <1>1, <1>2, <1>3, <2>1, <2>2
<1>7. ASSUME NEW paused \in BOOLEAN, SetPaused(paused) PROVE Inv'
  <2> DEFINE held(ch) == IF IsUsed(ch) THEN [ch EXCEPT !.paused = paused] ELSE ch
             s == [System EXCEPT !.channels = channels']
  <2>1. channels' = [c \in 1..2 |-> held(channels[c])] /\ Command /\ ready' = ready
    BY <1>7 DEF SetPaused
  <2>2. ASSUME NEW ch \in Channel
        PROVE  /\ held(ch) \in Channel /\ held(ch).song = ch.song /\ held(ch).left = ch.left
               /\ held(ch).stopped = ch.stopped /\ held(ch).volume = ch.volume
    BY DEF Channel
  <2>3. channels \in [1..2 -> Channel]
    BY <1>1 DEF Systems
  <2> HIDE DEF held
  <2>4. /\ channels' \in [1..2 -> Channel]
        /\ \A c \in 1..2 : /\ channels'[c].song = channels[c].song
                           /\ channels'[c].left = channels[c].left
                           /\ channels'[c].stopped = channels[c].stopped
                           /\ channels'[c].volume = channels[c].volume
    BY <2>1, <2>2, <2>3
  <2>5. /\ s \in Systems /\ s.current = current /\ s.stopping = stopping /\ s.pending = pending
        /\ s.request = request /\ s.refused = refused /\ s.channels = channels'
    BY <1>1, <2>4 DEF Systems
  <2>6. SystemBecomes(s)
    BY <1>7, <2>5 DEF SetPaused, SystemBecomes
  <2> HIDE DEF s
  <2>7. Sound(s)
    <3>1. Awaits(s)
      BY <1>1, <2>4, <2>5 DEF Sound, Awaits, Silent
    <3>2. InTune(s)
      BY <1>1, <2>4, <2>5 DEF Sound, InTune, IsUsed
    <3> QED
      BY <1>1, <2>5, <3>1, <3>2 DEF Sound
  <2> QED
    BY <1>1, <1>2, <1>3, <2>1, <2>5, <2>6, <2>7
<1>8. CASE Arrive
  <2> DEFINE s == [System EXCEPT !.request = NoRequest]
  <2>1. /\ request # NoRequest /\ ready' = ready \cup {request} /\ budget' = budget
        /\ SystemBecomes(IF request[2] = "first" THEN BgmReady(s, request[1])
                   ELSE SecondReady(System, request[1]))
    BY <1>8 DEF Arrive
  <2>2. request \in Requests /\ request[1] \in Names
    BY <1>1, <2>1 DEF Systems, Requests
  <2>3. /\ Silent(System) /\ ~System.refused
        /\ request[1] = System.current.name \/ System.stopping
    BY <1>1, <2>1 DEF Sound, Awaits
  <2>4. /\ s \in Systems /\ s.current = System.current /\ s.stopping = System.stopping
        /\ s.refused = System.refused /\ s.channels = System.channels
    BY <1>1 DEF Systems
  <2> HIDE DEF s
  <2>5. CASE request[2] = "first"
    <3>1. Silent(s)
      BY <2>3, <2>4 DEF Silent
    <3>2. /\ Sound(BgmReady(s, request[1]))
          /\ \/ BgmReady(s, request[1]).request = NoRequest
             \/ /\ BgmReady(s, request[1]).request = <<request[1], "second">>
                /\ <<request[1], "second">> \notin ready
      BY <2>2, <2>3, <2>4, <3>1, BgmReadyFacts
    <3>3. <<request[1], "second">> # request
      BY <2>5
    <3> QED
      BY <1>1, <1>2, <2>1, <2>2, <2>5, <3>2, <3>3
  <2>6. CASE request[2] # "first"
    <3>1. /\ Sound(SecondReady(System, request[1]))
          /\ SecondReady(System, request[1]).request = NoRequest
      BY <1>1, <2>2, <2>3, SecondReadyFacts
    <3> QED
      BY <1>1, <1>2, <2>1, <2>2, <2>6, <3>1
  <2> QED
    BY <2>5, <2>6
<1>9. CASE Mix
  <2> DEFINE s == [System EXCEPT !.channels = channels']
  <2>1. channels' = [c \in 1..2 |-> Mixed(channels[c])] /\ budget' = budget /\ ready' = ready
    BY <1>9 DEF Mix
  <2>2. channels \in [1..2 -> Channel]
    BY <1>1 DEF Systems
  <2>3. /\ channels' \in [1..2 -> Channel]
        /\ \A c \in 1..2 : IsUsed(channels'[c]) =>
              /\ IsUsed(channels[c]) /\ channels'[c].song = channels[c].song
              /\ channels'[c].stopped = channels[c].stopped
              /\ channels[c].left = 0 => /\ channels'[c].left = 0
                                         /\ channels'[c].volume = channels[c].volume
    BY <2>1, <2>2, MixedFacts
  <2>4. /\ s \in Systems /\ s.current = current /\ s.stopping = stopping /\ s.pending = pending
        /\ s.request = request /\ s.refused = refused /\ s.channels = channels'
    BY <1>1, <2>3 DEF Systems
  <2>5. SystemBecomes(s)
    BY <1>9, <2>4 DEF Mix, SystemBecomes
  <2> HIDE DEF s
  <2>6. Sound(s)
    <3>1. Awaits(s)
      BY <1>1, <2>3, <2>4 DEF Sound, Awaits, Silent, IsUsed
    <3>2. InTune(s)
      BY <1>1, <2>3, <2>4 DEF Sound, InTune
    <3> QED
      BY <1>1, <2>4, <3>1, <3>2 DEF Sound
  <2> QED
    BY <1>1, <1>2, <2>1, <2>4, <2>5, <2>6
<1>10. CASE musicVars' = musicVars
  <2>1. SystemBecomes(System) /\ ready' = ready /\ budget' = budget
    BY <1>10 DEF musicVars, SystemBecomes, System
  <2> QED
    BY <1>1, <1>2, <2>1
<1> QED
  BY <1>4, <1>5, <1>6, <1>7, <1>8, <1>9, <1>10 DEF MusicNext

-----------------------------------------------------------------------------
(* Theorems.                                                                *)

LEMMA InvImplies == ASSUME MusicAssumption, Inv PROVE MusicInv
<1>1. Sound(System)
  BY DEF Inv
<1>2. /\ System \in Systems
      /\ System.request = request /\ System.current = current /\ System.pending = pending
      /\ System.stopping = stopping /\ System.channels = channels /\ System.refused = refused
  BY <1>1 DEF Sound, System
<1>3. MusicTypeOK
  <2>1. request # NoRequest => pending
    BY <1>1, <1>2 DEF Sound, Awaits
  <2>2. /\ current \in Current /\ stopping \in BOOLEAN /\ pending \in BOOLEAN
        /\ refused \in BOOLEAN /\ request \in Requests \cup {NoRequest}
        /\ channels \in [1..2 -> Channel]
    BY <1>2 DEF Systems
  <2> QED
    BY <2>1, <2>2 DEF MusicTypeOK, Inv, Current
<1>4. HearsCurrent
  BY <1>1, <1>2 DEF Sound, InTune, HearsCurrent, Heard
<1>5. AlwaysAChannel
  BY <1>1, <1>2 DEF Sound, AlwaysAChannel
<1> QED
  BY <1>3, <1>4, <1>5 DEF MusicInv

\* Only the current music is heard, at the volume asked for last unless it fades, whenever
\* files arrive and channels are mixed (BgmPlay and OnBgmReady of game_system.cpp); and
\* BGM_Play of audio_generic.cpp never runs out of channels.
THEOREM MusicIsRight == MusicAssumption => (MusicSpec => []MusicInv)
<1> SUFFICES ASSUME MusicAssumption PROVE MusicSpec => []MusicInv
  OBVIOUS
<1>1. MusicInit => Inv
  BY InitInv
<1>2. Inv /\ [MusicNext]_musicVars => Inv'
  BY NextKeeps
<1>3. Inv => MusicInv
  BY InvImplies
<1> QED
  BY <1>1, <1>2, <1>3, PTL DEF MusicSpec

-----------------------------------------------------------------------------
(* Pictures.                                                               *)

\* Numbers of pictures the vector may have grown to.
Sizes == Ids \cup {0}
Vector(ps) == \E n \in Sizes : ps \in [1..n -> Picture]

Typed ==
    /\ Vector(pictures) /\ Vector(saved)
    /\ filesReady \subseteq Files /\ battle \in BOOLEAN
    /\ pictureBudget \in 0..PictureBudget /\ erased \subseteq Ids
    /\ asksForAll \in BOOLEAN /\ blind \in BOOLEAN

\* One picture: what it shows, what an erased one is left with, what it is bound to, and what
\* a savegame keeps of it.
Right(p) == p.sprite /\ p.visible /\ p.bitmap # NoFile /\ p.name # NoName => p.bitmap = p.name
Gone(p) == p.name = NoName /\ p.bitmap = NoFile /\ p.request_id = NoFile
Asks(p, all) == all => p.request_id \in {NoFile, p.name}
Stored(p) == ~p.sprite /\ p.bitmap = NoFile /\ p.request_id = NoFile
Good(p, all) == p \in Picture /\ Right(p) /\ Asks(p, all)

IInv ==
    /\ Typed
    /\ \A i \in DOMAIN pictures : Right(pictures[i]) /\ Asks(pictures[i], asksForAll)
    /\ \A i \in DOMAIN saved : Stored(saved[i])
    /\ \A i \in erased \cap DOMAIN pictures : Gone(pictures[i])
    /\ asksForAll => ~blind

-----------------------------------------------------------------------------
(* Operators on one picture.                                                *)

LEMMA EmptyIsGood ==
    ASSUME PicturesAssumption, NEW all PROVE Good(Empty, all) /\ Stored(Empty)
<1>1. Empty \in Picture
  BY DEF Picture, Empty, Layers
<1> QED
  BY <1>1 DEF Good, Empty, Right, Asks, Stored

LEMMA ReadyKeeps ==
    ASSUME NEW p \in Picture, NEW all
    PROVE  /\ Good(SpriteReady(p), all) /\ SpriteReady(p).name = p.name
           /\ SpriteReady(p).request_id = NoFile
<1> DEFINE q == SpriteReady(p)
<1>1. /\ q \in Picture /\ q.name = p.name /\ q.bitmap = p.name
      /\ q.request_id = NoFile
  BY DEF Picture, SpriteReady
<1> QED
  BY <1>1 DEF Good, Right, Asks

LEMMA RequestKeeps ==
    ASSUME PicturesAssumption, NEW p, NEW all, Good(p, all)
    PROVE  Good(Requested(p), all)
<1>1. CASE p.name = NoName
  BY <1>1 DEF Requested
<1>2. CASE p.name # NoName /\ p.name \in filesReady
  <2>1. Requested(p) = SpriteReady(p)
    BY <1>2 DEF Requested
  <2> QED
    BY <2>1, ReadyKeeps DEF Good
<1>3. CASE p.name # NoName /\ p.name \notin filesReady
  <2>1. Requested(p) = [p EXCEPT !.request_id = p.name]
    BY <1>3 DEF Requested
  <2> QED
    BY <1>3, <2>1 DEF Good, Picture, Right, Asks
<1> QED
  BY <1>1, <1>2, <1>3

LEMMA EraseKeeps ==
    ASSUME PicturesAssumption, NEW p \in Picture, NEW all
    PROVE  Good(Erase(p), all) /\ Gone(Erase(p))
  BY DEF PicturesAssumption, Good, Picture, Erase, Right, Asks, Gone

LEMMA UpdateKeeps ==
    ASSUME PicturesAssumption, NEW p, NEW all, Good(p, all)
    PROVE  /\ Good(Update(p), all)
           /\ Gone(p) => Gone(Update(p))
           /\ Update(p).name # p.name => Gone(Update(p))
<1>1. p \in Picture /\ Right(p) /\ Asks(p, all)
  BY DEF Good
<1> DEFINE k == 1 - p.frame
           q == [p EXCEPT !.frame = k]
<1>2. /\ q \in Picture /\ q.name = p.name /\ q.bitmap = p.bitmap
      /\ q.request_id = p.request_id /\ q.sprite = p.sprite /\ q.visible = p.visible
  <2>1. k \in 0..1
    BY <1>1 DEF Picture
  <2> HIDE DEF k
  <2> QED
    BY <1>1, <2>1 DEF Picture
<1> HIDE DEF q
<1>3. Good(q, all) /\ (Gone(p) => Gone(q))
  BY <1>1, <1>2 DEF Good, Right, Asks, Gone
<1>4. CASE p.sheet \notin {"loop", "once"}
  BY <1>4 DEF Update
<1>5. CASE p.sheet = "once" /\ p.frame = 1 /\ p.name # NoName
  <2>1. Update(p) = Erase(q)
    BY <1>5 DEF Update, q
  <2> QED
    BY <1>2, <2>1, EraseKeeps
<1>6. CASE ~(p.sheet = "once" /\ p.frame = 1 /\ p.name # NoName) /\ p.sheet \in {"loop", "once"}
  <2>1. Update(p) = q
    BY <1>6 DEF Update, q
  <2> QED
    BY <1>2, <1>3, <2>1
<1> QED
  BY <1>4, <1>5, <1>6

LEMMA ShowKeeps ==
    ASSUME PicturesAssumption, NEW p, NEW all, Good(p, all),
           NEW name \in PictureNames, NEW sheet \in Sheets, NEW layers \in Layers, NEW m \in BOOLEAN, NEW b \in BOOLEAN
    PROVE  Good(ShowPicture(p, name, sheet, layers, m, b),
                all /\ name # NoName /\ sheet # "wrong")
<1> DEFINE s == [p EXCEPT !.name = name, !.sheet = sheet, !.frame = 0, !.layers = layers,
                          !.on_map_change = m, !.on_battle_end = b]
           now == all /\ name # NoName /\ sheet # "wrong"
<1>1. p \in Picture /\ Right(p) /\ Asks(p, all)
  BY DEF Good
<1>2. /\ s \in Picture /\ s.name = name /\ s.sprite = p.sprite /\ s.request_id = p.request_id
      /\ s.visible = p.visible /\ s.bitmap = p.bitmap
  <2>1. name \in Files \cup {NoName} /\ sheet \in {"still", "wrong", "loop", "once"}
    BY DEF PicturesAssumption
  <2> DEFINE s1 == [p EXCEPT !.name = name, !.sheet = sheet]
             s2 == [s1 EXCEPT !.frame = 0]
             s3 == [s2 EXCEPT !.layers = layers]
             s4 == [s3 EXCEPT !.on_map_change = m, !.on_battle_end = b]
  <2>2. /\ s1 \in Picture /\ s1.name = name /\ s1.sprite = p.sprite
        /\ s1.request_id = p.request_id /\ s1.visible = p.visible /\ s1.bitmap = p.bitmap
    BY <1>1, <2>1 DEF Picture
  <2> HIDE DEF s1
  <2>3. /\ s2 \in Picture /\ s2.name = name /\ s2.sprite = p.sprite
        /\ s2.request_id = p.request_id /\ s2.visible = p.visible /\ s2.bitmap = p.bitmap
    BY <2>2 DEF Picture
  <2> HIDE DEF s2
  <2>4. /\ s3 \in Picture /\ s3.name = name /\ s3.sprite = p.sprite
        /\ s3.request_id = p.request_id /\ s3.visible = p.visible /\ s3.bitmap = p.bitmap
    BY <2>3 DEF Picture
  <2> HIDE DEF s3
  <2>5. /\ s4 \in Picture /\ s4.name = name /\ s4.sprite = p.sprite
        /\ s4.request_id = p.request_id /\ s4.visible = p.visible /\ s4.bitmap = p.bitmap
    BY <2>4 DEF Picture
  <2>6. s = s4
    BY DEF s1, s2, s3
  <2> QED
    BY <2>5, <2>6
<1> HIDE DEF s
<1>3. CASE sheet = "wrong"
  <2> DEFINE q == [s EXCEPT !.bitmap = NoFile]
  <2>1. ShowPicture(p, name, sheet, layers, m, b) = q
    BY <1>3 DEF ShowPicture, s
  <2>2. q \in Picture /\ q.bitmap = NoFile
    BY <1>2 DEF Picture
  <2>3. Good(q, now)
    BY <1>3, <2>2 DEF Good, Right, Asks
  <2> QED
    BY <2>1, <2>3
<1>4. CASE sheet # "wrong"
  <2> DEFINE v == p.visible /\ ~(p.sprite /\ name # NoName)
             q == [s EXCEPT !.visible = v]
  <2>1. ShowPicture(p, name, sheet, layers, m, b) = Requested(q)
    BY <1>2, <1>4 DEF ShowPicture, s
  <2>2. q \in Picture /\ q.name = name /\ q.sprite = p.sprite /\ q.request_id = p.request_id
    BY <1>2 DEF Picture
  <2>3. q.visible = v
    BY <1>2 DEF Picture
  <2>4. Right(q)
    BY <2>2, <2>3 DEF Right
  <2> HIDE DEF q
  <2>5. CASE name = NoName
    <3>1. Requested(q) = q
      BY <2>2, <2>5 DEF Requested
    <3>2. Good(q, now)
      BY <2>2, <2>4, <2>5 DEF Good, Asks
    <3> QED
      BY <2>1, <3>1, <3>2
  <2>6. CASE name # NoName /\ name \in filesReady
    BY <2>1, <2>2, <2>6, ReadyKeeps DEF Requested
  <2>7. CASE name # NoName /\ name \notin filesReady
    <3>1. Requested(q) = [q EXCEPT !.request_id = name]
      BY <2>2, <2>7 DEF Requested
    <3>2. name \in Files
      BY <2>7 DEF PicturesAssumption
    <3>3. Good([q EXCEPT !.request_id = name], now)
      BY <2>2, <2>4, <3>2 DEF Good, Picture, Right, Asks
    <3> QED
      BY <2>1, <3>1, <3>3
  <2> QED
    BY <2>5, <2>6, <2>7
<1> QED
  BY <1>3, <1>4

-----------------------------------------------------------------------------
(* The vector of pictures.                                                  *)

LEMMA SizeFacts ==
    ASSUME PicturesAssumption
    PROVE  /\ Sizes \subseteq Nat
           /\ \A n \in Sizes : 1..n \subseteq Ids
           /\ \A n \in Sizes : \A k \in 0..n : k \in Sizes
  BY DEF PicturesAssumption, Sizes

LEMMA VectorFacts ==
    ASSUME PicturesAssumption, NEW ps, Vector(ps)
    PROVE  /\ ps \in Seq(Picture) /\ Len(ps) \in Sizes /\ DOMAIN ps = 1..Len(ps)
           /\ ps \in [1..Len(ps) -> Picture] /\ DOMAIN ps \subseteq Ids
<1>1. PICK n \in Sizes : ps \in [1..n -> Picture]
  BY DEF Vector
<1>2. n \in Nat /\ 1..n \subseteq Ids
  BY SizeFacts
<1>3. ps \in Seq(Picture)
  BY <1>1, <1>2, SeqDef
<1>4. Len(ps) \in Nat /\ DOMAIN ps = 1..Len(ps) /\ DOMAIN ps = 1..n
  BY <1>1, <1>3, LenProperties
<1>5. Len(ps) = n
  <2>1. ASSUME NEW a \in Nat, NEW b \in Nat, 1..a = 1..b PROVE a = b
    <3>1. \A i \in Nat : i \in 1..a <=> i \in 1..b
      BY <2>1
    <3>2. (a > 0 => a \in 1..a) /\ (b > 0 => b \in 1..b)
      OBVIOUS
    <3>3. (a > 0 => a <= b) /\ (b > 0 => b <= a)
      BY <3>1, <3>2
    <3> QED
      BY <3>3
  <2> QED
    BY <1>2, <1>4, <2>1
<1> QED
  BY <1>1, <1>2, <1>3, <1>4, <1>5

LEMMA GrownFacts ==
    ASSUME PicturesAssumption, NEW ps, Vector(ps), NEW id \in Ids
    PROVE  /\ Vector(Grown(ps, id)) /\ id \in DOMAIN Grown(ps, id)
           /\ \A i \in DOMAIN Grown(ps, id) :
                 Grown(ps, id)[i] = IF i \in DOMAIN ps THEN ps[i] ELSE Empty
<1> DEFINE n == IF id > Len(ps) THEN id ELSE Len(ps)
           g == Grown(ps, id)
<1>1. Len(ps) \in Sizes /\ Len(ps) \in Nat /\ DOMAIN ps = 1..Len(ps) /\ ps \in [1..Len(ps) -> Picture]
  BY VectorFacts, SizeFacts
<1>2. id \in Sizes /\ id \in Nat /\ id > 0
  BY DEF Sizes, PicturesAssumption
<1>3. n \in Sizes /\ n \in Nat /\ id \in 1..n
  BY <1>1, <1>2
<1>4. Empty \in Picture
  BY EmptyIsGood DEF Good
<1>5. g = [i \in 1..n |-> IF i <= Len(ps) THEN ps[i] ELSE Empty]
  BY DEF Grown
<1> HIDE DEF n, g
<1>6. \A i \in 1..n : g[i] = IF i \in DOMAIN ps THEN ps[i] ELSE Empty
  BY <1>1, <1>3, <1>5
<1>7. g \in [1..n -> Picture]
  BY <1>1, <1>3, <1>4, <1>5
<1>8. Vector(g)
  BY <1>3, <1>7 DEF Vector
<1> QED
  BY <1>3, <1>5, <1>6, <1>8 DEF g

\* A vector that is rewritten picture by picture.
LEMMA SameSize ==
    ASSUME PicturesAssumption, NEW ps, Vector(ps), NEW qs, DOMAIN qs = DOMAIN ps,
           qs = [i \in DOMAIN qs |-> qs[i]], \A i \in DOMAIN qs : qs[i] \in Picture
    PROVE  Vector(qs)
  BY VectorFacts DEF Vector

-----------------------------------------------------------------------------
(* Steps.                                                                   *)

LEMMA ShowStep ==
    ASSUME PicturesAssumption, IInv, NEW id \in Ids, Show(id) PROVE IInv'
<1> DEFINE ps == Grown(pictures, id)
<1>1. PICK name \in PictureNames, sheet \in Sheets, layers \in Layers, m \in BOOLEAN, b \in BOOLEAN :
          /\ pictures' = [ps EXCEPT ![id] = ShowPicture(ps[id], name, sheet, layers, m, b)]
          /\ asksForAll' = (asksForAll /\ name # NoName /\ sheet # "wrong")
  BY DEF Show
<1>2. Vector(ps) /\ id \in DOMAIN ps /\ DOMAIN ps \subseteq Ids
  BY GrownFacts, VectorFacts DEF IInv, Typed
<1>3. \A i \in DOMAIN ps : /\ Good(ps[i], asksForAll)
                           /\ i \in erased => Gone(ps[i])
  <2> SUFFICES ASSUME NEW i \in DOMAIN ps PROVE Good(ps[i], asksForAll) /\ (i \in erased => Gone(ps[i]))
    OBVIOUS
  <2>1. CASE i \in DOMAIN pictures
    <3>1. ps[i] = pictures[i]
      BY <2>1, GrownFacts DEF IInv, Typed
    <3>2. pictures[i] \in Picture
      BY <2>1, VectorFacts DEF IInv, Typed
    <3> QED
      BY <2>1, <3>1, <3>2 DEF IInv, Good
  <2>2. CASE i \notin DOMAIN pictures
    <3>1. ps[i] = Empty
      BY <2>2, GrownFacts DEF IInv, Typed
    <3>2. Gone(Empty)
      BY DEF Gone, Empty
    <3> QED
      BY <3>1, <3>2, EmptyIsGood
  <2> QED
    BY <2>1, <2>2
<1> HIDE DEF ps
<1>4. DOMAIN pictures' = DOMAIN ps
  BY <1>1
<1>5. \A i \in DOMAIN pictures' : Good(pictures'[i], asksForAll') /\ (i # id => pictures'[i] = ps[i])
  <2> SUFFICES ASSUME NEW i \in DOMAIN ps
               PROVE  Good(pictures'[i], asksForAll') /\ (i # id => pictures'[i] = ps[i])
    BY <1>4
  <2>1. CASE i = id
    <3>1. pictures'[i] = ShowPicture(ps[id], name, sheet, layers, m, b)
      BY <1>1, <1>2, <2>1
    <3>2. Good(ps[i], asksForAll)
      BY <1>3
    <3>3. Good(ShowPicture(ps[i], name, sheet, layers, m, b),
               asksForAll /\ name # NoName /\ sheet # "wrong")
      BY <3>2, ShowKeeps
    <3> QED
      BY <1>1, <2>1, <3>1, <3>3
  <2>2. CASE i # id
    <3>1. pictures'[i] = ps[i]
      BY <1>1, <2>2
    <3>2. Good(ps[i], asksForAll)
      BY <1>3
    <3>3. Good(ps[i], asksForAll')
      BY <1>1, <3>2 DEF Good, Asks
    <3> QED
      BY <3>1, <3>3
  <2> QED
    BY <2>1, <2>2
<1>6. Vector(pictures')
  BY <1>1, <1>2, <1>4, <1>5, SameSize DEF Good
<1>7. /\ erased' = erased \ {id} /\ UNCHANGED <<filesReady, battle, saved, blind>>
      /\ pictureBudget > 0 /\ pictureBudget' = pictureBudget - 1
  BY DEF Show, PictureCommand
<1>a. asksForAll' \in BOOLEAN /\ (asksForAll' => asksForAll)
  BY <1>1 DEF IInv, Typed
<1>8. Typed'
  BY <1>6, <1>7, <1>a DEF IInv, Typed, PicturesAssumption
<1>9. \A i \in erased' \cap DOMAIN pictures' : Gone(pictures'[i])
  BY <1>3, <1>4, <1>5, <1>7
<1> QED
  BY <1>5, <1>7, <1>8, <1>9, <1>a DEF IInv, Good

\* What EraseAll leaves of the vector, whoever calls it.
LEMMA EraseAllKeeps ==
    ASSUME PicturesAssumption, IInv, NEW S, EraseAll(S)
    PROVE  /\ Vector(pictures') /\ erased' \subseteq Ids
           /\ \A i \in DOMAIN pictures' : Right(pictures'[i]) /\ Asks(pictures'[i], asksForAll)
           /\ \A i \in erased' \cap DOMAIN pictures' : Gone(pictures'[i])
<1>1. Vector(pictures) /\ DOMAIN pictures \subseteq Ids /\ \A i \in DOMAIN pictures : Good(pictures[i], asksForAll)
  BY VectorFacts DEF IInv, Typed, Good
<1>2. /\ DOMAIN pictures' = DOMAIN pictures
      /\ pictures' = [i \in DOMAIN pictures' |-> pictures'[i]]
      /\ erased' = erased \cup (S \cap DOMAIN pictures)
      /\ \A i \in DOMAIN pictures :
            pictures'[i] = IF i \in S THEN Erase(pictures[i]) ELSE pictures[i]
  BY DEF EraseAll
<1>3. \A i \in DOMAIN pictures : /\ Good(pictures'[i], asksForAll)
                                 /\ i \in S => Gone(pictures'[i])
                                 /\ i \in erased => Gone(pictures'[i])
  <2> SUFFICES ASSUME NEW i \in DOMAIN pictures
               PROVE  /\ Good(pictures'[i], asksForAll)
                      /\ i \in S => Gone(pictures'[i])
                      /\ i \in erased => Gone(pictures'[i])
    OBVIOUS
  <2>1. CASE i \in S
    BY <1>1, <1>2, <2>1, EraseKeeps DEF Good
  <2>2. CASE i \notin S
    BY <1>1, <1>2, <2>2 DEF IInv
  <2> QED
    BY <2>1, <2>2
<1>4. Vector(pictures')
  BY <1>1, <1>2, <1>3, SameSize DEF Good
<1> QED
  BY <1>1, <1>2, <1>3, <1>4 DEF Good, IInv, Typed

LEMMA EraseStep ==
    ASSUME PicturesAssumption, IInv,
           \/ \E from, to \in Ids : ErasePicture(from, to)
           \/ OnMapChange
           \/ OnBattleEnd
    PROVE  IInv'
<1>1. /\ \E S : EraseAll(S)
      /\ UNCHANGED <<filesReady, saved, asksForAll, blind>>
      /\ pictureBudget' \in {pictureBudget, pictureBudget - 1} /\ (pictureBudget' # pictureBudget => pictureBudget > 0)
      /\ battle' \in {battle, FALSE}
  BY DEF ErasePicture, OnMapChange, OnBattleEnd, PictureCommand, askVars
<1>2. /\ Vector(pictures') /\ erased' \subseteq Ids
      /\ \A i \in DOMAIN pictures' : Right(pictures'[i]) /\ Asks(pictures'[i], asksForAll')
      /\ \A i \in erased' \cap DOMAIN pictures' : Gone(pictures'[i])
  BY <1>1, EraseAllKeeps
<1>3. pictureBudget' \in 0..PictureBudget
  BY <1>1 DEF IInv, Typed, PicturesAssumption
<1>4. Typed'
  BY <1>1, <1>2, <1>3 DEF IInv, Typed
<1> QED
  BY <1>1, <1>2, <1>4 DEF IInv

LEMMA UpdateStep ==
    ASSUME PicturesAssumption, IInv, UpdateAll PROVE IInv'
<1>1. Vector(pictures) /\ DOMAIN pictures \subseteq Ids /\ \A i \in DOMAIN pictures : Good(pictures[i], asksForAll)
  BY VectorFacts DEF IInv, Typed, Good
<1>2. /\ DOMAIN pictures' = DOMAIN pictures
      /\ pictures' = [i \in DOMAIN pictures' |-> pictures'[i]]
      /\ erased' = erased \cup {i \in DOMAIN pictures : pictures'[i].name # pictures[i].name}
      /\ \A i \in DOMAIN pictures : pictures'[i] \in {pictures[i], Update(pictures[i])}
      /\ UNCHANGED <<filesReady, battle, saved, pictureBudget, asksForAll, blind>>
  BY DEF UpdateAll, askVars
<1>3. \A i \in DOMAIN pictures : Good(pictures'[i], asksForAll') /\ (i \in erased' => Gone(pictures'[i]))
  BY <1>1, <1>2, UpdateKeeps DEF IInv
<1>4. Vector(pictures')
  BY <1>1, <1>2, <1>3, SameSize DEF Good
<1>5. Typed'
  BY <1>1, <1>2, <1>4 DEF IInv, Typed
<1> QED
  BY <1>2, <1>3, <1>5 DEF IInv, Good

LEMMA ArriveStep ==
    ASSUME PicturesAssumption, IInv, NEW f \in Files, ImageArrives(f) PROVE IInv'
<1>1. Vector(pictures) /\ \A i \in DOMAIN pictures : Good(pictures[i], asksForAll)
  BY VectorFacts DEF IInv, Typed, Good
<1>2. /\ DOMAIN pictures' = DOMAIN pictures
      /\ pictures' = [i \in DOMAIN pictures' |-> pictures'[i]]
      /\ \A i \in DOMAIN pictures :
            pictures'[i] = IF pictures[i].request_id = f THEN SpriteReady(pictures[i])
                                                         ELSE pictures[i]
      /\ filesReady' = filesReady \cup {f} /\ UNCHANGED <<battle, saved, pictureBudget, erased, asksForAll>>
      /\ blind' = (blind \/ \E i \in DOMAIN pictures :
                               pictures[i].request_id = f /\ pictures[i].name \notin filesReady')
  BY DEF ImageArrives, askVars
<1>3. f # NoFile
  BY DEF PicturesAssumption
<1>4. \A i \in DOMAIN pictures : Good(pictures'[i], asksForAll') /\ (i \in erased => Gone(pictures'[i]))
  <2> SUFFICES ASSUME NEW i \in DOMAIN pictures
               PROVE  Good(pictures'[i], asksForAll') /\ (i \in erased => Gone(pictures'[i]))
    OBVIOUS
  <2>1. CASE pictures[i].request_id = f
    BY <1>1, <1>2, <1>3, <2>1, ReadyKeeps DEF Good, IInv, Gone
  <2>2. CASE pictures[i].request_id # f
    BY <1>1, <1>2, <2>2 DEF IInv
  <2> QED
    BY <2>1, <2>2
<1>5. Vector(pictures')
  BY <1>1, <1>2, <1>4, SameSize DEF Good
<1>6. asksForAll' => ~blind'
  BY <1>1, <1>2, <1>3 DEF IInv, Good, Asks
<1>7. blind' \in BOOLEAN
  BY <1>2
<1>8. Typed'
  BY <1>2, <1>5, <1>7 DEF IInv, Typed
<1> QED
  BY <1>2, <1>4, <1>6, <1>8 DEF IInv, Good

LEMMA SaveStep ==
    ASSUME PicturesAssumption, IInv, Save PROVE IInv'
<1> DEFINE Kept(p) == [p EXCEPT !.request_id = NoFile, !.sprite = FALSE, !.bitmap = NoFile,
                                !.visible = TRUE]
<1>1. Vector(pictures) /\ \A i \in DOMAIN pictures : pictures[i] \in Picture
  BY VectorFacts DEF IInv, Typed
<1>2. /\ DOMAIN saved' = DOMAIN pictures
      /\ saved' = [i \in DOMAIN saved' |-> saved'[i]]
      /\ \A i \in DOMAIN pictures : saved'[i] = Kept(pictures[i])
      /\ UNCHANGED <<pictures, filesReady, battle, erased, asksForAll, blind>>
      /\ pictureBudget > 0 /\ pictureBudget' = pictureBudget - 1
  BY DEF Save, PictureCommand, askVars
<1>3. ASSUME NEW p \in Picture PROVE Kept(p) \in Picture /\ Stored(Kept(p))
  <2>1. Kept(p) \in Picture
    BY DEF Picture
  <2> QED
    BY <2>1 DEF Picture, Stored
<1> HIDE DEF Kept
<1>4. \A i \in DOMAIN saved' : saved'[i] \in Picture /\ Stored(saved'[i])
  BY <1>1, <1>2, <1>3
<1>5. Vector(saved')
  BY <1>1, <1>2, <1>4, SameSize
<1>6. Typed'
  BY <1>2, <1>5 DEF IInv, Typed, PicturesAssumption
<1> QED
  BY <1>2, <1>4, <1>6 DEF IInv

LEMMA LoadStep ==
    ASSUME PicturesAssumption, IInv, Load PROVE IInv'
<1>1. /\ \E n \in 0..Len(saved) : pictures' = [i \in 1..n |-> Requested(saved[i])]
      /\ erased' = {} /\ UNCHANGED <<filesReady, battle, saved, asksForAll, blind>>
      /\ pictureBudget > 0 /\ pictureBudget' = pictureBudget - 1
  BY DEF Load, PictureCommand, askVars
<1>2. PICK n \in 0..Len(saved) : pictures' = [i \in 1..n |-> Requested(saved[i])]
  BY <1>1
<1>3. Len(saved) \in Sizes /\ DOMAIN saved = 1..Len(saved) /\ saved \in [1..Len(saved) -> Picture]
  BY VectorFacts DEF IInv, Typed
<1>4. Len(saved) \in Nat /\ n \in Sizes
  BY <1>3, SizeFacts
<1>5. \A i \in 1..n : i \in DOMAIN saved /\ Good(saved[i], asksForAll)
  BY <1>3, <1>4 DEF IInv, Stored, Good, Right, Asks
<1>6. \A i \in 1..n : Good(Requested(saved[i]), asksForAll)
  BY <1>5, RequestKeeps
<1>7. DOMAIN pictures' = 1..n /\ \A i \in 1..n : pictures'[i] = Requested(saved[i])
  BY <1>2
<1>8. pictures' \in [1..n -> Picture]
  BY <1>2, <1>6 DEF Good
<1>9. Vector(pictures') /\ Vector(saved')
  BY <1>1, <1>4, <1>8 DEF IInv, Typed, Vector
<1>10. Typed'
  BY <1>1, <1>9 DEF IInv, Typed, PicturesAssumption
<1> QED
  BY <1>1, <1>6, <1>7, <1>10 DEF IInv, Good

-----------------------------------------------------------------------------
\* However commands, frames, battles, savegames and late files follow each other: what is
\* seen is what the picture names, an erased picture is not seen again, and as long as every
\* picture asks for what it names no image is loaded that was not asked for
\* (game_pictures.cpp, OnPictureSpriteReady and Erase; cache.cpp, LoadBitmap).
THEOREM PicturesAreRight == PicturesAssumption => (PicturesSpec => []PicturesInv)
<1> SUFFICES ASSUME PicturesAssumption PROVE PicturesSpec => []PicturesInv
  OBVIOUS
<1>1. PicturesInit => IInv
  <2> SUFFICES ASSUME PicturesInit PROVE IInv
    OBVIOUS
  <2>1. Vector(<<>>)
    <3>1. <<>> \in [1..0 -> Picture] /\ 0 \in Sizes
      BY DEF Sizes
    <3> QED
      BY <3>1 DEF Vector
  <2>2. DOMAIN pictures = {} /\ DOMAIN saved = {}
    BY DEF PicturesInit
  <2>3. Vector(pictures) /\ Vector(saved)
    BY <2>1 DEF PicturesInit
  <2>4. Typed
    <3>1. /\ filesReady \subseteq Files /\ battle \in BOOLEAN /\ erased \subseteq Ids
          /\ asksForAll \in BOOLEAN /\ blind \in BOOLEAN
      BY DEF PicturesInit
    <3>2. pictureBudget \in 0..PictureBudget
      BY DEF PicturesInit, PicturesAssumption
    <3> QED
      BY <2>3, <3>1, <3>2 DEF Typed
  <2>5. ~blind
    BY DEF PicturesInit
  <2> QED
    BY <2>2, <2>4, <2>5 DEF IInv
<1>2. IInv /\ [PicturesNext]_pictureVars => IInv'
  <2> SUFFICES ASSUME IInv, [PicturesNext]_pictureVars PROVE IInv'
    OBVIOUS
  <2>1. CASE \E id \in Ids : Show(id)
    BY <2>1, ShowStep
  <2>2. CASE \E from, to \in Ids : from <= to /\ ErasePicture(from, to)
    BY <2>2, EraseStep
  <2>3. CASE OnMapChange \/ OnBattleEnd
    BY <2>3, EraseStep
  <2>4. CASE BattleBegins
    BY <2>4 DEF BattleBegins, PictureCommand, askVars, IInv, Typed, PicturesAssumption
  <2>5. CASE UpdateAll
    BY <2>5, UpdateStep
  <2>6. CASE \E f \in Files : ImageArrives(f)
    BY <2>6, ArriveStep
  <2>7. CASE Save
    BY <2>7, SaveStep
  <2>8. CASE Load
    BY <2>8, LoadStep
  <2>9. CASE UNCHANGED pictureVars
    BY <2>9 DEF pictureVars, askVars, IInv, Typed
  <2> QED
    BY <2>1, <2>2, <2>3, <2>4, <2>5, <2>6, <2>7, <2>8, <2>9 DEF PicturesNext
<1>3. IInv => PicturesInv
  <2> SUFFICES ASSUME IInv PROVE PicturesInv
    OBVIOUS
  <2>1. PicturesTypeOK
    BY VectorFacts DEF IInv, Typed, PicturesTypeOK
  <2>2. ShowsWhatItNames
    BY DEF IInv, Right, ShowsWhatItNames
  <2>3. ErasedIsGone
    BY DEF IInv, Gone, ErasedIsGone
  <2>4. asksForAll => AskedBeforeLoaded
    BY DEF IInv, AskedBeforeLoaded
  <2> QED
    BY <2>1, <2>2, <2>3, <2>4 DEF PicturesInv
<1> QED
  BY <1>1, <1>2, <1>3, PTL DEF PicturesSpec

-----------------------------------------------------------------------------
(* The scenes. Of a call stack and a stack of scenes, what follows holds   *)
(* between any two calls; the theorem is at the end.                       *)

\* The continuations that a scene is called with whose type is no map scene.
Still == {"none", "transition_in"}

\* The call stack: MainFunction is idle, or runs for a scene. Another scene than the map only
\* has its transition to wait for.
FrameOf(g) ==
    /\ g.main.at = "idle" <=> g.main.me = "none"
    /\ g.main.at = "idle" => g.main.run = NoCont /\ ~g.main.due
    /\ g.main.me \notin {"none", "map"} =>
         /\ g.main.run.fn \in Still
         /\ g.main.due => g.main.at = "setup" /\ g.main.run = NoCont /\ ~IsAsyncPending(g)
         /\ IF g.main.at = "updated" THEN g.main.run = NoCont ELSE Top(g) = g.main.me
         /\ Top(g) = "map" => ~IsActive(g)
    /\ \A t \in SceneTypes \ {"map"} : g.st.cont[t] = NoCont

\* There is one continuation at a time: the one that runs, or the one that waits.
OneCont(g) ==
    /\ g.main.run # NoCont => g.st.cont[g.main.me] = NoCont /\ ~IsAsyncPending(g)
    /\ g.main.me = "map" /\ g.main.run = NoCont /\ g.st.cont["map"] # NoCont => IsAsyncPending(g)
    /\ g.main.run.fn \notin Still => g.main.me = "map" /\ Top(g) = "map"
    /\ g.main.run.fn = "then" => g.main.at = "finished" /\ ~g.main.due
    /\ g.main.due => g.st.cont[g.main.me].fn # "then"

\* What a continuation relies on.
Has(g, c) ==
    /\ c.fn = "finish" => g.game.tele # "none"
    /\ c.fn = "quick" => g.game.tele # "none" /\ g.game.inn.cont # NoCont
    /\ c.fn = "start_inn" => g.game.inn.on /\ g.game.inn.started
    /\ g.game.inn.on => c.fn \in Still \cup {"start_inn"}

Plain(c) == IF c.fn = "then" THEN c.first ELSE c

\* What an async operation of a map update can interrupt.
Interrupted == {"start2", "stage1", "finish2", "finish3"}

\* The inn keeps what it has interrupted.
InnKept(g) ==
    /\ g.game.inn.on => g.game.inn.cont # NoCont
    /\ g.game.inn.cont.fn \in Interrupted \cup {"none"}

Ready(g) == Has(g, Plain(g.main.run)) /\ Has(g, Plain(g.st.cont["map"])) /\ InnKept(g)

\* Nothing is left to do on a map that another scene covers, and one that is not set up is black.
Settled(g) ==
    /\ (/\ Top(g) # "title"
        /\ \/ Top(g) \in Called \/ g.main.me \notin {"map", "none"}
           \/ ~g.st.init /\ g.main.at # "setup") =>
         g.st.cont["map"] = NoCont /\ g.main.run.fn \in Still /\ ~g.game.inn.on
    /\ Top(g) \in Called /\ g.main.due => ~IsAsyncPending(g) /\ g.main.run = NoCont
    /\ Top(g) = "map" /\ ~g.st.init /\ g.main.at # "setup" /\ g.main.me \in {"none", "map"} =>
         g.game.tr.to /\ g.main.run = NoCont /\ ~g.main.due

ByDefault(c) == c.fn = "start2" \/ (c.fn \in {"finish", "finish2"} /\ c.tp.default)

\* What runs while the map is set up runs on a black screen.
Opening(g, c) == ByDefault(c) \/ (c.fn = "start_inn" /\ ByDefault(g.game.inn.cont))

\* A scene that is set up is the one that is drawn, and on the top unless an event has left it.
SettingUp(g) ==
    g.main.at = "setup" =>
      /\ ~g.main.due => g.main.run.fn \in Still
      /\ g.main.run.fn \notin Still => g.game.tr.to /\ g.main.due /\ Opening(g, g.main.run)
      /\ g.st.current = g.main.me
      /\ ~g.past.exited => Top(g) = g.main.me

\* So is one that was set up.
Drawn(g) ==
    ~g.past.exited /\ g.st.init /\ g.main.at # "setup" =>
      g.st.current = (IF g.main.me = "none" THEN Top(g) ELSE g.main.me)

Clean(g) == ~g.past.twice /\ ~g.past.lost /\ ~g.past.unasked /\ (g.past.unseen => g.past.exited)

State == [st : StackStates, game : GameStates, main : MainStates, past : Pasts]

\* The inductive invariant: between two calls of MainFunction and within one.
Sane(g) ==
    /\ g \in State
    /\ FrameOf(g) /\ OneCont(g) /\ Ready(g) /\ Settled(g) /\ SettingUp(g) /\ Drawn(g) /\ Clean(g)

LEMMA ContsOfFn ==
    ASSUME NEW c \in Conts
    PROVE  /\ c.fn = "none" <=> c = NoCont
           /\ c.fn = "then" => c = [fn |-> "then", first |-> c.first] /\ c.first \in PlainConts
           /\ c.fn # "then" => c \in PlainConts
           /\ c.fn \in {"finish", "finish2", "finish3"} => c.tp \in TeleportParams
           /\ c.fn = "quick" => c.orig \in Teles
  BY DEF Conts, PlainConts, NoCont

LEMMA PlainContsOfFn ==
    ASSUME NEW c \in PlainConts
    PROVE  c \in Conts /\ c.fn # "then" /\ Plain(c) = c
  BY DEF Conts, PlainConts, Plain

LEMMA NoContFacts ==
    NoCont \in PlainConts /\ NoCont \in Conts /\ NoCont.fn = "none" /\ Plain(NoCont) = NoCont
  BY DEF Conts, PlainConts, NoCont, Plain

LEMMA TopFacts ==
    ASSUME NEW g \in State
    PROVE  /\ Top(g) \in SceneTypes
           /\ Top(g) = "title" <=> g.st.stack = <<"title">>
           /\ Top(g) = "map" <=> g.st.stack = <<"title", "map">>
           /\ Top(g) \in Called <=> g.st.stack = <<"title", "map", Top(g)>>
           /\ Top(g) \notin {"title", "map"} <=> Top(g) \in Called
  <1>1. g.st.stack \in Stacks
    BY DEF State, StackStates
  <1>2. CASE g.st.stack = <<"title">>
    BY <1>2 DEF Top, SceneTypes, Called
  <1>3. CASE g.st.stack = <<"title", "map">>
    BY <1>3 DEF Top, SceneTypes, Called
  <1>4. CASE \E t \in Called : g.st.stack = <<"title", "map", t>>
    <2>1. PICK t \in Called : g.st.stack = <<"title", "map", t>>
      BY <1>4
    <2>2. Top(g) = t
      BY <2>1 DEF Top
    <2> QED
      BY <2>1, <2>2 DEF SceneTypes, Called
  <1> QED
    BY <1>1, <1>2, <1>3, <1>4 DEF Stacks

LEMMA SameTop ==
    ASSUME NEW g, NEW h, g.st.stack = h.st.stack
    PROVE  Top(g) = Top(h)
  BY DEF Top

LEMMA StateFields ==
    ASSUME NEW g
    PROVE  g \in State <=> /\ g = [st |-> g.st, game |-> g.game, main |-> g.main, past |-> g.past]
                           /\ g.st \in StackStates /\ g.game \in GameStates
                           /\ g.main \in MainStates /\ g.past \in Pasts
  BY DEF State

LEMMA StackFields ==
    ASSUME NEW s
    PROVE  s \in StackStates <=>
             /\ s = [stack |-> s.stack, started |-> s.started, cont |-> s.cont, delay |-> s.delay,
                     init |-> s.init, pushpop |-> s.pushpop, current |-> s.current]
             /\ s.stack \in Stacks /\ s.started \in SUBSET SceneTypes
             /\ s.cont \in [SceneTypes -> Conts]
             /\ s.delay \in [SceneTypes -> 0..(StartDelay + TitleDelay)]
             /\ s.init \in BOOLEAN /\ s.pushpop \in {"none", "pushed", "popped"}
             /\ s.current \in SceneTypes \cup {"none"}
  BY DEF StackStates

\* A sequence is its elements.
LEMMA SameSeq ==
    ASSUME NEW S, NEW r \in Seq(S), NEW q \in Seq(S), Len(r) = Len(q),
           \A i \in 1..Len(r) : r[i] = q[i]
    PROVE  r = q
  BY SeqEqual

LEMMA Tuple1 == ASSUME NEW S, NEW r \in Seq(S), NEW q \in Seq(S), Len(r) = 1, Len(q) = 1,
                       r[1] = q[1]
                PROVE  r = q
  BY SameSeq
LEMMA Tuple2 == ASSUME NEW S, NEW r \in Seq(S), NEW q \in Seq(S), Len(r) = 2, Len(q) = 2,
                       r[1] = q[1], r[2] = q[2]
                PROVE  r = q
  BY SameSeq
LEMMA Tuple3 == ASSUME NEW S, NEW r \in Seq(S), NEW q \in Seq(S), Len(r) = 3, Len(q) = 3,
                       r[1] = q[1], r[2] = q[2], r[3] = q[3]
                PROVE  r = q
  BY SameSeq

LEMMA Tuples ==
    ASSUME NEW S, NEW a \in S, NEW b \in S, NEW c \in S
    PROVE  /\ <<a>> \in Seq(S) /\ <<a, b>> \in Seq(S) /\ <<a, b, c>> \in Seq(S)
           /\ Len(<<a>>) = 1 /\ Len(<<a, b>>) = 2 /\ Len(<<a, b, c>>) = 3
           /\ <<a>>[1] = a /\ <<a, b>>[1] = a /\ <<a, b>>[2] = b
           /\ <<a, b, c>>[1] = a /\ <<a, b, c>>[2] = b /\ <<a, b, c>>[3] = c
  OBVIOUS

LEMMA Appended ==
    ASSUME NEW S, NEW a \in S, NEW b \in S, NEW c \in S
    PROVE  Append(<<a>>, b) = <<a, b>> /\ Append(<<a, b>>, c) = <<a, b, c>>
  <1>1. ASSUME NEW s \in Seq(S), NEW e \in S
        PROVE  /\ Append(s, e) \in Seq(S) /\ Len(Append(s, e)) = Len(s) + 1
               /\ \A i \in 1..Len(s) : Append(s, e)[i] = s[i]
               /\ Append(s, e)[Len(s) + 1] = e
    BY <1>1, AppendProperties
  <1>2. Append(<<a>>, b) = <<a, b>>
    <2> DEFINE r == Append(<<a>>, b)
               q == <<a, b>>
    <2>1. r \in Seq(S) /\ Len(r) = 2 /\ r[1] = a /\ r[2] = b
      BY <1>1, Tuples
    <2>2. q \in Seq(S) /\ Len(q) = 2 /\ q[1] = a /\ q[2] = b
      BY Tuples
    <2> HIDE DEF r, q
    <2>3. r = q
      BY <2>1, <2>2, Tuple2
    <2> QED
      BY <2>3 DEF r, q
  <1>3. Append(<<a, b>>, c) = <<a, b, c>>
    <2> DEFINE r == Append(<<a, b>>, c)
               q == <<a, b, c>>
    <2>1. r \in Seq(S) /\ Len(r) = 3 /\ r[1] = a /\ r[2] = b /\ r[3] = c
      BY <1>1, Tuples
    <2>2. q \in Seq(S) /\ Len(q) = 3 /\ q[1] = a /\ q[2] = b /\ q[3] = c
      BY Tuples
    <2> HIDE DEF r, q
    <2>3. r = q
      BY <2>1, <2>2, Tuple3
    <2> QED
      BY <2>3 DEF r, q
  <1> QED
    BY <1>2, <1>3

LEMMA Beginnings ==
    ASSUME NEW S, NEW s \in Seq(S), NEW a \in S, NEW b \in S
    PROVE  /\ Len(s) >= 1 /\ s[1] = a => SubSeq(s, 1, 1) = <<a>>
           /\ Len(s) >= 2 /\ s[1] = a /\ s[2] = b => SubSeq(s, 1, 2) = <<a, b>>
  <1>1. ASSUME NEW n \in 1..2, Len(s) >= n
        PROVE  /\ SubSeq(s, 1, n) \in Seq(S) /\ Len(SubSeq(s, 1, n)) = n
               /\ \A i \in 1..n : SubSeq(s, 1, n)[i] = s[i]
    BY <1>1, SubSeqProperties
  <1>2. ASSUME Len(s) >= 1, s[1] = a PROVE SubSeq(s, 1, 1) = <<a>>
    <2> DEFINE r == SubSeq(s, 1, 1)
               q == <<a>>
    <2>1. r \in Seq(S) /\ Len(r) = 1 /\ r[1] = a
      BY <1>1, <1>2
    <2>2. q \in Seq(S) /\ Len(q) = 1 /\ q[1] = a
      BY Tuples
    <2> HIDE DEF r, q
    <2>3. r = q
      BY <2>1, <2>2, Tuple1
    <2> QED
      BY <2>3 DEF r, q
  <1>3. ASSUME Len(s) >= 2, s[1] = a, s[2] = b PROVE SubSeq(s, 1, 2) = <<a, b>>
    <2> DEFINE r == SubSeq(s, 1, 2)
               q == <<a, b>>
    <2>1. r \in Seq(S) /\ Len(r) = 2 /\ r[1] = a /\ r[2] = b
      BY <1>1, <1>3
    <2>2. q \in Seq(S) /\ Len(q) = 2 /\ q[1] = a /\ q[2] = b
      BY Tuples
    <2> HIDE DEF r, q
    <2>3. r = q
      BY <2>1, <2>2, Tuple2
    <2> QED
      BY <2>3 DEF r, q
  <1> QED
    BY <1>2, <1>3

\* The beginning of a stack up to a scene.
LEMMA Below ==
    ASSUME NEW g \in State, NEW t \in {"title", "map"}, Top(g) # "title", t # Top(g),
           NEW i \in DOMAIN g.st.stack, g.st.stack[i] = t
    PROVE  SubSeq(g.st.stack, 1, i) = IF t = "title" THEN <<"title">> ELSE <<"title", "map">>
  <1>0. "title" \in SceneTypes /\ "map" \in SceneTypes /\ \A u \in Called : u \in SceneTypes
    BY DEF SceneTypes
  <1>1. /\ g.st.stack \in Seq(SceneTypes) /\ Len(g.st.stack) \in 2..3
        /\ g.st.stack[1] = "title" /\ g.st.stack[2] = "map"
        /\ Len(g.st.stack) = 3 => g.st.stack[3] \in Called /\ Top(g) \in Called
        /\ Len(g.st.stack) = 2 => Top(g) = "map"
    <2>1. CASE g.st.stack = <<"title", "map">>
      BY <1>0, <2>1, Tuples, TopFacts
    <2>2. CASE g.st.stack = <<"title", "map", Top(g)>> /\ Top(g) \in Called
      BY <1>0, <2>2, Tuples
    <2> QED
      BY <2>1, <2>2, TopFacts
  <1>2. i = IF t = "title" THEN 1 ELSE 2
    BY <1>1 DEF Called
  <1>3. SubSeq(g.st.stack, 1, 1) = <<"title">> /\ SubSeq(g.st.stack, 1, 2) = <<"title", "map">>
    <2> DEFINE s == g.st.stack
    <2>1. s \in Seq(SceneTypes) /\ Len(s) >= 1 /\ Len(s) >= 2 /\ s[1] = "title" /\ s[2] = "map"
      BY <1>1
    <2> HIDE DEF s
    <2>2. SubSeq(s, 1, 1) = <<"title">> /\ SubSeq(s, 1, 2) = <<"title", "map">>
      BY <1>0, <2>1, Beginnings
    <2> QED
      BY <2>2 DEF s
  <1> QED
    BY <1>2, <1>3

LEMMA WithGame ==
    ASSUME NEW g \in State, NEW x
    PROVE  [g EXCEPT !.game = x] = [st |-> g.st, game |-> x, main |-> g.main, past |-> g.past]
  BY DEF State

LEMMA WithSt ==
    ASSUME NEW g \in State, NEW x
    PROVE  [g EXCEPT !.st = x] = [st |-> x, game |-> g.game, main |-> g.main, past |-> g.past]
  BY DEF State

LEMMA WithMain ==
    ASSUME NEW g \in State, NEW x
    PROVE  [g EXCEPT !.main = x] = [st |-> g.st, game |-> g.game, main |-> x, past |-> g.past]
  BY DEF State

LEMMA TransitFacts ==
    ASSUME NEW g \in State, NEW erase \in BOOLEAN, ~IsActive(g),
           NEW h, h = Transit(g, erase)
    PROVE  /\ h \in State
           /\ h.st = g.st /\ h.main = g.main /\ h.past = g.past
           /\ h.game = [g.game EXCEPT !.tr = [to |-> erase,
              frames |-> IF g.game.tr.to /\ erase THEN 0 ELSE 1]]
  <1>1. /\ h.st = g.st /\ h.main = g.main
        /\ h.game = [g.game EXCEPT !.tr = [to |-> erase,
           frames |-> IF g.game.tr.to /\ erase THEN 0 ELSE 1]]
        /\ h = [st |-> h.st, game |-> h.game, main |-> h.main, past |-> h.past]
        /\ h.past = [g.past EXCEPT !.twice = @ \/ IsActive(g)]
    BY DEF Transit, State
  <1>2. h.past = g.past
    BY <1>1, StateFields DEF Pasts
  <1>3. h.game \in GameStates
    BY <1>1, StateFields DEF GameStates
  <1> QED
    BY <1>1, <1>2, <1>3, StateFields

LEMMA NextFacts ==
    ASSUME NEW g \in State, NEW c \in Conts, c # NoCont, g.main.me \in SceneTypes,
           g.st.cont[g.main.me] = NoCont, NEW h, h = AsyncNext(g, c)
    PROVE  /\ h \in State
           /\ h.game = g.game /\ h.past = g.past
           /\ IsAsyncPending(g) => h.main = g.main /\ h.st = [g.st EXCEPT !.cont[g.main.me] = c]
           /\ ~IsAsyncPending(g) => h.st = g.st /\ h.main = [g.main EXCEPT !.run = c]
  <1>1. /\ h = [st |-> h.st, game |-> h.game, main |-> h.main, past |-> h.past]
        /\ h.game = g.game /\ h.past = [g.past EXCEPT !.lost = @ \/ FALSE]
        /\ IsAsyncPending(g) => h.main = g.main /\ h.st = [g.st EXCEPT !.cont[g.main.me] = c]
        /\ ~IsAsyncPending(g) => h.st = g.st /\ h.main = [g.main EXCEPT !.run = c]
    BY DEF AsyncNext, State
  <1>2. h.past = g.past
    BY <1>1, StateFields DEF Pasts
  <1>3. h.st \in StackStates /\ h.main \in MainStates
    BY <1>1, StateFields DEF StackStates, MainStates
  <1> QED
    BY <1>1, <1>2, <1>3, StateFields

LEMMA NextPending ==
    ASSUME NEW g \in State, NEW c \in Conts, c # NoCont, g.main.me \in SceneTypes,
           g.st.cont[g.main.me] = NoCont, IsAsyncPending(g), NEW h, h = AsyncNext(g, c)
    PROVE  /\ h \in State /\ h.game = g.game /\ h.past = g.past /\ h.main = g.main
           /\ h.st.stack = g.st.stack /\ h.st.init = g.st.init
           /\ h.st.current = g.st.current /\ h.st.delay = g.st.delay
           /\ h.st.cont = [g.st.cont EXCEPT ![g.main.me] = c]
  <1>1. h \in State /\ h.game = g.game /\ h.past = g.past
    BY NextFacts
  <1>2. h.main = g.main /\ h.st = [g.st EXCEPT !.cont[g.main.me] = c]
    BY DEF AsyncNext, State
  <1> QED
    BY <1>1, <1>2, StateFields DEF StackStates

LEMMA PushFacts ==
    ASSUME ScenesAssumption, NEW g \in State, NEW t \in SceneTypes,
           (t = "map" /\ Top(g) = "title") \/ (t \in Called /\ Top(g) = "map"),
           NEW h, h = Push(g, t)
    PROVE  /\ h \in State /\ Top(h) = t
           /\ h.game = g.game /\ h.main = g.main /\ h.past = g.past
           /\ h.st.init = g.st.init /\ h.st.current = g.st.current
           /\ h.st.cont = [g.st.cont EXCEPT ![t] = NoCont]
           /\ h.st.delay[t] = IF t = "map" THEN StartDelay ELSE 0
  <1>1. /\ h = [st |-> h.st, game |-> g.game, main |-> g.main, past |-> g.past]
        /\ h.st = [g.st EXCEPT !.stack = Append(g.st.stack, t), !.pushpop = "pushed",
                               !.started = g.st.started \ {t}, !.cont[t] = NoCont,
                               !.delay[t] = IF t = "map" THEN StartDelay ELSE 0]
    BY DEF Push, State
  <1>2. Append(g.st.stack, t) \in Stacks /\ Top(h) = t
    <2>1. h.st.stack = Append(g.st.stack, t)
      BY <1>1, StateFields DEF StackStates
    <2>4. "title" \in SceneTypes /\ "map" \in SceneTypes
      BY DEF SceneTypes
    <2>2. CASE t = "map" /\ g.st.stack = <<"title">>
      <3>1. Append(g.st.stack, t) = <<"title", "map">>
        BY <2>2, <2>4, Appended
      <3> QED
        BY <2>1, <2>2, <3>1 DEF Stacks, Top
    <2>3. CASE t \in Called /\ g.st.stack = <<"title", "map">>
      <3>1. Append(g.st.stack, t) = <<"title", "map", t>>
        BY <2>3, <2>4, Appended
      <3> QED
        BY <2>1, <2>3, <3>1 DEF Stacks, Top
    <2> QED
      BY <2>2, <2>3, TopFacts
  <1>3. h.st \in StackStates
    <2>1. g.st \in StackStates
      BY StateFields
    <2>2. /\ h.st = [stack |-> h.st.stack, started |-> h.st.started, cont |-> h.st.cont,
                     delay |-> h.st.delay, init |-> h.st.init, pushpop |-> h.st.pushpop,
                     current |-> h.st.current]
          /\ h.st.stack = Append(g.st.stack, t) /\ h.st.started = g.st.started \ {t}
          /\ h.st.cont = [g.st.cont EXCEPT ![t] = NoCont] /\ h.st.pushpop = "pushed"
          /\ h.st.delay = [g.st.delay EXCEPT ![t] = IF t = "map" THEN StartDelay ELSE 0]
          /\ h.st.init = g.st.init /\ h.st.current = g.st.current
      BY <1>1, <2>1 DEF StackStates
    <2>3. /\ h.st.cont \in [SceneTypes -> Conts]
          /\ h.st.delay \in [SceneTypes -> 0..(StartDelay + TitleDelay)]
      BY <2>1, <2>2, StackFields, NoContFacts DEF ScenesAssumption
    <2>4. h.st.stack \in Stacks
      BY <1>2, <2>2
    <2>5. h.st.started \in SUBSET SceneTypes /\ h.st.pushpop \in {"none", "pushed", "popped"}
      BY <2>1, <2>2, StackFields
    <2>6. h.st.init \in BOOLEAN /\ h.st.current \in SceneTypes \cup {"none"}
      BY <2>1, <2>2, StackFields
    <2> HIDE <1>1
    <2> QED
      BY <2>2, <2>3, <2>4, <2>5, <2>6, StackFields
  <1> QED
    BY <1>1, <1>2, <1>3, StateFields, StackFields

LEMMA PopFacts ==
    ASSUME NEW g \in State, NEW t \in {"title", "map"}, Top(g) # "title", t # Top(g),
           NEW h, h = PopUntil(g, t)
    PROVE  /\ h \in State /\ Top(h) = t
           /\ h.game = g.game /\ h.main = g.main /\ h.past = g.past
           /\ h.st.init = g.st.init /\ h.st.current = g.st.current
           /\ h.st.cont = g.st.cont /\ h.st.delay = g.st.delay
  <1> DEFINE i == CHOOSE i \in DOMAIN g.st.stack : g.st.stack[i] = t
  <1>1. /\ h = [st |-> h.st, game |-> g.game, main |-> g.main, past |-> g.past]
        /\ h.st = [g.st EXCEPT !.stack = SubSeq(g.st.stack, 1, i), !.pushpop = "popped"]
    BY DEF PopUntil, State
  <1>2. i \in DOMAIN g.st.stack /\ g.st.stack[i] = t
    BY TopFacts DEF Called
  <1>3. SubSeq(g.st.stack, 1, i) \in Stacks /\ Top(h) = t
    <2>1. h.st.stack = SubSeq(g.st.stack, 1, i)
      BY <1>1, StateFields DEF StackStates
    <2>2. SubSeq(g.st.stack, 1, i) = IF t = "title" THEN <<"title">> ELSE <<"title", "map">>
      BY <1>2, Below
    <2>5. h.st.stack = IF t = "title" THEN <<"title">> ELSE <<"title", "map">>
      BY <2>1, <2>2
    <2>6. h.st.stack \in Stacks
      BY <2>5 DEF Stacks
    <2>3. Top(h) = t
      BY <2>5 DEF Top
    <2> QED
      BY <2>1, <2>3, <2>6
  <1>4. h.st \in StackStates
    <2>1. g.st \in StackStates
      BY StateFields
    <2> QED
      BY <1>1, <1>3, <2>1 DEF StackStates
  <1>5. /\ h.st.init = g.st.init /\ h.st.current = g.st.current
        /\ h.st.cont = g.st.cont /\ h.st.delay = g.st.delay
    BY <1>1, StateFields DEF StackStates
  <1> QED
    BY <1>1, <1>3, <1>4, <1>5, StateFields

LEMMA TitleFacts ==
    ASSUME ScenesAssumption, NEW g \in State, Top(g) # "title",
           NEW h, h = ReturnToTitleScene(g)
    PROVE  /\ h \in State /\ Top(h) = "title"
           /\ h.game = g.game /\ h.main = g.main /\ h.past = g.past
           /\ h.st.init = g.st.init /\ h.st.current = g.st.current
           /\ h.st.cont = g.st.cont
  <1> DEFINE k == [g EXCEPT !.st.delay["title"] = TitleDelay]
  <1>1. /\ k = [st |-> k.st, game |-> g.game, main |-> g.main, past |-> g.past]
        /\ k.st = [g.st EXCEPT !.delay["title"] = TitleDelay]
        /\ h = PopUntil(k, "title")
    BY DEF ReturnToTitleScene, State
  <1>2. k.st \in StackStates /\ k.st.stack = g.st.stack
    <2>1. g.st \in StackStates
      BY StateFields
    <2>2. /\ k.st = [stack |-> k.st.stack, started |-> k.st.started, cont |-> k.st.cont,
                     delay |-> k.st.delay, init |-> k.st.init, pushpop |-> k.st.pushpop,
                     current |-> k.st.current]
          /\ k.st.delay = [g.st.delay EXCEPT !["title"] = TitleDelay]
          /\ k.st.stack = g.st.stack /\ k.st.started = g.st.started
          /\ k.st.cont = g.st.cont /\ k.st.pushpop = g.st.pushpop
          /\ k.st.init = g.st.init /\ k.st.current = g.st.current
      BY <1>1, <2>1 DEF StackStates
    <2> QED
      BY <2>1, <2>2, StackFields DEF ScenesAssumption, SceneTypes
  <1>3. k \in State /\ Top(k) = Top(g)
    BY <1>1, <1>2, StateFields, SameTop
  <1> QED
    BY <1>1, <1>2, <1>3, PopFacts DEF StackStates

-----------------------------------------------------------------------------
(* In a call of the map scene.                                             *)

Clear(g) ==
    /\ Sane(g) /\ g.main.me = "map" /\ Top(g) = "map"
    /\ g.main.run = NoCont /\ g.st.cont["map"] = NoCont
    /\ g.st.init \/ g.main.at = "setup"

LEMMA MapFacts ==
    /\ "map" \in SceneTypes /\ "title" \in SceneTypes /\ "none" \notin SceneTypes
    /\ Called \subseteq SceneTypes /\ "map" \notin Called /\ "title" \notin Called
  BY DEF SceneTypes, Called

\* The map may change the game, as long as there is a continuation for the inn.
LEMMA ClearGame ==
    ASSUME NEW g, Clear(g), NEW h \in State, h.st = g.st, h.main = g.main, h.past = g.past,
           InnKept(h)
    PROVE  Clear(h)
  <1>1. Top(h) = Top(g)
    BY SameTop
  <1>2. FrameOf(h)
    BY <1>1, MapFacts DEF Clear, Sane, FrameOf
  <1>3. OneCont(h)
    BY <1>1, NoContFacts DEF Clear, Sane, OneCont, Still
  <1>4. Ready(h)
    BY NoContFacts DEF Clear, Sane, Ready, Has, Still
  <1>5. Settled(h)
    BY <1>1, MapFacts DEF Clear, Sane, Settled
  <1>6. SettingUp(h) /\ Drawn(h)
    BY <1>1, NoContFacts DEF Clear, Sane, SettingUp, Drawn, Still
  <1>7. Clean(h)
    BY DEF Clear, Sane, Clean
  <1> QED
    BY <1>1, <1>2, <1>3, <1>4, <1>5, <1>6, <1>7 DEF Clear, Sane

LEMMA ClearNext ==
    ASSUME NEW g, Clear(g), NEW c \in PlainConts, c # NoCont, Has(g, c),
           g.main.at = "setup" /\ ~IsAsyncPending(g) /\ c.fn \notin Still =>
             g.game.tr.to /\ g.main.due /\ Opening(g, c)
    PROVE  Sane(AsyncNext(g, c))
  <1> DEFINE h == AsyncNext(g, c)
  <1>0. g \in State /\ c \in Conts /\ c.fn # "none" /\ c.fn # "then" /\ Plain(c) = c
    BY PlainContsOfFn, ContsOfFn DEF Clear, Sane
  <1>1. /\ h \in State /\ h.game = g.game /\ h.past = g.past
        /\ IsAsyncPending(g) => h.main = g.main /\ h.st = [g.st EXCEPT !.cont["map"] = c]
        /\ ~IsAsyncPending(g) => h.st = g.st /\ h.main = [g.main EXCEPT !.run = c]
    BY <1>0, NextFacts, MapFacts DEF Clear
  <1>2. /\ h.st.stack = g.st.stack /\ h.st.init = g.st.init /\ h.st.current = g.st.current
        /\ h.st.delay = g.st.delay
        /\ h.main.me = "map" /\ h.main.at = g.main.at /\ h.main.due = g.main.due
        /\ IsAsyncPending(g) => h.main.run = NoCont /\ h.st.cont = [g.st.cont EXCEPT !["map"] = c]
        /\ ~IsAsyncPending(g) => h.st.cont = g.st.cont /\ h.main.run = c
    BY <1>0, <1>1, StateFields DEF Clear, StackStates, MainStates
  <1>3. Top(h) = "map" /\ (IsAsyncPending(h) <=> IsAsyncPending(g))
    BY <1>1, <1>2, SameTop DEF Clear, IsAsyncPending, IsActive
  <1>4. g.st.cont["map"] = NoCont /\ g.main.run = NoCont /\ (g.st.init \/ g.main.at = "setup")
    BY DEF Clear
  <1>5. /\ IsAsyncPending(g) => h.st.cont["map"] = c
        /\ \A t \in SceneTypes \ {"map"} : h.st.cont[t] = g.st.cont[t]
    BY <1>0, <1>2, StateFields, MapFacts DEF StackStates
  <1>6. FrameOf(h)
    BY <1>2, <1>3, <1>5, MapFacts DEF Clear, Sane, FrameOf
  <1>7. OneCont(h)
    BY <1>0, <1>2, <1>3, <1>4, <1>5, NoContFacts DEF OneCont, Still
  <1>8. Ready(h)
    <2>1. Has(h, c) /\ Has(h, NoCont)
      BY <1>1, NoContFacts DEF Has, Still
    <2> QED
      BY <1>0, <1>1, <1>2, <1>4, <1>5, <2>1, NoContFacts DEF Clear, Sane, Ready, InnKept
  <1>9. Settled(h)
    BY <1>2, <1>3, <1>4, MapFacts DEF Settled
  <1>10. SettingUp(h) /\ Drawn(h)
    BY <1>1, <1>2, <1>3, <1>4, NoContFacts DEF Clear, Sane, SettingUp, Drawn, Still, Opening
  <1>11. Clean(h)
    BY <1>1 DEF Clear, Sane, Clean
  <1> QED
    BY <1>1, <1>6, <1>7, <1>8, <1>9, <1>10, <1>11 DEF Sane

LEMMA ClearTransit ==
    ASSUME NEW g, Clear(g), ~IsActive(g), NEW erase \in BOOLEAN, NEW e \in BOOLEAN
    PROVE  LET h == [Transit(g, erase) EXCEPT !.game.erased = e] IN
           /\ Clear(h) /\ Clear(Transit(g, erase))
           /\ \A k \in {h, Transit(g, erase)} :
                /\ k.st = g.st /\ k.main = g.main
                /\ k.game.inn = g.game.inn /\ k.game.tele = g.game.tele
                /\ k.game.requested = g.game.requested /\ k.game.file = g.game.file
                /\ k.game.tr = [to |-> erase, frames |-> IF g.game.tr.to /\ erase THEN 0 ELSE 1]
                /\ erase => k.game.tr.to
                /\ ~erase => IsActive(k) /\ IsAsyncPending(k)
  <1> DEFINE f == Transit(g, erase)
             h == [f EXCEPT !.game.erased = e]
  <1>1. g \in State /\ InnKept(g)
    BY DEF Clear, Sane, Ready
  <1>2. /\ f \in State
        /\ f.st = g.st /\ f.main = g.main /\ f.past = g.past
        /\ f.game = [g.game EXCEPT !.tr = [to |-> erase,
           frames |-> IF g.game.tr.to /\ erase THEN 0 ELSE 1]]
    BY <1>1, TransitFacts
  <1>3. /\ h = [st |-> f.st, game |-> h.game, main |-> f.main, past |-> f.past]
        /\ h.game = [f.game EXCEPT !.erased = e]
    BY <1>2 DEF State
  <1>4. h \in State
    BY <1>2, <1>3, StateFields DEF GameStates
  <1>5. \A k \in {h, f} :
                /\ k \in State /\ k.st = g.st /\ k.main = g.main /\ k.past = g.past
                /\ k.game.inn = g.game.inn /\ k.game.tele = g.game.tele
                /\ k.game.requested = g.game.requested /\ k.game.file = g.game.file
                /\ k.game.tr = [to |-> erase, frames |-> IF g.game.tr.to /\ erase THEN 0 ELSE 1]
    <2> DEFINE Same(k) ==
                /\ k \in State /\ k.st = g.st /\ k.main = g.main /\ k.past = g.past
                /\ k.game.inn = g.game.inn /\ k.game.tele = g.game.tele
                /\ k.game.requested = g.game.requested /\ k.game.file = g.game.file
                /\ k.game.tr = [to |-> erase, frames |-> IF g.game.tr.to /\ erase THEN 0 ELSE 1]
    <2>1. Same(f)
      BY <1>1, <1>2, StateFields DEF GameStates
    <2>2. Same(h)
      <3>1. h.st = f.st /\ h.main = f.main /\ h.past = f.past
        BY <1>3
      <3>2. /\ h.game.inn = f.game.inn /\ h.game.tele = f.game.tele
            /\ h.game.requested = f.game.requested /\ h.game.file = f.game.file
            /\ h.game.tr = f.game.tr
        BY <1>2, <1>3, StateFields DEF GameStates
      <3> QED
        BY <2>1, <3>1, <3>2, <1>4
    <2> HIDE DEF f, h
    <2> QED
      BY <2>1, <2>2
  <1>6. \A k \in {h, f} : Clear(k)
    BY <1>1, <1>5, ClearGame DEF InnKept
  <1> HIDE DEF f, h
  <1>7. \A k \in {h, f} : (erase => k.game.tr.to) /\ (~erase => IsActive(k) /\ IsAsyncPending(k))
    BY <1>5 DEF IsActive, IsAsyncPending
  <1> QED
    BY <1>5, <1>6, <1>7 DEF f, h

LEMMA ClearTeleport ==
    ASSUME NEW g, Clear(g), ~IsActive(g), g.game.tele # "none", ~g.game.inn.on,
           NEW tp \in TeleportParams,
           g.main.at = "setup" => g.game.tr.to /\ g.main.due /\ tp.default
    PROVE  Sane(StartPendingTeleport(g, tp))
  <1> DEFINE c == [fn |-> "finish", tp |-> tp]
             k == IF ~IsErasedNotActive(g) /\ tp.erase THEN InitErase(g) ELSE g
  <1>1. c \in PlainConts /\ c # NoCont /\ c.fn = "finish" /\ c.tp = tp
    BY DEF PlainConts, NoCont
  <1>2. /\ Clear(k) /\ k.game.tele = g.game.tele /\ k.game.inn = g.game.inn /\ k.main = g.main
        /\ g.game.tr.to => k.game.tr.to
    BY ClearTransit DEF InitErase
  <1>3. StartPendingTeleport(g, tp) = AsyncNext(k, c)
    BY DEF StartPendingTeleport
  <1>4. Has(k, c)
    BY <1>1, <1>2 DEF Has
  <1>5. Opening(k, c) <=> tp.default
    BY <1>1 DEF Opening, ByDefault
  <1> HIDE DEF c, k
  <1> QED
    BY <1>1, <1>2, <1>3, <1>4, <1>5, ClearNext

LEMMA ClearTitle ==
    ASSUME ScenesAssumption, NEW g, Clear(g),
           NEW h, h = [ReturnToTitleScene(g) EXCEPT !.past.exited = @ \/ g.main.at = "setup"]
    PROVE  Sane(h)
  <1> DEFINE f == ReturnToTitleScene(g)
  <1>1. /\ f \in State /\ Top(f) = "title"
        /\ f.game = g.game /\ f.main = g.main /\ f.past = g.past
        /\ f.st.init = g.st.init /\ f.st.current = g.st.current /\ f.st.cont = g.st.cont
    BY TitleFacts DEF Clear, Sane
  <1>2. /\ h = [st |-> f.st, game |-> f.game, main |-> f.main, past |-> h.past]
        /\ h.past = [f.past EXCEPT !.exited = @ \/ g.main.at = "setup"]
    BY <1>1 DEF State
  <1>3. h.past.exited = (g.past.exited \/ g.main.at = "setup") /\ h.past \in Pasts
        /\ h.past.twice = g.past.twice /\ h.past.lost = g.past.lost
        /\ h.past.unasked = g.past.unasked /\ h.past.unseen = g.past.unseen
    <2> DEFINE x == f.past.exited \/ g.main.at = "setup"
    <2>1. x \in BOOLEAN /\ f.past.exited \in BOOLEAN /\ f.past \in Pasts
      BY <1>1, StateFields DEF Pasts
    <2>2. h.past = [f.past EXCEPT !.exited = x]
      BY <1>2
    <2> HIDE DEF x
    <2>3. h.past \in Pasts /\ h.past.exited = x
          /\ h.past.twice = f.past.twice /\ h.past.lost = f.past.lost
          /\ h.past.unasked = f.past.unasked /\ h.past.unseen = f.past.unseen
      BY <2>1, <2>2 DEF Pasts
    <2> QED
      BY <1>1, <2>3 DEF x
  <1>4. h \in State /\ Top(h) = "title"
    BY <1>1, <1>2, <1>3, StateFields, SameTop
  <1>5. FrameOf(h) /\ OneCont(h) /\ Ready(h)
    BY <1>1, <1>2, <1>4, NoContFacts DEF Clear, Sane, FrameOf, OneCont, Ready, InnKept, Has, Still
  <1>6. Settled(h)
    BY <1>4, MapFacts DEF Settled
  <1>7. SettingUp(h) /\ Drawn(h)
    <2>1. h.main = g.main /\ h.st.current = g.st.current /\ h.st.init = g.st.init
          /\ (h.past.exited <=> g.past.exited \/ g.main.at = "setup")
      BY <1>1, <1>2, <1>3
    <2> QED
      BY <2>1, NoContFacts DEF Clear, Sane, SettingUp, Drawn, Still
  <1>8. Clean(h)
    BY <1>3 DEF Clear, Sane, Clean
  <1> QED
    BY <1>4, <1>5, <1>6, <1>7, <1>8 DEF Sane

LEMMA InterruptedFacts ==
    ASSUME NEW c \in PlainConts, c.fn \in Interrupted
    PROVE  /\ c # NoCont /\ c.fn \notin Still /\ \A g : ~g.game.inn.on => Has(g, c)
           /\ c.fn # "start_inn"
  BY NoContFacts DEF Interrupted, Still, Has

LEMMA ClearInn ==
    ASSUME NEW g, Clear(g), ~IsActive(g), g.game.inn.on,
           g.main.at = "setup" => g.main.due /\ ByDefault(g.game.inn.cont)
    PROVE  Sane(UpdateInn(g)) /\ Sane(FinishInn(g))
  <1>0. g \in State /\ g.game.inn.cont # NoCont /\ g.game.inn.cont.fn \in Interrupted \cup {"none"}
    BY DEF Clear, Sane, Ready, InnKept
  <1>1. g.game \in GameStates /\ g.game.inn.cont \in PlainConts
    BY <1>0, StateFields DEF GameStates
  <1>2. g.game.inn.cont.fn \in Interrupted
    BY <1>0, <1>1, ContsOfFn, PlainContsOfFn
  <1>3. Sane(FinishInn(g))
    <2> DEFINE f == InitShow(g)
               k == [f EXCEPT !.game.erased = FALSE, !.game.inn = NoInn]
    <2>1. /\ Clear(f) /\ f.game.inn = g.game.inn /\ IsAsyncPending(f)
      BY ClearTransit DEF InitShow
    <2>2. f \in State /\ f.game \in GameStates
      BY <2>1, StateFields DEF Clear, Sane
    <2> HIDE DEF f
    <2>3. /\ k = [st |-> f.st, game |-> k.game, main |-> f.main, past |-> f.past]
          /\ k.game = [f.game EXCEPT !.erased = FALSE, !.inn = NoInn]
      <3> DEFINE x == [f.game EXCEPT !.erased = FALSE, !.inn = NoInn]
      <3>1. k = [f EXCEPT !.game = x]
        OBVIOUS
      <3> HIDE DEF x, k
      <3>2. k = [st |-> f.st, game |-> x, main |-> f.main, past |-> f.past]
        BY <2>2, <3>1, WithGame
      <3> QED
        BY <3>2 DEF x
    <2>4. /\ k.game \in GameStates /\ k.game.inn = NoInn
          /\ k.game.tr = f.game.tr /\ k.game.file = f.game.file
      BY <2>2, <2>3, NoContFacts DEF GameStates, NoInn
    <2>5. k \in State /\ InnKept(k)
      BY <2>2, <2>3, <2>4, StateFields, NoContFacts DEF NoInn, InnKept
    <2>6. Clear(k) /\ IsAsyncPending(k)
      <3>1. k.st = f.st /\ k.main = f.main /\ k.past = f.past
        BY <2>3
      <3> HIDE DEF k
      <3> QED
        BY <2>1, <2>4, <2>5, <3>1, ClearGame, SameTop DEF IsAsyncPending, IsActive
    <2>7. Has(k, g.game.inn.cont)
      <3>1. ~k.game.inn.on
        BY <2>4 DEF NoInn
      <3> HIDE DEF k
      <3> QED
        BY <1>1, <1>2, <3>1, InterruptedFacts
    <2>8. Sane(AsyncNext(k, g.game.inn.cont))
      <3> HIDE DEF k
      <3> QED
        BY <1>0, <1>1, <2>6, <2>7, ClearNext
    <2> QED
      BY <2>8 DEF FinishInn, f
  <1>4. ASSUME ~g.game.inn.started PROVE Sane(UpdateInn(g))
    <2> DEFINE f == InitErase(g)
               k == [f EXCEPT !.game.inn.started = TRUE]
               c == [fn |-> "start_inn"]
    <2>1. Clear(f) /\ f.game.inn = g.game.inn /\ f.game.tr.to /\ f.main = g.main
      BY ClearTransit DEF InitErase
    <2>2. f \in State /\ f.game \in GameStates
      BY <2>1, StateFields DEF Clear, Sane
    <2> HIDE DEF f
    <2>3. /\ k = [st |-> f.st, game |-> k.game, main |-> f.main, past |-> f.past]
          /\ k.game = [f.game EXCEPT !.inn.started = TRUE]
      <3> DEFINE x == [f.game EXCEPT !.inn.started = TRUE]
      <3>1. k = [f EXCEPT !.game = x]
        OBVIOUS
      <3> HIDE DEF x, k
      <3>2. k = [st |-> f.st, game |-> x, main |-> f.main, past |-> f.past]
        BY <2>2, <3>1, WithGame
      <3> QED
        BY <3>2 DEF x
    <2>4. /\ k.game \in GameStates /\ k.game.inn.on /\ k.game.inn.started
          /\ k.game.inn.cont = g.game.inn.cont
          /\ k.game.tr = f.game.tr
      BY <2>1, <2>2, <2>3 DEF GameStates
    <2>5. k \in State /\ InnKept(k)
      BY <1>0, <2>2, <2>3, <2>4, StateFields DEF InnKept
    <2>6. Clear(k) /\ k.main = f.main
      <3>1. k.st = f.st /\ k.main = f.main /\ k.past = f.past
        BY <2>3
      <3> HIDE DEF k
      <3> QED
        BY <2>1, <2>5, <3>1, ClearGame
    <2>7. c \in PlainConts /\ c # NoCont /\ c.fn = "start_inn"
      BY DEF PlainConts, NoCont
    <2>8. Has(k, c) /\ (g.main.at = "setup" => Opening(k, c))
      BY <2>4, <2>7 DEF Has, Opening
    <2>9. Sane(AsyncNext(k, c))
      <3> HIDE DEF k, c
      <3> QED
        BY <2>1, <2>4, <2>6, <2>7, <2>8, ClearNext
    <2> QED
      BY <1>4, <2>9 DEF UpdateInn, f
  <1> QED
    BY <1>3, <1>4 DEF UpdateInn

\* A step that only exchanges the game of a state.
LEMMA GameStep ==
    ASSUME NEW g, Clear(g), NEW x \in GameStates, NEW h, h = [g EXCEPT !.game = x],
           x.inn.on => x.inn.cont # NoCont, x.inn.cont.fn \in Interrupted \cup {"none"}
    PROVE  /\ Clear(h) /\ h.game = x /\ h.main = g.main /\ h.st = g.st
  <1>1. g \in State
    BY DEF Clear, Sane
  <1>2. h = [st |-> g.st, game |-> x, main |-> g.main, past |-> g.past]
    BY <1>1, WithGame
  <1>3. h \in State
    BY <1>1, <1>2, StateFields
  <1> QED
    BY <1>2, <1>3, ClearGame DEF InnKept

LEMMA ClearSuspend ==
    ASSUME ScenesAssumption, NEW g, Clear(g), ~IsActive(g), ~g.game.inn.on,
           NEW cont \in PlainConts, cont.fn \in Interrupted,
           g.main.at = "setup" => g.game.tr.to /\ g.main.due /\ ByDefault(cont),
           NEW op \in AsyncOps \ {"none"}, NEW pre \in BOOLEAN
    PROVE  Sane(OnAsyncSuspend(g, cont, op, pre))
  <1>0. g \in State /\ g.game \in GameStates /\ cont # NoCont
    BY StateFields, InterruptedFacts DEF Clear, Sane
  <1>1. CASE op = "title"
    BY <1>1, ClearTitle DEF OnAsyncSuspend
  <1>2. CASE op = "erase"
    <2> DEFINE e == g.game.erased \/ ~pre
               k == [Transit(g, TRUE) EXCEPT !.game.erased = e]
    <2>1. e \in BOOLEAN
      OBVIOUS
    <2>2. OnAsyncSuspend(g, cont, op, pre) = AsyncNext(k, cont)
      <3>1. Transit(g, TRUE).game.erased = g.game.erased
        <4> DEFINE f == Transit(g, TRUE)
        <4>1. f.game = [g.game EXCEPT !.tr = [to |-> TRUE,
                 frames |-> IF g.game.tr.to /\ TRUE THEN 0 ELSE 1]]
          BY <1>0, TransitFacts
        <4> HIDE DEF f
        <4>2. f.game.erased = g.game.erased
          BY <1>0, <4>1 DEF GameStates
        <4> QED
          BY <4>2 DEF f
      <3> QED
        BY <1>2, <3>1 DEF OnAsyncSuspend, InitErase
    <2> HIDE DEF e
    <2>3. Clear(k) /\ k.game.tr.to /\ k.main = g.main /\ k.game.inn = g.game.inn
      BY <2>1, ClearTransit
    <2> HIDE DEF k
    <2>4. Has(k, cont) /\ (ByDefault(cont) => Opening(k, cont))
      BY <2>3, InterruptedFacts DEF Opening
    <2> QED
      BY <1>0, <2>2, <2>3, <2>4, ClearNext
  <1>3. CASE op = "show"
    <2> DEFINE k == [Transit(g, FALSE) EXCEPT !.game.erased = FALSE]
    <2>1. OnAsyncSuspend(g, cont, op, pre) = AsyncNext(k, cont)
      BY <1>3 DEF OnAsyncSuspend, InitShow
    <2>2. Clear(k) /\ IsAsyncPending(k) /\ k.game.inn = g.game.inn
      BY ClearTransit
    <2> HIDE DEF k
    <2>3. Has(k, cont)
      BY <2>2, InterruptedFacts
    <2> QED
      BY <1>0, <2>1, <2>2, <2>3, ClearNext
  <1>4. CASE op \in {"inn", "inn_asked"}
    <2> DEFINE x == [g.game EXCEPT !.inn = CallInn(cont)]
               k == [g EXCEPT !.game = x]
    <2>1. /\ x \in GameStates /\ x.inn.on /\ x.inn.cont = cont /\ x.tr = g.game.tr
      BY <1>0 DEF GameStates, CallInn
    <2>2. OnAsyncSuspend(g, cont, op, pre) = IF op = "inn" THEN UpdateInn(k) ELSE k
      BY <1>4 DEF OnAsyncSuspend
    <2> HIDE DEF x
    <2>3. Clear(k) /\ k.game = x /\ k.main = g.main
      BY <1>0, <2>1, GameStep
    <2> HIDE DEF k
    <2>4. ~IsActive(k)
      BY <2>1, <2>3 DEF IsActive
    <2> QED
      BY <2>1, <2>2, <2>3, <2>4, ClearInn DEF Clear
  <1>5. CASE op = "quick"
    <2> DEFINE x == [g.game EXCEPT !.inn.cont = cont, !.tele = "quick", !.file = TRUE]
               k == [g EXCEPT !.game = x]
               c == [fn |-> "quick", orig |-> g.game.tele]
    <2>1. /\ x \in GameStates /\ x.inn.on = g.game.inn.on /\ x.inn.cont = cont
          /\ x.tele = "quick" /\ x.file
      BY <1>0 DEF GameStates, Teles
    <2>2. OnAsyncSuspend(g, cont, op, pre) = AsyncNext(k, c)
      BY <1>5 DEF OnAsyncSuspend
    <2>3. c \in PlainConts /\ c # NoCont /\ c.fn = "quick"
      BY <1>0 DEF PlainConts, NoCont, GameStates
    <2> HIDE DEF x, c
    <2>4. Clear(k) /\ k.game = x
      BY <1>0, <2>1, GameStep
    <2> HIDE DEF k
    <2>5. Has(k, c) /\ IsAsyncPending(k)
      BY <1>0, <2>1, <2>3, <2>4 DEF Has, IsAsyncPending
    <2> QED
      BY <2>2, <2>3, <2>4, <2>5, ClearNext
  <1>6. CASE op = "save"
    <2>1. OnAsyncSuspend(g, cont, op, pre) = AsyncNext(g, cont)
      BY <1>6 DEF OnAsyncSuspend
    <2>2. Has(g, cont) /\ (ByDefault(cont) => Opening(g, cont))
      BY InterruptedFacts DEF Opening
    <2> QED
      BY <1>0, <2>1, <2>2, ClearNext
  <1> QED
    BY <1>1, <1>2, <1>3, <1>4, <1>5, <1>6 DEF AsyncOps

LEMMA ParamsFacts ==
    ASSUME NEW g, NEW erase \in BOOLEAN, NEW default \in BOOLEAN, NEW defer \in BOOLEAN
    PROVE  LET tp == Params(g, erase, default, defer) IN
           tp \in TeleportParams /\ tp.default = default /\ tp.erase = erase /\ tp.defer = defer
  BY DEF Params, TeleportParams

\* A map that shows itself, and whose continuation waits for that.
LEMMA ClearShow ==
    ASSUME NEW g, Clear(g), ~IsActive(g), ~g.game.inn.on, NEW shows \in BOOLEAN,
           NEW c \in PlainConts, c.fn \in {"calling", "finish3"},
           g.main.at = "setup" => shows
    PROVE  Sane(AsyncNext(IF shows THEN InitShow(g) ELSE g, c))
  <1> DEFINE k == IF shows THEN InitShow(g) ELSE g
  <1>1. /\ Clear(k) /\ k.game.inn = g.game.inn /\ k.main = g.main
        /\ shows => IsAsyncPending(k)
    BY ClearTransit DEF InitShow
  <1> HIDE DEF k
  <1>2. c # NoCont /\ Has(k, c)
    BY <1>1, NoContFacts DEF Has
  <1>3. Sane(AsyncNext(k, c))
    BY <1>1, <1>2, ClearNext
  <1> QED
    BY <1>3 DEF k

LEMMA ContFacts ==
    /\ \A fn \in {"stage2", "calling", "transition_in", "start2", "stage1", "start_inn"} :
         [fn |-> fn] \in PlainConts /\ [fn |-> fn].fn = fn
    /\ \A fn \in {"finish", "finish2", "finish3"}, tp \in TeleportParams :
         LET c == [fn |-> fn, tp |-> tp] IN c \in PlainConts /\ c.fn = fn /\ c.tp = tp
  BY DEF PlainConts

LEMMA ClearStart2 ==
    ASSUME NEW g, Clear(g), ~IsActive(g), ~g.game.inn.on,
           g.main.at = "setup" => g.game.tr.to /\ g.main.due
    PROVE  Sane(Start2(g))
  <1>1. CASE g.game.tele # "none"
    <2>1. Sane(StartPendingTeleport(g, Params(g, FALSE, TRUE, FALSE)))
      BY <1>1, ParamsFacts, ClearTeleport
    <2> QED
      BY <1>1, <2>1 DEF Start2
  <1>2. CASE g.game.tele = "none"
    <2> DEFINE shows == IsErasedNotActive(g)
    <2>1. shows \in BOOLEAN /\ (g.main.at = "setup" => shows)
      BY DEF IsErasedNotActive, Clear, Sane, State, GameStates
    <2>2. Start2(g) = AsyncNext(IF shows THEN InitShow(g) ELSE g, [fn |-> "calling"])
      BY <1>2 DEF Start2
    <2> HIDE DEF shows
    <2> QED
      BY <2>1, <2>2, ContFacts, ClearShow
  <1> QED
    BY <1>1, <1>2

LEMMA ClearFinish2 ==
    ASSUME NEW g, Clear(g), ~IsActive(g), ~g.game.inn.on, NEW tp \in TeleportParams,
           g.main.at = "setup" => g.game.tr.to /\ g.main.due /\ tp.default
    PROVE  Sane(Finish2(g, tp))
  <1>1. CASE Recursive(g, tp)
    <2> DEFINE t == [tp EXCEPT !.erase = FALSE]
    <2>1. t \in TeleportParams /\ t.default = tp.default
      BY DEF TeleportParams
    <2>2. Finish2(g, tp) = StartPendingTeleport(g, t)
      BY <1>1 DEF Finish2
    <2> HIDE DEF t
    <2> QED
      BY <1>1, <2>1, <2>2, ClearTeleport DEF Recursive
  <1>2. CASE ~Recursive(g, tp)
    <2> DEFINE shows == IF tp.default THEN IsErasedNotActive(g) ELSE ~g.game.erased
    <2>1. shows \in BOOLEAN /\ (g.main.at = "setup" => shows)
      BY DEF IsErasedNotActive, Clear, Sane, State, GameStates
    <2>2. Finish2(g, tp) =
            AsyncNext(IF shows THEN InitShow(g) ELSE g, [fn |-> "finish3", tp |-> tp])
      BY <1>2 DEF Finish2
    <2> HIDE DEF shows
    <2> QED
      BY <2>1, <2>2, ContFacts, ClearShow
  <1> QED
    BY <1>1, <1>2

LEMMA ClearFinish3 ==
    ASSUME NEW g, Clear(g), ~IsActive(g), ~g.game.inn.on, NEW tp \in TeleportParams,
           g.main.at # "setup"
    PROVE  Sane(Finish3(g, tp))
  <1>1. CASE tp.fg /\ Recursive(g, tp)
    <2> DEFINE t == [tp EXCEPT !.erase = FALSE]
    <2>1. t \in TeleportParams
      BY DEF TeleportParams
    <2>2. Finish3(g, tp) = StartPendingTeleport(g, t)
      BY <1>1 DEF Finish3
    <2> HIDE DEF t
    <2> QED
      BY <1>1, <2>1, <2>2, ClearTeleport DEF Recursive
  <1>2. CASE ~(tp.fg /\ Recursive(g, tp))
    <2>1. Finish3(g, tp) = AsyncNext(g, [fn |-> "calling"])
      BY <1>2 DEF Finish3
    <2>2. Has(g, [fn |-> "calling"]) /\ [fn |-> "calling"] # NoCont
      BY NoContFacts DEF Has
    <2> QED
      BY <2>1, <2>2, ContFacts, ClearNext
  <1> QED
    BY <1>1, <1>2

\* A scene is called when nothing else is left to do.
LEMMA ClearCalling ==
    ASSUME ScenesAssumption, NEW g, Clear(g), ~IsAsyncPending(g), ~g.game.inn.on,
           g.main.at # "setup"
    PROVE  Sane(UpdateSceneCalling(g))
  <1>1. CASE g.game.requested = "none"
    BY <1>1 DEF UpdateSceneCalling, Clear
  <1>2. CASE g.game.requested # "none"
    <2> DEFINE t == g.game.requested
               x == [g.game EXCEPT !.requested = "none"]
               k == [g EXCEPT !.game = x]
               h == Push(k, t)
    <2>1. /\ x \in GameStates /\ x.inn = g.game.inn /\ x.tr = g.game.tr /\ x.file = g.game.file
          /\ t \in Called
      BY <1>2, StateFields DEF Clear, Sane, GameStates
    <2>2. UpdateSceneCalling(g) = h
      BY <1>2 DEF UpdateSceneCalling
    <2> HIDE DEF x
    <2>3. Clear(k) /\ k.game = x /\ k.main = g.main
      BY <2>1, GameStep DEF Clear, Sane, Ready, InnKept
    <2> HIDE DEF k, t
    <2>4. /\ h \in State /\ Top(h) = t
          /\ h.game = k.game /\ h.main = k.main /\ h.past = k.past
          /\ h.st.init = k.st.init /\ h.st.current = k.st.current
          /\ h.st.cont = [k.st.cont EXCEPT ![t] = NoCont]
          /\ h.st.delay[t] = 0
      <3>1. k \in State /\ t \in SceneTypes /\ Top(k) = "map" /\ t # "map"
        BY <2>1, <2>3, MapFacts DEF Clear, Sane
      <3> QED
        BY <2>1, <3>1, PushFacts
    <2> HIDE DEF h
    <2>5. \A s \in SceneTypes : h.st.cont[s] = IF s = t THEN NoCont ELSE k.st.cont[s]
      BY <2>3, <2>4, StateFields DEF Clear, Sane, StackStates
    <2>6. ~IsAsyncPending(h)
      BY <2>1, <2>3, <2>4 DEF IsAsyncPending, IsActive
    <2>7. /\ h.st.cont["map"] = NoCont /\ \A s \in SceneTypes \ {"map"} : h.st.cont[s] = NoCont
          /\ h.main.run = NoCont /\ h.main.me = "map" /\ h.main.at # "setup" /\ h.main.at # "idle"
          /\ ~h.game.inn.on
      BY <2>1, <2>3, <2>4, <2>5, MapFacts DEF Clear, Sane, FrameOf
    <2>8. FrameOf(h)
      BY <2>7, MapFacts DEF FrameOf
    <2>9. OneCont(h)
      BY <2>6, <2>7, NoContFacts DEF OneCont, Still
    <2>10. Ready(h)
      BY <2>3, <2>4, <2>7, NoContFacts DEF Clear, Sane, Ready, Has, Still, InnKept
    <2>11. Settled(h)
      BY <2>1, <2>4, <2>6, <2>7, NoContFacts, MapFacts DEF Settled, Still
    <2>12. SettingUp(h) /\ Drawn(h)
      BY <2>3, <2>4, <2>7, MapFacts DEF Clear, Sane, SettingUp, Drawn
    <2>13. Clean(h)
      BY <2>3, <2>4 DEF Clear, Sane, Clean
    <2> QED
      BY <2>2, <2>4, <2>8, <2>9, <2>10, <2>11, <2>12, <2>13 DEF Sane
  <1> QED
    BY <1>1, <1>2

LEMMA ClearStage2 ==
    ASSUME ScenesAssumption, NEW g, Clear(g), ~IsAsyncPending(g), ~g.game.inn.on,
           g.main.at # "setup"
    PROVE  Sane(Stage2(g))
  <1>1. ~IsActive(g)
    BY DEF IsAsyncPending
  <1> QED
    BY <1>1, ParamsFacts, ClearTeleport, ClearCalling DEF Stage2

-----------------------------------------------------------------------------
(* The calls.                                                              *)

LEMMA TakenSane ==
    ASSUME NEW g, Sane(g), NEW h, h = [g EXCEPT !.main.run = NoCont]
    PROVE  /\ Sane(h) /\ h.st = g.st /\ h.game = g.game /\ h.past = g.past
           /\ h.main.me = g.main.me /\ h.main.at = g.main.at /\ h.main.due = g.main.due
           /\ h.main.run = NoCont /\ (IsAsyncPending(h) <=> IsAsyncPending(g))
  <1>0. g \in State /\ g.main \in MainStates
    BY StateFields DEF Sane
  <1>1. h = [st |-> g.st, game |-> g.game, main |-> [g.main EXCEPT !.run = NoCont], past |-> g.past]
    BY <1>0, WithMain
  <1>2. /\ h.main \in MainStates
        /\ h.main.me = g.main.me /\ h.main.at = g.main.at /\ h.main.due = g.main.due
        /\ h.main.run = NoCont
    BY <1>0, <1>1, NoContFacts DEF MainStates
  <1>3. h \in State /\ h.st = g.st /\ h.game = g.game /\ h.past = g.past
    BY <1>0, <1>1, <1>2, StateFields
  <1>4. Top(h) = Top(g) /\ (IsAsyncPending(h) <=> IsAsyncPending(g))
        /\ (IsActive(h) <=> IsActive(g))
    BY <1>3, SameTop DEF IsAsyncPending, IsActive
  <1>5. FrameOf(h)
    BY <1>2, <1>3, <1>4, NoContFacts DEF Sane, FrameOf, Still
  <1>6. OneCont(h)
    BY <1>2, <1>3, <1>4, NoContFacts DEF Sane, OneCont, Still
  <1>7. Ready(h)
    BY <1>2, <1>3, NoContFacts DEF Sane, Ready, Has, Still, InnKept
  <1>8. Settled(h)
    BY <1>2, <1>3, <1>4, NoContFacts DEF Sane, Settled, Still
  <1>9. SettingUp(h) /\ Drawn(h)
    BY <1>2, <1>3, <1>4, NoContFacts DEF Sane, SettingUp, Drawn, Still
  <1>10. Clean(h)
    BY <1>3 DEF Sane, Clean
  <1> QED
    BY <1>2, <1>3, <1>4, <1>5, <1>6, <1>7, <1>8, <1>9, <1>10 DEF Sane

\* When a continuation of the map scene is called, nothing is pending and none is kept.
LEMMA TakenClear ==
    ASSUME Sane(scenes), scenes.main.run.fn \notin Still
    PROVE  /\ Clear(Taken) /\ ~IsAsyncPending(Taken) /\ ~IsActive(Taken)
           /\ Taken.st = scenes.st /\ Taken.game = scenes.game
           /\ Taken.main.at = scenes.main.at /\ Taken.main.due = scenes.main.due
           /\ scenes.main.run \in Conts
           /\ scenes.main.at = "setup" =>
                scenes.game.tr.to /\ scenes.main.due /\ Opening(scenes, scenes.main.run)
           /\ scenes.main.run.fn # "then" => Has(scenes, scenes.main.run)
  <1> DEFINE h == Taken
  <1>1. /\ Sane(h) /\ h.st = scenes.st /\ h.game = scenes.game
        /\ h.main.me = scenes.main.me /\ h.main.at = scenes.main.at /\ h.main.due = scenes.main.due
        /\ h.main.run = NoCont /\ (IsAsyncPending(h) <=> IsAsyncPending(scenes))
    BY TakenSane DEF Taken
  <1> HIDE DEF h
  <1>2. scenes.main.run # NoCont /\ scenes.main.run \in Conts
    BY NoContFacts, StateFields DEF Still, Sane, MainStates
  <1>3. /\ scenes.main.me = "map" /\ Top(scenes) = "map" /\ scenes.st.cont["map"] = NoCont
        /\ ~IsAsyncPending(scenes)
    BY <1>2 DEF Sane, OneCont
  <1>4. scenes.st.init \/ scenes.main.at = "setup"
    BY <1>2, <1>3 DEF Sane, Settled
  <1>5. Top(h) = "map"
    BY <1>1, <1>3, SameTop
  <1>6. ~IsActive(h)
    BY <1>1, <1>3 DEF IsAsyncPending
  <1>7. scenes.main.at = "setup" =>
          scenes.game.tr.to /\ scenes.main.due /\ Opening(scenes, scenes.main.run)
    BY DEF Sane, SettingUp
  <1>8. scenes.main.run.fn # "then" => Has(scenes, scenes.main.run)
    BY <1>2, ContsOfFn, PlainContsOfFn DEF Sane, Ready
  <1> QED
    BY <1>1, <1>2, <1>3, <1>4, <1>5, <1>6, <1>7, <1>8 DEF Clear, h

LEMMA ClearUpdate ==
    ASSUME ScenesAssumption, NEW g, Clear(g), NEW o \in Outcomes \cup {Quiet},
           NEW h, h = MapUpdate(g, o)
    PROVE  /\ Clear(h) /\ h.main = g.main /\ h.st = g.st
           /\ h.game.inn = g.game.inn /\ h.game.tr = g.game.tr
           /\ IsActive(h) <=> IsActive(g)
           /\ o.op \in AsyncOps
  <1>0. g \in State /\ g.game \in GameStates /\ InnKept(g)
    BY StateFields DEF Clear, Sane, Ready
  <1>1. /\ o.op \in AsyncOps /\ o.tele \in {"none", "fg", "par"} /\ o.call \in {"none"} \cup Called
    BY DEF ScenesAssumption, Quiet, AsyncOps
  <1> DEFINE tele == IF o.tele = "none" THEN g.game.tele ELSE o.tele
             file == g.game.file \/ o.tele # "none"
             requested == IF o.call = "none" THEN g.game.requested ELSE o.call
             x == [g.game EXCEPT !.tele = tele, !.file = file, !.requested = requested]
  <1>2. h = [g EXCEPT !.game = x]
    BY DEF MapUpdate
  <1>3. tele \in Teles /\ file \in BOOLEAN /\ requested \in {"none"} \cup Called
    BY <1>0, <1>1 DEF GameStates, Teles
  <1> HIDE DEF tele, file, requested
  <1>4. x \in GameStates /\ x.inn = g.game.inn /\ x.tr = g.game.tr
    BY <1>0, <1>3 DEF GameStates
  <1> HIDE DEF x
  <1>5. Clear(h) /\ h.game = x /\ h.main = g.main /\ h.st = g.st
    BY <1>0, <1>2, <1>4, GameStep DEF InnKept
  <1> QED
    BY <1>1, <1>4, <1>5 DEF IsActive

\* A map update in a call of the map scene, which may be interrupted.
LEMMA UpdatedSane ==
    ASSUME ScenesAssumption, Sane(scenes), scenes.main.run.fn \in Interrupted,
           NEW o \in Outcomes \cup {Quiet}, NEW pre \in BOOLEAN, NEW done,
           Updated(MapUpdate(Taken, o), o, pre, done),
           o.op = "none" => Sane(done)
    PROVE  Sane(scenes')
  <1> DEFINE g == MapUpdate(Taken, o)
             run == scenes.main.run
  <1>1. run.fn \notin Still /\ run.fn # "then" /\ run.fn # "start_inn" /\ run.fn # "quick"
    BY DEF Interrupted, Still
  <1>2. run \in PlainConts /\ Has(scenes, run)
    BY <1>1, TakenClear, ContsOfFn
  <1>3. /\ Clear(g) /\ ~IsActive(g) /\ o.op \in AsyncOps
        /\ g.game.inn = scenes.game.inn /\ g.game.tr = scenes.game.tr
        /\ g.main.at = scenes.main.at /\ g.main.due = scenes.main.due
    BY <1>1, TakenClear, ClearUpdate
  <1>4. ~g.game.inn.on
    BY <1>1, <1>2, <1>3 DEF Has
  <1>5. g.main.at = "setup" => g.game.tr.to /\ g.main.due /\ ByDefault(run)
    BY <1>1, <1>3, TakenClear DEF Opening
  <1> HIDE DEF g, run
  <1>6. o.op # "none" => Sane(OnAsyncSuspend(g, run, o.op, pre))
    BY <1>2, <1>3, <1>4, <1>5, ClearSuspend DEF run
  <1> QED
    BY <1>6 DEF Updated, g, run

\* The map after an update of it, in a call.
LEMMA UpdateFacts ==
    ASSUME ScenesAssumption, Sane(scenes), scenes.main.run.fn \in Interrupted,
           NEW o \in Outcomes \cup {Quiet}, NEW g, g = MapUpdate(Taken, o)
    PROVE  /\ Clear(g) /\ ~IsActive(g) /\ ~g.game.inn.on /\ scenes.main.run \in Conts
           /\ g.main.at = scenes.main.at
           /\ g.main.at = "setup" => g.game.tr.to /\ g.main.due /\ ByDefault(scenes.main.run)
  <1>1. /\ scenes.main.run.fn \notin Still /\ scenes.main.run.fn # "start_inn"
        /\ scenes.main.run.fn # "then"
    BY DEF Interrupted, Still
  <1>2. /\ Clear(g) /\ ~IsActive(g) /\ o.op \in AsyncOps
        /\ g.game.inn = scenes.game.inn /\ g.game.tr = scenes.game.tr
        /\ g.main.at = scenes.main.at /\ g.main.due = scenes.main.due
    BY <1>1, TakenClear, ClearUpdate
  <1>3. ~g.game.inn.on
    BY <1>1, <1>2, TakenClear DEF Has
  <1> QED
    BY <1>1, <1>2, <1>3, TakenClear DEF Opening

LEMMA CallStart2Sane ==
    ASSUME ScenesAssumption, Sane(scenes), NEW o, CallStart2(o)
    PROVE  Sane(scenes')
  <1> DEFINE g == MapUpdate(Taken, o)
  <1>1. /\ scenes.main.run.fn = "start2" /\ o \in Outcomes \cup {Quiet}
        /\ Updated(g, o, TRUE, Start2(g))
    BY DEF CallStart2, Calls, MapUpdates
  <1>2. scenes.main.run.fn \in Interrupted
    BY <1>1 DEF Interrupted
  <1>3. Sane(Start2(g))
    <2>1. /\ Clear(g) /\ ~IsActive(g) /\ ~g.game.inn.on
          /\ g.main.at = "setup" => g.game.tr.to /\ g.main.due
      BY <1>1, <1>2, UpdateFacts
    <2> HIDE DEF g
    <2> QED
      BY <2>1, ClearStart2
  <1> QED
    BY <1>1, <1>2, <1>3, UpdatedSane

LEMMA CallStage1Sane ==
    ASSUME ScenesAssumption, Sane(scenes), NEW o, CallStage1(o)
    PROVE  Sane(scenes')
  <1> DEFINE g == MapUpdate(Taken, o)
             c == [fn |-> "stage2"]
  <1>1. /\ scenes.main.run.fn = "stage1" /\ o \in Outcomes \cup {Quiet}
        /\ Updated(g, o, FALSE, AsyncNext(g, c))
    BY DEF CallStage1, Calls, MapUpdates
  <1>2. scenes.main.run.fn \in Interrupted
    BY <1>1 DEF Interrupted
  <1>3. Sane(AsyncNext(g, c))
    <2>1. Clear(g) /\ ~g.game.inn.on /\ g.main.at # "setup"
      BY <1>1, <1>2, UpdateFacts DEF ByDefault
    <2>2. c \in PlainConts /\ c.fn = "stage2" /\ c # NoCont
      BY ContFacts, NoContFacts
    <2> HIDE DEF g, c
    <2>3. Has(g, c)
      BY <2>1, <2>2 DEF Has
    <2> QED
      BY <2>1, <2>2, <2>3, ClearNext
  <1> QED
    BY <1>1, <1>2, <1>3, UpdatedSane

LEMMA CallFinish2Sane ==
    ASSUME ScenesAssumption, Sane(scenes), NEW o, CallFinish2(o)
    PROVE  Sane(scenes')
  <1> DEFINE g == MapUpdate(Taken, o)
             tp == scenes.main.run.tp
  <1>1. /\ scenes.main.run.fn = "finish2" /\ o \in Outcomes \cup {Quiet}
        /\ Updated(g, o, TRUE, Finish2(g, tp))
    BY DEF CallFinish2, Calls, MapUpdates
  <1>2. scenes.main.run.fn \in Interrupted
    BY <1>1 DEF Interrupted
  <1>3. Sane(Finish2(g, tp))
    <2>1. /\ Clear(g) /\ ~IsActive(g) /\ ~g.game.inn.on /\ tp \in TeleportParams
          /\ g.main.at = "setup" => g.game.tr.to /\ g.main.due /\ tp.default
      BY <1>1, <1>2, UpdateFacts, ContsOfFn DEF ByDefault
    <2> HIDE DEF g, tp
    <2> QED
      BY <2>1, ClearFinish2
  <1> QED
    BY <1>1, <1>2, <1>3, UpdatedSane

LEMMA CallFinish3Sane ==
    ASSUME ScenesAssumption, Sane(scenes), NEW o, CallFinish3(o)
    PROVE  Sane(scenes')
  <1> DEFINE tp == scenes.main.run.tp
  <1>1. /\ scenes.main.run.fn = "finish3" /\ o \in Outcomes \cup {Quiet}
    BY DEF CallFinish3, Calls, MapUpdates
  <1>2. scenes.main.run.fn \in Interrupted /\ scenes.main.run.fn \notin Still
        /\ scenes.main.run.fn # "then"
    BY <1>1 DEF Interrupted, Still
  <1>3. tp \in TeleportParams /\ scenes.main.at # "setup"
    BY <1>1, <1>2, TakenClear, ContsOfFn DEF Opening, ByDefault
  <1>4. CASE tp.fg
    <2> DEFINE g == MapUpdate(Taken, o)
    <2>1. Updated(g, o, TRUE, Finish3(g, tp))
      BY <1>4 DEF CallFinish3
    <2>2. Sane(Finish3(g, tp))
      <3>1. /\ Clear(g) /\ ~IsActive(g) /\ ~g.game.inn.on /\ g.main.at # "setup"
        BY <1>1, <1>2, <1>3, UpdateFacts
      <3> HIDE DEF g, tp
      <3> QED
        BY <3>1, <1>3, ClearFinish3
    <2> QED
      BY <1>1, <1>2, <2>1, <2>2, UpdatedSane
  <1>5. CASE ~tp.fg
    <2>1. scenes' = Finish3(Taken, tp)
      BY <1>5 DEF CallFinish3
    <2>2. /\ Clear(Taken) /\ ~IsActive(Taken) /\ Taken.main.at # "setup" /\ ~Taken.game.inn.on
      BY <1>1, <1>2, <1>3, TakenClear DEF Has
    <2> QED
      BY <1>3, <2>1, <2>2, ClearFinish3
  <1> QED
    BY <1>4, <1>5

LEMMA CallStage2Sane ==
    ASSUME ScenesAssumption, Sane(scenes), CallStage2
    PROVE  Sane(scenes')
  <1>1. scenes.main.run.fn = "stage2" /\ scenes' = Stage2(Taken)
    BY DEF CallStage2, Calls
  <1>2. /\ Clear(Taken) /\ ~IsAsyncPending(Taken) /\ ~Taken.game.inn.on /\ Taken.main.at # "setup"
    BY <1>1, TakenClear DEF Still, Has, Opening, ByDefault
  <1> QED
    BY <1>1, <1>2, ClearStage2

LEMMA CallCallingSane ==
    ASSUME ScenesAssumption, Sane(scenes), CallCalling
    PROVE  Sane(scenes')
  <1>1. scenes.main.run.fn = "calling" /\ scenes' = UpdateSceneCalling(Taken)
    BY DEF CallCalling, Calls
  <1>2. /\ Clear(Taken) /\ ~IsAsyncPending(Taken) /\ ~Taken.game.inn.on /\ Taken.main.at # "setup"
    BY <1>1, TakenClear DEF Still, Has, Opening, ByDefault
  <1> QED
    BY <1>1, <1>2, ClearCalling

LEMMA CallStartInnSane ==
    ASSUME ScenesAssumption, Sane(scenes), CallStartInn
    PROVE  Sane(scenes')
  <1>1. scenes.main.run.fn = "start_inn" /\ scenes' \in {Taken, FinishInn(Taken)}
    BY DEF CallStartInn, Calls
  <1>2. /\ Clear(Taken) /\ ~IsActive(Taken) /\ Taken.game.inn.on
        /\ Taken.main.at = "setup" => Taken.main.due /\ ByDefault(Taken.game.inn.cont)
    BY <1>1, TakenClear DEF Still, Has, Opening, ByDefault
  <1>3. Sane(FinishInn(Taken)) /\ Sane(Taken)
    BY <1>2, ClearInn DEF Clear
  <1> QED
    BY <1>1, <1>3

LEMMA UnaskedFacts ==
    ASSUME NEW g \in State, g.game.tele # "none", NEW h, h = PerformTeleport(g)
    PROVE  h = [g EXCEPT !.game = [g.game EXCEPT !.tele = "none"]]
  <1> DEFINE x == [g.game EXCEPT !.tele = "none"]
             y == [g.past EXCEPT !.unasked = @ \/ g.game.tele = "none"]
             k == [g EXCEPT !.game = x]
  <1>1. h = [[g EXCEPT !.past = y] EXCEPT !.game = x]
    BY DEF PerformTeleport
  <1>2. y = g.past
    BY StateFields DEF Pasts
  <1> HIDE DEF x, y
  <1>3. h = [st |-> g.st, game |-> x, main |-> g.main, past |-> g.past]
    BY <1>1, <1>2 DEF State
  <1>4. k = [st |-> g.st, game |-> x, main |-> g.main, past |-> g.past]
    BY WithGame
  <1> QED
    BY <1>3, <1>4 DEF x

LEMMA CallFinishSane ==
    ASSUME ScenesAssumption, Sane(scenes), CallFinish
    PROVE  Sane(scenes')
  <1> DEFINE run == scenes.main.run
             c == [fn |-> "finish2", tp |-> run.tp]
             x == [scenes.game EXCEPT !.tele = "none"]
             k == [Taken EXCEPT !.game = x]
             f == [scenes EXCEPT !.game = x]
             h == AsyncNext(k, c)
  <1>1. run.fn = "finish" /\ scenes' = [PerformTeleport(scenes) EXCEPT !.main.run = c]
    BY DEF CallFinish, Calls
  <1>2. /\ Clear(Taken) /\ ~IsAsyncPending(Taken) /\ Taken.game = scenes.game
        /\ Taken.st = scenes.st
        /\ Taken.main.at = scenes.main.at /\ Taken.main.due = scenes.main.due
        /\ scenes.game.tele # "none" /\ ~scenes.game.inn.on /\ run \in Conts
        /\ scenes.main.at = "setup" => scenes.game.tr.to /\ scenes.main.due /\ run.tp.default
    BY <1>1, TakenClear DEF Still, Has, Opening, ByDefault
  <1>3. run.tp \in TeleportParams /\ scenes \in State /\ scenes.game \in GameStates
        /\ InnKept(scenes)
    BY <1>1, <1>2, ContsOfFn, StateFields DEF Sane, Ready
  <1>4. c \in PlainConts /\ c.fn = "finish2" /\ c.tp = run.tp /\ c # NoCont
    BY <1>3, ContFacts, NoContFacts
  <1>5. x \in GameStates /\ x.inn = scenes.game.inn /\ x.tr = scenes.game.tr
        /\ x.file = scenes.game.file
    BY <1>3 DEF GameStates, Teles
  <1>6. PerformTeleport(scenes) = f
    BY <1>2, <1>3, UnaskedFacts
  <1> HIDE DEF x, c
  <1>7. Clear(k) /\ k.game = x /\ k.main = Taken.main /\ k.st = Taken.st
    BY <1>2, <1>3, <1>5, GameStep DEF InnKept
  <1>8. ~IsAsyncPending(k)
    BY <1>2, <1>5, <1>7, SameTop DEF IsAsyncPending, IsActive
  <1>9. Has(k, c) /\ (scenes.main.at = "setup" => Opening(k, c))
    BY <1>2, <1>4, <1>5, <1>7 DEF Has, Opening, ByDefault
  <1>10. Sane(h)
    <2> HIDE DEF k
    <2> QED
      BY <1>2, <1>4, <1>5, <1>7, <1>9, ClearNext
  <1>11. /\ h \in State /\ h.game = k.game /\ h.past = k.past /\ h.st = k.st
         /\ h.main = [k.main EXCEPT !.run = c]
    <2> HIDE DEF k
    <2>1. k \in State /\ k.main.me = "map" /\ k.st.cont["map"] = NoCont /\ "map" \in SceneTypes
      BY <1>7, MapFacts DEF Clear, Sane
    <2>2. c \in Conts /\ k.main.me \in SceneTypes /\ k.st.cont[k.main.me] = NoCont
      BY <1>4, <2>1, PlainContsOfFn
    <2>3. h = AsyncNext(k, c)
      OBVIOUS
    <2> HIDE DEF h
    <2> QED
      BY <1>4, <1>8, <2>1, <2>2, <2>3, NextFacts
  <1>12. Taken = [st |-> scenes.st, game |-> scenes.game, past |-> scenes.past,
                  main |-> [scenes.main EXCEPT !.run = NoCont]]
    BY <1>3, WithMain DEF Taken
  <1>13. k.past = scenes.past
    BY <1>12
  <1>14. h.main = [scenes.main EXCEPT !.run = c]
    BY <1>3, <1>7, <1>11, <1>12, StateFields DEF MainStates
  <1>15. f = [st |-> scenes.st, game |-> x, main |-> scenes.main, past |-> scenes.past]
    BY <1>3, WithGame
  <1>16. scenes' = [st |-> scenes.st, game |-> x, main |-> [scenes.main EXCEPT !.run = c],
            past |-> scenes.past]
    <2> HIDE DEF f
    <2>1. scenes' = [f EXCEPT !.main.run = c]
      BY <1>1, <1>6
    <2> QED
      BY <2>1, <1>15
  <1>17. scenes' = h
    <2> HIDE DEF h, k, f
    <2> QED
      BY <1>7, <1>11, <1>12, <1>13, <1>14, <1>16, StateFields
  <1> QED
    BY <1>10, <1>17

LEMMA CallQuickSane ==
    ASSUME ScenesAssumption, Sane(scenes), CallQuick
    PROVE  Sane(scenes')
  <1> DEFINE run == scenes.main.run
             c == scenes.game.inn.cont
             y == [scenes.game EXCEPT !.tele = "none"]
             f == [Taken EXCEPT !.game = y]
             x == [scenes.game EXCEPT !.tele = run.orig, !.inn.cont = NoCont]
             k == [Taken EXCEPT !.game = x]
  <1>2. /\ run.fn = "quick"
        /\ scenes' = LET g == PerformTeleport(Taken) IN
                      AsyncNext([g EXCEPT !.game.tele = run.orig, !.game.inn.cont = NoCont],
                                 g.game.inn.cont)
    BY DEF CallQuick, Calls
  <1>3. /\ Clear(Taken) /\ ~IsAsyncPending(Taken) /\ Taken.game = scenes.game
        /\ Taken.main.at = scenes.main.at
        /\ scenes.game.tele # "none" /\ ~scenes.game.inn.on /\ c # NoCont /\ run \in Conts
        /\ scenes.main.at # "setup"
    BY <1>2, TakenClear DEF Still, Has, Opening, ByDefault
  <1>4. run.orig \in Teles /\ Taken \in State /\ scenes.game \in GameStates /\ InnKept(scenes)
    BY <1>2, <1>3, ContsOfFn, StateFields DEF Clear, Sane, Ready
  <1>5. c \in PlainConts /\ c.fn \in Interrupted
    BY <1>3, <1>4, ContsOfFn, PlainContsOfFn DEF InnKept, GameStates
  <1>6. x \in GameStates /\ ~x.inn.on /\ x.inn.cont = NoCont
    BY <1>3, <1>4, NoContFacts DEF GameStates
  <1>7. PerformTeleport(Taken) = f
    BY <1>3, <1>4, UnaskedFacts
  <1>8. [f EXCEPT !.game.tele = run.orig, !.game.inn.cont = NoCont] = k /\ f.game.inn.cont = c
    <2> DEFINE z == [y EXCEPT !.tele = run.orig, !.inn.cont = NoCont]
    <2>1. z = x /\ y.inn.cont = c
      BY <1>4 DEF GameStates
    <2> HIDE DEF x, y
    <2>2. f = [st |-> Taken.st, game |-> y, main |-> Taken.main, past |-> Taken.past]
      BY <1>4, WithGame
    <2> HIDE DEF f
    <2> DEFINE w == [f.game EXCEPT !.tele = run.orig, !.inn.cont = NoCont]
               j == [f EXCEPT !.game = w]
    <2>3. [f EXCEPT !.game.tele = run.orig, !.game.inn.cont = NoCont] = j
      OBVIOUS
    <2>5. w = z
      BY <2>2
    <2> HIDE DEF w, z
    <2>6. j = [st |-> Taken.st, game |-> z, main |-> Taken.main, past |-> Taken.past]
      BY <2>2, <2>5
    <2>4. k = [st |-> Taken.st, game |-> x, main |-> Taken.main, past |-> Taken.past]
      BY <1>4, WithGame
    <2> HIDE DEF k, j
    <2> QED
      BY <2>1, <2>2, <2>3, <2>4, <2>6
  <1>9. scenes' = AsyncNext(k, c)
    BY <1>2, <1>7, <1>8
  <1> HIDE DEF x
  <1>10. Clear(k) /\ k.game = x /\ k.main = Taken.main
    BY <1>3, <1>4, <1>6, NoContFacts, GameStep
  <1> HIDE DEF k, c
  <1>11. Has(k, c)
    BY <1>5, <1>6, <1>10, InterruptedFacts
  <1> QED
    BY <1>3, <1>5, <1>9, <1>10, <1>11, ClearNext

LEMMA CallTransitionInSane ==
    ASSUME Sane(scenes), CallTransitionIn
    PROVE  Sane(scenes')
  <1> DEFINE g == Taken
             h == InitShow(Taken)
  <1>1. scenes.main.run.fn = "transition_in" /\ scenes' \in {g, h}
    BY DEF CallTransitionIn, Calls
  <1>2. /\ Sane(g) /\ g.st = scenes.st /\ g.game = scenes.game /\ g.past = scenes.past
        /\ g.main.me = scenes.main.me /\ g.main.at = scenes.main.at /\ g.main.due = scenes.main.due
        /\ g.main.run = NoCont /\ (IsAsyncPending(g) <=> IsAsyncPending(scenes))
    BY TakenSane DEF Taken
  <1>3. scenes.main.run # NoCont /\ scenes.st.cont[scenes.main.me] = NoCont /\ ~IsAsyncPending(g)
        /\ ~IsActive(g)
    BY <1>1, <1>2, NoContFacts DEF Sane, OneCont, IsAsyncPending
  <1>4. /\ h \in State /\ h.st = g.st /\ h.main = g.main /\ h.past = g.past
        /\ h.game = [g.game EXCEPT !.tr = [to |-> FALSE,
           frames |-> IF g.game.tr.to /\ FALSE THEN 0 ELSE 1]]
    <2>1. g \in State /\ h = Transit(g, FALSE)
      BY <1>2 DEF Sane, InitShow
    <2> HIDE DEF g, h
    <2> QED
      BY <1>3, <2>1, TransitFacts
  <1>5. h.game.inn = g.game.inn /\ h.game.tele = g.game.tele
    BY <1>2, <1>4, StateFields DEF Sane, GameStates
  <1>6. Top(h) = Top(scenes)
    BY <1>2, <1>4, SameTop
  <1> HIDE DEF g, h
  <1>7. FrameOf(h)
    BY <1>1, <1>2, <1>3, <1>4, <1>6, NoContFacts DEF Sane, FrameOf, Still
  <1>8. OneCont(h)
    BY <1>2, <1>3, <1>4, NoContFacts DEF Sane, OneCont, Still
  <1>9. Ready(h)
    BY <1>2, <1>4, <1>5, NoContFacts DEF Sane, Ready, Has, Still, InnKept
  <1>10. Settled(h)
    BY <1>1, <1>2, <1>3, <1>4, <1>5, <1>6, NoContFacts DEF Sane, Settled, Still
  <1>11. SettingUp(h) /\ Drawn(h) /\ Clean(h)
    BY <1>2, <1>4, <1>6, NoContFacts DEF Sane, SettingUp, Drawn, Still, Clean
  <1>12. Sane(h)
    BY <1>4, <1>7, <1>8, <1>9, <1>10, <1>11 DEF Sane
  <1> QED
    BY <1>1, <1>2, <1>12

\* A step of MainFunction that changes the call stack and the continuations that are kept.
LEMMA MainStep ==
    ASSUME NEW g \in State, NEW c \in [SceneTypes -> Conts], NEW m \in MainStates,
           NEW h, h = [st |-> [g.st EXCEPT !.cont = c], game |-> g.game, main |-> m,
              past |-> g.past]
    PROVE  /\ h \in State /\ h.st.stack = g.st.stack /\ h.st.init = g.st.init
           /\ h.st.current = g.st.current /\ h.st.delay = g.st.delay /\ h.st.cont = c
           /\ h.game = g.game /\ h.main = m /\ h.past = g.past
           /\ Top(h) = Top(g) /\ (IsAsyncPending(h) <=> IsAsyncPending(g))
           /\ (IsActive(h) <=> IsActive(g))
  <1>1. /\ h.st \in StackStates /\ h.st.stack = g.st.stack /\ h.st.init = g.st.init
        /\ h.st.current = g.st.current /\ h.st.delay = g.st.delay /\ h.st.cont = c
    BY StateFields DEF StackStates
  <1>2. h \in State /\ h.game = g.game /\ h.main = m /\ h.past = g.past
    BY <1>1, StateFields
  <1>3. Top(h) = Top(g)
    BY <1>1, SameTop
  <1> QED
    BY <1>1, <1>2, <1>3 DEF IsAsyncPending, IsActive

LEMMA SameConts ==
    ASSUME NEW g \in State
    PROVE  /\ g.st.cont \in [SceneTypes -> Conts] /\ [g.st EXCEPT !.cont = g.st.cont] = g.st
           /\ g.st.stack \in Stacks /\ g.main \in MainStates
  BY StateFields DEF StackStates

LEMMA CallThenSane ==
    ASSUME Sane(scenes), CallThen
    PROVE  Sane(scenes')
  <1> DEFINE run == scenes.main.run
             m == [scenes.main EXCEPT !.run = run.first, !.due = TRUE]
             h == [st |-> [scenes.st EXCEPT !.cont = scenes.st.cont], game |-> scenes.game,
                   main |-> m, past |-> scenes.past]
  <1>1. run.fn = "then" /\ scenes' = [scenes EXCEPT !.main = m]
    BY DEF CallThen, Calls
  <1>2. scenes \in State /\ scenes.main \in MainStates /\ run \in Conts
    BY StateFields DEF Sane, MainStates
  <1>3. run.first \in PlainConts /\ run.first \in Conts /\ Plain(run) = run.first
        /\ Plain(run.first) = run.first
        /\ run.first.fn # "then"
    BY <1>1, <1>2, ContsOfFn, PlainContsOfFn DEF Plain
  <1>4. /\ m \in MainStates /\ m.me = scenes.main.me /\ m.at = scenes.main.at /\ m.due
        /\ m.run = run.first
    BY <1>2, <1>3 DEF MainStates
  <1> HIDE DEF m
  <1>5. scenes' = h
    BY <1>1, <1>2, WithMain, SameConts
  <1>6. /\ h \in State /\ h.st = scenes.st
        /\ h.game = scenes.game /\ h.main = m /\ h.past = scenes.past
        /\ Top(h) = Top(scenes) /\ (IsAsyncPending(h) <=> IsAsyncPending(scenes))
    BY <1>2, <1>4, SameConts, MainStep
  <1> HIDE DEF h
  <1>7. /\ run # NoCont /\ run.fn \notin Still /\ scenes.main.at = "finished" /\ ~scenes.main.due
        /\ scenes.main.me = "map" /\ Top(scenes) = "map" /\ scenes.st.cont["map"] = NoCont
        /\ ~IsAsyncPending(scenes)
    BY <1>1, NoContFacts DEF Sane, OneCont, Still
  <1>8. scenes.st.init
    BY <1>7 DEF Sane, Settled
  <1>9. FrameOf(h) /\ OneCont(h)
    BY <1>3, <1>4, <1>6, <1>7, NoContFacts DEF Sane, FrameOf, OneCont, Still
  <1>10. Ready(h)
    BY <1>3, <1>4, <1>6, <1>7 DEF Sane, Ready, InnKept, Has
  <1>11. Settled(h)
    BY <1>4, <1>6, <1>7, <1>8, MapFacts DEF Settled
  <1>12. SettingUp(h) /\ Drawn(h) /\ Clean(h)
    BY <1>4, <1>6, <1>7 DEF Sane, SettingUp, Drawn, Clean
  <1> QED
    BY <1>5, <1>6, <1>9, <1>10, <1>11, <1>12 DEF Sane

LEMMA OnFinishAsyncSane ==
    ASSUME Sane(scenes), OnFinishAsync
    PROVE  Sane(scenes')
  <1> DEFINE t == Top(scenes)
             c == [scenes.st.cont EXCEPT ![t] = NoCont]
             m == [me |-> t, run |-> scenes.st.cont[t], due |-> FALSE, at |-> "finished"]
             h == [st |-> [scenes.st EXCEPT !.cont = c], game |-> scenes.game,
                   main |-> m, past |-> scenes.past]
  <1>1. /\ scenes.main.at = "idle" /\ ~IsAsyncPending(scenes) /\ scenes \in State
        /\ t \in SceneTypes
        /\ t \notin {"title", "map"} <=> t \in Called
    BY TopFacts DEF OnFinishAsync, Sane
  <1>2. scenes' = h
    <2>1. scenes' = [[scenes EXCEPT !.st = [scenes.st EXCEPT !.cont = c]] EXCEPT !.main = m]
      BY DEF OnFinishAsync
    <2> HIDE DEF c, m, t
    <2> QED
      BY <1>1, <2>1 DEF State
  <1>3. /\ c \in [SceneTypes -> Conts] /\ m \in MainStates
        /\ \A s \in SceneTypes : c[s] = IF s = t THEN NoCont ELSE scenes.st.cont[s]
        /\ m.me = t /\ m.run = scenes.st.cont[t] /\ ~m.due /\ m.at = "finished"
    BY <1>1, NoContFacts, SameConts DEF MainStates
  <1>4. /\ h \in State /\ h.st.init = scenes.st.init
        /\ h.st.current = scenes.st.current /\ h.st.cont = c
        /\ h.game = scenes.game /\ h.main = m /\ h.past = scenes.past
        /\ Top(h) = t /\ ~IsAsyncPending(h)
    <2> HIDE DEF c, m
    <2> QED
      BY <1>1, <1>3, MainStep
  <1>5. scenes.main.me = "none" /\ scenes.main.run = NoCont /\ ~scenes.main.due
    BY <1>1 DEF Sane, FrameOf
  <1>6. \A s \in SceneTypes \ {"map"} : c[s] = NoCont /\ scenes.st.cont[s] = NoCont
    BY <1>3 DEF Sane, FrameOf
  <1> HIDE DEF c, m, h, t
  <1>7. FrameOf(h)
    BY <1>1, <1>3, <1>4, <1>6, NoContFacts, MapFacts DEF FrameOf, Still
  <1>8. OneCont(h)
    BY <1>1, <1>3, <1>4, <1>6, NoContFacts, MapFacts DEF OneCont, Still
  <1>9. Ready(h)
    <2>1. Has(h, NoCont) /\ Has(h, Plain(scenes.st.cont["map"])) /\ InnKept(h)
      BY <1>4, NoContFacts DEF Sane, Ready, Has, InnKept, Still
    <2>2. m.run \in {NoCont, scenes.st.cont["map"]} /\ c["map"] \in {NoCont, scenes.st.cont["map"]}
      BY <1>1, <1>3, <1>6, MapFacts
    <2> QED
      BY <1>4, <2>1, <2>2, NoContFacts DEF Ready
  <1>10. Settled(h)
    <2>1. ASSUME t # "title", t \in Called \/ ~scenes.st.init
          PROVE  scenes.st.cont["map"] = NoCont /\ ~scenes.game.inn.on
      BY <1>1, <1>5, <2>1 DEF Sane, Settled, t
    <2>2. ASSUME t # "title", t \in Called \/ ~scenes.st.init
          PROVE  m.run = NoCont /\ c["map"] = NoCont
      BY <2>2, <1>1, <1>3, <1>6, <2>1, MapFacts
    <2>3. t = "map" /\ ~scenes.st.init => scenes.game.tr.to
      BY <1>1, <1>5 DEF Sane, Settled, t
    <2> QED
      BY <1>1, <1>3, <1>4, <2>1, <2>2, <2>3, NoContFacts, MapFacts DEF Settled, Still
  <1>11. SettingUp(h) /\ Drawn(h) /\ Clean(h)
    BY <1>1, <1>3, <1>4, <1>5, MapFacts DEF Sane, SettingUp, Drawn, Clean, t
  <1> QED
    BY <1>2, <1>4, <1>7, <1>8, <1>9, <1>10, <1>11 DEF Sane

LEMMA CallScheduleSane ==
    ASSUME Sane(scenes), CallSchedule
    PROVE  Sane(scenes')
  <1> DEFINE m == [scenes.main EXCEPT !.due = FALSE]
             k == [scenes EXCEPT !.main = m]
             me == scenes.main.me
             cont == scenes.st.cont
  <1>1. /\ scenes.main.run.fn = "none" /\ scenes.main.due /\ scenes' = ScheduleTransitionIn(k)
        /\ scenes \in State /\ scenes.main \in MainStates /\ me # "none" /\ scenes.main.at # "idle"
    BY StateFields DEF CallSchedule, Calls, Sane, FrameOf
  <1>2. me \in SceneTypes /\ scenes.main.run = NoCont /\ cont \in [SceneTypes -> Conts]
    BY <1>1, ContsOfFn, SameConts DEF MainStates
  <1>3. /\ m \in MainStates /\ m.me = me /\ m.run = NoCont /\ ~m.due /\ m.at = scenes.main.at
    BY <1>1, <1>2 DEF MainStates
  <1> HIDE DEF m
  <1>4. /\ k = [st |-> scenes.st, game |-> scenes.game, main |-> m, past |-> scenes.past]
        /\ k \in State /\ k.st = scenes.st /\ k.game = scenes.game /\ k.main = m
        /\ k.past = scenes.past
    BY <1>1, <1>3, WithMain, StateFields
  <1>5. /\ Top(k) = Top(scenes) /\ (IsAsyncPending(k) <=> IsAsyncPending(scenes))
        /\ (IsActive(k) <=> IsActive(scenes))
    BY <1>4, SameTop DEF IsAsyncPending, IsActive
  <1>6. Sane(k)
    <2>1. FrameOf(k) /\ OneCont(k)
      BY <1>1, <1>2, <1>3, <1>4, <1>5, NoContFacts DEF Sane, FrameOf, OneCont, Still
    <2>2. Ready(k) /\ Settled(k) /\ Clean(k)
      BY <1>1, <1>2, <1>3, <1>4, <1>5, NoContFacts DEF Sane, Ready, Has, InnKept, Settled, Still,
         Clean
    <2>3. SettingUp(k) /\ Drawn(k)
      BY <1>1, <1>2, <1>3, <1>4, <1>5, NoContFacts DEF Sane, SettingUp, Drawn, Still
    <2> QED
      BY <1>4, <2>1, <2>2, <2>3 DEF Sane
  <1>7. /\ me # "map" => ~IsAsyncPending(scenes) /\ scenes.main.at = "setup" /\ cont[me] = NoCont
        /\ Top(scenes) \in Called => ~IsAsyncPending(scenes)
        /\ Top(scenes) = "map" /\ me = "map" => scenes.st.init \/ scenes.main.at = "setup"
        /\ me = "map" /\ cont["map"] # NoCont => IsAsyncPending(scenes) /\ cont["map"].fn # "then"
    BY <1>1, <1>2 DEF Sane, FrameOf, Settled, OneCont
  <1>11. Top(scenes) \in {"title", "map"} \/ Top(scenes) \in Called
    BY <1>1, TopFacts
  <1>8. CASE ~IsErasedNotActive(k)
    BY <1>1, <1>6, <1>8 DEF ScheduleTransitionIn
  <1>9. CASE IsErasedNotActive(k) /\ cont[me] # NoCont
    <2> DEFINE c0 == [cont EXCEPT !["map"] = NoCont]
               c1 == [cont EXCEPT !["map"] = [fn |-> "then", first |-> cont["map"]]]
               g == [k EXCEPT !.st = [k.st EXCEPT !.cont = c0]]
               w == [fn |-> "then", first |-> cont["map"]]
               h == AsyncNext(g, w)
    <2>1. me = "map" /\ IsAsyncPending(k) /\ cont["map"] # NoCont /\ cont["map"].fn # "then"
      BY <1>5, <1>7, <1>9
    <2>2. scenes' = h
      BY <1>1, <1>3, <1>4, <1>9, <2>1 DEF ScheduleTransitionIn
    <2>3. cont["map"] \in PlainConts /\ w \in Conts /\ w.fn = "then" /\ w # NoCont
          /\ Plain(w) = cont["map"]
          /\ Plain(cont["map"]) = cont["map"]
      BY <1>2, <2>1, ContsOfFn, NoContFacts, MapFacts DEF Conts, Plain
    <2>4. /\ c0 \in [SceneTypes -> Conts] /\ c0["map"] = NoCont
          /\ [c0 EXCEPT !["map"] = w] = c1 /\ c1["map"] = w
          /\ \A t \in SceneTypes \ {"map"} : c1[t] = cont[t]
      BY <1>2, <2>3, NoContFacts, MapFacts
    <2> HIDE DEF c0, c1, w
    <2>5. /\ g \in State /\ g.st.stack = scenes.st.stack /\ g.st.init = scenes.st.init
          /\ g.st.current = scenes.st.current /\ g.st.delay = scenes.st.delay /\ g.st.cont = c0
          /\ g.game = scenes.game /\ g.main = m /\ g.past = scenes.past
          /\ Top(g) = Top(k) /\ (IsAsyncPending(g) <=> IsAsyncPending(k))
      <3>1. g = [st |-> [k.st EXCEPT !.cont = c0], game |-> k.game, main |-> k.main,
               past |-> k.past]
        BY <1>4, WithSt
      <3> HIDE DEF g, k
      <3> QED
        BY <1>3, <1>4, <2>4, <3>1, MainStep
    <2> HIDE DEF g
    <2>6. /\ h \in State /\ h.game = g.game /\ h.past = g.past /\ h.main = g.main
          /\ h.st.stack = g.st.stack /\ h.st.init = g.st.init
          /\ h.st.current = g.st.current /\ h.st.delay = g.st.delay
          /\ h.st.cont = [g.st.cont EXCEPT ![g.main.me] = w]
      <3>1. g.st.cont[g.main.me] = NoCont /\ g.main.me \in SceneTypes /\ IsAsyncPending(g)
        BY <1>2, <1>3, <2>1, <2>4, <2>5
      <3>2. h = AsyncNext(g, w)
        OBVIOUS
      <3>3. g \in State /\ w \in Conts /\ w # NoCont
        BY <2>3, <2>5
      <3> HIDE DEF h, k, me, cont
      <3> QED
        BY <3>1, <3>2, <3>3, NextPending
    <2>7. /\ h.st.stack = scenes.st.stack /\ h.st.init = scenes.st.init
          /\ h.st.current = scenes.st.current /\ h.st.delay = scenes.st.delay /\ h.st.cont = c1
          /\ h.main = m
      BY <1>3, <2>1, <2>4, <2>5, <2>6
    <2>8. Top(h) = Top(scenes) /\ (IsAsyncPending(h) <=> IsAsyncPending(scenes))
      BY <2>5, <2>6, <2>7, SameTop DEF IsAsyncPending, IsActive
    <2> HIDE DEF h
    <2>9. FrameOf(h)
      BY <1>1, <1>3, <2>1, <2>4, <2>6, <2>7, <2>8, NoContFacts DEF Sane, FrameOf
    <2>10. OneCont(h)
      BY <1>3, <1>5, <2>1, <2>3, <2>4, <2>6, <2>7, <2>8, NoContFacts DEF OneCont, Still
    <2>11. Ready(h)
      BY <1>2, <1>3, <2>3, <2>4, <2>5, <2>6, <2>7 DEF Sane, Ready, Has, InnKept
    <2>12. Settled(h)
      <3> HIDE DEF k
      <3> QED
        BY <1>3, <1>5, <1>7, <1>11, <2>1, <2>5, <2>6, <2>7, <2>8, MapFacts DEF Settled
    <2>13. SettingUp(h) /\ Drawn(h) /\ Clean(h)
      BY <1>2, <1>3, <2>5, <2>6, <2>7, <2>8, NoContFacts DEF Sane, SettingUp, Drawn, Clean, Still
    <2> QED
      BY <2>2, <2>6, <2>9, <2>10, <2>11, <2>12, <2>13 DEF Sane
  <1>10. CASE IsErasedNotActive(k) /\ cont[me] = NoCont
    <2> DEFINE w == [fn |-> "transition_in"]
               h == AsyncNext(k, w)
    <2>1. scenes' = h
      BY <1>1, <1>3, <1>4, <1>10 DEF ScheduleTransitionIn
    <2>2. w \in PlainConts /\ w \in Conts /\ w.fn = "transition_in" /\ w # NoCont /\ Plain(w) = w
      BY ContFacts, PlainContsOfFn, NoContFacts
    <2> HIDE DEF w
    <2>3. /\ h \in State /\ h.game = scenes.game /\ h.past = scenes.past
          /\ IsAsyncPending(k) => h.main = m /\ h.st = [scenes.st EXCEPT !.cont[me] = w]
          /\ ~IsAsyncPending(k) => h.st = scenes.st /\ h.main = [m EXCEPT !.run = w]
      <3>1. k.main.me \in SceneTypes /\ k.st.cont[k.main.me] = NoCont
        BY <1>2, <1>3, <1>4, <1>10
      <3>2. h = AsyncNext(k, w)
        OBVIOUS
      <3> HIDE DEF h, k
      <3> QED
        BY <1>3, <1>4, <2>2, <3>1, <3>2, NextFacts
    <2>4. /\ h.st.stack = scenes.st.stack /\ h.st.init = scenes.st.init
          /\ h.st.current = scenes.st.current /\ h.st.delay = scenes.st.delay
          /\ h.st.cont = IF IsAsyncPending(k) THEN [cont EXCEPT ![me] = w] ELSE cont
          /\ h.main.me = me /\ h.main.at = scenes.main.at /\ ~h.main.due
          /\ h.main.run = IF IsAsyncPending(k) THEN NoCont ELSE w
      <3> HIDE DEF h, k
      <3> QED
        BY <1>1, <1>3, <2>3, StateFields DEF StackStates, MainStates
    <2>5. Top(h) = Top(scenes) /\ (IsAsyncPending(h) <=> IsAsyncPending(k))
          /\ (IsActive(h) <=> IsActive(k))
      BY <1>5, <2>3, <2>4, SameTop DEF IsAsyncPending, IsActive
    <2> HIDE DEF h
    <2>6. /\ h.st.cont["map"] = IF IsAsyncPending(k) /\ me = "map" THEN w ELSE cont["map"]
          /\ \A t \in SceneTypes \ {"map"} : h.st.cont[t] = cont[t]
          /\ h.st.cont[me] = IF IsAsyncPending(k) THEN w ELSE NoCont
      BY <1>2, <1>5, <1>7, <1>10, <2>4, MapFacts
    <2>7. FrameOf(h)
      BY <1>1, <1>5, <1>7, <2>2, <2>4, <2>5, <2>6, NoContFacts DEF Sane, FrameOf, Still
    <2>8. OneCont(h)
      BY <1>5, <1>7, <2>2, <2>4, <2>5, <2>6, NoContFacts DEF OneCont, Still
    <2>9. Ready(h)
      <3>1. Has(h, NoCont) /\ Has(h, w) /\ InnKept(h) /\ Has(h, Plain(cont["map"]))
        BY <2>2, <2>3, NoContFacts DEF Sane, Ready, Has, InnKept, Still
      <3> QED
        BY <2>2, <2>4, <2>6, <3>1, NoContFacts DEF Ready
    <2>10. Settled(h)
      <3> HIDE DEF k
      <3> QED
        BY <1>1, <1>5, <1>7, <1>11, <2>2, <2>3, <2>4, <2>5, <2>6, NoContFacts, MapFacts DEF Sane,
           Settled, Still
    <2>11. SettingUp(h) /\ Drawn(h) /\ Clean(h)
      BY <1>1, <1>2, <2>2, <2>3, <2>4, <2>5, NoContFacts DEF Sane, SettingUp, Drawn, Clean, Still
    <2> QED
      BY <2>1, <2>3, <2>7, <2>8, <2>9, <2>10, <2>11 DEF Sane
  <1> QED
    BY <1>8, <1>9, <1>10

-----------------------------------------------------------------------------
(* The stages of MainFunction.                                             *)

LEMMA FileArrivesSane ==
    ASSUME Sane(scenes), FileArrives
    PROVE  Sane(scenes')
  <1> DEFINE x == [scenes.game EXCEPT !.file = FALSE]
             h == [scenes EXCEPT !.game = x]
  <1>1. /\ scenes' = h /\ scenes \in State /\ scenes.game \in GameStates
        /\ scenes.main.at = "idle" /\ scenes.main.me = "none"
        /\ scenes.main.run = NoCont /\ ~scenes.main.due
    BY StateFields DEF FileArrives, Sane, FrameOf
  <1>2. /\ x \in GameStates /\ x.inn = scenes.game.inn /\ x.tr = scenes.game.tr
        /\ x.tele = scenes.game.tele
    BY <1>1 DEF GameStates
  <1> HIDE DEF x
  <1>3. /\ h \in State /\ h.st = scenes.st /\ h.game = x /\ h.main = scenes.main
        /\ h.past = scenes.past
        /\ Top(h) = Top(scenes)
    BY <1>1, <1>2, WithGame, StateFields, SameTop
  <1> HIDE DEF h
  <1>4. FrameOf(h) /\ OneCont(h)
    BY <1>1, <1>3, NoContFacts DEF Sane, FrameOf, OneCont, Still
  <1>5. Ready(h) /\ Settled(h)
    BY <1>1, <1>2, <1>3, NoContFacts DEF Sane, Ready, Has, InnKept, Settled, Still
  <1>6. SettingUp(h) /\ Drawn(h) /\ Clean(h)
    BY <1>1, <1>3 DEF Sane, SettingUp, Drawn, Clean
  <1> QED
    BY <1>1, <1>3, <1>4, <1>5, <1>6 DEF Sane

\* A transition or a delay that goes on, when MainFunction does nothing else.
LEMMA IdleStep ==
    ASSUME NEW g, Sane(g), g.main.at = "idle", NEW h \in State,
           h.st.stack = g.st.stack, h.st.cont = g.st.cont, h.st.init = g.st.init,
           h.st.current = g.st.current, h.main = g.main, h.past = g.past,
           h.game.inn = g.game.inn, h.game.tele = g.game.tele, h.game.tr.to = g.game.tr.to
    PROVE  Sane(h)
  <1>1. Top(h) = Top(g) /\ g.main.me = "none" /\ g.main.run = NoCont /\ ~g.main.due
    BY SameTop DEF Sane, FrameOf
  <1>2. FrameOf(h) /\ OneCont(h)
    BY <1>1, NoContFacts DEF Sane, FrameOf, OneCont, Still
  <1>3. Ready(h) /\ Settled(h)
    BY <1>1, NoContFacts DEF Sane, Ready, Has, InnKept, Settled, Still
  <1>4. SettingUp(h) /\ Drawn(h) /\ Clean(h)
    BY <1>1 DEF Sane, SettingUp, Drawn, Clean
  <1> QED
    BY <1>2, <1>3, <1>4 DEF Sane

LEMMA TickSane ==
    ASSUME ScenesAssumption, Sane(scenes), Tick
    PROVE  Sane(scenes')
  <1> DEFINE t == Top(scenes)
             d == IF scenes.st.delay[t] > 0 THEN scenes.st.delay[t] - 1 ELSE 0
             h == IF IsActive(scenes) THEN [scenes EXCEPT !.game.tr.frames = @ - 1]
                  ELSE [scenes EXCEPT !.st.delay[t] = IF @ > 0 THEN @ - 1 ELSE 0]
  <1>1. scenes' = h /\ scenes.main.at = "idle" /\ scenes \in State /\ t \in SceneTypes
    BY TopFacts DEF Tick, PlayerUpdate, Sane
  <1>2. CASE IsActive(scenes)
    <2> DEFINE x == [scenes.game EXCEPT !.tr.frames = @ - 1]
    <2>1. scenes' = [scenes EXCEPT !.game = x]
      BY <1>1, <1>2
    <2>2. scenes.game \in GameStates /\ scenes.game.tr.frames = 1
      BY <1>1, <1>2, StateFields DEF GameStates, IsActive
    <2>3. /\ x \in GameStates /\ x.inn = scenes.game.inn /\ x.tele = scenes.game.tele
          /\ x.tr.to = scenes.game.tr.to
      BY <2>2 DEF GameStates
    <2> HIDE DEF x, h
    <2>4. /\ scenes' \in State /\ scenes'.st = scenes.st /\ scenes'.game = x
          /\ scenes'.main = scenes.main /\ scenes'.past = scenes.past
      BY <1>1, <2>1, <2>3, WithGame, StateFields
    <2> QED
      BY <1>1, <2>3, <2>4, IdleStep
  <1>3. CASE ~IsActive(scenes)
    <2> DEFINE x == [scenes.st EXCEPT !.delay[t] = d]
    <2>1. scenes' = [scenes EXCEPT !.st = x]
      BY <1>1, <1>3
    <2>2. scenes.st \in StackStates /\ d \in 0..(StartDelay + TitleDelay)
      BY <1>1, StateFields DEF StackStates, ScenesAssumption
    <2> HIDE DEF d, h, t
    <2>3. /\ x \in StackStates /\ x.stack = scenes.st.stack /\ x.cont = scenes.st.cont
          /\ x.init = scenes.st.init /\ x.current = scenes.st.current
      BY <1>1, <2>2 DEF StackStates
    <2> HIDE DEF x
    <2>4. /\ scenes' \in State /\ scenes'.st = x /\ scenes'.game = scenes.game
          /\ scenes'.main = scenes.main /\ scenes'.past = scenes.past
      BY <1>1, <2>1, <2>3, WithSt, StateFields
    <2> QED
      BY <1>1, <2>3, <2>4, IdleStep
  <1> QED
    BY <1>2, <1>3

LEMMA ReturnedFacts ==
    /\ Returned \in MainStates /\ Returned.me = "none" /\ Returned.run = NoCont
    /\ ~Returned.due /\ Returned.at = "idle"
  BY NoContFacts DEF Returned, MainStates

LEMMA IsSetUpSane ==
    ASSUME Sane(scenes), IsSetUp
    PROVE  Sane(scenes')
  <1> DEFINE x == [scenes.st EXCEPT !.started = @ \cup {scenes.main.me}, !.pushpop = "none",
         !.init = TRUE]
  <1>1. /\ scenes.main.at = "setup" /\ scenes.main.run.fn = "none" /\ ~scenes.main.due
        /\ scenes' = [scenes EXCEPT !.st.started = @ \cup {scenes.main.me}, !.st.pushpop = "none",
                                    !.st.init = TRUE, !.main = Returned]
        /\ scenes \in State /\ scenes.st \in StackStates /\ scenes.main \in MainStates
        /\ scenes.main.me # "none"
    BY StateFields DEF IsSetUp, Returns, Calls, Sane, FrameOf
  <1>2. scenes.main.me \in SceneTypes
    BY <1>1 DEF MainStates
  <1>3. /\ x \in StackStates /\ x.stack = scenes.st.stack /\ x.cont = scenes.st.cont
        /\ x.current = scenes.st.current /\ x.init
    BY <1>1, <1>2 DEF StackStates
  <1>4. scenes' = [[scenes EXCEPT !.st = x] EXCEPT !.main = Returned]
    BY <1>1
  <1> HIDE DEF x
  <1> DEFINE h == [st |-> x, game |-> scenes.game, main |-> Returned, past |-> scenes.past]
  <1>5. scenes' = h
    BY <1>1, <1>4 DEF State
  <1>6. /\ h \in State /\ h.st = x /\ h.game = scenes.game /\ h.main = Returned
        /\ h.past = scenes.past
        /\ Top(h) = Top(scenes)
    BY <1>1, <1>3, <1>5, ReturnedFacts, StateFields, SameTop
  <1> HIDE DEF h
  <1>7. FrameOf(h) /\ OneCont(h)
    BY <1>3, <1>6, ReturnedFacts, NoContFacts DEF Sane, FrameOf, OneCont, Still
  <1>8. Ready(h) /\ Settled(h)
    BY <1>1, <1>3, <1>6, ReturnedFacts, NoContFacts DEF Sane, Ready, Has, InnKept, Settled, Still
  <1>9. SettingUp(h) /\ Drawn(h) /\ Clean(h)
    BY <1>1, <1>3, <1>6, ReturnedFacts DEF Sane, SettingUp, Drawn, Clean
  <1> QED
    BY <1>5, <1>6, <1>7, <1>8, <1>9 DEF Sane

\* The state of its four parts.
LEMMA Assembled ==
    ASSUME NEW x \in StackStates, NEW y \in GameStates, NEW m \in MainStates, NEW p \in Pasts,
           NEW h, h = [st |-> x, game |-> y, main |-> m, past |-> p]
    PROVE  h \in State /\ h.st = x /\ h.game = y /\ h.main = m /\ h.past = p
  BY DEF State

\* A scene is set up with a call of run, or with none.
LEMMA SetUpWith ==
    ASSUME NEW g, Sane(g), g.main.at = "finished", g.main.run = NoCont, ~g.main.due,
           ~IsAsyncPending(g), g.main.me # "none", Top(g) = g.main.me, ~g.st.init,
           NEW run \in PlainConts, run = NoCont \/ (g.main.me = "map" /\ ByDefault(run)),
           run.fn = "finish" => g.game.tele # "none", run.fn \in {"none", "start2", "finish"},
           NEW h \in State, h.game = g.game, h.past = g.past, h.st.stack = g.st.stack,
           h.st.cont = g.st.cont, h.st.delay = g.st.delay, h.st.init = g.st.init,
           h.st.current = g.main.me, h.main.me = g.main.me, h.main.run = run, h.main.due,
           h.main.at = "setup"
    PROVE  Sane(h)
  <1>1. /\ g \in State /\ g.main \in MainStates /\ run \in Conts /\ Plain(run) = run
    BY StateFields, PlainContsOfFn DEF Sane
  <1>2. g.main.me \in SceneTypes /\ run.fn # "then"
    BY <1>1 DEF MainStates
  <1>6. Top(h) = Top(g) /\ ~IsAsyncPending(h)
    BY SameTop DEF IsAsyncPending, IsActive
  <1>7. g.main.me # "title" => g.st.cont["map"] = NoCont /\ ~g.game.inn.on
    BY <1>1, <1>2, TopFacts DEF Sane, Settled
  <1>8. g.main.me = "map" => g.game.tr.to
    BY DEF Sane, Settled
  <1>9. FrameOf(h)
    BY <1>2, <1>6, NoContFacts DEF Sane, FrameOf, Still, IsAsyncPending
  <1>10. OneCont(h)
    BY <1>2, <1>6, <1>7, NoContFacts DEF Sane, FrameOf, OneCont, Still
  <1>11. Ready(h)
    <2>1. Has(h, run)
      BY <1>2, <1>6, <1>7, NoContFacts DEF Has, Still
    <2> QED
      BY <1>1, <2>1 DEF Sane, Ready, Has, InnKept
  <1>12. Settled(h)
    BY <1>2, <1>6, <1>7, NoContFacts, MapFacts DEF Sane, Settled, Still
  <1>13. SettingUp(h) /\ Drawn(h)
    BY <1>6, <1>8, NoContFacts DEF SettingUp, Drawn, Opening, Still
  <1>14. Clean(h)
    BY DEF Sane, Clean
  <1> QED
    BY <1>9, <1>10, <1>11, <1>12, <1>13, <1>14 DEF Sane

\* What the states of SetUp are made of.
LEMMA SettingFacts ==
    ASSUME NEW g \in State, NEW run \in Conts, g.main.me \in SceneTypes,
           NEW h, h = [st |-> [g.st EXCEPT !.current = g.main.me], game |-> g.game, past |-> g.past,
                       main |-> [me |-> g.main.me, run |-> run, due |-> TRUE, at |-> "setup"]]
    PROVE  /\ h \in State /\ h.game = g.game /\ h.past = g.past /\ h.st.stack = g.st.stack
           /\ h.st.cont = g.st.cont /\ h.st.delay = g.st.delay /\ h.st.init = g.st.init
           /\ h.st.current = g.main.me /\ h.main.me = g.main.me /\ h.main.run = run /\ h.main.due
           /\ h.main.at = "setup" /\ h.st.pushpop = g.st.pushpop /\ h.st.started = g.st.started
  <1> DEFINE x == [g.st EXCEPT !.current = g.main.me]
             m == [me |-> g.main.me, run |-> run, due |-> TRUE, at |-> "setup"]
             k == [st |-> x, game |-> g.game, main |-> m, past |-> g.past]
  <1>1. g.st \in StackStates /\ g.game \in GameStates /\ g.past \in Pasts
    BY StateFields
  <1>3. /\ x \in StackStates /\ x.stack = g.st.stack /\ x.cont = g.st.cont
        /\ x.delay = g.st.delay /\ x.init = g.st.init /\ x.current = g.main.me
        /\ x.pushpop = g.st.pushpop /\ x.started = g.st.started
    BY <1>1 DEF StackStates
  <1>4. m \in MainStates /\ m.me = g.main.me /\ m.run = run /\ m.due /\ m.at = "setup"
    BY DEF MainStates
  <1>5. h = k
    OBVIOUS
  <1> HIDE DEF x, m
  <1>6. k \in State /\ k.st = x /\ k.game = g.game /\ k.main = m /\ k.past = g.past
    <2>1. \A y \in GameStates, p \in Pasts :
            LET j == [st |-> x, game |-> y, main |-> m, past |-> p]
            IN  j \in State /\ j.st = x /\ j.game = y /\ j.main = m /\ j.past = p
      BY <1>3, <1>4, Assembled
    <2> QED
      BY <1>1, <2>1
  <1> HIDE DEF k
  <1> QED
    BY <1>3, <1>4, <1>5, <1>6

\* The call stack, with another continuation or further on.
LEMMA RunSet ==
    ASSUME NEW m, m = [me |-> m.me, run |-> m.run, due |-> m.due, at |-> m.at], NEW r
    PROVE  [m EXCEPT !.run = r] = [me |-> m.me, run |-> r, due |-> m.due, at |-> m.at]
  OBVIOUS
LEMMA DueSet ==
    ASSUME NEW m, NEW me, NEW run, NEW d, NEW a,
           m = [me |-> me, run |-> run, due |-> d, at |-> a], NEW e
    PROVE  [m EXCEPT !.due = e] = [me |-> me, run |-> run, due |-> e, at |-> a]
  OBVIOUS
LEMMA AtSet ==
    ASSUME NEW m, NEW me, NEW run, NEW d, NEW a,
           m = [me |-> me, run |-> run, due |-> d, at |-> a], NEW b
    PROVE  [m EXCEPT !.at = b] = [me |-> me, run |-> run, due |-> d, at |-> b]
  OBVIOUS
LEMMA AtDueSet ==
    ASSUME NEW m, NEW me, NEW run, NEW d, NEW a,
           m = [me |-> me, run |-> run, due |-> d, at |-> a], NEW b, NEW e
    PROVE  [m EXCEPT !.at = b, !.due = e] = [me |-> me, run |-> run, due |-> e, at |-> b]
  <1> DEFINE n == [m EXCEPT !.at = b]
  <1>1. n = [me |-> me, run |-> run, due |-> d, at |-> b]
    BY AtSet
  <1>2. [m EXCEPT !.at = b, !.due = e] = [n EXCEPT !.due = e]
    BY Zenon
  <1> HIDE DEF n
  <1> QED
    BY <1>1, <1>2, DueSet

LEMMA SetUpSane ==
    ASSUME Sane(scenes), SetUp
    PROVE  Sane(scenes')
  <1> DEFINE me == scenes.main.me
             g == [scenes EXCEPT !.st.current = me, !.main.at = "setup", !.main.due = TRUE]
             x == [scenes.st EXCEPT !.current = me]
             mn(run) == [me |-> me, run |-> run, due |-> TRUE, at |-> "setup"]
             h(run) == [st |-> x, game |-> scenes.game, past |-> scenes.past, main |-> mn(run)]
             tp == Params(g, FALSE, TRUE, g.game.tele = "skill")
             start == [fn |-> "start2"]
             finish == [fn |-> "finish", tp |-> tp]
  <1>1. /\ scenes.main.at = "finished" /\ scenes.main.run.fn = "none" /\ ~scenes.main.due
        /\ ~IsAsyncPending(scenes) /\ Top(scenes) = me /\ ~scenes.st.init
        /\ scenes \in State /\ scenes.st \in StackStates /\ scenes.main \in MainStates
    BY StateFields DEF SetUp, Returns, MaySetUp, Calls, Sane
  <1>2. scenes.main.run = NoCont /\ me # "none" /\ me \in SceneTypes
    BY <1>1, ContsOfFn DEF MainStates, Sane, FrameOf
  <1>3. g = h(NoCont)
    <2> DEFINE y == [scenes.main EXCEPT !.at = "setup", !.due = TRUE]
    <2>1. g = [[scenes EXCEPT !.st = x] EXCEPT !.main = y]
      BY <1>1 DEF State
    <2>2. scenes.main = [me |-> scenes.main.me, run |-> scenes.main.run, due |-> scenes.main.due,
                         at |-> scenes.main.at]
      BY <1>1 DEF MainStates
    <2>3. y = mn(NoCont)
      <3> HIDE DEF h, x, g
      <3>1. y = [me |-> scenes.main.me, run |-> scenes.main.run, due |-> TRUE, at |-> "setup"]
        <4> DEFINE e == TRUE
        <4>1. y = [scenes.main EXCEPT !.at = "setup", !.due = e]
          OBVIOUS
        <4>2. [me |-> scenes.main.me, run |-> scenes.main.run, due |-> TRUE, at |-> "setup"] =
              [me |-> scenes.main.me, run |-> scenes.main.run, due |-> e, at |-> "setup"]
          OBVIOUS
        <4> HIDE DEF e, y
        <4> QED
          BY <2>2, <4>1, <4>2, AtDueSet
      <3> QED
        BY <3>1, <1>2
    <2> HIDE DEF x, y, g, mn
    <2> QED
      BY <1>1, <2>1, <2>3 DEF State
  <1>12. mn(NoCont).me = me /\ \A run : [mn(NoCont) EXCEPT !.run = run] = mn(run)
    <2>1. mn(NoCont).me = me
      OBVIOUS
    <2>2. ASSUME NEW run PROVE [mn(NoCont) EXCEPT !.run = run] = mn(run)
      <3> DEFINE e == TRUE
                 y == [me |-> me, run |-> NoCont, due |-> e, at |-> "setup"]
                 z == [me |-> me, run |-> run, due |-> e, at |-> "setup"]
      <3>1. mn(NoCont) = y /\ mn(run) = z
        OBVIOUS
      <3> HIDE DEF e, mn
      <3>2. [y EXCEPT !.run = run] = z
        OBVIOUS
      <3> HIDE DEF y, z
      <3> QED
        BY <3>1, <3>2
    <2> QED
      BY <2>1, <2>2
  <1>4. g.game = scenes.game /\ g.main = mn(NoCont) /\ g.st.pushpop \in {"none", "pushed", "popped"}
    <2>1. x.pushpop = scenes.st.pushpop /\ scenes.st.pushpop \in {"none", "pushed", "popped"}
      BY <1>1 DEF StackStates
    <2> HIDE DEF g, x, mn
    <2> QED
      BY <1>3, <2>1
  <1>5. \/ scenes' = g
        \/ me = "map" /\ scenes' = [g EXCEPT !.main.run = start]
        \/ me = "map" /\ scenes.game.tele # "none" /\ scenes' = [g EXCEPT !.main.run = finish]
    <2>1. scenes' \in {g, StartScene(g), ContinueScene(g)}
      <3> DEFINE st == g.main.me \in g.st.started
      <3>1. scenes' =
              CASE g.st.pushpop = "pushed" \/ (g.st.pushpop = "popped" /\ ~st) -> StartScene(g)
                [] g.st.pushpop = "popped" /\ st -> ContinueScene(g)
                [] g.st.pushpop = "none" -> g
        BY DEF SetUp
      <3> HIDE DEF g, st
      <3> QED
        BY <1>4, <3>1
    <2>2. StartScene(g) = IF g.main.me = "map" THEN [g EXCEPT !.main.run = start] ELSE g
      BY DEF StartScene
    <2>3. ContinueScene(g) = IF g.main.me = "map" /\ g.game.tele # "none"
                               THEN [g EXCEPT !.main.run = finish] ELSE g
      BY DEF ContinueScene
    <2> HIDE DEF g, start, finish, mn
    <2> QED
      BY <1>4, <1>12, <2>1, <2>2, <2>3
  <1>6. /\ start \in PlainConts /\ start.fn = "start2" /\ finish \in PlainConts
        /\ finish.fn = "finish"
        /\ ByDefault(start) /\ ByDefault(finish)
    <2>1. tp \in TeleportParams /\ tp.default
      BY ParamsFacts
    <2> HIDE DEF tp
    <2> QED
      BY <2>1, ContFacts DEF ByDefault
  <1> HIDE DEF start, finish
  <1>7. ASSUME NEW run PROVE [g EXCEPT !.main.run = run] = h(run)
    <2> HIDE DEF g, x, mn
    <2>1. [g EXCEPT !.main.run = run] = [g EXCEPT !.main = mn(run)]
      <3> HIDE DEF h
      <3> QED
        BY <1>4, <1>12
    <2>2. g = [st |-> x, game |-> scenes.game, past |-> scenes.past, main |-> mn(NoCont)]
      BY <1>3
    <2> QED
      BY <2>1, <2>2
  <1>8. \/ scenes' = h(NoCont)
        \/ me = "map" /\ scenes' = h(start)
        \/ me = "map" /\ scenes.game.tele # "none" /\ scenes' = h(finish)
    <2> HIDE DEF g, h
    <2> QED
      BY <1>3, <1>5, <1>7
  <1>13. ASSUME NEW run \in PlainConts, run = NoCont \/ (me = "map" /\ ByDefault(run)),
                run.fn = "finish" => scenes.game.tele # "none",
                run.fn \in {"none", "start2", "finish"}
         PROVE  Sane(h(run))
    <2> DEFINE k == h(run)
    <2>1. run \in Conts
      BY PlainContsOfFn
    <2>2. /\ k \in State /\ k.game = scenes.game /\ k.past = scenes.past
          /\ k.st.stack = scenes.st.stack
          /\ k.st.cont = scenes.st.cont /\ k.st.delay = scenes.st.delay
          /\ k.st.init = scenes.st.init
          /\ k.st.current = me /\ k.main.me = me /\ k.main.run = run /\ k.main.due
          /\ k.main.at = "setup"
      <3>1. k = [st |-> [scenes.st EXCEPT !.current = scenes.main.me], game |-> scenes.game,
               past |-> scenes.past,
                       main |-> [me |-> scenes.main.me, run |-> run, due |-> TRUE, at |-> "setup"]]
        OBVIOUS
      <3> HIDE DEF k
      <3> QED
        BY <1>1, <1>2, <2>1, <3>1, SettingFacts
    <2> HIDE DEF k
    <2>3. Sane(k)
      BY <1>1, <1>2, <1>13, <2>2, SetUpWith
    <2> QED
      BY <2>3 DEF k
  <1> HIDE DEF h
  <1>9. CASE scenes' = h(NoCont)
    BY <1>9, <1>13, NoContFacts
  <1>10. CASE me = "map" /\ scenes' = h(start)
    BY <1>6, <1>10, <1>13
  <1>11. CASE me = "map" /\ scenes.game.tele # "none" /\ scenes' = h(finish)
    BY <1>6, <1>11, <1>13
  <1> QED
    BY <1>8, <1>9, <1>10, <1>11

\* MainFunction has returned, and a scene that is not on the top is left.
LEMMA LeftSane ==
    ASSUME NEW g, Sane(g), g.main.at \in {"finished", "updated"}, g.main.run = NoCont, ~g.main.due,
           NEW h \in State, h.main = Returned, h.past = g.past, h.st.stack = g.st.stack,
           h.st.cont = g.st.cont, h.st.current = g.st.current, h.game.inn = g.game.inn,
           h.game.tele = g.game.tele,
           \/ Top(g) = g.main.me /\ h.st.init = g.st.init /\ h.game = g.game
           \/ Top(g) # g.main.me /\ ~h.st.init /\ (IsActive(g) \/ h.game.tr.to)
    PROVE  Sane(h)
  <1>1. Top(h) = Top(g) /\ g.main.me # "none"
    BY SameTop DEF Sane, FrameOf
  <1>2. FrameOf(h) /\ OneCont(h)
    BY ReturnedFacts, NoContFacts DEF Sane, FrameOf, OneCont, Still
  <1>3. Ready(h)
    BY ReturnedFacts, NoContFacts DEF Sane, Ready, Has, InnKept, Still
  <1>4. Settled(h)
    <2>1. (/\ Top(h) # "title"
           /\ \/ Top(h) \in Called \/ h.main.me \notin {"map", "none"}
              \/ ~h.st.init /\ h.main.at # "setup")
          => g.st.cont["map"] = NoCont /\ ~g.game.inn.on
      <3>1. SUFFICES ASSUME Top(g) # "title", Top(g) \in Called \/ ~h.st.init
                     PROVE  g.st.cont["map"] = NoCont /\ ~g.game.inn.on
        BY <1>1, ReturnedFacts
      <3>2. CASE Top(g) \in Called
        BY <3>1, <3>2 DEF Sane, Settled
      <3>3. CASE Top(g) = "map"
        BY <1>1, <3>1, <3>3 DEF Sane, Settled
      <3> QED
        BY <3>1, <3>2, <3>3, TopFacts DEF Sane, SceneTypes
    <2>2. Top(h) = "map" /\ ~h.st.init => h.game.tr.to
      <3>1. CASE Top(g) = g.main.me
        BY <1>1, <3>1 DEF Sane, Settled
      <3>2. CASE Top(g) # g.main.me
        BY <1>1, <3>2 DEF Sane, FrameOf
      <3> QED
        BY <3>1, <3>2
    <2> QED
      BY <2>1, <2>2, ReturnedFacts, NoContFacts DEF Settled, Still
  <1>5. SettingUp(h) /\ Drawn(h) /\ Clean(h)
    BY <1>1, ReturnedFacts DEF Sane, SettingUp, Drawn, Clean
  <1> QED
    BY <1>2, <1>3, <1>4, <1>5 DEF Sane

LEMMA LeavesSane ==
    ASSUME Sane(scenes), Leaves
    PROVE  Sane(scenes')
  <1>1. /\ scenes.main.at \in {"finished", "updated"} /\ scenes.main.run.fn = "none"
        /\ ~scenes.main.due /\ scenes \in State /\ scenes.main \in MainStates
        /\ scenes.st \in StackStates /\ scenes.game \in GameStates /\ scenes.past \in Pasts
    BY StateFields DEF Leaves, Returns, Calls, Sane
  <1>2. scenes.main.run = NoCont
    BY <1>1, ContsOfFn DEF MainStates
  <1>7. scenes' = [LeaveScene(scenes) EXCEPT !.main = Returned]
    BY DEF Leaves
  <1> DEFINE x == [scenes.st EXCEPT !.init = FALSE]
  <1>3. x \in StackStates /\ x.stack = scenes.st.stack /\ x.cont = scenes.st.cont
        /\ x.current = scenes.st.current /\ ~x.init
    BY <1>1 DEF StackStates
  <1>4. CASE Top(scenes) = scenes.main.me
    <2>1. scenes' = [scenes EXCEPT !.main = Returned]
      BY <1>4, <1>7 DEF LeaveScene
    <2>2. scenes' = [st |-> scenes.st, game |-> scenes.game, main |-> Returned,
             past |-> scenes.past]
      BY <1>1, <2>1, WithMain
    <2>3. /\ scenes' \in State /\ scenes'.st = scenes.st /\ scenes'.game = scenes.game
          /\ scenes'.main = Returned /\ scenes'.past = scenes.past
      BY <1>1, <2>2, ReturnedFacts, Assembled
    <2> QED
      BY <1>1, <1>2, <1>4, <2>3, LeftSane
  <1>5. CASE Top(scenes) # scenes.main.me /\ IsActive(scenes)
    <2>1. scenes' = [[scenes EXCEPT !.st = x] EXCEPT !.main = Returned]
      BY <1>5, <1>7 DEF LeaveScene
    <2> HIDE DEF x
    <2>2. scenes' = [st |-> x, game |-> scenes.game, main |-> Returned, past |-> scenes.past]
      BY <1>1, <2>1 DEF State
    <2>3. /\ scenes' \in State /\ scenes'.st = x /\ scenes'.game = scenes.game
          /\ scenes'.main = Returned /\ scenes'.past = scenes.past
      BY <1>1, <1>3, <2>2, ReturnedFacts, Assembled
    <2> QED
      BY <1>1, <1>2, <1>3, <1>5, <2>3, LeftSane
  <1>6. CASE Top(scenes) # scenes.main.me /\ ~IsActive(scenes)
    <2> DEFINE z == [scenes.game EXCEPT !.erased = FALSE]
               f == IF scenes.main.me = "map" THEN [scenes EXCEPT !.game.erased = FALSE] ELSE scenes
               k == TransitionOut(scenes)
    <2>1. /\ f \in State /\ f.st = scenes.st /\ f.main = scenes.main /\ f.past = scenes.past
          /\ f.game.inn = scenes.game.inn /\ f.game.tele = scenes.game.tele
          /\ f.game.tr = scenes.game.tr
      <3>1. z \in GameStates /\ z.inn = scenes.game.inn /\ z.tele = scenes.game.tele
            /\ z.tr = scenes.game.tr
        BY <1>1 DEF GameStates
      <3>2. f = [scenes EXCEPT !.game = z] \/ f = scenes
        OBVIOUS
      <3> HIDE DEF z, f
      <3>3. [scenes EXCEPT !.game = z] = [st |-> scenes.st, game |-> z, main |-> scenes.main,
               past |-> scenes.past]
        BY <1>1, WithGame
      <3>4. CASE f = [scenes EXCEPT !.game = z]
        BY <1>1, <3>1, <3>3, <3>4, StateFields
      <3> QED
        BY <1>1, <3>2, <3>4
    <2>2. k = Transit(f, TRUE)
      BY DEF TransitionOut, InitErase
    <2> HIDE DEF f, k
    <2>3. ~IsActive(f)
      BY <1>6, <2>1 DEF IsActive
    <2>4. /\ k \in State /\ k.st = scenes.st /\ k.past = scenes.past
          /\ k.game = [f.game EXCEPT !.tr = [to |-> TRUE, frames |-> IF f.game.tr.to THEN 0 ELSE 1]]
      BY <2>1, <2>2, <2>3, TransitFacts
    <2>5. /\ k.game \in GameStates /\ k.game.tr.to /\ k.game.inn = scenes.game.inn
          /\ k.game.tele = scenes.game.tele
      BY <2>1, <2>4, StateFields DEF GameStates
    <2>6. scenes' = [[k EXCEPT !.st = x] EXCEPT !.main = Returned]
      BY <1>6, <1>7, <2>4 DEF LeaveScene, k
    <2> HIDE DEF x
    <2>7. scenes' = [st |-> x, game |-> k.game, main |-> Returned, past |-> scenes.past]
      BY <2>4, <2>6 DEF State
    <2>8. /\ scenes' \in State /\ scenes'.st = x /\ scenes'.game = k.game
          /\ scenes'.main = Returned /\ scenes'.past = scenes.past
      BY <1>1, <1>3, <2>5, <2>7, ReturnedFacts, Assembled
    <2> QED
      BY <1>1, <1>2, <1>3, <1>6, <2>5, <2>8, LeftSane
  <1> QED
    BY <1>4, <1>5, <1>6

\* Nothing is pending, and MainFunction has called the update of the scene on the top.
Updating(g) ==
    /\ Sane(g) /\ g.main.at = "updated" /\ g.main.run = NoCont /\ ~g.main.due
    /\ g.main.me # "none" /\ Top(g) = g.main.me /\ g.st.init /\ ~IsAsyncPending(g)

\* On the map it is a call of the map scene; another scene has nothing left to do.
LEMMA UpdatingFacts ==
    ASSUME NEW g, Updating(g)
    PROVE  /\ g.st.cont["map"] = NoCont \/ Top(g) = "title"
           /\ Top(g) = "map" => Clear(g)
           /\ Top(g) \in Called => ~g.game.inn.on
           /\ \A t \in SceneTypes \ {"map"} : g.st.cont[t] = NoCont
  <1>1. g.main.me \in SceneTypes
    BY TopFacts DEF Updating, Sane
  <1>2. Top(g) = "map" => Clear(g) /\ g.st.cont["map"] = NoCont
    BY <1>1 DEF Updating, Sane, OneCont, Clear
  <1>3. Top(g) \in Called => g.st.cont["map"] = NoCont /\ ~g.game.inn.on
    BY MapFacts DEF Updating, Sane, Settled
  <1> QED
    BY <1>1, <1>2, <1>3 DEF Updating, Sane, FrameOf, SceneTypes

\* The update of a scene may bring another one to the top, or leave everything as it is.
LEMMA UpdatedTo ==
    ASSUME NEW g, Updating(g), NEW h \in State, h.main = g.main, h.past = g.past,
           h.st.init = g.st.init, h.st.current = g.st.current,
           \A t \in SceneTypes : h.st.cont[t] = NoCont, InnKept(h),
           Top(h) # "title" => ~h.game.inn.on,
           Top(h) = "map" => ~IsActive(h)
    PROVE  Sane(h)
  <1>1. FrameOf(h) /\ OneCont(h)
    BY NoContFacts, MapFacts DEF Updating, Sane, FrameOf, OneCont, Still
  <1>2. Ready(h)
    BY NoContFacts, MapFacts DEF Updating, Ready, Has, Still
  <1>3. Settled(h)
    BY NoContFacts, MapFacts DEF Updating, Settled, Still
  <1>4. SettingUp(h) /\ Drawn(h) /\ Clean(h)
    BY DEF Updating, Sane, SettingUp, Drawn, Clean
  <1> QED
    BY <1>1, <1>2, <1>3, <1>4 DEF Sane

\* The title can be returned to from any other scene.
LEMMA TitleKept ==
    ASSUME NEW g, Updating(g), Top(g) # "title", NEW h \in State, h.main = g.main,
           h.past = g.past, h.st.init = g.st.init, h.st.current = g.st.current,
           h.st.cont = g.st.cont, h.game.inn = g.game.inn, Top(h) = "title"
    PROVE  Sane(h)
  <1>1. \A t \in SceneTypes : h.st.cont[t] = NoCont
    BY UpdatingFacts
  <1>2. InnKept(h)
    BY DEF Updating, Sane, Ready, InnKept
  <1> QED
    BY <1>1, <1>2, UpdatedTo

LEMMA TitleSane ==
    ASSUME ScenesAssumption, NEW g, Updating(g), Top(g) # "title",
           NEW h, h = ReturnToTitleScene(g)
    PROVE  /\ Sane(h) /\ Top(h) = "title" /\ h.game = g.game /\ h.main = g.main
           /\ h.past = g.past /\ h.st.init = g.st.init /\ h.st.current = g.st.current
           /\ h.st.cont = g.st.cont
  <1>1. /\ h \in State /\ Top(h) = "title" /\ h.game = g.game /\ h.main = g.main
        /\ h.past = g.past /\ h.st.init = g.st.init /\ h.st.current = g.st.current
        /\ h.st.cont = g.st.cont
    BY TitleFacts DEF Updating, Sane
  <1>2. Sane(h)
    BY <1>1, TitleKept
  <1> QED
    BY <1>1, <1>2

\* Another game, or another call stack.
LEMMA GameSet ==
    ASSUME NEW g \in State, NEW x \in GameStates, NEW k, k = [g EXCEPT !.game = x]
    PROVE  k \in State /\ k.st = g.st /\ k.main = g.main /\ k.past = g.past /\ k.game = x
  <1>1. k = [st |-> g.st, game |-> x, main |-> g.main, past |-> g.past]
    BY WithGame
  <1> QED
    BY <1>1, StateFields
LEMMA MainSet ==
    ASSUME NEW g \in State, NEW m \in MainStates, NEW k, k = [g EXCEPT !.main = m]
    PROVE  k \in State /\ k.st = g.st /\ k.game = g.game /\ k.past = g.past /\ k.main = m
  <1>1. k = [st |-> g.st, game |-> g.game, main |-> m, past |-> g.past]
    BY WithMain
  <1> QED
    BY <1>1, StateFields

\* A menu is left for the map, perhaps with a teleport.
LEMMA MenuLeftSane ==
    ASSUME NEW g, Updating(g), Top(g) \in Called,
           NEW k \in State, k.st = g.st, k.main = g.main, k.past = g.past,
           k.game.inn = g.game.inn, k.game.tr = g.game.tr
    PROVE  Sane(PopUntil(k, "map"))
  <1> DEFINE h == PopUntil(k, "map")
  <1>2. Top(k) = Top(g) /\ Top(k) # "map" /\ Top(k) # "title"
    BY SameTop, MapFacts
  <1>3. /\ h \in State /\ Top(h) = "map" /\ h.game = k.game /\ h.main = g.main /\ h.past = g.past
        /\ h.st.init = g.st.init /\ h.st.current = g.st.current /\ h.st.cont = g.st.cont
    BY <1>2, PopFacts
  <1> HIDE DEF h
  <1>4. ~g.game.inn.on /\ \A t \in SceneTypes : h.st.cont[t] = NoCont
    BY <1>2, <1>3, UpdatingFacts, SameTop
  <1>5. InnKept(h) /\ ~IsActive(h)
    BY <1>3 DEF Updating, Sane, Ready, InnKept, IsActive, IsAsyncPending
  <1>6. Sane(h)
    BY <1>3, <1>4, <1>5, UpdatedTo
  <1> QED
    BY <1>6 DEF h

\* A new game begins on the map.
LEMMA NewGameSane ==
    ASSUME ScenesAssumption, NEW g, Updating(g), Top(g) = "title",
           NEW h, h = Push(NewGame(g), "map")
    PROVE  Sane(h)
  <1> DEFINE x == [g.game EXCEPT !.tele = "none", !.requested = "none", !.erased = FALSE,
         !.inn = NoInn]
             k == [g EXCEPT !.game = x]
  <1>1. x \in GameStates /\ x.inn = NoInn /\ x.tr = g.game.tr
    BY StateFields, NoContFacts DEF Updating, Sane, GameStates, NoInn, Teles
  <1>2. NewGame(g) = k
    BY DEF NewGame
  <1> HIDE DEF x
  <1>3. /\ k \in State /\ k.st = g.st /\ k.main = g.main /\ k.past = g.past /\ k.game = x
    <2>1. k = [st |-> g.st, game |-> x, main |-> g.main, past |-> g.past]
      BY WithGame DEF Updating, Sane
    <2> QED
      BY <1>1, <2>1, StateFields DEF Updating, Sane
  <1> HIDE DEF k
  <1>4. Top(k) = "title"
    BY <1>3, SameTop
  <1>5. /\ h \in State /\ Top(h) = "map" /\ h.game = x /\ h.main = g.main /\ h.past = g.past
        /\ h.st.init = g.st.init /\ h.st.current = g.st.current
        /\ h.st.cont = [g.st.cont EXCEPT !["map"] = NoCont]
    BY <1>2, <1>3, <1>4, MapFacts, PushFacts
  <1>6. \A t \in SceneTypes : h.st.cont[t] = NoCont
    <2>1. g.st.cont \in [SceneTypes -> Conts]
      BY StateFields DEF Updating, Sane, StackStates
    <2> QED
      BY <1>5, <2>1, UpdatingFacts
  <1>7. InnKept(h) /\ ~h.game.inn.on /\ ~IsActive(h)
    BY <1>1, <1>5, NoContFacts DEF Updating, InnKept, NoInn, IsActive, IsAsyncPending
  <1> QED
    BY <1>5, <1>6, <1>7, UpdatedTo

\* The update of the map calls the first continuation of it.
LEMMA StageSane ==
    ASSUME NEW g, Updating(g), Top(g) = "map", ~g.game.inn.on,
           NEW c \in PlainConts, c.fn = "stage1",
           NEW h \in State, h.st = g.st, h.game = g.game, h.past = g.past,
           h.main.run = c, h.main.me = g.main.me, h.main.at = g.main.at, h.main.due = g.main.due
    PROVE  Sane(h)
  <1>1. c # NoCont /\ c.fn # "then" /\ Plain(c) = c
    BY PlainContsOfFn DEF NoCont, Plain
  <1>2. Top(h) = "map" /\ ~IsAsyncPending(h) /\ g.main.me = "map" /\ g.st.cont["map"] = NoCont
    BY SameTop, UpdatingFacts DEF Updating, IsAsyncPending, IsActive
  <1>3. FrameOf(h) /\ OneCont(h)
    BY <1>1, <1>2, NoContFacts DEF Updating, Sane, FrameOf, OneCont, Still
  <1>4. Ready(h)
    BY <1>1, <1>2, NoContFacts DEF Updating, Sane, Ready, Has, InnKept, Still
  <1>5. Settled(h)
    BY <1>2, MapFacts DEF Updating, Settled
  <1>6. SettingUp(h) /\ Drawn(h) /\ Clean(h)
    BY <1>2 DEF Updating, Sane, SettingUp, Drawn, Clean
  <1> QED
    BY <1>3, <1>4, <1>5, <1>6 DEF Sane

\* The update of a scene, whatever the player does.
LEMMA UpdateSceneSane ==
    ASSUME ScenesAssumption, NEW g, Updating(g), NEW key
    PROVE  Sane(UpdateScene(g, key))
  <1>1. /\ g \in State /\ g.game \in GameStates /\ g.main \in MainStates
        /\ Top(g) \in SceneTypes /\ Sane(g)
    BY TopFacts, StateFields DEF Updating, Sane
  <1>2. CASE Top(g) = "map"
    <2>1. Clear(g) /\ ~IsActive(g) /\ g.main.at # "setup"
      BY <1>2, UpdatingFacts DEF Updating, IsAsyncPending
    <2>2. CASE g.game.inn.on
      <3>1. UpdateScene(g, key) \in {g, UpdateInn(g)}
        BY <1>2, <2>2 DEF UpdateScene
      <3>2. Sane(UpdateInn(g))
        BY <2>1, <2>2, ClearInn
      <3> QED
        BY <1>1, <3>1, <3>2
    <2>3. CASE ~g.game.inn.on
      <3> DEFINE c == [fn |-> "stage1"]
                 m == [g.main EXCEPT !.run = c]
                 k == [g EXCEPT !.main = m]
      <3>1. UpdateScene(g, key) = k
        BY <1>2, <2>3 DEF UpdateScene
      <3>2. c \in PlainConts /\ c \in Conts /\ c.fn = "stage1"
        BY PlainContsOfFn DEF PlainConts, Conts
      <3>3. /\ m \in MainStates /\ m.run = c /\ m.me = g.main.me /\ m.at = g.main.at
            /\ m.due = g.main.due
        BY <1>1, <3>2 DEF MainStates
      <3> HIDE DEF c, m
      <3>4. k \in State /\ k.st = g.st /\ k.game = g.game /\ k.past = g.past /\ k.main = m
        BY <1>1, <3>3, MainSet
      <3> HIDE DEF k
      <3> QED
        BY <1>2, <2>3, <3>1, <3>2, <3>3, <3>4, StageSane
    <2> QED
      BY <2>2, <2>3
  <1>3. CASE Top(g) = "title"
    <2>1. UpdateScene(g, key) \in {g, Push(NewGame(g), "map")}
      BY <1>3 DEF UpdateScene
    <2>2. Sane(Push(NewGame(g), "map"))
      BY <1>3, NewGameSane
    <2> QED
      BY <1>1, <2>1, <2>2
  <1>4. CASE Top(g) = "menu"
    <2> DEFINE x == [g.game EXCEPT !.tele = "skill", !.file = TRUE]
               k == [g EXCEPT !.game = x]
    <2>1. UpdateScene(g, key) \in {g, PopUntil(g, "map"), PopUntil(k, "map"), ReturnToTitleScene(g)}
      BY <1>4 DEF UpdateScene
    <2>2. x \in GameStates /\ x.inn = g.game.inn /\ x.tr = g.game.tr
      BY <1>1 DEF GameStates, Teles
    <2> HIDE DEF x
    <2>3. k \in State /\ k.st = g.st /\ k.main = g.main /\ k.past = g.past /\ k.game = x
      BY <1>1, <2>2, GameSet
    <2> HIDE DEF k
    <2>4. Top(g) \in Called /\ Top(g) # "title"
      BY <1>4 DEF Called
    <2>5. Sane(PopUntil(g, "map"))
      BY <1>1, <2>4, MenuLeftSane
    <2>6. Sane(PopUntil(k, "map"))
      BY <2>2, <2>3, <2>4, MenuLeftSane
    <2>7. Sane(ReturnToTitleScene(g))
      BY <2>4, TitleSane
    <2> QED
      BY <1>1, <2>1, <2>5, <2>6, <2>7
  <1>5. CASE Top(g) = "gameover"
    <2>1. UpdateScene(g, key) \in {g, ReturnToTitleScene(g)}
      BY <1>5 DEF UpdateScene
    <2>2. Sane(ReturnToTitleScene(g))
      BY <1>5, TitleSane
    <2> QED
      BY <1>1, <2>1, <2>2
  <1> QED
    BY <1>1, <1>2, <1>3, <1>4, <1>5 DEF SceneTypes, Called

\* The delay of the scene on the top goes on.
Delayed(g) == [g EXCEPT !.st.delay[Top(g)] = IF @ > 0 THEN @ - 1 ELSE 0]

LEMMA DelayedFacts ==
    ASSUME ScenesAssumption, NEW g \in State, ~IsActive(g),
           NEW h, h = Delayed(g)
    PROVE  /\ h \in State /\ h.st.stack = g.st.stack /\ h.st.cont = g.st.cont
           /\ h.st.init = g.st.init /\ h.st.current = g.st.current
           /\ h.game = g.game /\ h.main = g.main /\ h.past = g.past
           /\ Top(h) = Top(g) /\ ~IsActive(h)
           /\ ~IsAsyncPending(g) => ~IsAsyncPending(h)
  <1> DEFINE t == Top(g)
             d == IF g.st.delay[t] > 0 THEN g.st.delay[t] - 1 ELSE 0
             x == [g.st EXCEPT !.delay[t] = d]
             k == [g EXCEPT !.st = x]
  <1>1. h = k
    BY DEF Delayed
  <1>2. /\ g.st \in StackStates /\ t \in SceneTypes /\ d \in 0..(StartDelay + TitleDelay)
        /\ g.st.delay[t] \in Nat /\ (~(g.st.delay[t] > 0) => d = 0)
    BY StateFields, TopFacts DEF StackStates, ScenesAssumption
  <1> HIDE DEF d, t
  <1>3. /\ x \in StackStates /\ x.stack = g.st.stack /\ x.cont = g.st.cont
        /\ x.init = g.st.init /\ x.current = g.st.current /\ x.delay[t] = d
    BY <1>2 DEF StackStates
  <1> HIDE DEF x
  <1>4. k = [st |-> x, game |-> g.game, main |-> g.main, past |-> g.past]
    BY WithSt
  <1> HIDE DEF k
  <1>5. k \in State /\ k.st = x /\ k.game = g.game /\ k.main = g.main /\ k.past = g.past
    BY <1>3, <1>4, StateFields
  <1>6. Top(k) = t /\ ~IsActive(k)
    BY <1>3, <1>5, SameTop DEF t, IsActive
  <1>7. ~IsAsyncPending(g) => ~IsAsyncPending(k)
    BY <1>2, <1>3, <1>5, <1>6 DEF IsAsyncPending, t
  <1> QED
    BY <1>1, <1>3, <1>5, <1>6, <1>7 DEF t

\* The scene that is updated is the one that is drawn.
LEMMA SeenFacts ==
    ASSUME NEW g, Updating(g), NEW h, h = [g EXCEPT !.past.unseen = @ \/ g.st.current # Top(g)]
    PROVE  Updating(h) /\ Top(h) = Top(g)
  <1> DEFINE e == g.past.unseen \/ g.st.current # Top(g)
             p == [g.past EXCEPT !.unseen = e]
             k == [g EXCEPT !.past = p]
  <1>1. h = k
    OBVIOUS
  <1>2. /\ g \in State /\ g.past \in Pasts /\ e \in BOOLEAN
        /\ g.past.unseen \in BOOLEAN
    BY StateFields DEF Updating, Sane, Pasts
  <1>3. e => g.past.exited
    BY DEF Updating, Sane, Drawn, Clean
  <1> HIDE DEF e
  <1>4. /\ p \in Pasts /\ p.twice = g.past.twice /\ p.lost = g.past.lost
        /\ p.unasked = g.past.unasked /\ p.exited = g.past.exited /\ p.unseen = e
    BY <1>2 DEF Pasts
  <1> HIDE DEF p
  <1>5. k = [st |-> g.st, game |-> g.game, main |-> g.main, past |-> p]
    BY <1>2 DEF State
  <1> HIDE DEF k
  <1>6. k \in State /\ k.st = g.st /\ k.game = g.game /\ k.main = g.main /\ k.past = p
    BY <1>2, <1>4, <1>5, StateFields
  <1>7. Top(k) = Top(g) /\ ~IsAsyncPending(k)
    BY <1>6, SameTop DEF Updating, IsAsyncPending, IsActive
  <1>8. FrameOf(k) /\ OneCont(k)
    BY <1>6, <1>7 DEF Updating, Sane, FrameOf, OneCont
  <1>9. Ready(k) /\ Settled(k)
    BY <1>6, <1>7 DEF Updating, Sane, Ready, Has, InnKept, Settled
  <1>10. SettingUp(k) /\ Drawn(k) /\ Clean(k)
    BY <1>3, <1>4, <1>6, <1>7 DEF Updating, Sane, SettingUp, Drawn, Clean
  <1> QED
    BY <1>1, <1>6, <1>7, <1>8, <1>9, <1>10 DEF Updating, Sane

\* MainFunction calls the update of the scene on the top.
LEMMA BeginUpdate ==
    ASSUME Sane(scenes), Returns("finished"), MaySetUp(scenes), scenes.st.init,
           NEW h, h = [scenes EXCEPT !.main.at = "updated"]
    PROVE  Updating(h) /\ Top(h) = Top(scenes)
  <1> DEFINE m == [scenes.main EXCEPT !.at = "updated"]
             k == [scenes EXCEPT !.main = m]
  <1>1. /\ scenes \in State /\ scenes.main \in MainStates /\ scenes.main.at = "finished"
        /\ scenes.main.run.fn = "none" /\ ~scenes.main.due
        /\ ~IsAsyncPending(scenes) /\ Top(scenes) = scenes.main.me
    BY StateFields DEF Sane, Returns, Calls, MaySetUp
  <1>2. /\ m \in MainStates /\ m.me = scenes.main.me /\ m.run = scenes.main.run
        /\ m.due = scenes.main.due /\ m.at = "updated"
    BY <1>1 DEF MainStates
  <1>3. h = k
    OBVIOUS
  <1>4. scenes.main.run = NoCont /\ scenes.main.me # "none"
    BY <1>1, ContsOfFn DEF MainStates, Sane, FrameOf
  <1> HIDE DEF m
  <1>5. k \in State /\ k.st = scenes.st /\ k.game = scenes.game /\ k.past = scenes.past
        /\ k.main = m
    BY <1>1, <1>2, MainSet
  <1> HIDE DEF k
  <1>6. Top(k) = Top(scenes) /\ ~IsAsyncPending(k)
    BY <1>1, <1>5, SameTop DEF IsAsyncPending, IsActive
  <1>7. FrameOf(k) /\ OneCont(k)
    BY <1>1, <1>2, <1>4, <1>5, <1>6, NoContFacts DEF Sane, FrameOf, OneCont, Still
  <1>8. Ready(k) /\ Settled(k)
    BY <1>1, <1>2, <1>5, <1>6 DEF Sane, Ready, Has, InnKept, Settled
  <1>9. SettingUp(k) /\ Drawn(k) /\ Clean(k)
    BY <1>1, <1>2, <1>5, <1>6 DEF Sane, SettingUp, Drawn, Clean
  <1> QED
    BY <1>1, <1>2, <1>3, <1>4, <1>5, <1>6, <1>7, <1>8, <1>9 DEF Updating, Sane

LEMMA PlayerUpdateSane ==
    ASSUME ScenesAssumption, NEW g, Updating(g), NEW key
    PROVE  Sane(PlayerUpdate(g, TRUE, key))
  <1> DEFINE Seen(f) == [f EXCEPT !.past.unseen = @ \/ f.st.current # Top(f)]
  <1>1. g \in State /\ ~IsActive(g)
    BY DEF Updating, Sane, IsAsyncPending
  <1>2. CASE key = "reset" /\ Top(g) # "title"
    <2> DEFINE f == ReturnToTitleScene(g)
               h == Delayed(f)
    <2>1. /\ Sane(f) /\ Top(f) = "title" /\ f.game = g.game /\ f.main = g.main
          /\ f.past = g.past /\ f.st.init = g.st.init /\ f.st.current = g.st.current
          /\ f.st.cont = g.st.cont
      BY <1>2, TitleSane
    <2>2. ~IsActive(f) /\ f \in State
      BY <1>1, <2>1 DEF IsActive, Sane
    <2>3. PlayerUpdate(g, TRUE, key) = h
      BY <1>2, <2>2 DEF PlayerUpdate, Delayed, Updating
    <2> HIDE DEF f
    <2>4. /\ h \in State /\ h.st.stack = f.st.stack /\ h.st.cont = f.st.cont
          /\ h.st.init = f.st.init /\ h.st.current = f.st.current
          /\ h.game = f.game /\ h.main = f.main /\ h.past = f.past /\ Top(h) = Top(f)
      BY <2>2, DelayedFacts
    <2> HIDE DEF h
    <2>5. Sane(h)
      BY <1>2, <2>1, <2>4, TitleKept
    <2> QED
      BY <2>3, <2>5
  <1>3. CASE ~(key = "reset" /\ Top(g) # "title")
    <2> DEFINE f == Delayed(g)
               h == Seen(f)
    <2>1. PlayerUpdate(g, TRUE, key) = UpdateScene(h, key)
      BY <1>1, <1>3 DEF PlayerUpdate, Delayed
    <2>2. /\ f \in State /\ f.st.stack = g.st.stack /\ f.st.cont = g.st.cont
          /\ f.st.init = g.st.init /\ f.st.current = g.st.current
          /\ f.game = g.game /\ f.main = g.main /\ f.past = g.past
          /\ Top(f) = Top(g) /\ ~IsActive(f) /\ ~IsAsyncPending(f)
      BY <1>1, DelayedFacts DEF Updating
    <2> HIDE DEF f
    <2>3. FrameOf(f) /\ OneCont(f)
      BY <2>2 DEF Updating, Sane, FrameOf, OneCont
    <2>4. Ready(f) /\ Settled(f)
      BY <2>2 DEF Updating, Sane, Ready, Has, InnKept, Settled
    <2>5. SettingUp(f) /\ Drawn(f) /\ Clean(f)
      BY <2>2 DEF Updating, Sane, SettingUp, Drawn, Clean
    <2>6. Updating(f)
      BY <2>2, <2>3, <2>4, <2>5 DEF Updating, Sane
    <2>7. Updating(h)
      BY <2>6, SeenFacts
    <2> HIDE DEF h
    <2> QED
      BY <2>1, <2>7, UpdateSceneSane
  <1> QED
    BY <1>2, <1>3

LEMMA UpdatesSceneSane ==
    ASSUME ScenesAssumption, Sane(scenes), NEW key, UpdatesScene(key)
    PROVE  Sane(scenes')
  <1> DEFINE h == [scenes EXCEPT !.main.at = "updated"]
  <1>1. Updating(h)
    BY BeginUpdate DEF UpdatesScene
  <1>2. scenes' = PlayerUpdate(h, TRUE, key)
    BY DEF UpdatesScene
  <1> HIDE DEF h
  <1> QED
    BY <1>1, <1>2, PlayerUpdateSane

-----------------------------------------------------------------------------
(* The invariant.                                                          *)

LEMMA ScenesInitSane ==
    ASSUME ScenesAssumption, ScenesInit
    PROVE  Sane(scenes)
  <1> DEFINE x == [stack |-> <<"title">>, started |-> {},
                   cont |-> [t \in SceneTypes |-> NoCont], delay |-> [t \in SceneTypes |-> 0],
                   init |-> FALSE, pushpop |-> "pushed", current |-> "none"]
             y == [tr |-> [to |-> TRUE, frames |-> 0], erased |-> FALSE, inn |-> NoInn,
                   tele |-> "none", requested |-> "none", file |-> FALSE]
             p == [twice |-> FALSE, lost |-> FALSE, unseen |-> FALSE, unasked |-> FALSE,
                   exited |-> FALSE]
  <1>1. x \in StackStates
    <2>1. <<"title">> \in Stacks
      BY DEF Stacks
    <2>2. x.cont \in [SceneTypes -> Conts]
          /\ x.delay \in [SceneTypes -> 0..(StartDelay + TitleDelay)]
      BY NoContFacts DEF ScenesAssumption
    <2> QED
      BY <2>1, <2>2 DEF StackStates
  <1>2. y \in GameStates /\ y.inn = NoInn /\ InnKept([game |-> y])
    BY NoContFacts DEF GameStates, NoInn, Teles, InnKept
  <1>3. p \in Pasts /\ ~p.twice /\ ~p.lost /\ ~p.unasked /\ ~p.unseen
    BY DEF Pasts
  <1>4. scenes = [st |-> x, game |-> y, main |-> Returned, past |-> p]
    BY DEF ScenesInit
  <1>5. /\ x.stack = <<"title">> /\ ~x.init /\ \A t \in SceneTypes : x.cont[t] = NoCont
    OBVIOUS
  <1> HIDE DEF x, y, p
  <1>6. /\ scenes \in State /\ scenes.st = x /\ scenes.game = y /\ scenes.main = Returned
        /\ scenes.past = p
    BY <1>1, <1>2, <1>3, <1>4, ReturnedFacts, Assembled
  <1>7. Top(scenes) = "title"
    BY <1>5, <1>6 DEF Top
  <1>8. FrameOf(scenes) /\ OneCont(scenes)
    BY <1>5, <1>6, ReturnedFacts, NoContFacts, MapFacts DEF FrameOf, OneCont, Still
  <1>9. Ready(scenes) /\ Settled(scenes)
    BY <1>2, <1>5, <1>6, <1>7, ReturnedFacts, NoContFacts, MapFacts
       DEF Ready, Has, InnKept, NoInn, Settled, Still
  <1>10. SettingUp(scenes) /\ Drawn(scenes) /\ Clean(scenes)
    BY <1>3, <1>5, <1>6, ReturnedFacts DEF SettingUp, Drawn, Clean
  <1> QED
    BY <1>6, <1>8, <1>9, <1>10 DEF Sane

LEMMA ScenesStepSane ==
    ASSUME ScenesAssumption, Sane(scenes), [ScenesNext]_sceneVars
    PROVE  Sane(scenes')
  <1>1. CASE FileArrives
    BY <1>1, FileArrivesSane
  <1>2. ASSUME NEW o \in Outcomes \cup {Quiet}, NEW key \in Keys, Step(o, key)
        PROVE  Sane(scenes')
    <2>1. CASE Call(o)
      <3>1. CASE CallStart2(o)
        BY <3>1, CallStart2Sane
      <3>2. CASE CallStage1(o)
        BY <3>2, CallStage1Sane
      <3>3. CASE CallFinish2(o)
        BY <3>3, CallFinish2Sane
      <3>4. CASE CallFinish3(o)
        BY <3>4, CallFinish3Sane
      <3>5. CASE CallStage2
        BY <3>5, CallStage2Sane
      <3>6. CASE CallCalling
        BY <3>6, CallCallingSane
      <3>7. CASE CallFinish
        BY <3>7, CallFinishSane
      <3>8. CASE CallQuick
        BY <3>8, CallQuickSane
      <3>9. CASE CallStartInn
        BY <3>9, CallStartInnSane
      <3>10. CASE CallTransitionIn
        BY <3>10, CallTransitionInSane
      <3>11. CASE CallThen
        BY <3>11, CallThenSane
      <3>12. CASE CallSchedule
        BY <3>12, CallScheduleSane
      <3> QED
        BY <2>1, <3>1, <3>2, <3>3, <3>4, <3>5, <3>6, <3>7, <3>8, <3>9, <3>10, <3>11, <3>12 DEF Call
    <2>2. CASE UpdatesScene(key)
      BY <2>2, UpdatesSceneSane
    <2>3. CASE Tick
      BY <2>3, TickSane
    <2>4. CASE OnFinishAsync
      BY <2>4, OnFinishAsyncSane
    <2>5. CASE SetUp
      BY <2>5, SetUpSane
    <2>6. CASE IsSetUp
      BY <2>6, IsSetUpSane
    <2>7. CASE Leaves
      BY <2>7, LeavesSane
    <2> QED
      BY <1>2, <2>1, <2>2, <2>3, <2>4, <2>5, <2>6, <2>7 DEF Step
  <1>3. CASE UNCHANGED sceneVars
    BY <1>3 DEF sceneVars, Sane, FrameOf, OneCont, Ready, Settled, SettingUp, Drawn, Clean,
       InnKept, Has,
                Opening, Top, IsAsyncPending, IsActive
  <1> QED
    BY <1>1, <1>2, <1>3 DEF ScenesNext

LEMMA BudgetStep ==
    ASSUME ScenesAssumption, sceneBudget \in 0..SceneBudget, [ScenesNext]_sceneVars
    PROVE  sceneBudget' \in 0..SceneBudget
  <1>1. sceneBudget' = sceneBudget \/ (sceneBudget' = sceneBudget - 1 /\ sceneBudget' >= 0)
    BY DEF ScenesNext, Step, Call, CallStart2, CallStage1, CallFinish2, CallFinish3, CallStage2,
           CallCalling, CallFinish, CallQuick, CallStartInn, CallTransitionIn, CallThen,
           CallSchedule, MapUpdates, Free, UpdatesScene, Tick, OnFinishAsync, SetUp, IsSetUp,
           Leaves, FileArrives, sceneVars
  <1> QED
    BY <1>1 DEF ScenesAssumption

LEMMA SaneScenes ==
    ASSUME Sane(scenes), sceneBudget \in 0..SceneBudget
    PROVE  ScenesInv
  BY DEF Sane, State, Clean, ScenesInv, ScenesTypeOK, OneTransition, NothingLost,
         TeleportsAreAskedFor, SetUpBeforeUpdate

\* Whatever happens in the updates of the map and whatever the player does, in whatever depth the
\* continuations call each other: no transition begins while another one runs, no continuation is
\* lost, a teleport that is performed was asked for, and the scene that is updated was set up.
THEOREM ScenesAreSetUp == ScenesAssumption => (ScenesSpec => []ScenesInv)
  <1> SUFFICES ASSUME ScenesAssumption PROVE ScenesSpec => []ScenesInv
    OBVIOUS
  <1> DEFINE AllSane == Sane(scenes) /\ sceneBudget \in 0..SceneBudget
  <1>1. ScenesInit => AllSane
    BY ScenesInitSane DEF ScenesInit, ScenesAssumption
  <1>2. AllSane /\ [ScenesNext]_sceneVars => AllSane'
    BY ScenesStepSane, BudgetStep
  <1>3. AllSane => ScenesInv
    BY SaneScenes
  <1> QED
    BY <1>1, <1>2, <1>3, PTL DEF ScenesSpec

=============================================================================
