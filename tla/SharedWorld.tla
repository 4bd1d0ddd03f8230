---------------------------- MODULE SharedWorld -----------------------------
(***************************************************************************)
(* What the players of a room share: switches, the weather and the places  *)
(* of the events (src/src/game_multiplayer_senders.cpp, the weather of     *)
(* game_multiplayer_main_loop.cpp, and their receivers). All of the        *)
(* players here are in one room and online; the server passes a packet on  *)
(* to the others in the order it came, and an npcmove to its sender too.   *)
(***************************************************************************)
EXTENDS Integers, Sequences, FiniteSets

CONSTANTS Clients,
          Writers,       \* those whose events write switches and change the weather
          Switches,      \* ids of switches
          Whitelist,     \* client -> MyData::syncedswitches
          Ranges,        \* the ranges <<first, last>> of switches the events write
          Weathers, Fair, NoWeather,
          SyncNpc,       \* syncnpc, the same for all
          Spots, Start,  \* places of the event, and where the map puts it
          Delay,         \* weatherSetDelay
          MaxPackets     \* bound on the packets on their way to a client

SharedWorldAssumption ==
    /\ Writers \subseteq Clients /\ IsFiniteSet(Clients)
    /\ Whitelist \in [Clients -> SUBSET Switches] /\ Switches \subseteq Nat
    /\ Ranges \subseteq Switches \X Switches /\ IsFiniteSet(Switches)
    /\ Fair \in Weathers /\ NoWeather \notin Weathers
    /\ SyncNpc \in BOOLEAN /\ Start \in Spots
    /\ Delay \in Nat /\ MaxPackets \in Nat

VARIABLES
    switches,     \* client -> Main_Data::game_switches
    weather,      \* client -> the weather on its screen
    nextWeather,  \* client -> MyData::nextWeatherType, nextWeatherStrength
    weatherT,     \* client -> MyData::weatherT
    npc,          \* client -> place of the event
    acquainted,   \* client -> other_players is not empty
    inbox,        \* client -> packets on their way to it
    together      \* an event was moved by way of the server since all of them know
                  \* each other (history)

writeVars == <<switches, weather, nextWeather, weatherT>>
vars == <<writeVars, npc, acquainted, inbox, together>>

SwitchPacket(id, value) == [type |-> "switchsync", id |-> id, value |-> value]
WeatherPacket(w) == [type |-> "weather", weather |-> w]
NpcPacket(at) == [type |-> "npcmove", at |-> at]
Greeting == [type |-> "other"]     \* anything else another player sends

Packets ==
    {SwitchPacket(id, value) : id \in Switches, value \in BOOLEAN}
        \cup {WeatherPacket(w) : w \in Weathers}
        \cup {NpcPacket(at) : at \in Spots} \cup {Greeting}

TypeOK ==
    /\ switches \in [Clients -> [Switches -> BOOLEAN]]
    /\ weather \in [Clients -> Weathers]
    /\ nextWeather \in [Clients -> Weathers \cup {NoWeather}]
    /\ weatherT \in [Clients -> 0..Delay]
    /\ npc \in [Clients -> Spots]
    /\ acquainted \in [Clients -> BOOLEAN]
    /\ inbox \in [Clients -> Seq(Packets)]
    /\ together \in BOOLEAN

Init ==
    /\ switches = [c \in Clients |-> [id \in Switches |-> FALSE]]
    /\ weather = [c \in Clients |-> Fair]
    /\ nextWeather = [c \in Clients |-> NoWeather]
    /\ weatherT = [c \in Clients |-> 0]
    /\ npc = [c \in Clients |-> Start]
    /\ acquainted = [c \in Clients |-> FALSE]
    /\ inbox = [c \in Clients |-> <<>>]
    /\ together = FALSE

-----------------------------------------------------------------------------
\* The server passes packets on to those in to.
Relay(to, packets) ==
    /\ \A d \in to : Len(inbox[d]) + Len(packets) <= MaxPackets
    /\ inbox' = [d \in Clients |-> IF d \in to THEN inbox[d] \o packets ELSE inbox[d]]

Others(c) == Clients \ {c}

\* The i-th smallest of a set of numbers.
Nth(ids, i) == CHOOSE id \in ids : Cardinality({other \in ids : other <= id}) = i

\* SwitchSync for one id after the other; only those on the whitelist are sent.
SwitchSync(c, ids, now) ==
    LET sent == ids \cap Whitelist[c]
    IN [i \in 1..Cardinality(sent) |-> SwitchPacket(Nth(sent, i), now[Nth(sent, i)])]

ControlSwitch_before(c, id, value) ==
    /\ switches' = [switches EXCEPT ![c] = [@ EXCEPT ![id] = value]]
    /\ Relay(Others(c), SwitchSync(c, {id}, switches[c]))
    /\ UNCHANGED <<weather, nextWeather, weatherT, npc, acquainted, together>>

\* CommandControlSwitches for a single switch: set, cleared or flipped.
ControlSwitch(c, id, value) ==
    LET now == [switches[c] EXCEPT ![id] = value] IN
    /\ switches' = [switches EXCEPT ![c] = now]
    /\ Relay(Others(c), SwitchSync(c, {id}, now))
    /\ UNCHANGED <<weather, nextWeather, weatherT, npc, acquainted, together>>

\* ... and for a range: the loop over first .. last - 1 announces the ids first + i.
Announced(first, last) == {id \in Switches : id - first \in first..last - 1}

ControlRange(c, first, last, value) ==
    LET now == [id \in Switches |-> IF id \in first..last THEN value ELSE switches[c][id]] IN
    /\ switches' = [switches EXCEPT ![c] = now]
    /\ Relay(Others(c), SwitchSync(c, Announced(first, last), now))
    /\ UNCHANGED <<weather, nextWeather, weatherT, npc, acquainted, together>>

\* A newer effect does not replace one that waits.
WeatherEffects_first(c, w) ==
    /\ weather' = [weather EXCEPT ![c] = w]
    /\ nextWeather' = [nextWeather EXCEPT ![c] = IF @ = NoWeather THEN w ELSE @]
    /\ UNCHANGED <<switches, weatherT, npc, acquainted, inbox, together>>

\* CommandWeatherEffects with WeatherEffectSync: the packet is left to Update.
WeatherEffects(c, w) ==
    /\ weather' = [weather EXCEPT ![c] = w]
    /\ nextWeather' = [nextWeather EXCEPT ![c] = w]
    /\ UNCHANGED <<switches, weatherT, npc, acquainted, inbox, together>>

\* The count runs on past its bound.
Update_noReset(c) ==
    /\ nextWeather[c] # NoWeather
    /\ weatherT' = [weatherT EXCEPT ![c] = @ + 1]
    /\ IF weatherT[c] + 1 > Delay
         THEN /\ Relay(Others(c), <<WeatherPacket(nextWeather[c])>>)
              /\ nextWeather' = [nextWeather EXCEPT ![c] = NoWeather]
         ELSE UNCHANGED <<inbox, nextWeather>>
    /\ UNCHANGED <<switches, weather, npc, acquainted, together>>

\* The effect stays in wait for ever once the count has wrapped.
Update_exact(c) ==
    /\ nextWeather[c] # NoWeather
    /\ weatherT' = [weatherT EXCEPT ![c] = IF @ = Delay THEN 0 ELSE @ + 1]
    /\ UNCHANGED <<switches, weather, nextWeather, inbox, npc, acquainted, together>>

\* The weather part of Update: sent in the frame after Delay frames of waiting. A newer
\* effect does not start the count anew.
Update(c) ==
    /\ nextWeather[c] # NoWeather
    /\ IF weatherT[c] + 1 > Delay
         THEN /\ weatherT' = [weatherT EXCEPT ![c] = 0]
              /\ Relay(Others(c), <<WeatherPacket(nextWeather[c])>>)
              /\ nextWeather' = [nextWeather EXCEPT ![c] = NoWeather]
         ELSE /\ weatherT' = [weatherT EXCEPT ![c] = @ + 1]
              /\ UNCHANGED <<inbox, nextWeather>>
    /\ UNCHANGED <<switches, weather, npc, acquainted, together>>

\* A move that is not announced happens all the same.
NpcMove_alone(c, at) ==
    /\ \/ /\ SyncNpc /\ acquainted[c]
          /\ Relay(Clients, <<NpcPacket(at)>>)
          /\ together' = (together \/ \A d \in Clients : acquainted[d])
          /\ UNCHANGED npc
       \/ /\ npc' = [npc EXCEPT ![c] = at]
          /\ UNCHANGED <<inbox, together>>
    /\ UNCHANGED <<writeVars, acquainted>>

\* Game_Character::Move of an event, with NpcMoveSync. Who knows others leaves the move to
\* the server, or to others: a draw decides. Who knows nobody moves the event at once.
NpcMove(c, at) ==
    /\ IF SyncNpc /\ acquainted[c]
         THEN \/ /\ Relay(Clients, <<NpcPacket(at)>>)
                 /\ together' = (together \/ \A d \in Clients : acquainted[d])
                 /\ UNCHANGED npc
              \/ UNCHANGED <<inbox, npc, together>>
         ELSE /\ npc' = [npc EXCEPT ![c] = at]
              /\ UNCHANGED <<inbox, together>>
    /\ UNCHANGED <<writeVars, acquainted>>

\* A player does something the others hear of.
Greet(c) ==
    /\ \E d \in Others(c) : ~acquainted[d]
    /\ Relay(Others(c), <<Greeting>>)
    /\ UNCHANGED <<writeVars, npc, acquainted, together>>

\* A switch is set whether it is on the receiver's whitelist or not.
Receive_any(c) ==
    /\ inbox[c] # <<>>
    /\ inbox' = [inbox EXCEPT ![c] = Tail(@)]
    /\ LET p == Head(inbox[c]) IN
         /\ switches' = IF p.type = "switchsync"
                          THEN [switches EXCEPT ![c][p.id] = p.value] ELSE switches
         /\ weather' = IF p.type = "weather" THEN [weather EXCEPT ![c] = p.weather] ELSE weather
         /\ npc' = IF p.type = "npcmove" THEN [npc EXCEPT ![c] = p.at] ELSE npc
         /\ acquainted' = IF p.type = "npcmove" THEN acquainted
                                                ELSE [acquainted EXCEPT ![c] = TRUE]
    /\ UNCHANGED <<nextWeather, weatherT, together>>

\* HandleReceivedPacket: a packet of another player creates that player; an npcmove comes
\* from the room. Nothing is sent in answer.
Receive(c) ==
    /\ inbox[c] # <<>>
    /\ inbox' = [inbox EXCEPT ![c] = Tail(@)]
    /\ LET p == Head(inbox[c]) IN
         /\ switches' = IF p.type = "switchsync" /\ p.id \in Whitelist[c]
                          THEN [switches EXCEPT ![c][p.id] = p.value] ELSE switches
         /\ weather' = IF p.type = "weather" THEN [weather EXCEPT ![c] = p.weather] ELSE weather
         /\ npc' = IF p.type = "npcmove" THEN [npc EXCEPT ![c] = p.at] ELSE npc
         /\ acquainted' = IF p.type = "npcmove" THEN acquainted
                                                ELSE [acquainted EXCEPT ![c] = TRUE]
    /\ UNCHANGED <<nextWeather, weatherT, together>>

Next ==
    \E c \in Clients :
        \/ /\ c \in Writers
           /\ \/ \E id \in Switches, value \in BOOLEAN : ControlSwitch(c, id, value)
              \/ \E range \in Ranges, value \in BOOLEAN :
                    ControlRange(c, range[1], range[2], value)
              \/ \E w \in Weathers : WeatherEffects(c, w)
        \/ Update(c)
        \/ \E at \in Spots : NpcMove(c, at)
        \/ Greet(c)
        \/ Receive(c)

Spec == Init /\ [][Next]_vars

\* Frames come, and the browser hands on what it received.
FairSpec == Spec /\ \A c \in Clients : WF_vars(Update(c)) /\ WF_vars(Receive(c))

-----------------------------------------------------------------------------
(* Properties.                                                             *)

Coming(c, type) == {i \in DOMAIN inbox[c] : inbox[c][i].type = type}

\* Switches of ranges that are written, but not announced.
Missed == UNION {(range[1]..range[2]) \ Announced(range[1], range[2]) : range \in Ranges}

\* While one player writes, the others' switches on both whitelists follow: where one
\* differs, the newest packet on its way sets it right (SwitchSync; "Adds posibility of
\* switch sync", README.md). So it is for all that no range announces under another id.
SwitchesFollow ==
    \A w \in Writers, c \in Clients : \A id \in (Whitelist[w] \cap Whitelist[c]) \ Missed :
        Writers = {w} /\ switches[c][id] # switches[w][id] =>
            \E i \in Coming(c, "switchsync") :
                /\ inbox[c][i] = SwitchPacket(id, switches[w][id])
                /\ \A j \in Coming(c, "switchsync") : j > i => inbox[c][j].id # id

\* A switch that is not on the whitelist of a player is never changed by another.
OthersKeepOut ==
    \A c \in Clients \ Writers : \A id \in Switches \ Whitelist[c] : ~switches[c][id]

\* While one player makes the weather, whoever sees another weather will hear of it: it
\* waits for its delay, or the newest weather packet on its way is it.
WeatherFollows ==
    \A w \in Writers, c \in Clients :
        Writers = {w} /\ weather[c] # weather[w] =>
            \/ nextWeather[w] = weather[w]
            \/ \E i \in Coming(c, "weather") :
                  /\ inbox[c][i] = WeatherPacket(weather[w])
                  /\ \A j \in Coming(c, "weather") : j <= i

\* The delay ends: a weather is seen by all, or replaced.
WeatherArrives ==
    \A w \in Writers, c \in Clients, x \in Weathers :
        Writers = {w} => (weather[w] = x ~> (weather[c] = x \/ weather[w] # x))

\* Once an event was moved by way of the server, all see it at the same place whenever
\* no npcmove is on its way.
NpcsAgree ==
    together /\ (\A c \in Clients : Coming(c, "npcmove") = {}) =>
        \A c, d \in Clients : npc[c] = npc[d]

\* All of these: the packets of one player make the worlds of the others follow, and
\* touch nothing that they keep to themselves.
SharedInv == TypeOK /\ SwitchesFollow /\ OthersKeepOut /\ WeatherFollows /\ NpcsAgree

=============================================================================
