----------------------------- MODULE Map_proofs -----------------------------
(***************************************************************************)
(* Theorems about the map, first about Vehicles, for any maps, any row of  *)
(* tiles, any number of ships, whatever parallel events command and        *)
(* whenever: the airship flies exactly while it is ridden, and who is on   *)
(* foot has his own speed. Then about Characters, for any number of events *)
(* on any routes: they never stand on one tile, nor move twice in a frame, *)
(* however deep those who ask for a tile ask each other. Then about        *)
(* MapUpdate, for any commands, pages and packets: pages, interpreters and *)
(* the questions of messages keep to each other, and a frame that is       *)
(* suspended goes on where it stopped.                                     *)
(***************************************************************************)
EXTENDS Vehicles, Characters, MapUpdate, SequenceTheorems, FiniteSetTheorems, WellFoundedInduction, TLAPS

Rider ==
    [map : Maps, x : Tiles, dir : {-1, 1}, rem : 0..StepTime, speed : {OnFoot, VehicleSpeed},
     preboard : {OnFoot, VehicleSpeed}, vehicle : Vehicles \cup {None}, aboard : BOOLEAN,
     boarding : BOOLEAN, unboarding : BOOLEAN, flying : BOOLEAN]

Lifts == [flying : BOOLEAN, ascent : 0..Lift, descent : 0..Lift]
Places == [Vehicles -> [map : Maps, x : Tiles]]
Tunes == {Music[m] : m \in DOMAIN Music}

Typed(w) ==
    /\ DOMAIN w = {"p", "at", "lift", "bgm", "before"}
    /\ w.p \in Rider /\ w.at \in Places /\ w.lift \in Lifts
    /\ w.bgm \in Tunes /\ w.before \in Tunes

\* The flight: the airship is up with its rider.
Flight(w) ==
    /\ w.lift.flying <=> w.p.aboard /\ w.p.vehicle = Airship
    /\ w.p.flying <=> w.lift.flying
    /\ Ascending(w) => w.lift.flying

\* The speed to come back to is kept from the first step on board to the last.
Pace(w) ==
    /\ ~w.p.aboard => w.p.speed = OnFoot
    /\ w.p.aboard \/ w.p.boarding => w.p.preboard = OnFoot

\* Who boards is on his way to a ship. An event that teleports him meanwhile may let him get
\* into the airship instead, which then ascends while he stands.
Boards(w) ==
    /\ w.p.aboard => w.p.vehicle # None
    /\ w.p.boarding /\ ~w.p.aboard => w.p.vehicle \in Ships
    /\ w.p.boarding /\ w.p.aboard => w.p.rem = 0
Ascends(w) == w.p.boarding /\ w.p.aboard => w.p.vehicle = Airship /\ w.lift.ascent > 0

\* Within a frame, the ascent may be over before the boarding is.
InFrame(w) == Typed(w) /\ Flight(w) /\ Pace(w) /\ Boards(w)
Good(w) == InFrame(w) /\ Ascends(w)

-----------------------------------------------------------------------------
(* Worlds and their parts.                                                  *)

LEMMA Basics ==
    ASSUME VehiclesAssumption
    PROVE  /\ StepTime \in Nat /\ Lift \in Nat /\ Lift > 0 /\ 0 \in 0..StepTime /\ StepTime \in 0..StepTime
           /\ 0 \in 0..Lift /\ Lift \in 0..Lift
           /\ \A n \in Maps \cup Vehicles : Music[n] \in Tunes
           /\ Airship \in Vehicles /\ Airship \notin Ships /\ Airship # None /\ None \notin Vehicles
           /\ OnFoot # VehicleSpeed
  BY DEF VehiclesAssumption, Tunes, Vehicles

LEMMA Parts ==
    ASSUME NEW w, Typed(w)
    PROVE  /\ w.p \in Rider /\ w.at \in Places /\ w.lift \in Lifts
           /\ w.bgm \in Tunes /\ w.before \in Tunes
           /\ w.p.map \in Maps /\ w.p.x \in Tiles /\ w.p.dir \in {-1, 1} /\ w.p.rem \in 0..StepTime
           /\ w.p.speed \in {OnFoot, VehicleSpeed} /\ w.p.preboard \in {OnFoot, VehicleSpeed}
           /\ w.p.vehicle \in Vehicles \cup {None}
           /\ w.p.aboard \in BOOLEAN /\ w.p.boarding \in BOOLEAN /\ w.p.unboarding \in BOOLEAN
           /\ w.p.flying \in BOOLEAN
           /\ w.lift.flying \in BOOLEAN /\ w.lift.ascent \in 0..Lift /\ w.lift.descent \in 0..Lift
  BY DEF Typed, Rider, Lifts

LEMMA MoveToKeeps ==
    ASSUME VehiclesAssumption, NEW w, Good(w), NEW m \in Maps, NEW x \in Tiles
    PROVE  Good(MoveTo(w, m, x))
<1> DEFINE n == MoveTo(w, m, x)
           r == [w.p EXCEPT !.map = m, !.x = x, !.rem = 0]
           a == IF w.p.vehicle = None THEN w.at
                ELSE [w.at EXCEPT ![w.p.vehicle] = [map |-> m, x |-> x]]
           b == IF m # w.p.map /\ ~w.p.aboard THEN Music[m] ELSE w.bgm
           c == IF m # w.p.map /\ w.p.aboard THEN Music[m] ELSE w.before
<1>0. Typed(w) /\ Flight(w) /\ Pace(w) /\ Boards(w) /\ Ascends(w)
  BY DEF Good, InFrame
<1>1. /\ w.p \in Rider /\ w.at \in Places /\ w.lift \in Lifts
      /\ w.bgm \in Tunes /\ w.before \in Tunes
      /\ DOMAIN w = {"p", "at", "lift", "bgm", "before"}
  BY <1>0 DEF Typed
<1>2. /\ n.p = r /\ n.at = a /\ n.lift = w.lift /\ n.bgm = b /\ n.before = c
      /\ DOMAIN n = DOMAIN w
  BY <1>1 DEF MoveTo, Rider
<1>3. r \in Rider
  <2>1. 0 \in 0..StepTime
    BY Basics
  <2> QED
    BY <1>1, <2>1 DEF Rider
<1>4. a \in Places
  BY <1>1 DEF Places
<1>5. b \in Tunes /\ c \in Tunes
  <2>1. Music[m] \in Tunes
    BY Basics
  <2> QED
    BY <1>1, <2>1
<1>6. /\ r.vehicle = w.p.vehicle /\ r.aboard = w.p.aboard /\ r.flying = w.p.flying
      /\ r.boarding = w.p.boarding /\ r.speed = w.p.speed /\ r.preboard = w.p.preboard /\ r.rem = 0
  BY <1>1 DEF Rider
<1> HIDE DEF r, a, b, c, n
<1>7. Typed(n)
  BY <1>1, <1>2, <1>3, <1>4, <1>5 DEF Typed
<1>8. Flight(n) /\ Pace(n) /\ Boards(n) /\ Ascends(n)
  BY <1>0, <1>2, <1>6 DEF Flight, Pace, Boards, Ascends, Ascending
<1> QED
  BY <1>7, <1>8 DEF Good, InFrame, n

\* A step through everything changes the place and what remains of the step.
LEMMA MoveThroughFacts ==
    ASSUME VehiclesAssumption, NEW w, Typed(w)
    PROVE  LET n == MoveThrough(w)
           IN  /\ Typed(n)
               /\ n.lift = w.lift
               /\ n.p.vehicle = w.p.vehicle /\ n.p.aboard = w.p.aboard /\ n.p.flying = w.p.flying
               /\ n.p.boarding = w.p.boarding /\ n.p.speed = w.p.speed
               /\ n.p.preboard = w.p.preboard
<1> DEFINE n == [w EXCEPT !.p.x = InFront(w), !.p.rem = StepTime]
           r == [w.p EXCEPT !.x = InFront(w), !.rem = StepTime]
<1>1. CASE Stopping(w) /\ InFront(w) \in Tiles
  <2>1. w.p \in Rider /\ "p" \in DOMAIN w
    BY DEF Typed
  <2>2. StepTime \in 0..StepTime
    BY Basics
  <2>3. r \in Rider
    BY <1>1, <2>1, <2>2 DEF Rider
  <2>4. /\ n.p = r /\ DOMAIN n = DOMAIN w /\ n.at = w.at /\ n.lift = w.lift /\ n.bgm = w.bgm
        /\ n.before = w.before
    BY <2>1 DEF Typed, Rider
  <2>5. /\ r.vehicle = w.p.vehicle /\ r.aboard = w.p.aboard /\ r.flying = w.p.flying
        /\ r.boarding = w.p.boarding /\ r.speed = w.p.speed /\ r.preboard = w.p.preboard
    BY <2>1 DEF Rider
  <2>6. MoveThrough(w) = n
    BY <1>1 DEF MoveThrough
  <2> HIDE DEF n, r
  <2>7. Typed(n)
    BY <2>3, <2>4 DEF Typed
  <2> QED
    BY <2>4, <2>5, <2>6, <2>7
<1>2. CASE ~(Stopping(w) /\ InFront(w) \in Tiles)
  BY <1>2 DEF MoveThrough
<1> QED
  BY <1>1, <1>2

LEMMA AirshipKeeps ==
    ASSUME VehiclesAssumption, NEW w, Good(w), ~w.p.aboard, Stopping(w)
    PROVE  Good(GetOnAirship(w))
<1> DEFINE n == GetOnAirship(w)
           r == [w.p EXCEPT !.vehicle = Airship, !.aboard = TRUE, !.preboard = w.p.speed,
                            !.speed = VehicleSpeed, !.flying = TRUE]
           l == [w.lift EXCEPT !.flying = TRUE, !.ascent = Lift]
<1>0. Typed(w) /\ Flight(w) /\ Pace(w) /\ Boards(w)
  BY DEF Good, InFrame
<1>1. w.p \in Rider /\ w.lift \in Lifts /\ ~w.lift.flying /\ w.p.rem = 0
  BY <1>0 DEF Typed, Flight, Stopping
<1>2. r \in Rider
  BY <1>1, Basics DEF Rider
<1>3. l \in Lifts /\ l.flying = TRUE /\ l.ascent = Lift
  <2>1. Lift \in 0..Lift
    BY Basics
  <2> QED
    BY <1>1, <2>1 DEF Lifts
<1>4. /\ n.p = r /\ DOMAIN n = DOMAIN w /\ n.at = w.at /\ n.lift = l /\ n.bgm = Music[Airship]
      /\ n.before = w.bgm
  BY <1>0, <1>1 DEF GetOnAirship, PlayVehicleMusic, StartAscent, Typed, Rider
<1>5. /\ r.vehicle = Airship /\ r.aboard = TRUE /\ r.flying = TRUE /\ r.rem = 0
      /\ r.preboard = w.p.speed
  BY <1>1 DEF Rider
<1> HIDE DEF n, r, l
<1>6. Typed(n)
  <2>1. Music[Airship] \in Tunes
    BY Basics
  <2> QED
    BY <1>0, <1>2, <1>3, <1>4, <2>1 DEF Typed
<1>7. Flight(n) /\ Pace(n) /\ Boards(n) /\ Ascends(n)
  BY <1>0, <1>3, <1>4, <1>5, Basics DEF Flight, Pace, Boards, Ascends, Ascending
<1> QED
  BY <1>6, <1>7 DEF Good, InFrame, n

LEMMA ShipKeeps ==
    ASSUME VehiclesAssumption, NEW w, Good(w), ~w.p.aboard, NEW s \in Ships
    PROVE  Good(GetOnShip(w, s))
<1> DEFINE v == MoveThrough(w)
           n == GetOnShip(w, s)
           r == [v.p EXCEPT !.vehicle = s, !.preboard = w.p.speed, !.boarding = TRUE]
<1>0. Typed(w) /\ Flight(w) /\ Pace(w) /\ Boards(w)
  BY DEF Good, InFrame
<1>1. /\ Typed(v) /\ v.lift = w.lift
      /\ v.p.vehicle = w.p.vehicle /\ v.p.aboard = w.p.aboard /\ v.p.flying = w.p.flying
      /\ v.p.boarding = w.p.boarding /\ v.p.speed = w.p.speed /\ v.p.preboard = w.p.preboard
  BY <1>0, MoveThroughFacts
<1> HIDE DEF v
<1>2. v.p \in Rider /\ w.p.speed \in {OnFoot, VehicleSpeed}
  BY <1>0, <1>1 DEF Typed, Rider
<1>3. r \in Rider
  BY <1>2 DEF Rider, Vehicles
<1>4. /\ n.p = r /\ DOMAIN n = DOMAIN v /\ n.at = v.at /\ n.lift = w.lift /\ n.bgm = Music[s]
      /\ n.before = v.bgm
  BY <1>1, <1>2 DEF GetOnShip, PlayVehicleMusic, Typed, Rider, v
<1>5. /\ r.vehicle = s /\ r.aboard = w.p.aboard /\ r.flying = w.p.flying
      /\ r.preboard = w.p.speed /\ r.speed = w.p.speed
  BY <1>1, <1>2 DEF Rider
<1> HIDE DEF n, r
<1>6. Typed(n)
  <2>1. Music[s] \in Tunes
    BY Basics DEF Vehicles
  <2> QED
    BY <1>1, <1>3, <1>4, <2>1 DEF Typed
<1>7. Flight(n) /\ Pace(n) /\ Boards(n) /\ Ascends(n)
  BY <1>0, <1>4, <1>5, Basics DEF Flight, Pace, Boards, Ascends, Ascending, Vehicles
<1> QED
  BY <1>6, <1>7 DEF Good, InFrame, n

LEMMA LeaveFacts ==
    ASSUME NEW w, Typed(w)
    PROVE  LET n == Leave(w)
           IN  /\ Typed(n) /\ n.lift = w.lift /\ n.at = w.at
               /\ n.p.vehicle = None /\ n.p.aboard = FALSE /\ n.p.flying = w.p.flying
               /\ n.p.boarding = w.p.boarding /\ n.p.speed = w.p.preboard
               /\ n.p.preboard = w.p.preboard
<1> DEFINE n == Leave(w)
           r == [w.p EXCEPT !.aboard = FALSE, !.unboarding = TRUE, !.vehicle = None,
                            !.speed = w.p.preboard]
<1>1. w.p \in Rider
  BY DEF Typed
<1>2. r \in Rider
  BY <1>1 DEF Rider
<1>3. /\ n.p = r /\ DOMAIN n = DOMAIN w /\ n.at = w.at /\ n.lift = w.lift
      /\ n.bgm = w.before /\ n.before = w.before
  BY <1>1 DEF Leave, Typed, Rider
<1>4. /\ r.vehicle = None /\ r.aboard = FALSE /\ r.flying = w.p.flying
      /\ r.boarding = w.p.boarding /\ r.speed = w.p.preboard /\ r.preboard = w.p.preboard
  BY <1>1 DEF Rider
<1> HIDE DEF n, r
<1>5. Typed(n)
  BY <1>2, <1>3 DEF Typed
<1> QED
  BY <1>3, <1>4, <1>5 DEF n

LEMMA GetOffKeeps ==
    ASSUME VehiclesAssumption, NEW w, Good(w), w.p.aboard
    PROVE  Good(GetOffVehicle(w))
<1>0. Typed(w) /\ Flight(w) /\ Pace(w) /\ Boards(w) /\ Ascends(w)
  BY DEF Good, InFrame
<1>1. CASE w.p.vehicle = Airship /\ (Ascending(w) \/ ~w.lift.flying)
  BY <1>1 DEF GetOffVehicle
<1>2. CASE w.p.vehicle = Airship /\ ~Ascending(w) /\ w.lift.flying
  <2> DEFINE n == [w EXCEPT !.lift.descent = Lift]
             l == [w.lift EXCEPT !.descent = Lift]
  <2>1. w.lift \in Lifts /\ Lift \in 0..Lift
    BY <1>0, Basics DEF Typed
  <2>2. l \in Lifts /\ l.flying = w.lift.flying /\ l.ascent = w.lift.ascent
    BY <2>1 DEF Lifts
  <2>3. /\ n.p = w.p /\ DOMAIN n = DOMAIN w /\ n.at = w.at /\ n.lift = l /\ n.bgm = w.bgm
        /\ n.before = w.before
    BY <1>0, <2>1 DEF Typed, Lifts
  <2>4. GetOffVehicle(w) = n
    BY <1>2 DEF GetOffVehicle
  <2> HIDE DEF n, l
  <2>5. Typed(n)
    BY <1>0, <2>2, <2>3 DEF Typed
  <2>6. Flight(n) /\ Pace(n) /\ Boards(n) /\ Ascends(n)
    BY <1>0, <1>2, <2>2, <2>3 DEF Flight, Pace, Boards, Ascends, Ascending
  <2> QED
    BY <2>4, <2>5, <2>6 DEF Good, InFrame
<1>3. CASE w.p.vehicle # Airship
  <2> DEFINE n == Leave(w)
             k == MoveThrough(n)
  <2>1. /\ Typed(n) /\ n.lift = w.lift
        /\ n.p.vehicle = None /\ n.p.aboard = FALSE /\ n.p.flying = w.p.flying
        /\ n.p.boarding = w.p.boarding /\ n.p.speed = w.p.preboard /\ n.p.preboard = w.p.preboard
    BY <1>0, LeaveFacts
  <2> HIDE DEF n
  <2>2. /\ Typed(k) /\ k.lift = n.lift
        /\ k.p.vehicle = n.p.vehicle /\ k.p.aboard = n.p.aboard /\ k.p.flying = n.p.flying
        /\ k.p.boarding = n.p.boarding /\ k.p.speed = n.p.speed /\ k.p.preboard = n.p.preboard
    BY <2>1, MoveThroughFacts
  <2> HIDE DEF k
  <2>3. Flight(k) /\ Pace(k) /\ Boards(k) /\ Ascends(k)
    BY <1>0, <1>3, <2>1, <2>2, Basics DEF Flight, Pace, Boards, Ascends, Ascending
  <2> QED
    BY <1>3, <2>2, <2>3 DEF Good, InFrame, GetOffVehicle, k, n
<1> QED
  BY <1>1, <1>2, <1>3

LEMMA GetOnOffKeeps ==
    ASSUME VehiclesAssumption, NEW w, Good(w)
    PROVE  Good(GetOnOffVehicle(w))
<1>1. CASE w.p.aboard
  BY <1>1, GetOffKeeps DEF GetOnOffVehicle
<1>2. CASE ~w.p.aboard
  <2>1. CASE IsInPosition(w, Airship, w.p.x) /\ Stopping(w)
    BY <1>2, <2>1, AirshipKeeps DEF GetOnOffVehicle, GetOnVehicle
  <2>2. CASE /\ ~(IsInPosition(w, Airship, w.p.x) /\ Stopping(w))
             /\ ShipsAt(w, InFront(w)) # {} /\ Passable(None, w.p.x)
    <3> DEFINE s == CHOOSE t \in ShipsAt(w, InFront(w)) : TRUE
    <3>1. s \in Ships
      BY <2>2 DEF ShipsAt
    <3>2. GetOnOffVehicle(w) = GetOnShip(w, s)
      BY <1>2, <2>2 DEF GetOnOffVehicle, GetOnVehicle
    <3> HIDE DEF s
    <3> QED
      BY <1>2, <3>1, <3>2, ShipKeeps
  <2>3. CASE /\ ~(IsInPosition(w, Airship, w.p.x) /\ Stopping(w))
             /\ ~(ShipsAt(w, InFront(w)) # {} /\ Passable(None, w.p.x))
    BY <1>2, <2>3 DEF GetOnOffVehicle, GetOnVehicle
  <2> QED
    BY <2>1, <2>2, <2>3
<1> QED
  BY <1>1, <1>2

\* Whoever forces him off, the airship comes down with him.
LEMMA ForceOffKeeps ==
    ASSUME VehiclesAssumption, NEW w, Good(w), ~w.p.boarding
    PROVE  Good(ForceGetOffVehicle(w))
<1>0. Typed(w) /\ Flight(w) /\ Pace(w) /\ Boards(w) /\ Ascends(w)
  BY DEF Good, InFrame
<1>1. CASE ~w.p.aboard
  BY <1>1 DEF ForceGetOffVehicle
<1>2. CASE w.p.aboard
  <2> DEFINE v == Leave(w)
             n == ForceGetOffVehicle(w)
             r == [v.p EXCEPT !.flying = FALSE]
             l == IF w.p.vehicle = Airship THEN [flying |-> FALSE, ascent |-> 0, descent |-> 0]
                  ELSE v.lift
  <2>1. /\ Typed(v) /\ v.lift = w.lift
        /\ v.p.vehicle = None /\ v.p.aboard = FALSE /\ v.p.flying = w.p.flying
        /\ v.p.boarding = w.p.boarding /\ v.p.speed = w.p.preboard /\ v.p.preboard = w.p.preboard
    BY <1>0, LeaveFacts
  <2> HIDE DEF v
  <2>2. v.p \in Rider
    BY <2>1 DEF Typed
  <2>3. /\ r \in Rider /\ r.flying = FALSE /\ r.vehicle = None /\ r.aboard = FALSE
        /\ r.boarding = w.p.boarding /\ r.speed = w.p.preboard /\ r.preboard = w.p.preboard
    BY <2>1, <2>2 DEF Rider
  <2>4. l \in Lifts /\ (l.ascent > 0 \/ l.descent > 0 => l.flying) /\ ~l.flying
    <3>1. CASE w.p.vehicle = Airship
      <4>1. 0 \in 0..Lift
        BY Basics
      <4> QED
        BY <3>1, <4>1 DEF Lifts
    <3>2. CASE w.p.vehicle # Airship
      BY <1>0, <2>1, <3>2 DEF Typed, Flight, Ascending
    <3> QED
      BY <3>1, <3>2
  <2>5. /\ n.p = r /\ DOMAIN n = DOMAIN v /\ n.at = v.at /\ n.lift = l /\ n.bgm = v.bgm
        /\ n.before = v.before
    BY <1>2, <2>1, <2>2 DEF ForceGetOffVehicle, Typed, Rider, v
  <2> HIDE DEF n, r, l
  <2>6. Typed(n)
    BY <2>1, <2>3, <2>4, <2>5 DEF Typed
  <2>7. Flight(n) /\ Pace(n) /\ Boards(n) /\ Ascends(n)
    BY <1>0, <1>2, <2>3, <2>4, <2>5 DEF Flight, Pace, Boards, Ascends, Ascending
  <2> QED
    BY <2>6, <2>7 DEF Good, InFrame, n
<1> QED
  BY <1>1, <1>2

-----------------------------------------------------------------------------
(* A frame.                                                                 *)

\* The airship on its way up or down. Nobody boards once it is up.
LEMMA LiftKeeps ==
    ASSUME VehiclesAssumption, NEW w, Good(w), w.p.vehicle = Airship, w.lift.flying
    PROVE  InFrame(UpdateAirship(w))
<1> DEFINE n == UpdateAirship(w)
<1>0. Typed(w) /\ Flight(w) /\ Pace(w) /\ Boards(w) /\ Ascends(w)
  BY DEF Good, InFrame
<1>1. /\ w.lift \in Lifts /\ w.lift.ascent \in 0..Lift /\ w.lift.descent \in 0..Lift
      /\ Lift \in Nat /\ 0 \in 0..Lift /\ Lift \in 0..Lift /\ w.p \in Rider
      /\ w.p.aboard /\ w.p.flying
  BY <1>0, Basics DEF Typed, Lifts, Flight
<1>2. ASSUME NEW l \in Lifts, l.flying = TRUE,
             n.p = w.p, DOMAIN n = DOMAIN w, n.at = w.at, n.lift = l, n.bgm = w.bgm,
             n.before = w.before
      PROVE  InFrame(n)
  <2> HIDE DEF n
  <2>1. Typed(n)
    BY <1>0, <1>2 DEF Typed
  <2> QED
    BY <1>0, <1>1, <1>2, <2>1 DEF InFrame, Flight, Pace, Boards, Ascending
<1>3. CASE w.lift.ascent > 0
  <2> DEFINE l == [w.lift EXCEPT !.ascent = @ - 1]
  <2>1. w.lift.ascent - 1 \in 0..Lift
    BY <1>1, <1>3
  <2>2. l \in Lifts /\ l.flying = w.lift.flying
    BY <1>1, <2>1 DEF Lifts
  <2>3. /\ n.p = w.p /\ DOMAIN n = DOMAIN w /\ n.at = w.at /\ n.lift = l /\ n.bgm = w.bgm
        /\ n.before = w.before
    BY <1>0, <1>1, <1>3 DEF UpdateAirship, Typed, Lifts
  <2>4. l.flying = TRUE
    BY <1>1, <2>2
  <2> HIDE DEF n, l
  <2> QED
    BY <1>2, <2>2, <2>3, <2>4 DEF n
<1>4. CASE ~(w.lift.ascent > 0) /\ w.lift.descent > 1
  <2> DEFINE l == [w.lift EXCEPT !.descent = @ - 1]
  <2>1. w.lift.descent - 1 \in 0..Lift
    BY <1>1, <1>4
  <2>2. l \in Lifts /\ l.flying = w.lift.flying
    BY <1>1, <2>1 DEF Lifts
  <2>3. /\ n.p = w.p /\ DOMAIN n = DOMAIN w /\ n.at = w.at /\ n.lift = l /\ n.bgm = w.bgm
        /\ n.before = w.before
    BY <1>0, <1>1, <1>4 DEF UpdateAirship, Typed, Lifts
  <2>4. l.flying = TRUE
    BY <1>1, <2>2
  <2> HIDE DEF n, l
  <2> QED
    BY <1>2, <2>2, <2>3, <2>4 DEF n
<1>5. CASE ~(w.lift.ascent > 0) /\ ~(w.lift.descent > 1) /\ ~CanLand(w)
  <2> DEFINE l == [w.lift EXCEPT !.descent = 0, !.ascent = Lift]
  <2>1. l \in Lifts /\ l.flying = w.lift.flying
    BY <1>1 DEF Lifts
  <2>2. /\ n.p = w.p /\ DOMAIN n = DOMAIN w /\ n.at = w.at /\ n.lift = l /\ n.bgm = w.bgm
        /\ n.before = w.before
    BY <1>0, <1>1, <1>5 DEF UpdateAirship, Typed, Lifts
  <2>3. l.flying = TRUE
    BY <1>1, <2>1
  <2> HIDE DEF n, l
  <2> QED
    BY <1>2, <2>1, <2>2, <2>3 DEF n
<1>6. CASE ~(w.lift.ascent > 0) /\ ~(w.lift.descent > 1) /\ CanLand(w)
  <2> DEFINE l == [flying |-> FALSE, ascent |-> 0, descent |-> 0]
             r == [w.p EXCEPT !.flying = FALSE, !.aboard = FALSE, !.vehicle = None,
                              !.speed = w.p.preboard]
  <2>1. l \in Lifts /\ l.flying = FALSE /\ l.ascent = 0 /\ l.descent = 0
    BY <1>1 DEF Lifts
  <2>2. /\ r \in Rider /\ r.flying = FALSE /\ r.vehicle = None /\ r.aboard = FALSE
        /\ r.boarding = w.p.boarding /\ r.speed = w.p.preboard /\ r.preboard = w.p.preboard
    BY <1>1 DEF Rider
  <2>3. /\ n.p = r /\ DOMAIN n = DOMAIN w /\ n.at = w.at /\ n.lift = l /\ n.bgm = w.before
        /\ n.before = w.before
    BY <1>0, <1>1, <1>6 DEF UpdateAirship, Typed, Rider
  <2>4. w.p.boarding = FALSE /\ w.p.preboard = OnFoot
    BY <1>0, <1>1, <1>6 DEF Ascends, Pace, Rider
  <2> HIDE DEF n, l, r
  <2>5. Typed(n)
    BY <1>0, <2>1, <2>2, <2>3 DEF Typed
  <2> QED
    BY <2>1, <2>2, <2>3, <2>4, <2>5 DEF InFrame, Flight, Pace, Boards, Ascending, n
<1> QED
  BY <1>3, <1>4, <1>5, <1>6

LEMMA WalkKeeps ==
    ASSUME VehiclesAssumption, NEW w, InFrame(w), ~(w.p.boarding /\ w.p.aboard),
           NEW d \in {-1, 1}
    PROVE  InFrame(Walk(w, d))
<1> DEFINE n == Walk(w, d)
<1>0. Typed(w) /\ Flight(w) /\ Pace(w) /\ Boards(w) /\ w.p \in Rider
  BY DEF InFrame, Typed
<1>1. PICK x \in Tiles, k \in 0..StepTime : n = [w EXCEPT !.p.dir = d, !.p.x = x, !.p.rem = k]
  <2> DEFINE to == w.p.x + d
             free == /\ Passable(IF w.p.aboard THEN w.p.vehicle ELSE None, to)
                     /\ w.p.vehicle = Airship \/ ShipsAt(w, to) = {}
  <2>1. w.p.x \in Tiles /\ w.p.rem \in 0..StepTime /\ StepTime \in 0..StepTime
    BY <1>0, Basics DEF Rider
  <2>2. free => to \in Tiles
    BY DEF Passable
  <2> HIDE DEF free, to
  <2>3. n = [w EXCEPT !.p.dir = d, !.p.x = IF free THEN to ELSE w.p.x,
                      !.p.rem = IF free THEN StepTime ELSE w.p.rem]
    BY <1>0 DEF Walk, free, to, Typed, Rider
  <2> HIDE DEF n
  <2> QED
    BY <2>1, <2>2, <2>3
<1> DEFINE r == [w.p EXCEPT !.dir = d, !.x = x, !.rem = k]
<1>2. r \in Rider
  BY <1>0 DEF Rider
<1>3. /\ n.p = r /\ DOMAIN n = DOMAIN w /\ n.at = w.at /\ n.lift = w.lift /\ n.bgm = w.bgm
      /\ n.before = w.before
  <2> HIDE DEF n
  <2> QED
    BY <1>0, <1>1 DEF Typed, Rider
<1>4. /\ r.vehicle = w.p.vehicle /\ r.aboard = w.p.aboard /\ r.flying = w.p.flying
      /\ r.boarding = w.p.boarding /\ r.speed = w.p.speed /\ r.preboard = w.p.preboard
  BY <1>0 DEF Rider
<1> HIDE DEF n, r
<1>5. Typed(n)
  BY <1>0, <1>2, <1>3 DEF Typed
<1>6. Flight(n) /\ Pace(n) /\ Boards(n)
  BY <1>0, <1>3, <1>4 DEF Flight, Pace, Boards, Ascending
<1> QED
  BY <1>5, <1>6 DEF InFrame, n

LEMMA ActKeeps ==
    ASSUME VehiclesAssumption, NEW w, Good(w), NEW key
    PROVE  InFrame(Act(w, key))
<1>0. InFrame(w) /\ Flight(w) /\ Ascends(w)
  BY DEF Good, InFrame
<1>1. CASE ~Stopping(w)
  BY <1>0, <1>1 DEF Act
<1>2. CASE Stopping(w) /\ w.p.vehicle = Airship /\ w.lift.flying /\ Ascending(w)
  BY <1>2, LiftKeeps DEF Act
<1>3. CASE Stopping(w) /\ ~(w.p.vehicle = Airship /\ w.lift.flying /\ Ascending(w))
  <2>1. ~(w.p.boarding /\ w.p.aboard)
    BY <1>0, <1>3 DEF Flight, Ascends, Ascending
  <2>2. /\ InFrame(Walk(w, -1)) /\ InFrame(Walk(w, 1))
    BY <1>0, <2>1, WalkKeeps
  <2>3. InFrame(GetOnOffVehicle(w))
    BY GetOnOffKeeps DEF Good
  <2>4. Act(w, key) \in {Walk(w, -1), Walk(w, 1), GetOnOffVehicle(w), w}
    BY <1>3 DEF Act
  <2> QED
    BY <1>0, <2>2, <2>3, <2>4
<1> QED
  BY <1>1, <1>2, <1>3

\* The step goes on, and at its end whoever boarded is on board.
LEMMA StepGoesOn ==
    ASSUME VehiclesAssumption, NEW w, InFrame(w)
    PROVE  InFrame([w EXCEPT !.p.rem = IF @ > 0 THEN @ - 1 ELSE 0])
<1> DEFINE n == [w EXCEPT !.p.rem = IF @ > 0 THEN @ - 1 ELSE 0]
           k == IF w.p.rem > 0 THEN w.p.rem - 1 ELSE 0
           r == [w.p EXCEPT !.rem = k]
<1>0. Typed(w) /\ Flight(w) /\ Pace(w) /\ Boards(w) /\ w.p \in Rider
  BY DEF InFrame, Typed
<1>1. k \in 0..StepTime /\ (w.p.rem = 0 => k = 0)
  BY <1>0, Basics DEF Rider
<1>2. /\ n.p = r /\ DOMAIN n = DOMAIN w /\ n.at = w.at /\ n.lift = w.lift /\ n.bgm = w.bgm
      /\ n.before = w.before
  BY <1>0 DEF Typed, Rider
<1> HIDE DEF k
<1>3. /\ r \in Rider /\ r.vehicle = w.p.vehicle /\ r.aboard = w.p.aboard /\ r.flying = w.p.flying
      /\ r.boarding = w.p.boarding /\ r.speed = w.p.speed /\ r.preboard = w.p.preboard
      /\ r.rem = k
  BY <1>0, <1>1 DEF Rider
<1> HIDE DEF n, r
<1>4. Typed(n)
  BY <1>0, <1>2, <1>3 DEF Typed
<1>5. Flight(n) /\ Pace(n) /\ Boards(n)
  BY <1>0, <1>1, <1>2, <1>3 DEF Flight, Pace, Boards, Ascending
<1> QED
  BY <1>4, <1>5 DEF InFrame, n

LEMMA EndedKeeps ==
    ASSUME VehiclesAssumption, NEW w, InFrame(w)
    PROVE  Good(Ended(w))
<1>0. Typed(w) /\ Flight(w) /\ Pace(w) /\ Boards(w) /\ w.p \in Rider
  BY DEF InFrame, Typed
<1>1. CASE ~Stopping(w)
  BY <1>0, <1>1 DEF Ended, Good, InFrame, Ascends, Boards, Stopping
<1>2. CASE Stopping(w)
  <2> DEFINE n == Ended(w)
             r == [w.p EXCEPT !.boarding = FALSE, !.unboarding = FALSE,
                              !.aboard = w.p.aboard \/ w.p.boarding,
                              !.speed = IF w.p.boarding THEN VehicleSpeed ELSE w.p.speed]
  <2>1. /\ n.p = r /\ DOMAIN n = DOMAIN w /\ n.at = w.at /\ n.lift = w.lift /\ n.bgm = w.bgm
        /\ n.before = w.before
    BY <1>0, <1>2 DEF Ended, Typed, Rider
  <2>2. (w.p.aboard \/ w.p.boarding) \in BOOLEAN
    BY <1>0 DEF Rider
  <2>3. (IF w.p.boarding THEN VehicleSpeed ELSE w.p.speed) \in {OnFoot, VehicleSpeed}
    BY <1>0 DEF Rider
  <2>4. /\ r \in Rider /\ r.vehicle = w.p.vehicle /\ r.flying = w.p.flying
        /\ r.boarding = FALSE /\ r.preboard = w.p.preboard
        /\ r.aboard = (w.p.aboard \/ w.p.boarding)
        /\ r.speed = IF w.p.boarding THEN VehicleSpeed ELSE w.p.speed
    BY <1>0, <2>2, <2>3 DEF Rider
  <2> HIDE DEF n, r
  <2>5. Typed(n)
    BY <1>0, <2>1, <2>4 DEF Typed
  <2>6. n.p.aboard <=> w.p.aboard \/ w.p.boarding
    BY <2>1, <2>4
  <2>7. CASE w.p.boarding /\ ~w.p.aboard
    <3>1. w.p.vehicle \in Ships /\ w.p.vehicle # Airship /\ w.p.vehicle # None
      BY <1>0, <2>7, Basics DEF Boards, Vehicles
    <3>2. Flight(n)
      BY <1>0, <2>1, <2>4, <2>7, <3>1 DEF Flight, Ascending
    <3>3. Pace(n) /\ Boards(n) /\ Ascends(n)
      BY <1>0, <2>1, <2>4, <2>6, <2>7, <3>1 DEF Pace, Boards, Ascends
    <3> QED
      BY <2>5, <3>2, <3>3 DEF Good, InFrame, n
  <2>8. CASE ~(w.p.boarding /\ ~w.p.aboard)
    <3>1. n.p.aboard <=> w.p.aboard
      BY <2>6, <2>8
    <3>2. Flight(n)
      BY <1>0, <2>1, <2>4, <3>1 DEF Flight, Ascending
    <3>3. Pace(n) /\ Boards(n) /\ Ascends(n)
      BY <1>0, <2>1, <2>4, <2>8, <3>1 DEF Pace, Boards, Ascends
    <3> QED
      BY <2>5, <3>2, <3>3 DEF Good, InFrame, n
  <2> QED
    BY <2>7, <2>8
<1> QED
  BY <1>1, <1>2

LEMMA SyncKeeps ==
    ASSUME NEW w, Good(w)
    PROVE  Good(SyncWithRider(w))
<1>0. Typed(w) /\ Flight(w) /\ Pace(w) /\ Boards(w) /\ Ascends(w)
  BY DEF Good, InFrame
<1>1. CASE ~w.p.aboard
  BY <1>1 DEF SyncWithRider
<1>2. CASE w.p.aboard
  <2> DEFINE n == SyncWithRider(w)
             a == [w.at EXCEPT ![w.p.vehicle] = [map |-> w.p.map, x |-> w.p.x]]
  <2>1. a \in Places
    <3>1. w.at \in Places /\ w.p.map \in Maps /\ w.p.x \in Tiles
      BY <1>0 DEF Typed, Rider
    <3> QED
      BY <3>1 DEF Places
  <2>2. /\ n.p = w.p /\ DOMAIN n = DOMAIN w /\ n.at = a /\ n.lift = w.lift /\ n.bgm = w.bgm
        /\ n.before = w.before
    BY <1>0, <1>2 DEF SyncWithRider, Typed
  <2> HIDE DEF n, a
  <2>3. Typed(n)
    BY <1>0, <2>1, <2>2 DEF Typed
  <2>4. Flight(n) /\ Pace(n) /\ Boards(n) /\ Ascends(n)
    BY <1>0, <2>2 DEF Flight, Pace, Boards, Ascends, Ascending
  <2> QED
    BY <2>3, <2>4 DEF Good, InFrame, n
<1> QED
  BY <1>1, <1>2

-----------------------------------------------------------------------------
(* The first invariant, in every step.                                      *)

LEMMA InitGood == VehiclesAssumption /\ Init => Good(World)
<1> SUFFICES ASSUME VehiclesAssumption, Init PROVE Good(World)
  OBVIOUS
<1>1. Start[None].map \in Maps /\ Start[None].x \in Tiles
  BY DEF VehiclesAssumption
<1>2. 0 \in 0..StepTime /\ 0 \in 0..Lift
  BY Basics
<1>3. p \in Rider
  BY <1>1, <1>2 DEF Init, Rider
<1>4. at \in Places
  <2>1. \A v \in Vehicles : Start[v] \in [map : Maps, x : Tiles]
    BY DEF VehiclesAssumption
  <2> QED
    BY <2>1 DEF Init, Places
<1>5. lift \in Lifts
  BY <1>2 DEF Init, Lifts
<1>6. p.map = Start[None].map /\ bgm = Music[p.map] /\ before = bgm
  BY DEF Init
<1>7. bgm \in Tunes /\ before \in Tunes
  BY <1>1, <1>6, Basics
<1>8. Typed(World)
  BY <1>3, <1>4, <1>5, <1>7 DEF Typed, World
<1>9. Flight(World) /\ Pace(World) /\ Boards(World) /\ Ascends(World)
  BY Basics DEF Init, World, Flight, Pace, Boards, Ascends, Ascending
<1> QED
  BY <1>8, <1>9 DEF Good, InFrame

LEMMA BecomesIt ==
    ASSUME NEW w, Good(w), Becomes(w)
    PROVE  Good(World)'
<1>1. Typed(World)'
  BY DEF Good, InFrame, Typed, World, Becomes
<1>2. Flight(World)' /\ Pace(World)' /\ Boards(World)' /\ Ascends(World)'
  BY DEF Good, InFrame, Flight, Pace, Boards, Ascends, Ascending, World, Becomes
<1> QED
  BY <1>1, <1>2 DEF Good, InFrame

LEMMA NextKeeps ==
    ASSUME VehiclesAssumption, Good(World), [Next]_vars PROVE Good(World)'
<1>1. ASSUME NEW key \in {"none", "left", "right", "decision"}, Update(key) PROVE Good(World)'
  <2> DEFINE v == Act(World, key)
             n == [v EXCEPT !.p.rem = IF @ > 0 THEN @ - 1 ELSE 0]
  <2>1. InFrame(v)
    BY ActKeeps
  <2> HIDE DEF v
  <2>2. InFrame(n)
    BY <2>1, StepGoesOn
  <2>3. Becomes(SyncWithRider(Ended(n)))
    BY <1>1 DEF Update, v
  <2> HIDE DEF n
  <2>4. Good(Ended(n))
    BY <2>2, EndedKeeps
  <2>5. Good(SyncWithRider(Ended(n)))
    BY <2>4, SyncKeeps
  <2> QED
    BY <2>3, <2>5, BecomesIt
<1>2. CASE EnterExitVehicle
  <2>1. Becomes(GetOnOffVehicle(World)) /\ Good(GetOnOffVehicle(World))
    BY <1>2, GetOnOffKeeps DEF EnterExitVehicle
  <2> QED
    BY <2>1, BecomesIt
<1>3. CASE Teleport
  <2>1. PICK m \in Maps, x \in Tiles : Becomes(MoveTo(World, m, x))
    BY <1>3 DEF Teleport
  <2>2. Good(MoveTo(World, m, x))
    BY MoveToKeeps
  <2> QED
    BY <2>1, <2>2, BecomesIt
<1>4. CASE SetVehicleLocation
  <2>1. PICK v \in Vehicles, m \in Maps, x \in Tiles :
           Becomes(IF p.vehicle = v THEN MoveTo(World, m, x)
                   ELSE [World EXCEPT !.at[v] = [map |-> m, x |-> x]])
    BY <1>4 DEF SetVehicleLocation
  <2>2. CASE p.vehicle = v
    <3>1. Becomes(MoveTo(World, m, x)) /\ Good(MoveTo(World, m, x))
      BY <2>1, <2>2, MoveToKeeps
    <3> QED
      BY <3>1, BecomesIt
  <2>3. CASE p.vehicle # v
    <3>1. p' = p /\ lift' = lift /\ bgm' = bgm /\ before' = before
      BY <2>1, <2>3 DEF Becomes, World
    <3>2. at' = [at EXCEPT ![v] = [map |-> m, x |-> x]]
      BY <2>1, <2>3 DEF Becomes, World
    <3>3. at' \in Places
      BY <3>2 DEF Good, InFrame, Typed, World, Places
    <3>4. Typed(World)'
      BY <3>1, <3>3 DEF Good, InFrame, Typed, World
    <3>5. Flight(World)' /\ Pace(World)' /\ Boards(World)' /\ Ascends(World)'
      BY <3>1 DEF Good, InFrame, Flight, Pace, Boards, Ascends, Ascending, World
    <3> QED
      BY <3>4, <3>5 DEF Good, InFrame
  <2> QED
    BY <2>2, <2>3
<1>5. CASE Escape
  <2>1. PICK m \in Maps, x \in Tiles : Becomes(MoveTo(ForceGetOffVehicle(World), m, x))
    BY <1>5 DEF Escape
  <2>2. Good(ForceGetOffVehicle(World))
    <3>1. ~World.p.boarding
      BY <1>5 DEF Escape, World
    <3> QED
      BY <3>1, ForceOffKeeps
  <2>3. Good(MoveTo(ForceGetOffVehicle(World), m, x))
    BY <2>2, MoveToKeeps
  <2> QED
    BY <2>1, <2>3, BecomesIt
<1>6. CASE UNCHANGED vars
  BY <1>6 DEF vars, World, Good, InFrame, Typed, Flight, Pace, Boards, Ascends, Ascending
<1> QED
  BY <1>1, <1>2, <1>3, <1>4, <1>5, <1>6 DEF Next, Frame

-----------------------------------------------------------------------------
(* The music and the ground, where only the foreground commands.            *)

Tune(w) ==
    /\ w.bgm = Music[IF w.p.vehicle = None THEN w.p.map ELSE w.p.vehicle]
    /\ w.p.vehicle # None => w.before = Music[w.p.map]

\* Whoever has a vehicle is on board, or boards; the boarding ends with the step.
Mounted(w) == w.p.vehicle # None => w.p.aboard \/ w.p.boarding
OnTheWay(w) == w.p.boarding => w.p.rem > 0
Calm(w) == Tune(w) /\ Mounted(w) /\ OnTheWay(w)

AtSea(w) == \A s \in Ships : Ground[w.at[s].x] = "sea"
Grounded(w) ==
    /\ w.p.vehicle = None => Ground[w.p.x] = "land"
    /\ w.p.vehicle \in Ships => Ground[w.p.x] = "sea"
Dry(w) == AtSea(w) /\ Grounded(w)

\* Between frames, what he is aboard of is where he is.
Carried(w) == w.p.aboard => w.at[w.p.vehicle] = [map |-> w.p.map, x |-> w.p.x]

LEMMA Tiling ==
    ASSUME VehiclesAssumption
    PROVE  /\ \A x : Passable(None, x) <=> x \in Tiles /\ Ground[x] = "land"
           /\ \A v \in Ships : \A x : Passable(v, x) <=> x \in Tiles /\ Ground[x] = "sea"
           /\ \A v, x : Passable(v, x) => x \in Tiles
           /\ None \notin Ships
  BY DEF VehiclesAssumption, Passable

LEMMA MoveToIs ==
    ASSUME NEW w, Typed(w), NEW m \in Maps, NEW x \in Tiles
    PROVE  LET n == MoveTo(w, m, x)
           IN  /\ n.p.map = m /\ n.p.x = x /\ n.p.rem = 0 /\ n.p.vehicle = w.p.vehicle
               /\ n.p.aboard = w.p.aboard /\ n.p.boarding = w.p.boarding
               /\ n.at = IF w.p.vehicle = None THEN w.at
                         ELSE [w.at EXCEPT ![w.p.vehicle] = [map |-> m, x |-> x]]
               /\ n.bgm = IF m # w.p.map /\ ~w.p.aboard THEN Music[m] ELSE w.bgm
               /\ n.before = IF m # w.p.map /\ w.p.aboard THEN Music[m] ELSE w.before
<1> DEFINE n == MoveTo(w, m, x)
           r == [w.p EXCEPT !.map = m, !.x = x, !.rem = 0]
<1>1. w.p \in Rider
  BY DEF Typed
<1>2. /\ n.p = r
      /\ n.at = IF w.p.vehicle = None THEN w.at
                ELSE [w.at EXCEPT ![w.p.vehicle] = [map |-> m, x |-> x]]
      /\ n.bgm = IF m # w.p.map /\ ~w.p.aboard THEN Music[m] ELSE w.bgm
      /\ n.before = IF m # w.p.map /\ w.p.aboard THEN Music[m] ELSE w.before
  BY <1>1 DEF MoveTo, Typed, Rider
<1>3. /\ r.map = m /\ r.x = x /\ r.rem = 0 /\ r.vehicle = w.p.vehicle
      /\ r.aboard = w.p.aboard /\ r.boarding = w.p.boarding
  BY <1>1 DEF Rider
<1> HIDE DEF n, r
<1> QED
  BY <1>2, <1>3 DEF n

LEMMA MoveThroughIs ==
    ASSUME VehiclesAssumption, NEW w, Typed(w)
    PROVE  LET n == MoveThrough(w)
           IN  /\ n.p.map = w.p.map /\ n.at = w.at /\ n.bgm = w.bgm /\ n.before = w.before
               /\ Stopping(w) /\ InFront(w) \in Tiles => n.p.x = InFront(w) /\ n.p.rem = StepTime
               /\ ~(Stopping(w) /\ InFront(w) \in Tiles) => n = w
<1> DEFINE n == [w EXCEPT !.p.x = InFront(w), !.p.rem = StepTime]
           r == [w.p EXCEPT !.x = InFront(w), !.rem = StepTime]
<1>1. CASE Stopping(w) /\ InFront(w) \in Tiles
  <2>1. w.p \in Rider /\ "p" \in DOMAIN w
    BY DEF Typed
  <2>2. /\ n.p = r /\ n.at = w.at /\ n.bgm = w.bgm /\ n.before = w.before
    BY <2>1 DEF Typed, Rider
  <2>3. r.map = w.p.map /\ r.x = InFront(w) /\ r.rem = StepTime
    BY <2>1 DEF Rider
  <2>4. MoveThrough(w) = n
    BY <1>1 DEF MoveThrough
  <2> HIDE DEF n, r
  <2> QED
    BY <1>1, <2>2, <2>3, <2>4
<1>2. CASE ~(Stopping(w) /\ InFront(w) \in Tiles)
  BY <1>2 DEF MoveThrough
<1> QED
  BY <1>1, <1>2

LEMMA AirshipIs ==
    ASSUME NEW w, Typed(w)
    PROVE  LET n == GetOnAirship(w)
           IN  /\ n.p.map = w.p.map /\ n.p.x = w.p.x /\ n.p.rem = w.p.rem
               /\ n.p.vehicle = Airship /\ n.p.aboard = TRUE /\ n.p.boarding = w.p.boarding
               /\ n.at = w.at /\ n.bgm = Music[Airship] /\ n.before = w.bgm
<1> DEFINE n == GetOnAirship(w)
           r == [w.p EXCEPT !.vehicle = Airship, !.aboard = TRUE, !.preboard = w.p.speed,
                            !.speed = VehicleSpeed, !.flying = TRUE]
<1>1. w.p \in Rider /\ w.lift \in Lifts
  BY DEF Typed
<1>2. /\ n.p = r /\ n.at = w.at /\ n.bgm = Music[Airship] /\ n.before = w.bgm
  BY <1>1 DEF GetOnAirship, PlayVehicleMusic, StartAscent, Typed, Rider
<1>3. /\ r.map = w.p.map /\ r.x = w.p.x /\ r.rem = w.p.rem
      /\ r.vehicle = Airship /\ r.aboard = TRUE /\ r.boarding = w.p.boarding
  BY <1>1 DEF Rider
<1> HIDE DEF n, r
<1> QED
  BY <1>2, <1>3 DEF n

LEMMA ShipIs ==
    ASSUME VehiclesAssumption, NEW w, Typed(w), NEW s
    PROVE  LET n == GetOnShip(w, s)
               v == MoveThrough(w)
           IN  /\ n.p.map = v.p.map /\ n.p.x = v.p.x /\ n.p.rem = v.p.rem
               /\ n.p.vehicle = s /\ n.p.aboard = w.p.aboard /\ n.p.boarding = TRUE
               /\ n.at = v.at /\ n.bgm = Music[s] /\ n.before = v.bgm
<1> DEFINE v == MoveThrough(w)
           n == GetOnShip(w, s)
           r == [v.p EXCEPT !.vehicle = s, !.preboard = w.p.speed, !.boarding = TRUE]
<1>1. Typed(v) /\ v.p.aboard = w.p.aboard
  BY MoveThroughFacts
<1> HIDE DEF v
<1>2. v.p \in Rider
  BY <1>1 DEF Typed
<1>3. /\ n.p = r /\ n.at = v.at /\ n.bgm = Music[s] /\ n.before = v.bgm
  BY <1>1, <1>2 DEF GetOnShip, PlayVehicleMusic, Typed, Rider, v
<1>4. /\ r.map = v.p.map /\ r.x = v.p.x /\ r.rem = v.p.rem
      /\ r.vehicle = s /\ r.aboard = v.p.aboard /\ r.boarding = TRUE
  BY <1>2 DEF Rider
<1> HIDE DEF n, r
<1> QED
  BY <1>1, <1>3, <1>4 DEF n, v

LEMMA LeaveIs ==
    ASSUME NEW w, Typed(w)
    PROVE  LET n == Leave(w)
           IN  /\ n.p.map = w.p.map /\ n.p.x = w.p.x /\ n.p.rem = w.p.rem /\ n.p.dir = w.p.dir
               /\ n.p.boarding = w.p.boarding /\ n.bgm = w.before /\ n.before = w.before
<1> DEFINE n == Leave(w)
           r == [w.p EXCEPT !.aboard = FALSE, !.unboarding = TRUE, !.vehicle = None,
                            !.speed = w.p.preboard]
<1>1. w.p \in Rider
  BY DEF Typed
<1>2. n.p = r /\ n.bgm = w.before /\ n.before = w.before
  BY <1>1 DEF Leave, Typed, Rider
<1>3. /\ r.map = w.p.map /\ r.x = w.p.x /\ r.rem = w.p.rem /\ r.dir = w.p.dir
      /\ r.boarding = w.p.boarding
  BY <1>1 DEF Rider
<1> HIDE DEF n, r
<1> QED
  BY <1>2, <1>3 DEF n

\* Getting on: on foot before, since whoever boards is still on his way.
LEMMA GetOnFits ==
    ASSUME VehiclesAssumption, NEW w, Good(w), ~w.p.aboard, ~w.p.boarding, Calm(w)
    PROVE  /\ Calm(GetOnVehicle(w))
           /\ Stopping(w) /\ Dry(w) => Dry(GetOnVehicle(w)) /\ Carried(GetOnVehicle(w))
<1>0. Typed(w) /\ w.p.vehicle = None /\ Tune(w) /\ OnTheWay(w)
  BY DEF Good, InFrame, Calm, Mounted
<1>1. CASE IsInPosition(w, Airship, w.p.x) /\ Stopping(w)
  <2> DEFINE n == GetOnAirship(w)
  <2>1. /\ n.p.map = w.p.map /\ n.p.x = w.p.x /\ n.p.rem = w.p.rem
        /\ n.p.vehicle = Airship /\ n.p.aboard = TRUE /\ n.p.boarding = w.p.boarding
        /\ n.at = w.at /\ n.bgm = Music[Airship] /\ n.before = w.bgm
    BY <1>0, AirshipIs
  <2>2. GetOnVehicle(w) = n
    BY <1>1 DEF GetOnVehicle
  <2> HIDE DEF n
  <2>3. Calm(n)
    BY <1>0, <2>1, Basics DEF Calm, Tune, Mounted, OnTheWay
  <2>4. Dry(w) => Dry(n)
    BY <2>1, Basics DEF Dry, AtSea, Grounded
  <2>5. Carried(n)
    BY <1>1, <2>1 DEF Carried, IsInPosition
  <2> QED
    BY <2>2, <2>3, <2>4, <2>5
<1>2. CASE /\ ~(IsInPosition(w, Airship, w.p.x) /\ Stopping(w))
           /\ ShipsAt(w, InFront(w)) # {} /\ Passable(None, w.p.x)
  <2> DEFINE s == CHOOSE t \in ShipsAt(w, InFront(w)) : TRUE
             v == MoveThrough(w)
             n == GetOnShip(w, s)
  <2>1. s \in Ships /\ w.at[s] = [map |-> w.p.map, x |-> InFront(w)]
    BY <1>2 DEF ShipsAt, IsInPosition
  <2>2. InFront(w) \in Tiles /\ w.p.rem \in 0..StepTime
    <3>1. w.at \in Places /\ s \in Vehicles
      BY <1>0, <2>1 DEF Typed, Vehicles
    <3>2. w.at[s].x \in Tiles
      BY <3>1 DEF Places
    <3> QED
      BY <1>0, <2>1, <3>2, Parts
  <2>3. GetOnVehicle(w) = n
    BY <1>2 DEF GetOnVehicle
  <2> HIDE DEF s
  <2>4. /\ n.p.map = v.p.map /\ n.p.x = v.p.x /\ n.p.rem = v.p.rem
        /\ n.p.vehicle = s /\ n.p.aboard = w.p.aboard /\ n.p.boarding = TRUE
        /\ n.at = v.at /\ n.bgm = Music[s] /\ n.before = v.bgm
    BY <1>0, ShipIs
  <2>5. /\ v.p.map = w.p.map /\ v.at = w.at /\ v.bgm = w.bgm
        /\ Stopping(w) => v.p.x = InFront(w) /\ v.p.rem = StepTime
        /\ ~Stopping(w) => v = w
    BY <1>0, <2>2, MoveThroughIs
  <2> HIDE DEF v, n
  <2>6. s # None
    BY <2>1, Tiling
  <2>7. n.p.rem > 0
    BY <2>2, <2>4, <2>5, Basics DEF Stopping, VehiclesAssumption
  <2>8. Calm(n)
    BY <1>0, <2>4, <2>5, <2>6, <2>7 DEF Calm, Tune, Mounted, OnTheWay
  <2>9. Stopping(w) /\ Dry(w) => Dry(n)
    BY <2>1, <2>4, <2>5, <2>6 DEF Dry, AtSea, Grounded
  <2>10. Carried(n)
    BY <2>4 DEF Carried
  <2> QED
    BY <2>3, <2>8, <2>9, <2>10
<1>3. CASE /\ ~(IsInPosition(w, Airship, w.p.x) /\ Stopping(w))
           /\ ~(ShipsAt(w, InFront(w)) # {} /\ Passable(None, w.p.x))
  <2>1. GetOnVehicle(w) = w
    BY <1>3 DEF GetOnVehicle
  <2> QED
    BY <2>1 DEF Carried
<1> QED
  BY <1>1, <1>2, <1>3

\* Getting off: a ship is left for the land in front of it.
LEMMA GetOffFits ==
    ASSUME VehiclesAssumption, NEW w, Good(w), w.p.aboard, ~w.p.boarding, Calm(w)
    PROVE  /\ Calm(GetOffVehicle(w))
           /\ Stopping(w) /\ Dry(w) /\ Carried(w) =>
                Dry(GetOffVehicle(w)) /\ Carried(GetOffVehicle(w))
<1>0. Typed(w) /\ w.p.vehicle # None /\ Tune(w)
  BY DEF Good, InFrame, Calm, Boards
<1>1. CASE w.p.vehicle = Airship /\ (Ascending(w) \/ ~w.lift.flying)
  <2>1. GetOffVehicle(w) = w
    BY <1>1 DEF GetOffVehicle
  <2> QED
    BY <2>1
<1>2. CASE w.p.vehicle = Airship /\ ~(Ascending(w) \/ ~w.lift.flying)
  <2> DEFINE n == [w EXCEPT !.lift.descent = Lift]
  <2>1. n.p = w.p /\ n.at = w.at /\ n.bgm = w.bgm /\ n.before = w.before
    BY <1>0 DEF Typed
  <2>2. GetOffVehicle(w) = n
    BY <1>2 DEF GetOffVehicle
  <2> HIDE DEF n
  <2> QED
    BY <2>1, <2>2
       DEF Calm, Tune, Mounted, OnTheWay, Dry, AtSea, Grounded, Carried
<1>3. CASE w.p.vehicle # Airship /\ Passable(None, InFront(w))
  <2> DEFINE v == Leave(w)
             n == MoveThrough(v)
  <2>1. /\ Typed(v) /\ v.at = w.at /\ v.p.vehicle = None /\ v.p.aboard = FALSE
        /\ v.p.boarding = w.p.boarding
    BY <1>0, LeaveFacts
  <2>2. /\ v.p.map = w.p.map /\ v.p.x = w.p.x /\ v.p.rem = w.p.rem /\ v.p.dir = w.p.dir
        /\ v.bgm = w.before /\ v.before = w.before
    BY <1>0, LeaveIs
  <2> HIDE DEF v
  <2>3. InFront(v) = InFront(w) /\ InFront(w) \in Tiles /\ Ground[InFront(w)] = "land"
        /\ (Stopping(v) <=> Stopping(w))
    BY <1>3, <2>2, Tiling DEF InFront, Stopping
  <2>4. /\ n.p.vehicle = None /\ n.p.aboard = FALSE /\ n.p.boarding = w.p.boarding
    BY <2>1, MoveThroughFacts
  <2>5. /\ n.p.map = w.p.map /\ n.at = w.at /\ n.bgm = w.before
        /\ Stopping(w) => n.p.x = InFront(w)
    BY <2>1, <2>2, <2>3, MoveThroughIs
  <2>6. GetOffVehicle(w) = n
    BY <1>3 DEF GetOffVehicle, v
  <2> HIDE DEF n
  <2>7. Calm(n)
    BY <1>0, <2>4, <2>5 DEF Calm, Tune, Mounted, OnTheWay
  <2>8. Stopping(w) /\ Dry(w) => Dry(n)
    BY <2>3, <2>4, <2>5, Tiling DEF Dry, AtSea, Grounded
  <2>9. Carried(n)
    BY <2>4 DEF Carried
  <2> QED
    BY <2>6, <2>7, <2>8, <2>9
<1>4. CASE w.p.vehicle # Airship /\ ~Passable(None, InFront(w))
  <2>1. GetOffVehicle(w) = w
    BY <1>4 DEF GetOffVehicle
  <2> QED
    BY <2>1
<1> QED
  BY <1>1, <1>2, <1>3, <1>4

LEMMA OnOffFits ==
    ASSUME VehiclesAssumption, NEW w, Good(w), ~w.p.boarding, Calm(w)
    PROVE  /\ Calm(GetOnOffVehicle(w))
           /\ Stopping(w) /\ Dry(w) /\ Carried(w) =>
                Dry(GetOnOffVehicle(w)) /\ Carried(GetOnOffVehicle(w))
<1>1. CASE w.p.aboard
  BY <1>1, GetOffFits DEF GetOnOffVehicle
<1>2. CASE ~w.p.aboard
  BY <1>2, GetOnFits DEF GetOnOffVehicle
<1> QED
  BY <1>1, <1>2

\* A teleport, or an event that moves what he rides.
LEMMA MoveToFits ==
    ASSUME VehiclesAssumption, NEW w, Good(w), ~w.p.boarding, Calm(w),
           NEW m \in Maps, NEW x \in Tiles
    PROVE  /\ Calm(MoveTo(w, m, x))
           /\ AtSea(w) /\ Passable(w.p.vehicle, x) => Dry(MoveTo(w, m, x))
           /\ Carried(MoveTo(w, m, x))
<1> DEFINE n == MoveTo(w, m, x)
<1>0. /\ Typed(w) /\ (w.p.aboard => w.p.vehicle # None) /\ Tune(w) /\ Mounted(w)
      /\ w.at \in Places /\ w.p.vehicle \in Vehicles \cup {None}
  BY Parts DEF Good, InFrame, Calm, Boards
<1>1. /\ n.p.map = m /\ n.p.x = x /\ n.p.rem = 0 /\ n.p.vehicle = w.p.vehicle
      /\ n.p.aboard = w.p.aboard /\ n.p.boarding = w.p.boarding
      /\ n.at = IF w.p.vehicle = None THEN w.at
                ELSE [w.at EXCEPT ![w.p.vehicle] = [map |-> m, x |-> x]]
      /\ n.bgm = IF m # w.p.map /\ ~w.p.aboard THEN Music[m] ELSE w.bgm
      /\ n.before = IF m # w.p.map /\ w.p.aboard THEN Music[m] ELSE w.before
  BY <1>0, MoveToIs
<1> HIDE DEF n
<1>2. Calm(n)
  BY <1>0, <1>1 DEF Calm, Tune, Mounted, OnTheWay
<1>3. Carried(n)
  BY <1>0, <1>1 DEF Carried, Places
<1>4. AtSea(w) /\ Passable(w.p.vehicle, x) => AtSea(n)
  <2> SUFFICES ASSUME AtSea(w), Passable(w.p.vehicle, x), NEW s \in Ships
               PROVE  Ground[n.at[s].x] = "sea"
    BY DEF AtSea
  <2>1. CASE w.p.vehicle = s
    <3>1. Ground[x] = "sea" /\ s # None
      BY <2>1, Tiling
    <3>2. n.at[s] = [map |-> m, x |-> x]
      BY <1>0, <1>1, <2>1, <3>1 DEF Places, Vehicles
    <3> QED
      BY <3>1, <3>2
  <2>2. CASE w.p.vehicle # s
    <3>1. n.at[s] = w.at[s]
      BY <1>0, <1>1, <2>2 DEF Places, Vehicles
    <3> QED
      BY <3>1 DEF AtSea
  <2> QED
    BY <2>1, <2>2
<1>5. Passable(w.p.vehicle, x) => Grounded(n)
  BY <1>1, Tiling DEF Grounded
<1> QED
  BY <1>2, <1>3, <1>4, <1>5 DEF Dry, n

LEMMA ForceOffFits ==
    ASSUME VehiclesAssumption, NEW w, Good(w), ~w.p.boarding, Calm(w)
    PROVE  LET n == ForceGetOffVehicle(w)
           IN  Calm(n) /\ ~n.p.boarding /\ n.p.vehicle = None /\ n.at = w.at
<1>0. Typed(w) /\ Tune(w) /\ Mounted(w) /\ (w.p.aboard => w.p.vehicle # None)
  BY DEF Good, InFrame, Calm, Boards
<1>1. CASE ~w.p.aboard
  BY <1>0, <1>1 DEF ForceGetOffVehicle, Mounted
<1>2. CASE w.p.aboard
  <2> DEFINE v == Leave(w)
             n == ForceGetOffVehicle(w)
             r == [v.p EXCEPT !.flying = FALSE]
  <2>1. /\ Typed(v) /\ v.at = w.at /\ v.p.vehicle = None /\ v.p.aboard = FALSE
        /\ v.p.boarding = w.p.boarding
    BY <1>0, LeaveFacts
  <2>2. v.p.map = w.p.map /\ v.bgm = w.before
    BY <1>0, LeaveIs
  <2> HIDE DEF v
  <2>3. v.p \in Rider
    BY <2>1 DEF Typed
  <2>4. /\ r.map = v.p.map /\ r.vehicle = None /\ r.boarding = w.p.boarding
    BY <2>1, <2>3 DEF Rider
  <2>5. n.p = r /\ n.at = v.at /\ n.bgm = v.bgm
    BY <1>2, <2>1, <2>3 DEF ForceGetOffVehicle, Typed, Rider, v
  <2> HIDE DEF n, r
  <2>6. Calm(n)
    BY <1>0, <1>2, <2>2, <2>4, <2>5 DEF Calm, Tune, Mounted, OnTheWay
  <2> QED
    BY <2>1, <2>4, <2>5, <2>6 DEF n
<1> QED
  BY <1>1, <1>2

LEMMA LiftFits ==
    ASSUME VehiclesAssumption, NEW w, Good(w), w.p.vehicle = Airship, w.lift.flying,
           ~w.p.boarding, Calm(w)
    PROVE  /\ Calm(UpdateAirship(w))
           /\ Dry(w) /\ Carried(w) => Dry(UpdateAirship(w))
<1> DEFINE n == UpdateAirship(w)
<1>0. Typed(w) /\ Tune(w) /\ w.p \in Rider /\ w.lift \in Lifts /\ w.p.aboard /\ Airship # None
  BY Basics DEF Good, InFrame, Typed, Flight, Calm
<1>1. ASSUME n.p = w.p, n.at = w.at, n.bgm = w.bgm, n.before = w.before
      PROVE  Calm(n) /\ (Dry(w) => Dry(n))
  <2> HIDE DEF n
  <2> QED
    BY <1>1 DEF Calm, Tune, Mounted, OnTheWay, Dry, AtSea, Grounded
<1>2. CASE w.lift.ascent > 0 \/ w.lift.descent > 1 \/ ~CanLand(w)
  <2>1. n.p = w.p /\ n.at = w.at /\ n.bgm = w.bgm /\ n.before = w.before
    BY <1>0, <1>2 DEF UpdateAirship, Typed
  <2> QED
    BY <1>1, <2>1
<1>3. CASE ~(w.lift.ascent > 0 \/ w.lift.descent > 1 \/ ~CanLand(w))
  <2> DEFINE r == [w.p EXCEPT !.flying = FALSE, !.aboard = FALSE, !.vehicle = None,
                              !.speed = w.p.preboard]
  <2>1. n.p = r /\ n.at = w.at /\ n.bgm = w.before /\ n.before = w.before
    BY <1>0, <1>3 DEF UpdateAirship, Typed, Rider
  <2>2. /\ r.map = w.p.map /\ r.x = w.p.x /\ r.vehicle = None /\ r.boarding = w.p.boarding
    BY <1>0 DEF Rider
  <2>3. Ground[w.at[Airship].x] = "land"
    BY <1>3, Tiling DEF CanLand
  <2> HIDE DEF n, r
  <2>4. Calm(n)
    BY <1>0, <2>1, <2>2 DEF Calm, Tune, Mounted, OnTheWay
  <2>5. Dry(w) /\ Carried(w) => Dry(n)
    BY <1>0, <2>1, <2>2, <2>3, Tiling DEF Dry, AtSea, Grounded, Carried
  <2> QED
    BY <2>4, <2>5 DEF n
<1> QED
  BY <1>2, <1>3

LEMMA WalkFits ==
    ASSUME VehiclesAssumption, NEW w, Good(w), ~w.p.boarding, Calm(w), NEW d \in {-1, 1}
    PROVE  Calm(Walk(w, d)) /\ (Dry(w) => Dry(Walk(w, d)))
<1> DEFINE n == Walk(w, d)
           to == w.p.x + d
           free == /\ Passable(IF w.p.aboard THEN w.p.vehicle ELSE None, to)
                   /\ w.p.vehicle = Airship \/ ShipsAt(w, to) = {}
           x == IF free THEN to ELSE w.p.x
           k == IF free THEN StepTime ELSE w.p.rem
           r == [w.p EXCEPT !.dir = d, !.x = x, !.rem = k]
<1>0. /\ Typed(w) /\ Tune(w) /\ Mounted(w) /\ w.p \in Rider
      /\ (w.p.aboard => w.p.vehicle # None)
  BY DEF Good, InFrame, Typed, Calm, Boards
<1>1. /\ w.p.vehicle = None /\ free => Ground[to] = "land"
      /\ w.p.vehicle \in Ships /\ free => Ground[to] = "sea"
  BY <1>0, Tiling DEF Mounted
<1> HIDE DEF to, free
<1>2. n.p = r /\ n.at = w.at /\ n.bgm = w.bgm /\ n.before = w.before
  BY <1>0 DEF Walk, Typed, Rider, to, free
<1>3. /\ r.map = w.p.map /\ r.x = x /\ r.vehicle = w.p.vehicle
      /\ r.aboard = w.p.aboard /\ r.boarding = w.p.boarding
  BY <1>0 DEF Rider
<1> HIDE DEF n, r
<1>4. Calm(n)
  BY <1>0, <1>2, <1>3 DEF Calm, Tune, Mounted, OnTheWay
<1>5. Dry(w) => Dry(n)
  BY <1>1, <1>2, <1>3 DEF Dry, AtSea, Grounded
<1> QED
  BY <1>4, <1>5 DEF n

LEMMA ActFits ==
    ASSUME VehiclesAssumption, NEW w, Good(w), Calm(w), NEW key
    PROVE  /\ Calm(Act(w, key))
           /\ Dry(w) /\ Carried(w) => Dry(Act(w, key))
<1>1. CASE ~Stopping(w)
  BY <1>1 DEF Act
<1>2. CASE Stopping(w)
  <2>1. ~w.p.boarding
    BY <1>2 DEF Calm, OnTheWay, Stopping
  <2>2. CASE w.p.vehicle = Airship /\ w.lift.flying /\ Ascending(w)
    BY <1>2, <2>1, <2>2, LiftFits DEF Act
  <2>3. CASE ~(w.p.vehicle = Airship /\ w.lift.flying /\ Ascending(w))
    <3>1. Act(w, key) \in {Walk(w, -1), Walk(w, 1), GetOnOffVehicle(w), w}
      BY <1>2, <2>3 DEF Act
    <3>2. \A d \in {-1, 1} : Calm(Walk(w, d)) /\ (Dry(w) => Dry(Walk(w, d)))
      BY <2>1, WalkFits
    <3>3. /\ Calm(GetOnOffVehicle(w))
          /\ Dry(w) /\ Carried(w) => Dry(GetOnOffVehicle(w))
      BY <1>2, <2>1, OnOffFits
    <3> QED
      BY <3>1, <3>2, <3>3
  <2> QED
    BY <2>2, <2>3
<1> QED
  BY <1>1, <1>2

LEMMA StepFits ==
    ASSUME VehiclesAssumption, NEW w, InFrame(w), Calm(w)
    PROVE  LET n == [w EXCEPT !.p.rem = IF @ > 0 THEN @ - 1 ELSE 0]
           IN  Calm(Ended(n)) /\ (Dry(w) => Dry(Ended(n)))
<1> DEFINE n == [w EXCEPT !.p.rem = IF @ > 0 THEN @ - 1 ELSE 0]
           e == Ended(n)
           r == [w.p EXCEPT !.rem = IF w.p.rem > 0 THEN w.p.rem - 1 ELSE 0]
           q == [n.p EXCEPT !.boarding = FALSE, !.unboarding = FALSE,
                            !.aboard = n.p.aboard \/ n.p.boarding,
                            !.speed = IF n.p.boarding THEN VehicleSpeed ELSE n.p.speed]
<1>0. /\ Typed(w) /\ Tune(w) /\ Mounted(w) /\ w.p \in Rider /\ w.p.rem \in 0..StepTime /\ StepTime \in Nat
      /\ w.p.aboard \in BOOLEAN /\ w.p.boarding \in BOOLEAN
  BY Parts, Basics DEF InFrame, Typed, Calm
<1>1. n.p = r /\ n.at = w.at /\ n.bgm = w.bgm /\ n.before = w.before /\ "p" \in DOMAIN n
  BY <1>0 DEF Typed, Rider
<1>2. /\ r.map = w.p.map /\ r.x = w.p.x /\ r.vehicle = w.p.vehicle
      /\ r.aboard = w.p.aboard /\ r.boarding = w.p.boarding /\ DOMAIN r = DOMAIN w.p
      /\ r.rem = IF w.p.rem > 0 THEN w.p.rem - 1 ELSE 0
  BY <1>0 DEF Rider
<1> HIDE DEF r
<1>3. CASE n.p.rem = 0
  <2>1. e.p = q /\ e.at = n.at /\ e.bgm = n.bgm /\ e.before = n.before
    <3> HIDE DEF n
    <3> QED
      BY <1>1, <1>3 DEF Ended, Stopping
  <2>2. /\ q.map = n.p.map /\ q.x = n.p.x /\ q.vehicle = n.p.vehicle
        /\ q.aboard = (n.p.aboard \/ n.p.boarding) /\ q.boarding = FALSE
    <3> HIDE DEF n
    <3> QED
      BY <1>0, <1>1, <1>2 DEF Rider
  <2> HIDE DEF n, e, q
  <2>3. Calm(e)
    BY <1>0, <1>1, <1>2, <2>1, <2>2 DEF Calm, Tune, Mounted, OnTheWay
  <2>4. Dry(w) => Dry(e)
    BY <1>1, <1>2, <2>1, <2>2 DEF Dry, AtSea, Grounded
  <2> QED
    BY <2>3, <2>4 DEF e, n
<1>4. CASE n.p.rem # 0
  <2>1. e = n
    BY <1>4 DEF Ended, Stopping
  <2> HIDE DEF n, e
  <2>2. n.p.rem > 0
    BY <1>0, <1>1, <1>2, <1>4
  <2>3. Calm(n)
    BY <1>0, <1>1, <1>2, <2>2 DEF Calm, Tune, Mounted, OnTheWay
  <2>4. Dry(w) => Dry(n)
    BY <1>1, <1>2 DEF Dry, AtSea, Grounded
  <2> QED
    BY <2>1, <2>3, <2>4 DEF e, n
<1> QED
  BY <1>3, <1>4

LEMMA SyncFits ==
    ASSUME VehiclesAssumption, NEW w, Good(w), Calm(w)
    PROVE  LET n == SyncWithRider(w)
           IN  Calm(n) /\ Carried(n) /\ (Dry(w) => Dry(n))
<1>1. CASE ~w.p.aboard
  BY <1>1 DEF SyncWithRider, Carried
<1>2. CASE w.p.aboard
  <2> DEFINE n == SyncWithRider(w)
             a == [w.at EXCEPT ![w.p.vehicle] = [map |-> w.p.map, x |-> w.p.x]]
  <2>0. /\ Typed(w) /\ w.at \in Places /\ w.p.vehicle \in Vehicles
    BY <1>2, Parts DEF Good, InFrame, Boards
  <2>1. /\ n.p = w.p /\ n.at = a /\ n.bgm = w.bgm /\ n.before = w.before
    BY <1>2, <2>0 DEF SyncWithRider, Typed
  <2>2. a[w.p.vehicle] = [map |-> w.p.map, x |-> w.p.x]
    BY <2>0 DEF Places
  <2>3. \A s \in Ships : s # w.p.vehicle => a[s] = w.at[s]
    BY <2>0 DEF Places, Vehicles
  <2> HIDE DEF n, a
  <2>4. Calm(n)
    BY <2>1 DEF Calm, Tune, Mounted, OnTheWay
  <2>5. Carried(n)
    BY <2>1, <2>2 DEF Carried
  <2>6. Dry(w) => Dry(n)
    BY <2>1, <2>2, <2>3 DEF Dry, AtSea, Grounded
  <2> QED
    BY <2>4, <2>5, <2>6 DEF n
<1> QED
  BY <1>1, <1>2

-----------------------------------------------------------------------------
(* The inductive invariant, and the theorem.                                *)

Ways == game \in [parallel : BOOLEAN, settled : BOOLEAN]
Fits(w) ==
    /\ ~game.parallel => Calm(w)
    /\ ~game.parallel /\ game.settled => Dry(w) /\ Carried(w)
RidesInv == Ways /\ Good(World) /\ Fits(World)

LEMMA InitFits == VehiclesAssumption /\ Init => Fits(World)
<1> SUFFICES ASSUME VehiclesAssumption, Init PROVE Calm(World) /\ Dry(World) /\ Carried(World)
  BY DEF Fits
<1>1. /\ p.vehicle = None /\ p.aboard = FALSE /\ p.boarding = FALSE /\ p.map = Start[None].map
      /\ p.x = Start[None].x /\ bgm = Music[p.map]
  BY DEF Init
<1>2. Calm(World) /\ Carried(World)
  BY <1>1 DEF World, Calm, Tune, Mounted, OnTheWay, Carried
<1>3. Ground[Start[None].x] = "land" /\ \A s \in Ships : Ground[Start[s].x] = "sea"
  BY DEF VehiclesAssumption
<1>4. Dry(World)
  BY <1>1, <1>3, Tiling DEF Init, World, Dry, AtSea, Grounded, Vehicles
<1> QED
  BY <1>2, <1>4

LEMMA BecomesFitting ==
    ASSUME NEW w, Fits(w), Ways, Becomes(w)
    PROVE  Ways' /\ Fits(World)'
<1>1. Ways' /\ game' = game
  BY DEF Becomes, Ways
<1>2. Calm(w) => Calm(World)'
  BY DEF Becomes, World, Calm, Tune, Mounted, OnTheWay
<1>3. Dry(w) /\ Carried(w) => Dry(World)' /\ Carried(World)'
  BY DEF Becomes, World, Dry, AtSea, Grounded, Carried
<1> QED
  BY <1>1, <1>2, <1>3 DEF Fits

LEMMA NextFits ==
    ASSUME VehiclesAssumption, RidesInv, [Next]_vars PROVE Ways' /\ Fits(World)'
<1>0. Ways /\ Good(World) /\ Fits(World)
  BY DEF RidesInv
<1>1. ASSUME NEW key \in {"none", "left", "right", "decision"}, Update(key)
      PROVE  Ways' /\ Fits(World)'
  <2> DEFINE v == Act(World, key)
             e == Ended([v EXCEPT !.p.rem = IF @ > 0 THEN @ - 1 ELSE 0])
  <2>1. InFrame(v)
    BY <1>0, ActKeeps
  <2>2. ~game.parallel => Calm(v)
    BY <1>0, ActFits DEF Fits
  <2>3. ~game.parallel /\ game.settled => Dry(v)
    BY <1>0, ActFits DEF Fits
  <2> HIDE DEF v
  <2>4. Good(e)
    BY <2>1, StepGoesOn, EndedKeeps
  <2>5. ~game.parallel => Calm(e)
    BY <2>1, <2>2, StepFits
  <2>6. ~game.parallel /\ game.settled => Dry(e)
    BY <2>1, <2>2, <2>3, StepFits
  <2>7. Becomes(SyncWithRider(e))
    BY <1>1 DEF Update, v
  <2> HIDE DEF e
  <2>8. Fits(SyncWithRider(e))
    BY <2>4, <2>5, <2>6, SyncFits DEF Fits
  <2> QED
    BY <1>0, <2>7, <2>8, BecomesFitting
<1>2. CASE EnterExitVehicle
  <2>1. /\ Becomes(GetOnOffVehicle(World)) /\ (game.settled => Stopping(World))
        /\ ~game.parallel => ~World.p.boarding
    BY <1>2 DEF EnterExitVehicle, Commands, Waits, World
  <2>2. Fits(GetOnOffVehicle(World))
    BY <1>0, <2>1, OnOffFits DEF Fits
  <2> QED
    BY <1>0, <2>1, <2>2, BecomesFitting
<1>3. CASE Teleport
  <2>1. PICK m \in Maps, x \in Tiles :
           Passable(World.p.vehicle, x) /\ Becomes(MoveTo(World, m, x))
    BY <1>3 DEF Teleport, MayStand, World
  <2>2. ~game.parallel => ~World.p.boarding
    BY <1>3 DEF Teleport, Commands, Waits, World
  <2>3. Fits(MoveTo(World, m, x))
    BY <1>0, <2>1, <2>2, MoveToFits DEF Fits, Dry
  <2> QED
    BY <1>0, <2>1, <2>3, BecomesFitting
<1>4. CASE SetVehicleLocation
  <2>1. PICK v \in Vehicles, m \in Maps, x \in Tiles :
           /\ Passable(IF v = Airship /\ p.vehicle # v THEN None ELSE v, x)
           /\ Becomes(IF p.vehicle = v THEN MoveTo(World, m, x)
                      ELSE [World EXCEPT !.at[v] = [map |-> m, x |-> x]])
    BY <1>4 DEF SetVehicleLocation, MayStand
  <2>2. ~game.parallel => ~World.p.boarding
    BY <1>4 DEF SetVehicleLocation, Commands, Waits, World
  <2>3. CASE p.vehicle = v
    <3>1. Becomes(MoveTo(World, m, x)) /\ Passable(World.p.vehicle, x)
      BY <2>1, <2>3 DEF World
    <3>2. Fits(MoveTo(World, m, x))
      BY <1>0, <2>2, <3>1, MoveToFits DEF Fits, Dry
    <3> QED
      BY <1>0, <3>1, <3>2, BecomesFitting
  <2>4. CASE p.vehicle # v
    <3>1. /\ p' = p /\ lift' = lift /\ bgm' = bgm /\ before' = before /\ game' = game
          /\ at' = [at EXCEPT ![v] = [map |-> m, x |-> x]]
      BY <2>1, <2>4 DEF Becomes, World
    <3>2. at \in Places
      BY <1>0 DEF Good, InFrame, Typed, World
    <3>3. v \in Ships => Ground[x] = "sea"
      BY <2>1, Tiling, Basics
    <3>4. \A s \in Ships : at'[s] = at[s] \/ (s = v /\ at'[s] = [map |-> m, x |-> x])
      BY <3>1, <3>2 DEF Places, Vehicles
    <3>5. Calm(World) => Calm(World)'
      BY <3>1 DEF World, Calm, Tune, Mounted, OnTheWay
    <3>6. Dry(World) => Dry(World)'
      BY <3>1, <3>3, <3>4 DEF World, Dry, AtSea, Grounded
    <3>7. Carried(World) => Carried(World)'
      <4>1. World.p.aboard => at'[p.vehicle] = at[p.vehicle]
        <5>1. World.p.aboard => p.vehicle \in Vehicles
          BY <1>0, Parts DEF Good, InFrame, Boards, World
        <5> QED
          BY <2>4, <3>1, <3>2, <5>1 DEF Places
      <4> QED
        BY <3>1, <4>1 DEF World, Carried
    <3> QED
      BY <1>0, <3>1, <3>5, <3>6, <3>7 DEF Fits, Ways
  <2> QED
    BY <2>3, <2>4
<1>5. CASE Escape
  <2> DEFINE n == ForceGetOffVehicle(World)
  <2>1. PICK m \in Maps, x \in Tiles : Passable(None, x) /\ Becomes(MoveTo(n, m, x))
    BY <1>5 DEF Escape
  <2>2. ~World.p.boarding
    BY <1>5 DEF Escape, World
  <2>3. Good(n)
    BY <1>0, <2>2, ForceOffKeeps
  <2>4. Calm(World) => Calm(n) /\ ~n.p.boarding /\ n.p.vehicle = None /\ n.at = World.at
    BY <1>0, <2>2, ForceOffFits
  <2> HIDE DEF n
  <2>5. Calm(World) => Calm(MoveTo(n, m, x)) /\ Carried(MoveTo(n, m, x))
    BY <2>3, <2>4, MoveToFits
  <2>6. Calm(World) /\ Dry(World) => Dry(MoveTo(n, m, x))
    BY <2>1, <2>3, <2>4, MoveToFits DEF Dry, AtSea
  <2>7. Fits(MoveTo(n, m, x))
    BY <1>0, <2>5, <2>6 DEF Fits
  <2> QED
    BY <1>0, <2>1, <2>7, BecomesFitting
<1>6. CASE UNCHANGED vars
  BY <1>0, <1>6
     DEF vars, World, Ways, Fits, Calm, Tune, Mounted, OnTheWay, Dry, AtSea, Grounded, Carried
<1> QED
  BY <1>1, <1>2, <1>3, <1>4, <1>5, <1>6 DEF Next, Frame

\* Whatever ends a flight or a ride, the key, an event, the menu or a teleport, also in the
\* middle of a step and from parallel events: the airship is in the air exactly while it is
\* ridden (game_vehicle.cpp, ForceLand and AnimateAscentDescent), and on foot the player has
\* the speed again that he had before (game_player.cpp, preboard_move_speed). While only events
\* in the foreground command, he hears the music of where he is or of what he rides; and if
\* they let him stand before they let him off, ships stay at sea and he gets ashore.
THEOREM RidesEndWell == VehiclesAssumption => (Spec => []VehiclesInv)
<1> SUFFICES ASSUME VehiclesAssumption
             PROVE  Spec => []VehiclesInv
  OBVIOUS
<1>1. Init => RidesInv
  BY InitGood, InitFits DEF RidesInv, Init, Ways
<1>2. RidesInv /\ [Next]_vars => RidesInv'
  BY NextKeeps, NextFits DEF RidesInv
<1>3. RidesInv => VehiclesInv
  <2> SUFFICES ASSUME RidesInv PROVE VehiclesInv
    OBVIOUS
  <2>1. TypeOK
    BY DEF RidesInv, Ways, Good, InFrame, Typed, World, TypeOK, Rider, Places, Lifts, Tunes
  <2>2. NobodyFliesAlone /\ SpeedComesBack
    BY DEF RidesInv, Good, InFrame, Flight, Pace, World, NobodyFliesAlone, SpeedComesBack,
           Ascending
  <2>3. ~game.parallel => MusicFits
    BY DEF RidesInv, Fits, Calm, Tune, World, MusicFits
  <2>4. ~game.parallel /\ game.settled => OnItsGround
    BY DEF RidesInv, Fits, Dry, AtSea, Grounded, World, OnItsGround
  <2> QED
    BY <2>1, <2>2, <2>3, <2>4 DEF VehiclesInv
<1> QED
  BY <1>1, <1>2, <1>3, PTL DEF Spec

-----------------------------------------------------------------------------
(* Characters. What holds while calls of Update wait for each other: their  *)
(* commands and places, the tiles that are asked for, and who has moved.    *)

\* Of a call f, c are the data of its character, m, u whether he moved, was disturbed.
Follows(f, c, u) ==
    /\ f.over => f.route = c.route
    /\ ~f.over /\ ~u => /\ c.page = 0 \/ Kinds(f.route.cmds) = Kinds(OwnRoute(f.who, c).cmds)
                        /\ c.own \in 1..Len(f.route.cmds) + 1

AtCommand(f, c, u) ==
    f.at # "route" =>
        /\ f.n \in 1..Len(f.route.cmds)
        /\ Place(c, f.over) = f.n \/ (~f.over /\ u)
        /\ f.route.cmds[f.n].code = "jump" => JumpEnd(f.route.cmds, f.n) # {}

Moves(f, c, m) == m => f.at = "route" /\ ~Stands(c)

Clear(f, d) ==
    f.at # "route" =>
        /\ f.k \in 1..Len(Events) + 1
        /\ f.at = "asked" => f.k <= Len(Events) /\ Events[f.k] # f.who
        /\ Lasting => \A j \in 1..f.k - 1 :
              Events[j] # f.who /\ ~d[Events[j]].through => d[Events[j]].x # f.to

Alone(d) == Lasting => \A a, b \in Ids : a # b /\ WouldCollide(d[a], d[b]) => d[a].x # d[b].x
Inside(d, u) ==
    \A e \in Ids : /\ d[e].own \in 1..Len(OwnRoute(e, d[e]).cmds) + 1 \/ d[e].page = 0 \/ e \in u
                   /\ d[e].index \in 1..Len(d[e].route.cmds) + 1
Shown(d) ==
    \A e \in Ids : /\ d[e].page \in {0} \cup PagesOf(e)
                   /\ d[e].through = (d[e].page = 0)
                   /\ Lasting => (d[e].page = 0 <=> (PagesOf(e) = {}))
People(d, u) == d \in [Ids -> Data] /\ Alone(d) /\ Inside(d, u) /\ Shown(d)

Call(f, d, n, m, u) ==
    /\ n[f.who]
    /\ Lasting => ~d[f.who].through
    /\ Follows(f, d[f.who], f.who \in u) /\ AtCommand(f, d[f.who], f.who \in u)
    /\ Moves(f, d[f.who], f.who \in m) /\ Clear(f, d)

Linked(f, g, d, m) ==
    /\ f.at = "asked" /\ g.who = Events[f.k]
    /\ g.who \notin m => d[g.who].x = f.to

Stacked(cs, d, n, m, u) ==
    /\ cs \in Seq(Calls)
    /\ \A i \in DOMAIN cs : Call(cs[i], d, n, m, u)
    /\ \A i \in 1..Len(cs) - 1 : Linked(cs[i], cs[i + 1], d, m)
    /\ \A i, j \in DOMAIN cs : i # j => cs[i].who # cs[j].who

Others(n, m, u) ==
    /\ routeSwitches \in [RouteSwitches -> BOOLEAN] /\ n \in [Ids -> BOOLEAN]
    /\ routeTurn \in 1..Len(Events) + 1 /\ busy \in BOOLEAN
    /\ m \subseteq Ids /\ u \subseteq Ids /\ \A e \in m : n[e]

RouteInv ==
    /\ People(ch, disturbed) /\ Stacked(calls, ch, done, moved, disturbed)
    /\ Others(done, moved, disturbed)

-----------------------------------------------------------------------------
(* Numbers, sequences, routes and pages.                                    *)

\* Any set of natural numbers has a least one, any set of bounded ones a greatest.
LEMMA LeastNumber == ASSUME NEW T \in SUBSET Nat, T # {} PROVE \E x \in T : \A y \in T : x <= y
  <1> DEFINE F == {0..t : t \in T}
  <1>1. F \subseteq FiniteSubsetsOf(Nat)
    <2>1. \A t \in Nat : IsFiniteSet(0..t) /\ 0..t \subseteq Nat
      BY FS_Interval
    <2> QED BY <2>1 DEF FiniteSubsetsOf
  <1>2. PICK s \in F : \A v \in F : ~(<<v,s>> \in StrictSubsetOrdering(Nat))
    <2>1. IsWellFoundedOn(StrictSubsetOrdering(Nat), FiniteSubsetsOf(Nat))
      BY FS_StrictSubsetOrderingWellFounded
    <2>2. F # {} OBVIOUS
    <2> HIDE DEF F
    <2> QED BY <1>1, <2>1, <2>2, WFMin
  <1>3. PICK x \in T : s = 0..x
    OBVIOUS
  <1>4. \A y \in T : x <= y
    <2> SUFFICES ASSUME NEW y \in T, y < x PROVE FALSE
      OBVIOUS
    <2>1. 0..y \in F
      OBVIOUS
    <2>2. x \notin 0..y /\ x \in 0..x
      OBVIOUS
    <2>3. 0..y \subseteq 0..x
      OBVIOUS
    <2>4. <<0..y, 0..x>> \in StrictSubsetOrdering(Nat)
      BY <2>2, <2>3 DEF StrictSubsetOrdering
    <2> QED BY <1>2, <1>3, <2>1, <2>4
  <1> QED BY <1>4

LEMMA GreatestNumber ==
    ASSUME NEW n \in Nat, NEW T \in SUBSET (1..n), T # {}
    PROVE  Max(T) \in T
  <1> DEFINE U == {n - t : t \in T}
  <1>1. U \in SUBSET Nat /\ U # {}
    <2>1. \A t \in T : n - t \in Nat
      OBVIOUS
    <2> QED BY <2>1
  <1>2. PICK x \in U : \A y \in U : x <= y
    <2> HIDE DEF U
    <2> QED BY <1>1, LeastNumber
  <1>3. PICK t \in T : x = n - t
    BY <1>2
  <1>4. \A m \in T : t >= m
    BY <1>2, <1>3
  <1> QED
    BY <1>4 DEF Max

LEMMA SmallestNumber == ASSUME NEW T \in SUBSET Nat, T # {} PROVE Min(T) \in T
  <1>1. PICK x \in T : \A y \in T : x <= y
    BY LeastNumber
  <1> QED BY <1>1 DEF Min

\* The routes of an event, of its page and those it is forced to go, are sequences.
LEMMA RouteFacts ==
    ASSUME CharactersAssumption, NEW r \in Routes \cup {NoRoute}
    PROVE  /\ Len(r.cmds) \in Nat /\ DOMAIN r.cmds = 1..Len(r.cmds)
           /\ \A i \in 1..Len(r.cmds) : r.cmds[i].code = "switch" => r.cmds[i].arg[2] \in BOOLEAN
  <1>1. CASE r \in Routes
    <2>1. r.cmds \in Seq(Range(r.cmds))
      BY <1>1 DEF CharactersAssumption
    <2> QED BY <1>1, <2>1 DEF CharactersAssumption
  <1>2. CASE r = NoRoute
    BY <1>2 DEF NoRoute
  <1> QED BY <1>1, <1>2

LEMMA OwnRouteIsOne ==
    ASSUME CharactersAssumption, NEW e \in Ids, NEW c, c.page \in {0} \cup PagesOf(e)
    PROVE  OwnRoute(e, c) \in Routes \cup {NoRoute}
  BY DEF OwnRoute, Routes

LEMMA SameKinds ==
    ASSUME CharactersAssumption, NEW r \in Routes \cup {NoRoute}, NEW s \in Routes \cup {NoRoute},
           Kinds(r.cmds) = Kinds(s.cmds)
    PROVE  Len(r.cmds) = Len(s.cmds)
  <1>1. DOMAIN Kinds(r.cmds) = 1..Len(r.cmds) /\ DOMAIN Kinds(s.cmds) = 1..Len(s.cmds)
    BY RouteFacts DEF Kinds
  <1>2. 1..Len(r.cmds) = 1..Len(s.cmds) /\ Len(r.cmds) \in Nat /\ Len(s.cmds) \in Nat
    BY <1>1, RouteFacts
  <1> HIDE <1>1
  <1> QED BY <1>2

LEMMA EventsFacts ==
    ASSUME CharactersAssumption
    PROVE  /\ Len(Events) \in Nat /\ DOMAIN Events = 1..Len(Events)
           /\ \A i \in 1..Len(Events) : Events[i] \in Ids
           /\ \A e \in Ids : \E i \in 1..Len(Events) : Events[i] = e
           /\ \A i, j \in 1..Len(Events) : Events[i] = Events[j] => i = j
  <1>1. Events \in Seq(Ids) /\ IsInjective(Events)
    BY DEF CharactersAssumption
  <1>2. DOMAIN Events = 1..Len(Events) /\ Len(Events) \in Nat
    BY <1>1
  <1>3. \A i \in 1..Len(Events) : Events[i] \in Ids
    BY <1>1
  <1>4. \A e \in Ids : \E i \in 1..Len(Events) : Events[i] = e
    BY <1>2 DEF Ids, Range
  <1>5. \A i, j \in 1..Len(Events) : Events[i] = Events[j] => i = j
    BY <1>1, <1>2 DEF IsInjective
  <1> QED BY <1>2, <1>3, <1>4, <1>5

\* Where every page has a condition that may hold, an event with pages always has one.
LEMMA PageFacts ==
    ASSUME CharactersAssumption, NEW e \in Ids, NEW now
    PROVE  /\ PagesOf(e) \subseteq Nat \ {0}
           /\ PageFor(e, now) \in {0} \cup PagesOf(e)
           /\ Lasting => (PageFor(e, now) = 0 <=> PagesOf(e) = {})
  <1> DEFINE met == {n \in PagesOf(e) :
                        RoutePages[e][n].switch = NoCondition \/ now[RoutePages[e][n].switch]}
  <1> HIDE DEF met
  <1>1. RoutePages[e] \in Seq(Range(RoutePages[e]))
    BY DEF CharactersAssumption
  <1>2. PagesOf(e) = 1..Len(RoutePages[e]) /\ Len(RoutePages[e]) \in Nat
    BY <1>1 DEF PagesOf
  <1>6. met \subseteq PagesOf(e) /\ 0 \notin PagesOf(e)
    BY <1>2 DEF met
  <1>3. met # {} => Max(met) \in met
    BY <1>2, <1>6, GreatestNumber
  <1>4. Lasting /\ PagesOf(e) # {} => met # {}
    BY DEF Lasting, met
  <1>5. PageFor(e, now) = IF met = {} THEN 0 ELSE Max(met)
    BY DEF PageFor, met
  <1> QED BY <1>2, <1>3, <1>4, <1>5, <1>6

-----------------------------------------------------------------------------
(* The data of one character.                                               *)

\* What nobody else depends on may change.
Same(b, c) == b.x = c.x /\ b.through = c.through /\ b.page = c.page
InItsRoute(c) == c.index \in 1..Len(c.route.cmds) + 1
InOwnRoute(e, c, u) == c.own \in 1..Len(OwnRoute(e, c).cmds) + 1 \/ c.page = 0 \/ e \in u

\* Of all characters only e has new data.
Only(e, d, h) == h \in [Ids -> Data] /\ \A i \in Ids : i # e => h[i] = d[i]

LEMMA AdvanceFacts ==
    ASSUME CharactersAssumption, busy \in BOOLEAN, NEW c \in Data
    PROVE  /\ Advance(c) \in Data /\ Same(Advance(c), c)
           /\ Advance(c).own = c.own /\ Advance(c).index = c.index /\ Advance(c).route = c.route
  <1>0. /\ StopBound \in Nat /\ Tile \in Nat \ {0} /\ MoveAmount \in 1..Tile /\ JumpAmount \in 1..Tile
    BY DEF CharactersAssumption
  <1>1. CASE Stands(c)
    <2> DEFINE v == IF c.stop = 0 \/ c.over \/ ~busy
                      THEN IF c.stop < StopBound THEN c.stop + 1 ELSE StopBound ELSE c.stop
    <2>1. Advance(c) = [c EXCEPT !.stop = v]
      BY <1>1 DEF Advance
    <2>2. v \in 0..StopBound
      BY <1>0 DEF Data
    <2> HIDE DEF v
    <2> QED BY <2>1, <2>2 DEF Data, Same
  <1>2. CASE ~Stands(c)
    <2> DEFINE a == IF c.jumping THEN JumpAmount ELSE MoveAmount
               v == IF c.rem > 0 THEN c.rem - a ELSE c.rem
    <2>1. Advance(c) = [c EXCEPT !.rem = v]
      BY <1>2 DEF Advance, UpdateMovement
    <2>2. a \in 1..Tile
      BY <1>0
    <2> HIDE DEF a
    <2>3. v \in -Tile..Tile
      BY <1>0, <2>2 DEF Data
    <2> HIDE DEF v
    <2> QED BY <2>1, <2>3 DEF Data, Same
  <1> QED BY <1>1, <1>2

LEMMA PlaceFacts ==
    ASSUME NEW c \in Data, NEW o \in BOOLEAN, NEW i \in Nat \ {0}
    PROVE  /\ At(c, o, i) \in Data /\ Same(At(c, o, i), c) /\ Place(At(c, o, i), o) = i
           /\ Place(c, o) \in Nat \ {0}
           /\ At(c, o, i).own = IF o THEN c.own ELSE i
           /\ At(c, o, i).index = IF o THEN i ELSE c.index
           /\ At(c, o, i).route = c.route /\ At(c, o, i).over = c.over
           /\ At(c, o, i).rem = c.rem /\ At(c, o, i).jumping = c.jumping
  BY DEF At, Place, Data, Same

LEMMA CancelFacts ==
    ASSUME CharactersAssumption, NEW c \in Data
    PROVE  /\ CancelMoveRoute(c) \in Data /\ Same(CancelMoveRoute(c), c)
           /\ CancelMoveRoute(c).own = c.own /\ CancelMoveRoute(c).index = c.index
           /\ CancelMoveRoute(c).route = c.route
           /\ CancelMoveRoute(c).rem = c.rem /\ CancelMoveRoute(c).jumping = c.jumping
  <1> DEFINE v == IF c.over THEN StepRest ELSE c.max
  <1>1. CancelMoveRoute(c) = [c EXCEPT !.max = v, !.over = FALSE, !.repeated = FALSE]
    BY DEF CancelMoveRoute
  <1>2. v \in {0, StepRest, WaitRest}
    BY DEF Data
  <1> HIDE DEF v
  <1> QED BY <1>1, <1>2 DEF Data, Same

\* A page that is turned over resets the place in its route, unless the commands are the same.
LEMMA RefreshedFacts ==
    ASSUME CharactersAssumption, NEW e \in Ids, NEW c \in Data, NEW now, NEW u,
           c.page \in {0} \cup PagesOf(e), c.through = (c.page = 0),
           Lasting => (c.page = 0 <=> PagesOf(e) = {})
    PROVE  LET r == Refreshed(e, c, now) IN
           /\ r \in Data /\ r.x = c.x /\ r.rem = c.rem /\ r.jumping = c.jumping
           /\ r.index = c.index /\ r.route = c.route /\ r.over = c.over
           /\ r.page \in {0} \cup PagesOf(e) /\ r.through = (r.page = 0)
           /\ Lasting => r.through = c.through /\ (r.page = 0 <=> PagesOf(e) = {})
           /\ r.page = c.page => r.own = c.own
           /\ InOwnRoute(e, c, u) => InOwnRoute(e, r, u)
           /\ r.own \in {1, c.own}
           /\ r.page # 0 /\ r.own # 1 =>
                 c.page # 0 /\ Kinds(OwnRoute(e, r).cmds) = Kinds(OwnRoute(e, c).cmds)
  <1> DEFINE shows == PageFor(e, now)
             same == c.page # 0 /\ Kinds(RoutePages[e][shows].route.cmds) = Kinds(OwnRoute(e, c).cmds)
             w == IF same THEN c.own ELSE 1
             r == Refreshed(e, c, now)
  <1>0. shows \in {0} \cup PagesOf(e) /\ shows \in Nat /\ (Lasting => (shows = 0 <=> PagesOf(e) = {})) /\ 0 \notin PagesOf(e)
    BY PageFacts
  <1>w. w \in Nat \ {0}
    BY DEF Data
  <1>s. StepRest \in {0, StepRest, WaitRest}
    OBVIOUS
  <1>1. CASE shows = 0
    <2>1. r = [c EXCEPT !.page = 0, !.through = TRUE]
      BY <1>1 DEF Refreshed
    <2> HIDE DEF shows, same, w, r
    <2>2. r \in Data /\ r.x = c.x /\ r.rem = c.rem /\ r.jumping = c.jumping
          /\ r.index = c.index /\ r.route = c.route /\ r.over = c.over
          /\ r.page = 0 /\ r.through = TRUE /\ r.own = c.own
      BY <2>1 DEF Data
    <2> HIDE <2>1
    <2> QED BY <1>0, <1>1, <2>2 DEF InOwnRoute, r
  <1>2. CASE shows # 0 /\ shows = c.page
    <2>1. r = c
      BY <1>2 DEF Refreshed
    <2>2. r \in Data
      BY <2>1
    <2> HIDE DEF shows, same, w
    <2> QED BY <1>0, <1>2, <2>1, <2>2
  <1>3. CASE shows # 0 /\ shows # c.page
    <2>1. r = [c EXCEPT !.page = shows, !.through = FALSE, !.max = StepRest, !.own = w]
      BY <1>3 DEF Refreshed
    <2> HIDE DEF shows, w, r
    <2>2. r \in Data /\ r.x = c.x /\ r.rem = c.rem /\ r.jumping = c.jumping
          /\ r.index = c.index /\ r.route = c.route /\ r.over = c.over
          /\ r.page = shows /\ r.through = FALSE /\ r.own = w
      BY <2>1, <1>0, <1>w, <1>s DEF Data
    <2> HIDE <2>1
    <2>3. OwnRoute(e, r) = RoutePages[e][shows].route
      BY <1>3, <2>2 DEF OwnRoute
    <2>4. OwnRoute(e, r) \in Routes \cup {NoRoute} /\ OwnRoute(e, c) \in Routes \cup {NoRoute}
      BY <1>0, <2>2, OwnRouteIsOne
    <2>5. CASE same
      <3>1. Len(OwnRoute(e, r).cmds) = Len(OwnRoute(e, c).cmds)
        BY <2>3, <2>4, <2>5, SameKinds
      <3>2. w = c.own
        BY <2>5 DEF w
      <3>3. c.page # 0 /\ Kinds(OwnRoute(e, r).cmds) = Kinds(OwnRoute(e, c).cmds)
        BY <2>5, <2>3
      <3> HIDE DEF same
      <3> QED BY <1>0, <1>3, <2>2, <3>1, <3>2, <3>3 DEF InOwnRoute, r
    <2>6. CASE ~same
      <3>1. w = 1
        BY <2>6 DEF w
      <3>2. Len(OwnRoute(e, r).cmds) \in Nat
        BY <2>4, RouteFacts
      <3>3. r.own \in 1..Len(OwnRoute(e, r).cmds) + 1
        BY <2>2, <3>1, <3>2
      <3> HIDE DEF same
      <3> QED BY <1>0, <1>3, <2>2, <3>1, <3>3 DEF InOwnRoute, r
    <2> QED BY <2>5, <2>6
  <1> QED BY <1>1, <1>2, <1>3

-----------------------------------------------------------------------------
(* The stack of calls.                                                      *)

\* All calls but the innermost are right.
Below(cs, d, n, m, u) ==
    /\ cs \in Seq(Calls) /\ cs # <<>>
    /\ \A i \in 1..Len(cs) - 1 : Call(cs[i], d, n, m, u) /\ Linked(cs[i], cs[i + 1], d, m)
    /\ \A i, j \in DOMAIN cs : i # j => cs[i].who # cs[j].who

LEMMA Indices ==
    ASSUME NEW n \in Nat
    PROVE  /\ \A i \in 1..n - 1 : i \in 1..n /\ i + 1 \in 1..n /\ i # n
           /\ \A i \in 1..n : i # n => i \in 1..n - 1
  OBVIOUS

LEMMA Splits ==
    ASSUME NEW cs, NEW d, NEW n, NEW m, NEW u, Stacked(cs, d, n, m, u), cs # <<>>
    PROVE  /\ Below(cs, d, n, m, u) /\ Len(cs) \in Nat \ {0}
           /\ Last(cs) = cs[Len(cs)] /\ Last(cs) \in Calls /\ Call(Last(cs), d, n, m, u)
  <1>1. cs \in Seq(Calls) /\ DOMAIN cs = 1..Len(cs) /\ Len(cs) \in Nat \ {0}
    BY DEF Stacked
  <1>2. Last(cs) = cs[Len(cs)] /\ Len(cs) \in DOMAIN cs
    BY <1>1 DEF Last
  <1> QED BY <1>1, <1>2 DEF Stacked, Below

LEMMA TopFacts ==
    ASSUME NEW cs, NEW d, NEW n, NEW m, NEW u, Below(cs, d, n, m, u)
    PROVE  /\ DOMAIN cs = 1..Len(cs) /\ Len(cs) \in Nat \ {0} /\ \A i \in 1..Len(cs) : cs[i] \in Calls
           /\ Last(cs) = cs[Len(cs)] /\ Last(cs) \in Calls /\ Last(cs).who \in Ids
           /\ \A i \in 1..Len(cs) - 1 : cs[i].who # Last(cs).who
           /\ Last(cs).over \in BOOLEAN /\ Last(cs).route \in Routes \cup {NoRoute}
           /\ Last(cs).start \in Nat
  <1>1. cs \in Seq(Calls) /\ DOMAIN cs = 1..Len(cs) /\ Len(cs) \in Nat \ {0}
    BY DEF Below
  <1>2. Last(cs) = cs[Len(cs)] /\ Len(cs) \in DOMAIN cs
    BY <1>1 DEF Last
  <1>3. Last(cs) \in Calls
    BY <1>1, <1>2
  <1>5. ASSUME NEW i \in 1..Len(cs) - 1 PROVE cs[i].who # Last(cs).who
    <2>0. Len(cs) \in Nat
      BY <1>1
    <2>3. i \in 1..Len(cs) /\ i # Len(cs)
      BY <2>0, Indices
    <2>1. i \in DOMAIN cs /\ i # Len(cs)
      BY <1>1, <2>3
    <2>2. \A a, b \in DOMAIN cs : a # b => cs[a].who # cs[b].who
      BY DEF Below
    <2>4. cs[i].who # cs[Len(cs)].who
      BY <1>2, <2>1, <2>2
    <2> QED BY <1>2, <2>4
  <1>6. \A i \in 1..Len(cs) : cs[i] \in Calls
    BY <1>1
  <1>7. /\ Last(cs).who \in Ids /\ Last(cs).over \in BOOLEAN
        /\ Last(cs).route \in Routes \cup {NoRoute} /\ Last(cs).start \in Nat
    BY <1>3 DEF Calls
  <1> QED BY <1>1, <1>2, <1>3, <1>5, <1>6, <1>7

LEMMA TopBecomes ==
    ASSUME NEW cs, NEW d, NEW n, NEW m, NEW u, Below(cs, d, n, m, u),
           NEW g \in Calls, g.who = Last(cs).who, Call(g, d, n, m, u)
    PROVE  Stacked(Become(cs, g), d, n, m, u) /\ Become(cs, g) # <<>>
  <1> DEFINE h == Become(cs, g)
  <1>1. cs \in Seq(Calls) /\ DOMAIN cs = 1..Len(cs) /\ Len(cs) \in Nat \ {0} /\ Last(cs) = cs[Len(cs)]
    BY TopFacts DEF Below
  <1>2. /\ h \in Seq(Calls) /\ Len(h) = Len(cs) /\ DOMAIN h = 1..Len(cs)
        /\ \A i \in 1..Len(cs) : h[i] = IF i = Len(cs) THEN g ELSE cs[i]
    BY <1>1 DEF Become
  <1> HIDE DEF h
  <1>3. \A i \in 1..Len(cs) : h[i].who = cs[i].who
    <2> SUFFICES ASSUME NEW i \in 1..Len(cs) PROVE h[i].who = cs[i].who
      OBVIOUS
    <2>1. CASE i = Len(cs)
      BY <1>1, <1>2, <2>1
    <2>2. CASE i # Len(cs)
      BY <1>2, <2>2
    <2> QED BY <2>1, <2>2
  <1>4. \A i \in DOMAIN h : Call(h[i], d, n, m, u)
    <2>0. Len(cs) \in Nat
      BY <1>1
    <2> SUFFICES ASSUME NEW i \in 1..Len(cs) PROVE Call(h[i], d, n, m, u)
      BY <1>2
    <2>1. CASE i = Len(cs)
      BY <1>2, <2>1
    <2>2. CASE i # Len(cs)
      <3>1. i \in 1..Len(cs) - 1 /\ h[i] = cs[i]
        BY <1>2, <2>0, <2>2, Indices
      <3> QED BY <3>1 DEF Below
    <2> QED BY <2>1, <2>2
  <1>5. \A i \in 1..Len(h) - 1 : Linked(h[i], h[i + 1], d, m)
    <2> SUFFICES ASSUME NEW i \in 1..Len(h) - 1 PROVE Linked(h[i], h[i + 1], d, m)
      OBVIOUS
    <2>3. Len(cs) \in Nat /\ i \in 1..Len(cs) - 1
      BY <1>1, <1>2
    <2>0. i \in 1..Len(cs) - 1 /\ i \in 1..Len(cs) /\ i + 1 \in 1..Len(cs) /\ i # Len(cs)
      BY <2>3, Indices
    <2>1. h[i] = cs[i] /\ h[i + 1].who = cs[i + 1].who /\ Linked(cs[i], cs[i + 1], d, m)
      BY <1>2, <1>3, <2>0 DEF Below
    <2> QED BY <2>1 DEF Linked
  <1>6. \A i, j \in DOMAIN h : i # j => h[i].who # h[j].who
    BY <1>1, <1>2, <1>3 DEF Below
  <1> QED BY <1>1, <1>2, <1>4, <1>5, <1>6 DEF Stacked, h

LEMMA TopReturns ==
    ASSUME NEW cs, NEW d, NEW n, NEW m, NEW u, Below(cs, d, n, m, u)
    PROVE  Stacked(Front(cs), d, n, m, u)
  <1> DEFINE h == Front(cs)
  <1>1. cs \in Seq(Calls) /\ DOMAIN cs = 1..Len(cs) /\ Len(cs) \in Nat \ {0}
    BY TopFacts DEF Below
  <1>2. /\ h \in Seq(Calls) /\ Len(h) = Len(cs) - 1 /\ DOMAIN h = 1..Len(cs) - 1
        /\ \A i \in 1..Len(cs) - 1 : h[i] = cs[i]
    BY <1>1 DEF Front
  <1> HIDE DEF h
  <1>3. \A i \in 1..Len(h) - 1 : Linked(h[i], h[i + 1], d, m)
    <2> SUFFICES ASSUME NEW i \in 1..Len(h) - 1 PROVE Linked(h[i], h[i + 1], d, m)
      OBVIOUS
    <2>1. h[i] = cs[i] /\ h[i + 1] = cs[i + 1] /\ i \in 1..Len(cs) - 1
      BY <1>1, <1>2
    <2> QED BY <2>1 DEF Below
  <1>4. \A i, j \in DOMAIN h : i # j => h[i].who # h[j].who
    BY <1>1, <1>2 DEF Below
  <1>5. \A i \in DOMAIN h : Call(h[i], d, n, m, u)
    BY <1>1, <1>2 DEF Below
  <1> QED BY <1>2, <1>3, <1>4, <1>5 DEF Stacked, h

LEMMA IsCalled ==
    ASSUME NEW cs, NEW d, NEW n, NEW m, NEW u, Stacked(cs, d, n, m, u),
           NEW g \in Calls, Call(g, d, n, m, u),
           \A i \in DOMAIN cs : cs[i].who # g.who,
           cs # <<>> => Linked(Last(cs), g, d, m)
    PROVE  Stacked(Append(cs, g), d, n, m, u)
  <1> DEFINE h == Append(cs, g)
  <1>1. cs \in Seq(Calls) /\ DOMAIN cs = 1..Len(cs) /\ Len(cs) \in Nat
    BY DEF Stacked
  <1>2. /\ h \in Seq(Calls) /\ Len(h) = Len(cs) + 1 /\ DOMAIN h = 1..Len(cs) + 1
        /\ \A i \in 1..Len(cs) : h[i] = cs[i]
        /\ h[Len(cs) + 1] = g
    BY <1>1
  <1> HIDE DEF h
  <1>3. \A i \in 1..Len(h) - 1 : Linked(h[i], h[i + 1], d, m)
    <2> SUFFICES ASSUME NEW i \in 1..Len(h) - 1 PROVE Linked(h[i], h[i + 1], d, m)
      OBVIOUS
    <2>1. CASE i = Len(cs)
      BY <1>1, <1>2, <2>1 DEF Last
    <2>2. CASE i # Len(cs)
      <3>2. Len(cs) \in Nat /\ i \in 1..Len(cs)
        BY <1>1, <1>2
      <3>0. i \in 1..Len(cs) - 1 /\ i \in 1..Len(cs) /\ i + 1 \in 1..Len(cs)
        BY <3>2, <2>2, Indices
      <3>1. h[i] = cs[i] /\ h[i + 1] = cs[i + 1] /\ i \in 1..Len(cs) - 1
        BY <1>2, <3>0
      <3> QED BY <3>1 DEF Stacked
    <2> QED BY <2>1, <2>2
  <1>4. \A i, j \in DOMAIN h : i # j => h[i].who # h[j].who
    BY <1>1, <1>2 DEF Stacked
  <1>5. \A i \in DOMAIN h : Call(h[i], d, n, m, u)
    BY <1>1, <1>2 DEF Stacked
  <1> QED BY <1>2, <1>3, <1>4, <1>5 DEF Stacked, h

\* The innermost character may change what nobody else depends on.
LEMMA OthersKept ==
    ASSUME CharactersAssumption, NEW cs, NEW d, NEW n, NEW m, NEW u, Below(cs, d, n, m, u),
           NEW h, Only(Last(cs).who, d, h), Same(h[Last(cs).who], d[Last(cs).who])
    PROVE  Below(cs, h, n, m, u)
  <1> DEFINE e == Last(cs).who
  <1>1. /\ cs \in Seq(Calls) /\ Len(cs) \in Nat \ {0} /\ \A i \in 1..Len(cs) : cs[i] \in Calls
        /\ \A i \in 1..Len(cs) - 1 : cs[i].who # e
    BY TopFacts DEF Below
  <1>2. \A i \in Ids : h[i].x = d[i].x /\ h[i].through = d[i].through
    BY DEF Only, Same
  <1>3. ASSUME NEW i \in 1..Len(cs) - 1 PROVE Call(cs[i], h, n, m, u) /\ Linked(cs[i], cs[i + 1], h, m)
    <2>0. i \in 1..Len(cs) /\ i + 1 \in 1..Len(cs)
      BY <1>1
    <2>1. cs[i] \in Calls /\ cs[i].who \in Ids /\ cs[i].who # e /\ cs[i + 1].who \in Ids
      BY <1>1, <2>0 DEF Calls
    <2>2. h[cs[i].who] = d[cs[i].who]
      BY <2>1 DEF Only
    <2>3. Call(cs[i], d, n, m, u) /\ Linked(cs[i], cs[i + 1], d, m)
      BY DEF Below
    <2>4. Clear(cs[i], h)
      <3>1. Clear(cs[i], d)
        BY <2>3 DEF Call
      <3>2. ASSUME cs[i].at # "route", Lasting, NEW j \in 1..cs[i].k - 1, Events[j] # cs[i].who,
                   ~h[Events[j]].through
            PROVE  h[Events[j]].x # cs[i].to
        <4>1. Events[j] \in Ids
          <5>1. cs[i].k \in 1..Len(Events) + 1
            BY <3>1, <3>2 DEF Clear
          <5> QED BY <5>1, EventsFacts
        <4> QED BY <1>2, <3>1, <3>2, <4>1 DEF Clear
      <3> QED BY <3>1, <3>2 DEF Clear
    <2> QED BY <1>2, <2>1, <2>2, <2>3, <2>4 DEF Call, Linked
  <1> QED BY <1>3 DEF Below

LEMMA PeopleKept ==
    ASSUME CharactersAssumption, NEW d, NEW u, People(d, u), NEW e \in Ids,
           NEW h, Only(e, d, h), Same(h[e], d[e]), InItsRoute(h[e]),
           h[e].own = d[e].own \/ InOwnRoute(e, h[e], u)
    PROVE  People(h, u)
  <1>1. \A i \in Ids : h[i].x = d[i].x /\ h[i].through = d[i].through /\ h[i].page = d[i].page
    BY DEF Only, Same
  <1>2. Alone(h)
    BY <1>1 DEF People, Alone, WouldCollide
  <1>3. Inside(h, u)
    <2> SUFFICES ASSUME NEW i \in Ids PROVE InOwnRoute(i, h[i], u) /\ InItsRoute(h[i])
      BY DEF Inside, InOwnRoute, InItsRoute
    <2>1. InOwnRoute(i, d[i], u) /\ InItsRoute(d[i])
      BY DEF People, Inside, InOwnRoute, InItsRoute
    <2>2. OwnRoute(i, h[i]) = OwnRoute(i, d[i])
      BY <1>1 DEF OwnRoute
    <2> QED BY <1>1, <2>1, <2>2 DEF InOwnRoute, Only
  <1>4. Shown(h)
    BY <1>1 DEF People, Shown
  <1> QED BY <1>2, <1>3, <1>4 DEF People, Only

-----------------------------------------------------------------------------
(* What the innermost call does to its character and to the stack.          *)

\* With the data d, of which m have moved and u are disturbed, the innermost call goes on.
Running(d, m, u) ==
    /\ People(d, u) /\ Below(calls, d, done, m, u)
    /\ done \in [Ids -> BOOLEAN] /\ busy \in BOOLEAN
    /\ done[Me] /\ (Lasting => ~d[Me].through) /\ (Me \in m => ~Stands(d[Me]))

Kept(d, m, u) ==
    /\ People(ch', u) /\ Stacked(calls', ch', done, m, u)
    /\ \A e \in Ids : ch'[e].x = d[e].x

LEMMA RunsNow ==
    ASSUME CharactersAssumption, RouteInv, calls # <<>>
    PROVE  /\ Running(ch, moved, disturbed) /\ Call(Top, ch, done, moved, disturbed)
           /\ Top \in Calls /\ Me \in Ids
           /\ Follows(Top, ch[Me], Me \in disturbed) /\ AtCommand(Top, ch[Me], Me \in disturbed)
           /\ Moves(Top, ch[Me], Me \in moved) /\ Clear(Top, ch)
  <1>1. /\ People(ch, disturbed) /\ Stacked(calls, ch, done, moved, disturbed)
        /\ done \in [Ids -> BOOLEAN] /\ busy \in BOOLEAN
    BY DEF RouteInv, Others
  <1>2. Below(calls, ch, done, moved, disturbed) /\ Call(Top, ch, done, moved, disturbed) /\ Top \in Calls
    BY <1>1, Splits DEF Top
  <1>3. Me \in Ids
    BY <1>2 DEF Calls, Me
  <1>4. /\ done[Me] /\ (Lasting => ~ch[Me].through)
        /\ Follows(Top, ch[Me], Me \in disturbed) /\ AtCommand(Top, ch[Me], Me \in disturbed)
        /\ Moves(Top, ch[Me], Me \in moved) /\ Clear(Top, ch)
    BY <1>2 DEF Call, Me
  <1>5. Me \in moved => ~Stands(ch[Me])
    BY <1>4 DEF Moves
  <1> QED BY <1>1, <1>2, <1>3, <1>4, <1>5 DEF Running

LEMMA DataOf == ASSUME NEW d, NEW u, People(d, u), NEW e \in Ids PROVE d[e] \in Data
  BY DEF People

\* The character of the innermost call may change what nobody else depends on.
LEMMA RunsOn ==
    ASSUME CharactersAssumption, NEW d, NEW m, NEW u, Running(d, m, u), Me \in Ids,
           NEW c \in Data, Same(c, d[Me]), InItsRoute(c),
           c.own = d[Me].own \/ InOwnRoute(Me, c, u), Me \in m => ~Stands(c)
    PROVE  Running([d EXCEPT ![Me] = c], m, u) /\ [d EXCEPT ![Me] = c][Me] = c
  <1> DEFINE h == [d EXCEPT ![Me] = c]
  <1>1. d \in [Ids -> Data]
    BY DEF Running, People
  <1>2. Only(Me, d, h) /\ h[Me] = c
    BY <1>1 DEF Only
  <1> HIDE DEF h
  <1>3. People(h, u)
    BY <1>2, PeopleKept DEF Running
  <1>4. Below(calls, h, done, m, u)
    BY <1>2, OthersKept DEF Running, Me, Top
  <1>5. Lasting => ~h[Me].through
    BY <1>2 DEF Running, Same
  <1> QED BY <1>2, <1>3, <1>4, <1>5 DEF Running, h

LEMMA Joined ==
    ASSUME NEW cs, NEW d, NEW n, NEW m, NEW u, Below(cs, d, n, m, u), Call(Last(cs), d, n, m, u)
    PROVE  Stacked(cs, d, n, m, u)
  <1>1. /\ cs \in Seq(Calls) /\ DOMAIN cs = 1..Len(cs) /\ Len(cs) \in Nat \ {0}
        /\ Last(cs) = cs[Len(cs)]
    BY TopFacts DEF Below
  <1>2. ASSUME NEW i \in 1..Len(cs) PROVE Call(cs[i], d, n, m, u)
    <2>1. CASE i = Len(cs)
      BY <1>1, <2>1
    <2>2. CASE i # Len(cs)
      <3>1. Len(cs) \in Nat
        BY <1>1
      <3>2. i \in 1..Len(cs) - 1
        BY <2>2, <3>1, Indices
      <3> QED BY <3>2 DEF Below
    <2> QED BY <2>1, <2>2
  <1> QED BY <1>1, <1>2 DEF Below, Stacked

\* The place where a route goes on is a place in it.
LEMMA PlaceInRoute ==
    ASSUME CharactersAssumption, NEW e \in Ids, NEW c \in Data, c.page \in {0} \cup PagesOf(e),
           NEW f \in Calls, f.who = e, NEW u, Follows(f, c, e \in u), InItsRoute(c),
           NEW i \in Nat \ {0},
           f.over \/ e \notin u => i <= Len(f.route.cmds) + 1
    PROVE  /\ InItsRoute(At(c, f.over, i))
           /\ At(c, f.over, i).own = c.own \/ InOwnRoute(e, At(c, f.over, i), u)
           /\ Follows(f, At(c, f.over, i), e \in u)
  <1> DEFINE h == At(c, f.over, i)
  <1>1. f.over \in BOOLEAN /\ f.route \in Routes \cup {NoRoute}
    BY DEF Calls
  <1>2. /\ h \in Data /\ h.page = c.page /\ h.route = c.route
        /\ h.own = (IF f.over THEN c.own ELSE i) /\ h.index = (IF f.over THEN i ELSE c.index)
    BY <1>1, PlaceFacts DEF Same
  <1>3. OwnRoute(e, h) = OwnRoute(e, c) /\ OwnRoute(e, c) \in Routes \cup {NoRoute}
    BY <1>2, OwnRouteIsOne DEF OwnRoute
  <1> HIDE DEF h
  <1>4. Len(f.route.cmds) \in Nat /\ Len(OwnRoute(e, c).cmds) \in Nat
    BY <1>1, <1>3, RouteFacts
  <1>5. CASE f.over
    BY <1>2, <1>4, <1>5 DEF Follows, InItsRoute, h
  <1>6. CASE ~f.over /\ e \in u
    BY <1>2, <1>6 DEF Follows, InItsRoute, InOwnRoute, h
  <1>7. CASE ~f.over /\ e \notin u
    <2>1. i \in 1..Len(f.route.cmds) + 1 /\ h.own = i /\ h.index = c.index
      BY <1>2, <1>4, <1>7
    <2>2. c.page = 0 \/ Kinds(f.route.cmds) = Kinds(OwnRoute(e, c).cmds)
      BY <1>7 DEF Follows
    <2>3. Follows(f, h, e \in u)
      BY <1>2, <1>3, <1>7, <2>1, <2>2 DEF Follows
    <2>4. c.page = 0 \/ Len(f.route.cmds) = Len(OwnRoute(e, c).cmds)
      BY <1>1, <1>3, <2>2, SameKinds
    <2>5. InOwnRoute(e, h, u)
      BY <1>2, <1>3, <2>1, <2>4 DEF InOwnRoute
    <2> QED BY <1>2, <2>1, <2>3, <2>5 DEF InItsRoute, h
  <1> QED BY <1>5, <1>6, <1>7

LEMMA EndRouteKeeps ==
    ASSUME CharactersAssumption, NEW d, NEW m, NEW u, Running(d, m, u), EndRoute(d)
    PROVE  Kept(d, m, u)
  <1> DEFINE c == d[Me]
             g == Begun(Me, c, OwnRoute(Me, c), FALSE)
  <1>1. People(d, u) /\ Below(calls, d, done, m, u) /\ d \in [Ids -> Data] /\ busy \in BOOLEAN
    BY DEF Running, People
  <1>2. Me \in Ids /\ Me = Last(calls).who
    BY <1>1, TopFacts DEF Me, Top
  <1>3. c \in Data /\ InItsRoute(c) /\ InOwnRoute(Me, c, u) /\ c.page \in {0} \cup PagesOf(Me)
    BY <1>1, <1>2 DEF People, Inside, Shown, InItsRoute, InOwnRoute
  <1>4. CASE Stands(c) /\ c.page # 0 /\ ch' = d /\ calls' = Become(calls, g)
    <2>1. OwnRoute(Me, c) \in Routes \cup {NoRoute}
      BY <1>2, <1>3, OwnRouteIsOne
    <2> DEFINE o == OwnRoute(Me, c)
    <2>2. c.own \in Nat \ {0}
      BY <1>3 DEF Data
    <2> HIDE DEF o, c
    <2>3. g = [who |-> Me, over |-> FALSE, route |-> o, start |-> c.own, at |-> "route",
               n |-> 0, to |-> Nowhere, k |-> 1]
      BY DEF Begun, Place, o
    <2> DEFINE no == FALSE
    <2> HIDE DEF g, no
    <2>4. /\ g = [who |-> Me, over |-> no, route |-> o, start |-> c.own, at |-> "route",
                  n |-> 0, to |-> Nowhere, k |-> 1]
          /\ no \in BOOLEAN /\ ~no /\ o \in Routes \cup {NoRoute}
      BY <2>1, <2>3 DEF no, o
    <2>5. g \in Calls /\ g.who = Me /\ g.over = no /\ g.at = "route" /\ g.route = o
      BY <1>2, <2>2, <2>4 DEF Calls
    <2>10. ~g.over
      BY <2>4, <2>5
    <2>6. Follows(g, c, Me \in u)
      BY <1>3, <1>4, <2>5, <2>10 DEF Follows, InOwnRoute, o
    <2>7. Me \notin m /\ done[Me] /\ (Lasting => ~c.through)
      BY <1>4 DEF Running, c
    <2>8. Call(g, d, done, m, u)
      BY <2>5, <2>6, <2>7 DEF Call, AtCommand, Moves, Clear, c
    <2>9. Stacked(Become(calls, g), d, done, m, u)
      BY <1>1, <1>2, <2>5, <2>8, TopBecomes
    <2> QED BY <1>1, <1>4, <2>9 DEF Kept
  <1>5. CASE ch' = [d EXCEPT ![Me] = Advance(@)] /\ calls' = Front(calls)
    <2>1. /\ Advance(c) \in Data /\ Same(Advance(c), c) /\ Advance(c).own = c.own
          /\ Advance(c).index = c.index /\ Advance(c).route = c.route
      BY <1>1, <1>3, AdvanceFacts
    <2>2. Only(Me, d, ch') /\ ch'[Me] = Advance(c)
      BY <1>1, <1>2, <1>5, <2>1 DEF Only
    <2>3. InItsRoute(Advance(c))
      BY <1>3, <2>1 DEF InItsRoute
    <2> HIDE DEF c, g
    <2>4. People(ch', u)
      BY <1>1, <1>2, <2>1, <2>2, <2>3, PeopleKept DEF c
    <2>5. Below(calls, ch', done, m, u)
      BY <1>1, <1>2, <2>1, <2>2, OthersKept DEF c
    <2>6. Stacked(calls', ch', done, m, u)
      BY <1>5, <2>5, TopReturns
    <2>7. \A e \in Ids : ch'[e].x = d[e].x
      BY <2>1, <2>2 DEF Only, Same, c
    <2> QED BY <2>4, <2>6, <2>7 DEF Kept
  <1> QED BY <1>4, <1>5 DEF EndRoute, NowRuns

LEMMA GoOnKeeps ==
    ASSUME CharactersAssumption, NEW d, NEW m, NEW u, Running(d, m, u),
           Follows(Top, d[Me], Me \in u), NEW i \in Nat,
           Top.over \/ Me \notin u => i <= Len(Top.route.cmds),
           GoOn(d, i)
    PROVE  Kept(d, m, u)
  <1> DEFINE c == At(d[Me], Top.over, i + 1)
             h == [d EXCEPT ![Me] = c]
             g == [Top EXCEPT !.at = "route"]
  <1>1. People(d, u) /\ Below(calls, d, done, m, u) /\ d \in [Ids -> Data]
    BY DEF Running, People
  <1>2. /\ Me \in Ids /\ Top \in Calls /\ Top.over \in BOOLEAN /\ Top.who = Me
        /\ Top.route \in Routes \cup {NoRoute} /\ Top = Last(calls)
    BY <1>1, TopFacts DEF Me, Top
  <1>3. d[Me] \in Data /\ InItsRoute(d[Me]) /\ d[Me].page \in {0} \cup PagesOf(Me)
    BY <1>1, <1>2 DEF People, Inside, Shown, InItsRoute
  <1>4. /\ c \in Data /\ Same(c, d[Me]) /\ c.rem = d[Me].rem /\ c.jumping = d[Me].jumping
    BY <1>2, <1>3, PlaceFacts
  <1>5. Len(Top.route.cmds) \in Nat
    BY <1>2, RouteFacts
  <1>6. /\ InItsRoute(c) /\ (c.own = d[Me].own \/ InOwnRoute(Me, c, u))
        /\ Follows(Top, c, Me \in u)
    <2>1. i + 1 \in Nat \ {0} /\ (Top.over \/ Me \notin u => i + 1 <= Len(Top.route.cmds) + 1)
      BY <1>5
    <2> QED BY <1>2, <1>3, <2>1, PlaceInRoute
  <1>7. Me \in m => ~Stands(c)
    BY <1>4 DEF Running, Stands
  <1> HIDE DEF c
  <1>8. Running(h, m, u) /\ h[Me] = c
    BY <1>2, <1>4, <1>6, <1>7, RunsOn
  <1>9. \A e \in Ids : h[e].x = d[e].x
    BY <1>1, <1>2, <1>4 DEF Same
  <1>10. EndRoute(h) \/ (ch' = h /\ calls' = Become(calls, g))
    BY DEF GoOn, NowRuns, c
  <1> HIDE DEF h
  <1>11. CASE EndRoute(h)
    BY <1>8, <1>9, <1>11, EndRouteKeeps DEF Kept
  <1>12. CASE ch' = h /\ calls' = Become(calls, g)
    <2>1. g \in Calls /\ g.who = Me /\ g.over = Top.over /\ g.route = Top.route /\ g.at = "route"
      BY <1>2 DEF Calls
    <2> HIDE DEF g
    <2>4. Follows(g, c, Me \in u)
      BY <1>2, <1>6, <2>1 DEF Follows
    <2>5. done[Me] /\ (Lasting => ~h[Me].through)
      BY <1>8 DEF Running
    <2>2. Call(g, h, done, m, u)
      BY <1>7, <1>8, <2>1, <2>4, <2>5 DEF Call, AtCommand, Moves, Clear
    <2>3. Stacked(Become(calls, g), h, done, m, u)
      BY <1>2, <1>8, <2>1, <2>2, TopBecomes DEF Running
    <2> QED BY <1>8, <1>9, <1>12, <2>3 DEF Kept, Running
  <1> QED BY <1>10, <1>11, <1>12

-----------------------------------------------------------------------------
(* One action of the innermost call.                                        *)

Steady == \A e \in moved : ch'[e].x = ch[e].x
Unmoved(d) == \A e \in Ids : d[e].x = ch[e].x

LEMMA Keeps ==
    ASSUME RouteInv, NEW d, Kept(d, moved, disturbed), Unmoved(d),
           UNCHANGED <<worldVars, done, moved, disturbed>>
    PROVE  RouteInv' /\ Steady
  <1>1. /\ People(ch', disturbed') /\ Stacked(calls', ch', done', moved', disturbed')
    BY DEF Kept
  <1>2. Others(done, moved, disturbed)'
    BY DEF RouteInv, Others, worldVars
  <1>3. moved \subseteq Ids
    BY DEF RouteInv, Others
  <1>4. Steady
    BY <1>3 DEF Kept, Unmoved, Steady
  <1> QED BY <1>1, <1>2, <1>4 DEF RouteInv

\* Where the innermost call takes its next command.
LEMMA CommandFacts ==
    ASSUME CharactersAssumption, RouteInv, InRoute, ~Rests
    PROVE  /\ Me \in Ids /\ Me \notin moved /\ Stands(ch[Me]) /\ PlaceNow \in Nat \ {0}
           /\ Running(ch, moved, disturbed) /\ Follows(Top, ch[Me], Me \in disturbed)
           /\ Top \in Calls /\ ch \in [Ids -> Data] /\ ch[Me] \in Data /\ InItsRoute(ch[Me])
           /\ Top.over \in BOOLEAN /\ Len(Top.route.cmds) \in Nat
           /\ ~RouteEnded => PlaceNow \in 1..Len(Top.route.cmds)
           /\ ch[Me].page \in {0} \cup PagesOf(Me)
  <1>1. /\ Running(ch, moved, disturbed) /\ Top \in Calls /\ Me \in Ids
        /\ Follows(Top, ch[Me], Me \in disturbed) /\ Moves(Top, ch[Me], Me \in moved)
    BY RunsNow DEF InRoute
  <1>2. Stands(ch[Me])
    BY DEF Rests
  <1>3. ch \in [Ids -> Data] /\ ch[Me] \in Data /\ InItsRoute(ch[Me]) /\ ch[Me].page \in {0} \cup PagesOf(Me)
    BY <1>1 DEF Running, People, Inside, InItsRoute, Shown
  <1>4. Top.over \in BOOLEAN /\ Top.route \in Routes \cup {NoRoute}
    BY <1>1 DEF Calls
  <1>5. Len(Top.route.cmds) \in Nat
    BY <1>4, RouteFacts
  <1>6. PlaceNow \in Nat \ {0}
    BY <1>3, <1>4, PlaceFacts DEF PlaceNow
  <1>7. ~RouteEnded => PlaceNow \in 1..Len(Top.route.cmds)
    BY <1>5, <1>6 DEF RouteEnded
  <1>8. Me \notin moved
    BY <1>1, <1>2 DEF Moves
  <1> QED BY <1>1, <1>2, <1>3, <1>4, <1>5, <1>6, <1>7, <1>8

\* New data of the innermost call's character, by which nobody moves.
LEMMA NewData ==
    ASSUME ch \in [Ids -> Data], Me \in Ids, NEW c, c.x = ch[Me].x
    PROVE  Unmoved([ch EXCEPT ![Me] = c])
  BY DEF Unmoved

LEMMA LeaveRouteKeeps ==
    ASSUME CharactersAssumption, RouteInv, LeaveRoute PROVE RouteInv' /\ Steady
  <1>1. calls # <<>> /\ EndRoute(ch) /\ UNCHANGED <<worldVars, done, moved, disturbed>>
    BY DEF LeaveRoute, InRoute
  <1>2. Kept(ch, moved, disturbed)
    BY <1>1, RunsNow, EndRouteKeeps
  <1>3. Unmoved(ch)
    BY DEF Unmoved
  <1> QED BY <1>1, <1>2, <1>3, Keeps

LEMMA FinishRouteKeeps ==
    ASSUME CharactersAssumption, RouteInv, FinishRoute PROVE RouteInv' /\ Steady
  <1> DEFINE c == IF Top.over THEN [ch[Me] EXCEPT !.repeated = TRUE] ELSE ch[Me]
             a == At(c, Top.over, 1)
             b == IF Top.over THEN CancelMoveRoute(c) ELSE c
  <1>1. InRoute /\ ~Rests /\ UNCHANGED <<worldVars, done, moved, disturbed>>
    BY DEF FinishRoute
  <1>2. /\ EndRoute([ch EXCEPT ![Me] = b]) \/ EndRoute([ch EXCEPT ![Me] = a])
           \/ (ch' = [ch EXCEPT ![Me] = a] /\ calls' = calls)
    BY DEF FinishRoute
  <1>3. /\ Me \in Ids /\ Me \notin moved /\ Top.over \in BOOLEAN /\ Top \in Calls /\ Top.who = Me
        /\ Running(ch, moved, disturbed) /\ Follows(Top, ch[Me], Me \in disturbed)
        /\ ch \in [Ids -> Data] /\ ch[Me] \in Data /\ InItsRoute(ch[Me])
        /\ ch[Me].page \in {0} \cup PagesOf(Me) /\ Len(Top.route.cmds) \in Nat
    BY <1>1, CommandFacts DEF Me
  <1>4. /\ c \in Data /\ Same(c, ch[Me]) /\ c.own = ch[Me].own /\ c.index = ch[Me].index
        /\ c.route = ch[Me].route
    BY <1>3 DEF Data, Same
  <1> HIDE DEF c
  <1>5. /\ InItsRoute(c) /\ c.page \in {0} \cup PagesOf(Me) /\ Follows(Top, c, Me \in disturbed)
    BY <1>3, <1>4 DEF InItsRoute, Same, Follows, OwnRoute
  <1>6. /\ InItsRoute(a) /\ (a.own = c.own \/ InOwnRoute(Me, a, disturbed))
        /\ Follows(Top, a, Me \in disturbed) /\ a \in Data /\ Same(a, ch[Me])
    BY <1>3, <1>4, <1>5, PlaceFacts, PlaceInRoute DEF Same
  <1>7. b \in Data /\ Same(b, ch[Me]) /\ b.own = ch[Me].own /\ InItsRoute(b)
    BY <1>3, <1>4, <1>5, CancelFacts DEF Same, InItsRoute
  <1> HIDE DEF a, b
  <1>8. /\ Running([ch EXCEPT ![Me] = a], moved, disturbed) /\ [ch EXCEPT ![Me] = a][Me] = a
    BY <1>3, <1>4, <1>6, RunsOn
  <1>9. Running([ch EXCEPT ![Me] = b], moved, disturbed)
    BY <1>3, <1>7, RunsOn
  <1>10. Unmoved([ch EXCEPT ![Me] = a]) /\ Unmoved([ch EXCEPT ![Me] = b])
    BY <1>3, <1>6, <1>7, NewData DEF Same
  <1>11. CASE EndRoute([ch EXCEPT ![Me] = b])
    BY <1>1, <1>9, <1>10, <1>11, EndRouteKeeps, Keeps
  <1>12. CASE EndRoute([ch EXCEPT ![Me] = a])
    BY <1>1, <1>8, <1>10, <1>12, EndRouteKeeps, Keeps
  <1>13. CASE ch' = [ch EXCEPT ![Me] = a] /\ calls' = calls
    <2> DEFINE h == [ch EXCEPT ![Me] = a]
    <2>1. Running(h, moved, disturbed) /\ h[Me] = a /\ Unmoved(h) /\ ch' = h
      BY <1>8, <1>10, <1>13
    <2> HIDE DEF h
    <2>2. Top.at = "route"
      BY <1>1 DEF InRoute
    <2>3. Call(Top, h, done, moved, disturbed)
      BY <1>3, <1>6, <2>1, <2>2 DEF Call, AtCommand, Moves, Clear, Running
    <2>4. Stacked(calls, h, done, moved, disturbed)
      BY <2>1, <2>3, Joined DEF Running, Top
    <2>5. Kept(h, moved, disturbed)
      BY <1>13, <2>1, <2>4 DEF Kept, Running
    <2> QED BY <1>1, <2>1, <2>5, Keeps
  <1> QED BY <1>2, <1>11, <1>12, <1>13

LEMMA WaitCommandKeeps ==
    ASSUME CharactersAssumption, RouteInv, WaitCommand PROVE RouteInv' /\ Steady
  <1> DEFINE c == [ch[Me] EXCEPT !.max = WaitRest, !.stop = 0]
             h == [ch EXCEPT ![Me] = c]
  <1>1. InRoute /\ ~Rests /\ ~RouteEnded /\ UNCHANGED <<worldVars, done, moved, disturbed>>
    BY DEF WaitCommand, Executes
  <1>2. GoOn([ch EXCEPT ![Me].max = WaitRest, ![Me].stop = 0], PlaceNow)
    BY DEF WaitCommand
  <1>3. /\ Me \in Ids /\ Me \notin moved /\ Top.over \in BOOLEAN
        /\ Running(ch, moved, disturbed) /\ Follows(Top, ch[Me], Me \in disturbed)
        /\ ch \in [Ids -> Data] /\ ch[Me] \in Data /\ InItsRoute(ch[Me])
        /\ PlaceNow \in 1..Len(Top.route.cmds) /\ Len(Top.route.cmds) \in Nat
    BY <1>1, CommandFacts
  <1>4. StopBound \in Nat
    BY DEF CharactersAssumption
  <1>6. [ch EXCEPT ![Me].max = WaitRest, ![Me].stop = 0] = h
    BY <1>3
  <1>5. /\ c \in Data /\ Same(c, ch[Me]) /\ c.own = ch[Me].own /\ c.index = ch[Me].index
        /\ c.route = ch[Me].route
    <2>1. 0 \in 0..StopBound /\ WaitRest \in {0, StepRest, WaitRest}
      BY <1>4
    <2> DEFINE o == ch[Me]
    <2>2. o \in Data
      BY <1>3
    <2> HIDE DEF o
    <2>3. LET q == [o EXCEPT !.max = WaitRest, !.stop = 0] IN
          /\ q \in Data /\ Same(q, o) /\ q.own = o.own /\ q.index = o.index /\ q.route = o.route
      BY <2>1, <2>2 DEF Data, Same
    <2> QED BY <2>3 DEF o
  <1> HIDE DEF c
  <1>7. InItsRoute(c) /\ Follows(Top, c, Me \in disturbed)
    BY <1>3, <1>5 DEF InItsRoute, Same, Follows, OwnRoute
  <1>8. Running(h, moved, disturbed) /\ h[Me] = c /\ Unmoved(h)
    <2>1. Running(h, moved, disturbed) /\ h[Me] = c
      BY <1>3, <1>5, <1>7, RunsOn
    <2>2. Unmoved(h)
      BY <1>3, <1>5, NewData DEF Same
    <2> QED BY <2>1, <2>2
  <1> HIDE DEF h
  <1>9. GoOn(h, PlaceNow) /\ PlaceNow \in Nat /\ PlaceNow <= Len(Top.route.cmds)
    <2>1. PlaceNow \in Nat /\ PlaceNow <= Len(Top.route.cmds)
      BY <1>3
    <2> QED BY <1>2, <1>6, <2>1
  <1>10. Kept(h, moved, disturbed)
    BY <1>7, <1>8, <1>9, GoOnKeeps
  <1> QED BY <1>1, <1>8, <1>10, Keeps

\* The data c of e, after the data b: he has not moved, got in the way or left.
Remains(e, b, c, w) ==
    /\ c.x = b.x /\ (Lasting => c.through = b.through)
    /\ InItsRoute(c) /\ InOwnRoute(e, c, w)
    /\ c.page \in {0} \cup PagesOf(e) /\ c.through = (c.page = 0)
    /\ Lasting => (c.page = 0 <=> PagesOf(e) = {})

\* All characters have new data h, w are disturbed.
LEMMA PeopleAfter ==
    ASSUME NEW d, NEW u, People(d, u), NEW w, NEW h, h \in [Ids -> Data],
           \A e \in Ids : Remains(e, d[e], h[e], w)
    PROVE  People(h, w)
  <1>1. Alone(h)
    BY DEF People, Alone, WouldCollide, Remains
  <1>2. Inside(h, w)
    BY DEF Inside, InItsRoute, InOwnRoute, Remains
  <1>3. Shown(h)
    BY DEF Shown, Remains
  <1> QED BY <1>1, <1>2, <1>3 DEF People

\* One who has asked goes on to ask, though his page and his route's place have changed:
\* then he is disturbed.
LEMMA CallAfter ==
    ASSUME NEW f \in Calls, NEW d, NEW n, NEW m, NEW u, Call(f, d, n, m, u), f.at = "asked",
           Events \in Seq(Ids), NEW w, u \subseteq w, NEW h,
           \A e \in Ids : h[e].x = d[e].x /\ (Lasting => h[e].through = d[e].through),
           h[f.who].rem = d[f.who].rem, h[f.who].jumping = d[f.who].jumping,
           h[f.who].index = d[f.who].index, h[f.who].route = d[f.who].route,
           f.over \/ f.who \in w \/ (h[f.who].page = d[f.who].page /\ h[f.who].own = d[f.who].own)
    PROVE  Call(f, h, n, m, w)
  <1> DEFINE e == f.who
  <1>1. e \in Ids /\ f.over \in BOOLEAN
    BY DEF Calls
  <1>2. /\ n[e] /\ (Lasting => ~d[e].through) /\ Follows(f, d[e], e \in u)
        /\ AtCommand(f, d[e], e \in u) /\ Moves(f, d[e], e \in m) /\ Clear(f, d)
    BY DEF Call
  <1>3. Follows(f, h[e], e \in w)
    <2>1. CASE f.over \/ e \in w
      BY <1>2, <2>1 DEF Follows
    <2>2. CASE ~f.over /\ e \notin w
      <3>1. h[e].page = d[e].page /\ h[e].own = d[e].own /\ e \notin u
        BY <2>2
      <3>2. OwnRoute(e, h[e]) = OwnRoute(e, d[e])
        BY <3>1 DEF OwnRoute
      <3> QED BY <1>2, <2>2, <3>1, <3>2 DEF Follows
    <2> QED BY <2>1, <2>2
  <1>4. AtCommand(f, h[e], e \in w)
    BY <1>1, <1>2 DEF AtCommand, Place
  <1>5. Moves(f, h[e], e \in m)
    BY <1>2 DEF Moves, Stands
  <1>6. Clear(f, h)
    <2>1. ASSUME Lasting, NEW j \in 1..f.k - 1, Events[j] # e, ~h[Events[j]].through
          PROVE  h[Events[j]].x # f.to
      <3>1. f.k \in 1..Len(Events) + 1
        BY <1>2 DEF Clear
      <3>2. Events[j] \in Ids
        BY <3>1
      <3> QED BY <1>2, <2>1, <3>2 DEF Clear
    <2> QED BY <1>2, <2>1 DEF Clear
  <1> QED BY <1>1, <1>2, <1>3, <1>4, <1>5, <1>6 DEF Call

LEMMA SwitchCommandKeeps ==
    ASSUME CharactersAssumption, RouteInv, SwitchCommand PROVE RouteInv' /\ Steady
  <1> DEFINE now == [routeSwitches EXCEPT ![Cmd.arg[1]] = Cmd.arg[2]]
             b == At(ch[Me], Top.over, PlaceNow + 1)
             Was(e) == IF e = Me THEN b ELSE ch[e]
             h == [e \in Ids |-> Refreshed(e, Was(e), now)]
             w == disturbed \cup
                    {e \in Ids : /\ h[e].page # ch[e].page
                                 /\ \E i \in 1..Len(calls) - 1 : calls[i].who = e /\ ~calls[i].over}
             goal == Place(h[Me], Top.over)
             Fine(e, z) == /\ z \in Data /\ InItsRoute(z) /\ InOwnRoute(e, z, disturbed)
                           /\ z.page \in {0} \cup PagesOf(e) /\ z.through = (z.page = 0)
                           /\ Lasting => (z.page = 0 <=> PagesOf(e) = {})
  <1>1. /\ InRoute /\ ~Rests /\ ~RouteEnded /\ UNCHANGED <<routeTurn, busy, done, moved>>
        /\ routeSwitches' = now /\ disturbed' = w
        /\ IF goal = 1 THEN EndRoute(h) ELSE GoOn(h, goal - 1)
    BY DEF SwitchCommand, Executes
  <1>2. /\ Me \in Ids /\ Me \notin moved /\ Top.over \in BOOLEAN /\ Top \in Calls /\ Top.who = Me
        /\ Running(ch, moved, disturbed) /\ Follows(Top, ch[Me], Me \in disturbed)
        /\ ch \in [Ids -> Data] /\ ch[Me] \in Data /\ InItsRoute(ch[Me])
        /\ PlaceNow \in 1..Len(Top.route.cmds) /\ Len(Top.route.cmds) \in Nat
        /\ ch[Me].page \in {0} \cup PagesOf(Me) /\ Top.route \in Routes \cup {NoRoute}
    BY <1>1, CommandFacts DEF Me, Calls
  <1>3. now \in [RouteSwitches -> BOOLEAN]
    <2>1. Cmd.arg[2] \in BOOLEAN
      <3>1. Cmd = Top.route.cmds[PlaceNow] /\ Cmd.code = "switch"
        BY DEF SwitchCommand, Executes, Cmd
      <3> QED BY <1>2, <3>1, RouteFacts
    <2>2. routeSwitches \in [RouteSwitches -> BOOLEAN]
      BY DEF RouteInv, Others
    <2> QED BY <2>1, <2>2
  <1>4. /\ b \in Data /\ Same(b, ch[Me]) /\ b.route = ch[Me].route /\ b.over = ch[Me].over
        /\ b.rem = ch[Me].rem /\ b.jumping = ch[Me].jumping
        /\ b.own = (IF Top.over THEN ch[Me].own ELSE PlaceNow + 1)
        /\ b.index = (IF Top.over THEN PlaceNow + 1 ELSE ch[Me].index)
    <2>1. PlaceNow + 1 \in Nat \ {0}
      BY <1>2
    <2> QED BY <1>2, <2>1, PlaceFacts
  <1>5. /\ InItsRoute(b) /\ (b.own = ch[Me].own \/ InOwnRoute(Me, b, disturbed))
        /\ Follows(Top, b, Me \in disturbed)
    <2>1. PlaceNow + 1 \in Nat \ {0} /\ PlaceNow + 1 <= Len(Top.route.cmds) + 1
      BY <1>2
    <2> QED BY <1>2, <2>1, PlaceInRoute
  <1> HIDE DEF b, now, Fine
  <1>6. People(ch, disturbed)
    BY <1>2 DEF Running
  <1>7. ASSUME NEW e \in Ids PROVE Fine(e, Was(e))
    <2>1. Fine(e, ch[e])
      BY <1>6 DEF People, Inside, Shown, InItsRoute, InOwnRoute, Fine
    <2>2. CASE e # Me
      BY <2>1, <2>2
    <2>3. CASE e = Me
      <3>1. OwnRoute(Me, b) = OwnRoute(Me, ch[Me]) /\ b.page = ch[Me].page /\ b.through = ch[Me].through
        BY <1>4 DEF OwnRoute, Same
      <3>2. b.own = ch[Me].own \/ InOwnRoute(Me, b, disturbed)
        BY <1>5
      <3>3. InOwnRoute(Me, b, disturbed)
        BY <2>1, <2>3, <3>1, <3>2 DEF InOwnRoute, Fine
      <3>4. Fine(Me, b)
        BY <1>4, <1>5, <2>1, <2>3, <3>1, <3>3 DEF Fine
      <3> QED BY <2>3, <3>4
    <2> QED BY <2>2, <2>3
  <1>8. ASSUME NEW e \in Ids
        PROVE  /\ h[e] \in Data /\ h[e].x = ch[e].x /\ h[e].rem = ch[e].rem
               /\ h[e].jumping = ch[e].jumping /\ (Lasting => h[e].through = ch[e].through)
               /\ h[e].route = ch[e].route /\ InItsRoute(h[e]) /\ InOwnRoute(e, h[e], w)
               /\ h[e].page \in {0} \cup PagesOf(e) /\ h[e].through = (h[e].page = 0)
               /\ Lasting => (h[e].page = 0 <=> PagesOf(e) = {})
               /\ e # Me => h[e].index = ch[e].index
                            /\ (h[e].page = ch[e].page => h[e].own = ch[e].own)
    <2>1. h[e] = Refreshed(e, Was(e), now)
      OBVIOUS
    <2>4. /\ Was(e).x = ch[e].x /\ Was(e).rem = ch[e].rem /\ Was(e).jumping = ch[e].jumping
          /\ Was(e).route = ch[e].route /\ Was(e).page = ch[e].page
          /\ Was(e).through = ch[e].through /\ (e # Me => Was(e) = ch[e])
      BY <1>4 DEF Same
    <2> HIDE DEF h, Was
    <2>2. /\ h[e] \in Data /\ h[e].x = Was(e).x /\ h[e].rem = Was(e).rem
          /\ h[e].jumping = Was(e).jumping /\ h[e].index = Was(e).index /\ h[e].route = Was(e).route
          /\ h[e].page \in {0} \cup PagesOf(e) /\ h[e].through = (h[e].page = 0)
          /\ Lasting => h[e].through = Was(e).through /\ (h[e].page = 0 <=> PagesOf(e) = {})
          /\ h[e].page = Was(e).page => h[e].own = Was(e).own
          /\ InOwnRoute(e, h[e], disturbed)
      <3> DEFINE z == Was(e)
      <3>1. /\ z \in Data /\ InOwnRoute(e, z, disturbed)
            /\ z.page \in {0} \cup PagesOf(e) /\ z.through = (z.page = 0)
            /\ Lasting => (z.page = 0 <=> PagesOf(e) = {})
        BY <1>7 DEF Fine
      <3>2. h[e] = Refreshed(e, z, now)
        BY <2>1
      <3> HIDE DEF z
      <3>3. /\ h[e] \in Data /\ h[e].x = z.x /\ h[e].rem = z.rem
            /\ h[e].jumping = z.jumping /\ h[e].index = z.index /\ h[e].route = z.route
            /\ h[e].page \in {0} \cup PagesOf(e) /\ h[e].through = (h[e].page = 0)
            /\ Lasting => h[e].through = z.through /\ (h[e].page = 0 <=> PagesOf(e) = {})
            /\ h[e].page = z.page => h[e].own = z.own
            /\ InOwnRoute(e, h[e], disturbed)
        BY <3>1, <3>2, RefreshedFacts
      <3> QED BY <3>3 DEF z
    <2>3. InItsRoute(h[e]) /\ InOwnRoute(e, h[e], w)
      <3>1. InItsRoute(Was(e))
        BY <1>7 DEF Fine
      <3> QED BY <2>2, <3>1 DEF InItsRoute, InOwnRoute
    <2> QED BY <2>2, <2>3, <2>4
  <1>9. /\ h[Me].own \in {1, b.own} /\ h[Me].index = b.index /\ h[Me].route = b.route
        /\ h[Me].page # 0 /\ h[Me].own # 1 =>
              b.page # 0 /\ Kinds(OwnRoute(Me, h[Me]).cmds) = Kinds(OwnRoute(Me, b).cmds)
    <2>1. h[Me] = Refreshed(Me, b, now)
      BY <1>2
    <2>2. /\ b \in Data /\ b.page \in {0} \cup PagesOf(Me) /\ b.through = (b.page = 0)
          /\ Lasting => (b.page = 0 <=> PagesOf(Me) = {})
          /\ InOwnRoute(Me, b, disturbed)
      <3>1. Fine(Me, b)
        BY <1>2, <1>7
      <3> QED BY <3>1 DEF Fine
    <2> HIDE DEF h
    <2> QED BY <1>2, <2>1, <2>2, RefreshedFacts
  <1>10. h \in [Ids -> Data]
    BY <1>8
  <1>11. /\ \A e \in Ids : (h[e].page # ch[e].page
                            /\ \E i \in 1..Len(calls) - 1 : calls[i].who = e /\ ~calls[i].over) => e \in w
         /\ disturbed \subseteq w /\ w \subseteq Ids
    BY DEF RouteInv, Others
  <1> HIDE DEF h, w
  <1>12. People(h, w)
    <2>1. \A e \in Ids : Remains(e, ch[e], h[e], w)
      BY <1>8 DEF Remains
    <2> QED BY <1>6, <1>10, <2>1, PeopleAfter
  <1>13. Below(calls, h, done, moved, w)
    <2>1. /\ Below(calls, ch, done, moved, disturbed)
          /\ Len(calls) \in Nat /\ \A i \in 1..Len(calls) : calls[i] \in Calls
          /\ \A i \in 1..Len(calls) - 1 : calls[i].who # Me
      BY <1>2, TopFacts DEF Running, Me, Top
    <2>2. ASSUME NEW i \in 1..Len(calls) - 1
          PROVE  Call(calls[i], h, done, moved, w) /\ Linked(calls[i], calls[i + 1], h, moved)
      <3>1. i \in 1..Len(calls) /\ i + 1 \in 1..Len(calls)
        BY <2>1, Indices
      <3>2. /\ calls[i] \in Calls /\ calls[i + 1] \in Calls /\ calls[i].who # Me
            /\ Call(calls[i], ch, done, moved, disturbed) /\ Linked(calls[i], calls[i + 1], ch, moved)
        BY <2>1, <3>1 DEF Below
      <3>3. calls[i].who \in Ids /\ calls[i + 1].who \in Ids /\ calls[i].at = "asked"
        BY <3>2 DEF Calls, Linked
      <3>4. \/ calls[i].over \/ calls[i].who \in w
            \/ h[calls[i].who].page = ch[calls[i].who].page
        BY <1>11, <3>3
      <3>5. h[calls[i].who].index = ch[calls[i].who].index
            /\ (h[calls[i].who].page = ch[calls[i].who].page =>
                  h[calls[i].who].own = ch[calls[i].who].own)
        BY <1>8, <3>2, <3>3
      <3>6. Events \in Seq(Ids)
        BY DEF CharactersAssumption
      <3>7. Call(calls[i], h, done, moved, w)
        <4> DEFINE e == calls[i].who
        <4>1. \A a \in Ids : h[a].x = ch[a].x /\ (Lasting => h[a].through = ch[a].through)
          BY <1>8
        <4>2. /\ h[e].rem = ch[e].rem /\ h[e].jumping = ch[e].jumping
              /\ h[e].index = ch[e].index /\ h[e].route = ch[e].route
              /\ calls[i].over \/ e \in w \/ (h[e].page = ch[e].page /\ h[e].own = ch[e].own)
          BY <1>8, <3>3, <3>4, <3>5
        <4> QED BY <1>11, <3>2, <3>3, <3>6, <4>1, <4>2, CallAfter
      <3>8. Linked(calls[i], calls[i + 1], h, moved)
        BY <1>8, <3>2, <3>3 DEF Linked
      <3> QED BY <3>7, <3>8
    <2> QED BY <2>1, <2>2 DEF Below
  <1>14. Running(h, moved, w)
    BY <1>2, <1>8, <1>12, <1>13 DEF Running
  <1>15. goal \in Nat \ {0}
    BY <1>2, <1>8, PlaceFacts
  <1>16. goal # 1 => /\ Follows(Top, h[Me], Me \in w)
                  /\ goal - 1 \in Nat /\ (Top.over \/ Me \notin w => goal - 1 <= Len(Top.route.cmds))
    <2>1. SUFFICES ASSUME goal # 1
                   PROVE /\ Follows(Top, h[Me], Me \in w)
                         /\ (Top.over \/ Me \notin w => goal - 1 <= Len(Top.route.cmds))
      BY <1>15
    <2>2. CASE Top.over
      <3>1. goal = PlaceNow + 1
        BY <1>4, <1>9, <2>2 DEF Place
      <3>2. goal - 1 <= Len(Top.route.cmds)
        BY <1>2, <3>1
      <3>3. Follows(Top, h[Me], Me \in w)
        BY <1>2, <1>4, <1>9, <2>2 DEF Follows
      <3> QED BY <3>2, <3>3
    <2>3. CASE ~Top.over /\ Me \in w
      BY <2>3 DEF Follows
    <2>4. CASE ~Top.over /\ Me \notin w
      <3>1. goal = h[Me].own /\ h[Me].own # 1
        BY <2>1, <2>4 DEF Place
      <3>2. goal = PlaceNow + 1
        BY <1>4, <1>9, <2>4, <3>1
      <3>3. Me \notin disturbed
        BY <1>11, <2>4
      <3>4. b.page = 0 \/ Kinds(Top.route.cmds) = Kinds(OwnRoute(Me, b).cmds)
        BY <1>2, <1>5, <2>4, <3>3 DEF Follows
      <3>5. h[Me].page = 0 \/ Kinds(Top.route.cmds) = Kinds(OwnRoute(Me, h[Me]).cmds)
        BY <1>9, <3>1, <3>4
      <3>6. h[Me].own \in 1..Len(Top.route.cmds) + 1 /\ goal - 1 <= Len(Top.route.cmds)
        BY <1>2, <3>1, <3>2
      <3> QED BY <1>2, <2>4, <3>5, <3>6 DEF Follows
    <2> QED BY <1>2, <2>2, <2>3, <2>4
  <1>17. Kept(h, moved, w)
    <2>1. CASE goal = 1 /\ EndRoute(h)
      BY <1>14, <2>1, EndRouteKeeps
    <2>2. CASE goal # 1 /\ GoOn(h, goal - 1)
      <3> DEFINE i == goal - 1
      <3>1. /\ Follows(Top, h[Me], Me \in w) /\ i \in Nat /\ GoOn(h, i)
            /\ Top.over \/ Me \notin w => i <= Len(Top.route.cmds)
        BY <1>16, <2>2
      <3> HIDE DEF i
      <3> QED BY <1>14, <3>1, GoOnKeeps
    <2> QED BY <1>1, <2>1, <2>2
  <1>18. Others(done, moved, disturbed)'
    BY <1>1, <1>3, <1>11 DEF RouteInv, Others
  <1>19. People(ch', disturbed') /\ Stacked(calls', ch', done', moved', disturbed')
    BY <1>1, <1>17 DEF Kept
  <1>20. Steady
    <2>1. moved \subseteq Ids
      BY DEF RouteInv, Others
    <2> QED BY <1>8, <1>17, <2>1 DEF Kept, Steady
  <1> QED BY <1>18, <1>19, <1>20 DEF RouteInv

LEMMA AsksForKeeps ==
    ASSUME CharactersAssumption, NEW d, NEW m, NEW u, Running(d, m, u),
           Follows(Top, d[Me], Me \in u), Me \notin m, ch' = d,
           PlaceNow \in 1..Len(Top.route.cmds), Place(d[Me], Top.over) = PlaceNow,
           Cmd.code = "jump" => JumpEnd(Top.route.cmds, PlaceNow) # {},
           NEW to, AsksFor(to)
    PROVE  Kept(d, m, u)
  <1> DEFINE t == IF to \in Spots THEN to ELSE Nowhere
             g == [Top EXCEPT !.at = "asking", !.n = PlaceNow, !.k = 1, !.to = t]
  <1>1. calls' = Become(calls, g)
    BY DEF AsksFor, NowRuns
  <1>2. /\ People(d, u) /\ Below(calls, d, done, m, u)
    BY DEF Running
  <1>3. /\ Me \in Ids /\ Top \in Calls /\ Top.who = Me /\ Top = Last(calls)
        /\ Top.route \in Routes \cup {NoRoute}
    BY <1>2, TopFacts DEF Me, Top
  <1>4. Len(Top.route.cmds) \in Nat /\ Len(Events) \in Nat
    BY <1>3, RouteFacts, EventsFacts
  <1>5. t \in Spots \cup {Nowhere} /\ PlaceNow \in Nat
    BY <1>4
  <1> HIDE DEF t
  <1>6. /\ g \in Calls /\ g.who = Me /\ g.over = Top.over /\ g.route = Top.route
        /\ g.at = "asking" /\ g.n = PlaceNow /\ g.k = 1
    BY <1>3, <1>5 DEF Calls
  <1> HIDE DEF g
  <1>7. Follows(g, d[Me], Me \in u)
    BY <1>3, <1>6 DEF Follows
  <1>8. AtCommand(g, d[Me], Me \in u)
    BY <1>6 DEF AtCommand, Cmd
  <1>9. Clear(g, d)
    BY <1>4, <1>6 DEF Clear
  <1>10. done[Me] /\ (Lasting => ~d[Me].through)
    BY DEF Running
  <1>11. Call(g, d, done, m, u)
    BY <1>6, <1>7, <1>8, <1>9, <1>10 DEF Call, Moves
  <1>12. Stacked(Become(calls, g), d, done, m, u)
    BY <1>2, <1>3, <1>6, <1>11, TopBecomes
  <1> QED BY <1>1, <1>2, <1>12 DEF Kept

LEMMA MoveCommandKeeps ==
    ASSUME CharactersAssumption, RouteInv, MoveCommand PROVE RouteInv' /\ Steady
  <1>1. /\ InRoute /\ ~Rests /\ ~RouteEnded /\ UNCHANGED <<worldVars, done, moved, disturbed>>
        /\ ch' = ch /\ Cmd.code # "jump" /\ AsksFor(ch[Me].x + Cmd.arg)
    BY DEF MoveCommand, Executes
  <1>2. /\ Me \notin moved /\ Running(ch, moved, disturbed)
        /\ Follows(Top, ch[Me], Me \in disturbed) /\ PlaceNow \in 1..Len(Top.route.cmds)
    BY <1>1, CommandFacts
  <1> DEFINE t == ch[Me].x + Cmd.arg
  <1>3. AsksFor(t)
    BY <1>1
  <1> HIDE DEF t
  <1>4. Place(ch[Me], Top.over) = PlaceNow
    BY DEF PlaceNow
  <1>5. Kept(ch, moved, disturbed)
    BY <1>1, <1>2, <1>3, <1>4, AsksForKeeps
  <1> QED BY <1>1, <1>5, Keeps DEF Unmoved

LEMMA JumpCommandKeeps ==
    ASSUME CharactersAssumption, RouteInv, JumpCommand PROVE RouteInv' /\ Steady
  <1> DEFINE c == [ch[Me] EXCEPT !.jumping = TRUE]
             h == [ch EXCEPT ![Me] = c]
             ends == JumpEnd(Top.route.cmds, PlaceNow)
             t == ch[Me].x + JumpBy(Top.route.cmds, PlaceNow, Min(ends))
  <1>1. /\ InRoute /\ ~Rests /\ ~RouteEnded /\ UNCHANGED <<worldVars, done, moved, disturbed>>
    BY DEF JumpCommand, Executes
  <1>2. /\ Me \in Ids /\ Me \notin moved /\ Running(ch, moved, disturbed) /\ ch \in [Ids -> Data]
        /\ Follows(Top, ch[Me], Me \in disturbed) /\ PlaceNow \in 1..Len(Top.route.cmds)
        /\ ch[Me] \in Data /\ InItsRoute(ch[Me]) /\ Len(Top.route.cmds) \in Nat
    BY <1>1, CommandFacts
  <1>3. CASE ends = {} /\ GoOn(ch, Len(Top.route.cmds))
    <2>1. Kept(ch, moved, disturbed)
      BY <1>2, <1>3, GoOnKeeps
    <2> QED BY <1>1, <2>1, Keeps DEF Unmoved
  <1>4. CASE ends # {} /\ ch' = [ch EXCEPT ![Me].jumping = TRUE] /\ AsksFor(t)
    <2>1. [ch EXCEPT ![Me].jumping = TRUE] = h
      BY <1>2
    <2>2. /\ c \in Data /\ Same(c, ch[Me]) /\ c.own = ch[Me].own /\ c.index = ch[Me].index
          /\ c.route = ch[Me].route
      BY <1>2 DEF Data, Same
    <2> HIDE DEF c, t
    <2>3. InItsRoute(c) /\ Follows(Top, c, Me \in disturbed) /\ Place(c, Top.over) = PlaceNow
      BY <1>2, <2>2 DEF InItsRoute, Same, Follows, OwnRoute, Place, PlaceNow
    <2>4. Running(h, moved, disturbed) /\ h[Me] = c
      BY <1>2, <2>2, <2>3, RunsOn
    <2>5. Unmoved(h)
      BY <1>2, <2>2, NewData DEF Same
    <2> HIDE DEF h
    <2>6. Kept(h, moved, disturbed)
      BY <1>2, <1>4, <2>1, <2>3, <2>4, AsksForKeeps
    <2> QED BY <1>1, <2>5, <2>6, Keeps
  <1> QED BY <1>3, <1>4 DEF JumpCommand

-----------------------------------------------------------------------------
(* Asking for a tile, and coming to it.                                     *)

LEMMA AskFacts ==
    ASSUME CharactersAssumption, RouteInv, calls # <<>>, Top.at # "route"
    PROVE  /\ Me \in Ids /\ Me \notin moved /\ Running(ch, moved, disturbed)
           /\ Top \in Calls /\ Top.who = Me /\ Top.route \in Routes \cup {NoRoute}
           /\ Follows(Top, ch[Me], Me \in disturbed) /\ Clear(Top, ch)
           /\ ch \in [Ids -> Data] /\ ch[Me] \in Data /\ InItsRoute(ch[Me])
           /\ Top.n \in 1..Len(Top.route.cmds) /\ Len(Top.route.cmds) \in Nat
           /\ LastTaken \in Nat
           /\ Top.over \/ Me \notin disturbed => LastTaken <= Len(Top.route.cmds)
           /\ People(ch, disturbed) /\ ch[Me].page \in {0} \cup PagesOf(Me)
  <1>1. /\ Running(ch, moved, disturbed) /\ Top \in Calls /\ Me \in Ids /\ Clear(Top, ch)
        /\ Follows(Top, ch[Me], Me \in disturbed) /\ Moves(Top, ch[Me], Me \in moved)
        /\ AtCommand(Top, ch[Me], Me \in disturbed)
    BY RunsNow
  <1>2. Me \notin moved
    BY <1>1 DEF Moves
  <1>3. /\ ch \in [Ids -> Data] /\ ch[Me] \in Data /\ InItsRoute(ch[Me]) /\ People(ch, disturbed)
        /\ ch[Me].page \in {0} \cup PagesOf(Me)
    BY <1>1 DEF Running, People, Inside, InItsRoute, Shown
  <1>4. Top.route \in Routes \cup {NoRoute} /\ Top.over \in BOOLEAN /\ Top.who = Me
    BY <1>1 DEF Calls, Me
  <1>5. Len(Top.route.cmds) \in Nat /\ Top.n \in 1..Len(Top.route.cmds)
    BY <1>1, <1>4, RouteFacts DEF AtCommand
  <1>6. LastTaken \in Nat /\ (Top.over \/ Me \notin disturbed => LastTaken <= Len(Top.route.cmds))
    <2>1. CASE Jumps
      <3> DEFINE T == JumpEnd(Top.route.cmds, Top.n)
      <3>1. T # {} /\ LastTaken = Min(T)
        BY <1>1, <2>1 DEF AtCommand, Jumps, LastTaken
      <3>2. T \subseteq Nat /\ \A j \in T : j <= Len(Top.route.cmds)
        BY <1>5 DEF JumpEnd
      <3> HIDE DEF T
      <3>3. Min(T) \in T
        BY <3>1, <3>2, SmallestNumber
      <3> QED BY <3>1, <3>2, <3>3
    <2>2. CASE ~Jumps
      <3>1. LastTaken = PlaceNow /\ PlaceNow \in Nat
        BY <1>3, <1>4, <2>2, PlaceFacts DEF LastTaken, PlaceNow
      <3>2. Top.over \/ Me \notin disturbed => PlaceNow = Top.n
        BY <1>1 DEF AtCommand, PlaceNow
      <3> QED BY <1>5, <3>1, <3>2
    <2> QED BY <2>1, <2>2
  <1> QED BY <1>1, <1>2, <1>3, <1>4, <1>5, <1>6

\* Whose way is free comes to a tile where nobody stands, and at which none of those who wait
\* for others to go away has looked in vain.
LEMMA LandingFacts ==
    ASSUME CharactersAssumption, RouteInv, Asking, WayIsFree,
           NEW c \in Data, c.x = Top.to, c.through = ch[Me].through, c.page = ch[Me].page,
           c.own = ch[Me].own, InItsRoute(c), ~Stands(c)
    PROVE  Running([ch EXCEPT ![Me] = c], moved \cup {Me}, disturbed)
  <1> DEFINE h == [ch EXCEPT ![Me] = c]
             m == moved \cup {Me}
  <1>1. /\ Me \in Ids /\ Me \notin moved /\ Running(ch, moved, disturbed) /\ Clear(Top, ch)
        /\ Top \in Calls /\ Top.who = Me
        /\ ch \in [Ids -> Data] /\ People(ch, disturbed) /\ Top.at = "asking"
    BY AskFacts DEF Asking
  <1>2. Only(Me, ch, h) /\ h[Me] = c
    BY <1>1 DEF Only
  <1> HIDE DEF h, m
  <1>3. ASSUME Lasting, NEW e \in Ids, e # Me, ~ch[e].through PROVE ch[e].x # Top.to
    <2>1. ~ch[Me].through
      BY <1>1, <1>3 DEF Running
    <2>2. CASE Top.to = ch[Me].x
      BY <1>1, <1>3, <2>1, <2>2 DEF People, Alone, WouldCollide
    <2>3. CASE \A k \in Top.k..Len(Events) : ~InTheWay(k)
      <3>1. PICK k \in 1..Len(Events) : Events[k] = e
        BY EventsFacts
      <3>2. Top.k \in 1..Len(Events) + 1 /\ Len(Events) \in Nat
        BY <1>1, EventsFacts DEF Clear
      <3>3. CASE k \in 1..Top.k - 1
        BY <1>1, <1>3, <3>1, <3>3 DEF Clear
      <3>4. CASE k \in Top.k..Len(Events)
        BY <1>3, <2>3, <3>1, <3>4 DEF InTheWay
      <3> QED BY <3>2, <3>3, <3>4
    <2> QED BY <2>1, <2>2, <2>3 DEF WayIsFree, AsksNobody
  <1>4. Alone(h)
    BY <1>1, <1>2, <1>3 DEF Alone, People, Only, WouldCollide
  <1>5. Inside(h, disturbed)
    <2> SUFFICES ASSUME NEW i \in Ids PROVE InOwnRoute(i, h[i], disturbed) /\ InItsRoute(h[i])
      BY DEF Inside, InOwnRoute, InItsRoute
    <2>1. InOwnRoute(i, ch[i], disturbed) /\ InItsRoute(ch[i])
      BY <1>1 DEF People, Inside, InOwnRoute, InItsRoute
    <2>2. OwnRoute(i, h[i]) = OwnRoute(i, ch[i])
      BY <1>2 DEF OwnRoute, Only
    <2> QED BY <1>2, <2>1, <2>2 DEF InOwnRoute, Only
  <1>6. Shown(h)
    BY <1>1, <1>2 DEF People, Shown, Only
  <1>7. People(h, disturbed)
    BY <1>2, <1>4, <1>5, <1>6 DEF People, Only
  <1>8. Below(calls, h, done, m, disturbed)
    <2>1. /\ Below(calls, ch, done, moved, disturbed)
          /\ Len(calls) \in Nat /\ \A i \in 1..Len(calls) : calls[i] \in Calls
          /\ \A i \in 1..Len(calls) - 1 : calls[i].who # Me
          /\ Me = calls[Len(calls)].who
      BY <1>1, TopFacts DEF Running, Me, Top
    <2>2. ASSUME NEW i \in 1..Len(calls) - 1
          PROVE  Call(calls[i], h, done, m, disturbed) /\ Linked(calls[i], calls[i + 1], h, m)
      <3> DEFINE f == calls[i]
                 g == calls[i + 1]
      <3>1. i \in 1..Len(calls) /\ i + 1 \in 1..Len(calls)
        BY <2>1, Indices
      <3>2. /\ f \in Calls /\ g \in Calls /\ f.who # Me /\ f.who \in Ids /\ g.who \in Ids
            /\ Call(f, ch, done, moved, disturbed) /\ Linked(f, g, ch, moved)
        BY <2>1, <3>1 DEF Below, Calls
      <3> HIDE DEF f, g
      <3>3. h[f.who] = ch[f.who] /\ (f.who \in m <=> f.who \in moved)
        BY <1>2, <3>2 DEF Only, m
      <3>4. Linked(f, g, h, m)
        <4>1. CASE g.who = Me
          BY <3>2, <4>1 DEF Linked, m
        <4>2. CASE g.who # Me
          <5>1. h[g.who] = ch[g.who] /\ (g.who \in m <=> g.who \in moved)
            BY <1>2, <3>2, <4>2 DEF Only, m
          <5> QED BY <3>2, <5>1 DEF Linked
        <4> QED BY <4>1, <4>2
      <3>5. f.k \in 1..Len(Events) /\ f.at = "asked" /\ Events[f.k] = g.who /\ Len(Events) \in Nat
        BY <3>2, EventsFacts DEF Call, Clear, Linked
      <3>6. Lasting => Top.to # f.to \/ g.who = Me
        <4> SUFFICES ASSUME Lasting, g.who # Me PROVE Top.to # f.to
          OBVIOUS
        <4>1. i + 1 # Len(calls)
          BY <2>1 DEF g
        <4>2. i + 1 \in 1..Len(calls) - 1
          BY <2>1, <3>1, <4>1, Indices
        <4>3. Call(g, ch, done, moved, disturbed) /\ Linked(g, calls[i + 1 + 1], ch, moved)
          BY <2>1, <4>2 DEF Below, g
        <4>4. g.who \notin moved /\ ~ch[g.who].through
          BY <4>3 DEF Call, Moves, Linked
        <4>5. ch[g.who].x = f.to
          BY <3>2, <4>4 DEF Linked
        <4> QED BY <1>3, <3>2, <4>4, <4>5
      <3>7. Clear(f, h)
        <4>1. ASSUME Lasting, NEW j \in 1..f.k - 1, Events[j] # f.who, ~h[Events[j]].through
              PROVE  h[Events[j]].x # f.to
          <5>1. j \in 1..Len(Events) /\ j # f.k
            BY <3>5
          <5>2. Events[j] \in Ids /\ Events[j] # Events[f.k]
            BY <3>5, <5>1, EventsFacts
          <5>3. CASE Events[j] # Me
            <6>1. h[Events[j]] = ch[Events[j]]
              BY <1>2, <5>2, <5>3 DEF Only
            <6> QED BY <3>2, <3>5, <4>1, <6>1 DEF Call, Clear
          <5>4. CASE Events[j] = Me
            BY <1>2, <3>5, <3>6, <4>1, <5>2, <5>4
          <5> QED BY <5>3, <5>4
        <4>2. f.k <= Len(Events) /\ Events[f.k] # f.who
          BY <3>2, <3>5 DEF Call, Clear
        <4> QED BY <3>5, <4>1, <4>2 DEF Clear
      <3>8. Call(f, h, done, m, disturbed)
        BY <3>2, <3>3, <3>7 DEF Call
      <3> QED BY <3>4, <3>8 DEF f, g
    <2> QED BY <2>1, <2>2 DEF Below
  <1>9. Running(h, m, disturbed)
    BY <1>1, <1>2, <1>7, <1>8 DEF Running
  <1> QED BY <1>9 DEF h, m

LEMMA LandKeeps ==
    ASSUME CharactersAssumption, RouteInv, Land PROVE RouteInv' /\ Steady
  <1> DEFINE c == [ch[Me] EXCEPT !.x = Top.to, !.rem = Tile, !.max = StepRest]
             h == [ch EXCEPT ![Me] = c]
             m == moved \cup {Me}
  <1>1. /\ Asking /\ WayIsFree /\ UNCHANGED <<worldVars, done, disturbed>> /\ moved' = m
        /\ GoOn([ch EXCEPT ![Me].x = Top.to, ![Me].rem = Tile, ![Me].max = StepRest], LastTaken)
    BY DEF Land, Lands
  <1>2. /\ Me \in Ids /\ Me \notin moved /\ Top \in Calls /\ Running(ch, moved, disturbed)
        /\ Follows(Top, ch[Me], Me \in disturbed)
        /\ ch \in [Ids -> Data] /\ ch[Me] \in Data /\ InItsRoute(ch[Me]) /\ LastTaken \in Nat
        /\ Top.over \/ Me \notin disturbed => LastTaken <= Len(Top.route.cmds)
    BY <1>1, AskFacts DEF Asking
  <1>3. Top.to \in Spots
    <2>1. Top.to \in Spots \cup {Nowhere}
      BY <1>2 DEF Calls
    <2>2. ch[Me].x \in Spots
      BY <1>2 DEF Data
    <2> QED BY <1>1, <2>1, <2>2 DEF WayIsFree
  <1>4. Tile \in Nat \ {0} /\ Tile \in -Tile..Tile /\ StepRest \in {0, StepRest, WaitRest}
    BY DEF CharactersAssumption
  <1>5. [ch EXCEPT ![Me].x = Top.to, ![Me].rem = Tile, ![Me].max = StepRest] = h
    BY <1>2
  <1>6. /\ c \in Data /\ c.x = Top.to /\ c.through = ch[Me].through /\ c.page = ch[Me].page
        /\ c.own = ch[Me].own /\ c.index = ch[Me].index /\ c.route = ch[Me].route /\ c.rem = Tile
    <2> DEFINE o == ch[Me]
               t == Top.to
    <2>1. o \in Data /\ t \in Spots
      BY <1>2, <1>3
    <2> HIDE DEF o, t
    <2>2. LET q == [o EXCEPT !.x = t, !.rem = Tile, !.max = StepRest] IN
          /\ q \in Data /\ q.x = t /\ q.through = o.through /\ q.page = o.page
          /\ q.own = o.own /\ q.index = o.index /\ q.route = o.route /\ q.rem = Tile
      BY <1>4, <2>1 DEF Data
    <2> QED BY <2>2 DEF o, t
  <1> HIDE DEF c
  <1>7. InItsRoute(c) /\ ~Stands(c) /\ Follows(Top, c, Me \in disturbed)
    <2>1. ~Stands(c)
      BY <1>4, <1>6 DEF Stands
    <2>2. InItsRoute(c) /\ Follows(Top, c, Me \in disturbed)
      BY <1>2, <1>6 DEF InItsRoute, Follows, OwnRoute
    <2> QED BY <2>1, <2>2
  <1>8. Running(h, m, disturbed)
    BY <1>1, <1>6, <1>7, LandingFacts
  <1>9. h[Me] = c
    BY <1>2
  <1>10. \A e \in moved : h[e].x = ch[e].x
    BY <1>2 DEF RouteInv, Others
  <1>11. m \subseteq Ids /\ moved \subseteq Ids /\ \A e \in m : done[e]
    BY <1>2 DEF RouteInv, Others, Running
  <1> HIDE DEF h, m
  <1>12. GoOn(h, LastTaken)
    BY <1>1, <1>5
  <1>13. Kept(h, m, disturbed)
    BY <1>2, <1>7, <1>8, <1>9, <1>12, GoOnKeeps
  <1>14. Others(done, moved, disturbed)'
    BY <1>1, <1>11 DEF RouteInv, Others, worldVars
  <1>15. Steady
    BY <1>10, <1>11, <1>13 DEF Kept, Steady
  <1> QED BY <1>1, <1>13, <1>14, <1>15 DEF RouteInv, Kept

LEMMA FailsKeeps ==
    ASSUME CharactersAssumption, RouteInv, calls # <<>>, Top.at # "route", Fails,
           UNCHANGED <<worldVars, done, disturbed>>
    PROVE  RouteInv' /\ Steady
  <1> DEFINE c == IF Jumps THEN [ch[Me] EXCEPT !.jumping = FALSE] ELSE ch[Me]
             a == IF Jumps THEN c ELSE [c EXCEPT !.max = StepRest]
             b == IF Jumps THEN At(c, Top.over, Top.n) ELSE c
  <1>1. /\ moved' = moved
        /\ GoOn([ch EXCEPT ![Me] = a], LastTaken) \/ EndRoute([ch EXCEPT ![Me] = b])
    BY DEF Fails
  <1>2. /\ Me \in Ids /\ Me \notin moved /\ Running(ch, moved, disturbed)
        /\ Top \in Calls /\ Top.who = Me /\ Top.route \in Routes \cup {NoRoute}
        /\ Follows(Top, ch[Me], Me \in disturbed) /\ Top.over \in BOOLEAN
        /\ ch \in [Ids -> Data] /\ ch[Me] \in Data /\ InItsRoute(ch[Me])
        /\ Top.n \in 1..Len(Top.route.cmds) /\ Len(Top.route.cmds) \in Nat
        /\ LastTaken \in Nat
        /\ Top.over \/ Me \notin disturbed => LastTaken <= Len(Top.route.cmds)
        /\ ch[Me].page \in {0} \cup PagesOf(Me)
    BY AskFacts DEF Calls
  <1>3. /\ c \in Data /\ Same(c, ch[Me]) /\ c.own = ch[Me].own /\ c.index = ch[Me].index
        /\ c.route = ch[Me].route
    BY <1>2 DEF Data, Same
  <1> HIDE DEF c
  <1>4. /\ a \in Data /\ Same(a, ch[Me]) /\ a.own = ch[Me].own /\ a.index = ch[Me].index
        /\ a.route = ch[Me].route
    BY <1>3 DEF Data, Same
  <1>5. /\ InItsRoute(c) /\ Follows(Top, c, Me \in disturbed)
        /\ InItsRoute(a) /\ Follows(Top, a, Me \in disturbed)
        /\ c.page \in {0} \cup PagesOf(Me)
    BY <1>2, <1>3, <1>4 DEF InItsRoute, Same, Follows, OwnRoute
  <1>6. /\ b \in Data /\ Same(b, ch[Me]) /\ InItsRoute(b)
        /\ b.own = ch[Me].own \/ InOwnRoute(Me, b, disturbed)
    <2>1. Top.n \in Nat \ {0} /\ Top.n <= Len(Top.route.cmds) + 1
      BY <1>2
    <2> DEFINE back == At(c, Top.over, Top.n)
    <2>2. /\ back \in Data /\ Same(back, c) /\ InItsRoute(back)
          /\ back.own = c.own \/ InOwnRoute(Me, back, disturbed)
      BY <1>2, <1>3, <1>5, <2>1, PlaceFacts, PlaceInRoute
    <2> HIDE DEF back
    <2>3. b = IF Jumps THEN back ELSE c
      BY DEF back
    <2> HIDE DEF b
    <2> QED BY <1>3, <1>5, <2>2, <2>3 DEF Same
  <1> HIDE DEF a, b
  <1>7. Running([ch EXCEPT ![Me] = a], moved, disturbed) /\ [ch EXCEPT ![Me] = a][Me] = a
    BY <1>2, <1>4, <1>5, RunsOn
  <1>8. Running([ch EXCEPT ![Me] = b], moved, disturbed)
    BY <1>2, <1>6, RunsOn
  <1>9. Unmoved([ch EXCEPT ![Me] = a]) /\ Unmoved([ch EXCEPT ![Me] = b])
    BY <1>2, <1>4, <1>6, NewData DEF Same
  <1>10. CASE EndRoute([ch EXCEPT ![Me] = b])
    BY <1>1, <1>8, <1>9, <1>10, EndRouteKeeps, Keeps
  <1>11. CASE GoOn([ch EXCEPT ![Me] = a], LastTaken)
    <2> DEFINE h == [ch EXCEPT ![Me] = a]
    <2>1. Running(h, moved, disturbed) /\ h[Me] = a /\ Unmoved(h) /\ GoOn(h, LastTaken)
      BY <1>7, <1>9, <1>11
    <2> HIDE DEF h
    <2>2. Kept(h, moved, disturbed)
      BY <1>2, <1>5, <2>1, GoOnKeeps
    <2> QED BY <1>1, <2>1, <2>2, Keeps
  <1> QED BY <1>1, <1>10, <1>11

LEMMA EdgeKeeps ==
    ASSUME CharactersAssumption, RouteInv, Edge PROVE RouteInv' /\ Steady
  BY FailsKeeps DEF Edge, Asking

LEMMA AnsweredKeeps ==
    ASSUME CharactersAssumption, RouteInv, Answered PROVE RouteInv' /\ Steady
  <1>1. calls # <<>> /\ Top.at = "asked" /\ UNCHANGED <<worldVars, done, disturbed>>
    BY DEF Answered
  <1>2. CASE Obstructs
    BY <1>1, <1>2, FailsKeeps DEF Answered
  <1>3. CASE ~Obstructs
    <2> DEFINE g == [Top EXCEPT !.at = "asking", !.k = @ + 1]
    <2>1. calls' = Become(calls, g) /\ ch' = ch /\ moved' = moved
      BY <1>3 DEF Answered, NowRuns
    <2>2. /\ Me \in Ids /\ Me \notin moved /\ Running(ch, moved, disturbed)
          /\ Top \in Calls /\ Top.who = Me /\ Clear(Top, ch)
          /\ People(ch, disturbed)
      BY <1>1, AskFacts
    <2>3. Call(Top, ch, done, moved, disturbed)
      BY <1>1, RunsNow
    <2>4. Top.k \in 1..Len(Events) /\ Len(Events) \in Nat
      BY <1>1, <2>2, EventsFacts DEF Clear
    <2>10. Top.k + 1 \in Nat
      BY <2>4
    <2>5. /\ g \in Calls /\ g.who = Me /\ g.over = Top.over /\ g.route = Top.route
          /\ g.at = "asking" /\ g.n = Top.n /\ g.k = Top.k + 1 /\ g.to = Top.to
      <3> DEFINE v == Top.k + 1
      <3>1. g = [Top EXCEPT !.at = "asking", !.k = v] /\ v \in Nat
        BY <2>2, <2>10
      <3> HIDE DEF v, g
      <3>2. /\ g \in Calls /\ g.who = Top.who /\ g.over = Top.over /\ g.route = Top.route
            /\ g.at = "asking" /\ g.n = Top.n /\ g.k = v /\ g.to = Top.to
        BY <2>2, <3>1 DEF Calls
      <3> QED BY <2>2, <3>2 DEF v
    <2> HIDE DEF g
    <2>6. Clear(g, ch)
      <3>1. ASSUME Lasting, NEW j \in 1..g.k - 1, Events[j] # Me, ~ch[Events[j]].through
            PROVE  ch[Events[j]].x # g.to
        <4>1. CASE j = Top.k
          <5>1. ~ch[Me].through
            BY <2>2, <3>1 DEF Running
          <5> QED BY <1>3, <2>5, <3>1, <4>1, <5>1 DEF Obstructs, WouldCollide
        <4>2. CASE j # Top.k
          <5>1. j \in 1..Top.k - 1
            BY <2>4, <2>5, <4>2
          <5> QED BY <1>1, <2>2, <2>5, <3>1, <5>1 DEF Clear
        <4> QED BY <4>1, <4>2
      <3>2. g.k \in 1..Len(Events) + 1
        BY <2>4, <2>5
      <3> QED BY <2>5, <3>1, <3>2 DEF Clear
    <2>7. Call(g, ch, done, moved, disturbed)
      <3>1. AtCommand(g, ch[Me], Me \in disturbed)
        BY <1>1, <2>2, <2>3, <2>5 DEF Call, AtCommand
      <3>2. Follows(g, ch[Me], Me \in disturbed)
        BY <2>2, <2>3, <2>5 DEF Call, Follows
      <3>3. done[Me] /\ (Lasting => ~ch[Me].through)
        BY <2>2 DEF Running
      <3> QED BY <2>2, <2>5, <2>6, <3>1, <3>2, <3>3 DEF Call, Moves
    <2>8. Stacked(Become(calls, g), ch, done, moved, disturbed)
      BY <2>2, <2>5, <2>7, TopBecomes DEF Running, Me, Top
    <2>9. Kept(ch, moved, disturbed)
      BY <2>1, <2>2, <2>8 DEF Kept
    <2> QED BY <1>1, <2>1, <2>9, Keeps DEF Unmoved
  <1> QED BY <1>2, <1>3

-----------------------------------------------------------------------------
(* Who is called, and the frame.                                            *)

\* Somebody who does not ask acts, by which he does not move.
LEMMA StackedStill ==
    ASSUME CharactersAssumption, NEW cs, NEW d, NEW n, NEW m, NEW u, Stacked(cs, d, n, m, u),
           NEW h, \A i \in Ids : Same(h[i], d[i]),
           \A i \in DOMAIN cs : h[cs[i].who] = d[cs[i].who],
           NEW o, \A i \in Ids : n[i] => o[i]
    PROVE  Stacked(cs, h, o, m, u)
  <1>1. cs \in Seq(Calls) /\ DOMAIN cs = 1..Len(cs) /\ Len(cs) \in Nat
    BY DEF Stacked
  <1>2. \A i \in Ids : h[i].x = d[i].x /\ h[i].through = d[i].through
    BY DEF Same
  <1>3. ASSUME NEW i \in DOMAIN cs PROVE Call(cs[i], h, o, m, u)
    <2> DEFINE f == cs[i]
    <2>1. f \in Calls /\ Call(f, d, n, m, u) /\ h[f.who] = d[f.who]
      BY <1>1 DEF Stacked
    <2> HIDE DEF f
    <2>2. f.who \in Ids
      BY <2>1 DEF Calls
    <2>3. Clear(f, h)
      <3>1. Clear(f, d)
        BY <2>1 DEF Call
      <3>2. ASSUME f.at # "route", Lasting, NEW j \in 1..f.k - 1, Events[j] # f.who,
                   ~h[Events[j]].through
            PROVE  h[Events[j]].x # f.to
        <4>1. f.k \in 1..Len(Events) + 1 /\ Len(Events) \in Nat
          BY <3>1, <3>2, EventsFacts DEF Clear
        <4>2. Events[j] \in Ids
          BY <4>1, EventsFacts
        <4> QED BY <1>2, <3>1, <3>2, <4>2 DEF Clear
      <3> QED BY <3>1, <3>2 DEF Clear
    <2>4. Call(f, h, o, m, u)
      BY <2>1, <2>2, <2>3 DEF Call
    <2> QED BY <2>4 DEF f
  <1>4. ASSUME NEW i \in 1..Len(cs) - 1 PROVE Linked(cs[i], cs[i + 1], h, m)
    <2>1. i + 1 \in 1..Len(cs)
      BY <1>1, Indices
    <2>2. cs[i + 1] \in Calls /\ Linked(cs[i], cs[i + 1], d, m)
      BY <1>1, <2>1 DEF Stacked
    <2>3. cs[i + 1].who \in Ids
      BY <2>2 DEF Calls
    <2> QED BY <1>2, <2>2, <2>3 DEF Linked
  <1> QED BY <1>3, <1>4 DEF Stacked

LEMMA UpdateKeeps ==
    ASSUME CharactersAssumption, RouteInv, NEW cs,
           Stacked(cs, ch, done, moved, disturbed), NEW e \in Ids,
           cs # <<>> => /\ Last(cs).at = "asked" /\ e = Events[Last(cs).k]
                        /\ ch[e].x = Last(cs).to,
           UpdateCharacter(e, cs), UNCHANGED <<routeSwitches, busy, moved, disturbed>>,
           routeTurn' \in 1..Len(Events) + 1
    PROVE  RouteInv' /\ Steady
  <1>1. /\ People(ch, disturbed) /\ ch \in [Ids -> Data] /\ ch[e] \in Data
        /\ done \in [Ids -> BOOLEAN] /\ moved \subseteq Ids /\ \A i \in moved : done[i]
        /\ busy \in BOOLEAN
    BY DEF RouteInv, Others, People
  <1>2. /\ InItsRoute(ch[e]) /\ ch[e].through = (ch[e].page = 0)
    BY <1>1 DEF People, Inside, Shown, InItsRoute
  <1>3. cs \in Seq(Calls) /\ \A i \in DOMAIN cs : cs[i] \in Calls /\ done[cs[i].who]
    BY DEF Stacked, Call
  <1>4. CASE calls' = cs /\ ch' = ch /\ done' = done
    <2>1. People(ch', disturbed') /\ Stacked(calls', ch', done', moved', disturbed')
      BY <1>1, <1>4
    <2>2. Others(done, moved, disturbed)' /\ Steady
      BY <1>4 DEF RouteInv, Others, Steady
    <2> QED BY <2>1, <2>2 DEF RouteInv
  <1>5. CASE ~done[e] /\ ch[e].page # 0 /\ done' = [done EXCEPT ![e] = TRUE]
    <2> DEFINE n == [done EXCEPT ![e] = TRUE]
    <2>1. n \in [Ids -> BOOLEAN] /\ n[e] /\ \A i \in Ids : done[i] => n[i]
      BY <1>1
    <2>2. done' = n
      BY <1>5
    <2> HIDE DEF n
    <2>3. Others(done, moved, disturbed)'
      BY <1>1, <2>1, <2>2 DEF RouteInv, Others
    <2>4. \A i \in DOMAIN cs : cs[i].who # e /\ cs[i].who \in Ids
      BY <1>3, <1>5 DEF Calls
    <2>5. CASE ch' = ch /\ calls' = Append(cs, Begun(e, ch[e], ch[e].route, TRUE))
      <3> DEFINE yes == TRUE
                 g == Begun(e, ch[e], ch[e].route, yes)
                 r == ch[e].route
                 s == ch[e].index
      <3>1. r \in Routes \cup {NoRoute} /\ s \in Nat /\ yes \in BOOLEAN /\ yes
        BY <1>1 DEF Data
      <3>2. g = [who |-> e, over |-> yes, route |-> r, start |-> s, at |-> "route",
                 n |-> 0, to |-> Nowhere, k |-> 1]
        BY DEF Begun, Place
      <3>3. calls' = Append(cs, g)
        BY <2>5
      <3> HIDE DEF g, r, s, yes
      <3>4. g \in Calls /\ g.who = e /\ g.over = yes /\ g.at = "route" /\ g.route = r
        BY <3>1, <3>2 DEF Calls
      <3>5. Follows(g, ch[e], e \in disturbed)
        BY <3>1, <3>4 DEF Follows, r
      <3>6. e \notin moved /\ (Lasting => ~ch[e].through)
        BY <1>1, <1>2, <1>5
      <3>7. Call(g, ch, n, moved, disturbed)
        BY <2>1, <3>4, <3>5, <3>6 DEF Call, AtCommand, Moves, Clear
      <3>8. Stacked(cs, ch, n, moved, disturbed)
        BY <2>1, StackedStill DEF Same
      <3>9. cs # <<>> => Linked(Last(cs), g, ch, moved)
        BY <3>4 DEF Linked
      <3>10. Stacked(Append(cs, g), ch, n, moved, disturbed)
        BY <2>4, <3>4, <3>7, <3>8, <3>9, IsCalled
      <3>11. People(ch', disturbed') /\ Stacked(calls', ch', done', moved', disturbed')
        BY <1>1, <2>2, <2>5, <3>3, <3>10
      <3>12. Steady
        BY <2>5 DEF Steady
      <3> QED BY <2>3, <3>11, <3>12 DEF RouteInv
    <2>6. CASE calls' = cs /\ ch' = [ch EXCEPT ![e] = Advance(@)]
      <3> DEFINE c == Advance(ch[e])
      <3>1. c \in Data /\ Same(c, ch[e]) /\ c.own = ch[e].own /\ c.index = ch[e].index /\ c.route = ch[e].route
        BY <1>1, AdvanceFacts
      <3> HIDE DEF c
      <3>2. ch' = [ch EXCEPT ![e] = c]
        BY <2>6 DEF c
      <3> DEFINE h == [ch EXCEPT ![e] = c]
      <3>3. Only(e, ch, h) /\ h[e] = c
        BY <1>1, <3>1 DEF Only
      <3>4. ch' = h
        BY <3>2
      <3> HIDE DEF h
      <3>5. InItsRoute(c)
        BY <1>2, <3>1 DEF InItsRoute
      <3>6. People(h, disturbed)
        BY <1>1, <3>1, <3>3, <3>5, PeopleKept
      <3>7. \A i \in Ids : Same(h[i], ch[i])
        BY <3>1, <3>3 DEF Only, Same
      <3>8. \A i \in DOMAIN cs : h[cs[i].who] = ch[cs[i].who]
        BY <2>4, <3>3 DEF Only
      <3>9. Stacked(cs, h, n, moved, disturbed)
        BY <2>1, <3>7, <3>8, StackedStill
      <3>10. People(ch', disturbed') /\ Stacked(calls', ch', done', moved', disturbed')
        BY <2>2, <2>6, <3>4, <3>6, <3>9
      <3>11. Steady
        BY <1>1, <3>4, <3>7 DEF Steady, Same
      <3> QED BY <2>3, <3>10, <3>11 DEF RouteInv
    <2> QED BY <1>5, <2>5, <2>6 DEF UpdateCharacter
  <1> QED BY <1>1, <1>4, <1>5 DEF UpdateCharacter

LEMMA AskKeeps ==
    ASSUME CharactersAssumption, RouteInv, Ask PROVE RouteInv' /\ Steady
  <1>1. Asking /\ UNCHANGED <<worldVars, moved, disturbed>>
    BY DEF Ask
  <1>2. PICK k \in DOMAIN Events :
           /\ NextAsked(k)
           /\ UpdateCharacter(Events[k], Become(calls, [Top EXCEPT !.at = "asked", !.k = k]))
    BY DEF Ask
  <1> DEFINE g == [Top EXCEPT !.at = "asked", !.k = k]
             cs == Become(calls, g)
  <1>3. k \in 1..Len(Events) /\ Len(Events) \in Nat /\ Events[k] \in Ids
    BY EventsFacts
  <1>4. /\ Me \in Ids /\ Me \notin moved /\ Running(ch, moved, disturbed)
        /\ Top \in Calls /\ Top.who = Me /\ Clear(Top, ch) /\ People(ch, disturbed)
        /\ Top.at = "asking"
    BY <1>1, AskFacts DEF Asking
  <1>5. Call(Top, ch, done, moved, disturbed)
    BY <1>1, RunsNow DEF Asking
  <1>6. /\ Top.k \in 1..Len(Events) + 1 /\ k \in Top.k..Len(Events) /\ InTheWay(k)
        /\ \A j \in Top.k..k - 1 : ~InTheWay(j)
    BY <1>2, <1>4 DEF NextAsked, Clear
  <1>7. /\ g \in Calls /\ g.who = Me /\ g.over = Top.over /\ g.route = Top.route
        /\ g.at = "asked" /\ g.n = Top.n /\ g.k = k /\ g.to = Top.to
    <2>1. k \in Nat
      BY <1>3
    <2> QED BY <1>4, <2>1 DEF Calls
  <1>8. UpdateCharacter(Events[k], cs)
    BY <1>2
  <1> HIDE DEF g
  <1>9. Clear(g, ch)
    <2>1. ASSUME Lasting, NEW j \in 1..g.k - 1, Events[j] # Me, ~ch[Events[j]].through
          PROVE  ch[Events[j]].x # g.to
      <3>1. CASE j \in 1..Top.k - 1
        BY <1>4, <1>7, <2>1, <3>1 DEF Clear
      <3>2. CASE j \in Top.k..k - 1
        BY <1>6, <1>7, <2>1, <3>2 DEF InTheWay
      <3>3. j \in 1..Top.k - 1 \/ j \in Top.k..k - 1
        BY <1>3, <1>6, <1>7
      <3> QED BY <3>1, <3>2, <3>3
    <2>2. g.k \in 1..Len(Events) + 1 /\ g.k <= Len(Events) /\ Events[g.k] # Me
      BY <1>3, <1>6, <1>7 DEF InTheWay
    <2> QED BY <1>7, <2>1, <2>2 DEF Clear
  <1>10. Call(g, ch, done, moved, disturbed)
    <2>1. AtCommand(g, ch[Me], Me \in disturbed)
      BY <1>4, <1>5, <1>7 DEF Call, AtCommand
    <2>2. Follows(g, ch[Me], Me \in disturbed)
      BY <1>4, <1>5, <1>7 DEF Call, Follows
    <2>3. done[Me] /\ (Lasting => ~ch[Me].through)
      BY <1>4 DEF Running
    <2> QED BY <1>4, <1>7, <1>9, <2>1, <2>2, <2>3 DEF Call, Moves
  <1>11. Stacked(cs, ch, done, moved, disturbed) /\ cs # <<>>
    BY <1>4, <1>7, <1>10, TopBecomes DEF Running, Me, Top
  <1>12. Last(cs) = g
    <2>1. calls \in Seq(Calls) /\ Len(calls) \in Nat \ {0}
      BY <1>4, TopFacts DEF Running, Below
    <2> QED BY <2>1 DEF Become, Last
  <1>13. ch[Events[k]].x = Top.to
    BY <1>6 DEF InTheWay
  <1>14. routeTurn' \in 1..Len(Events) + 1
    BY <1>1 DEF RouteInv, Others, worldVars
  <1> HIDE DEF cs
  <1> QED BY <1>1, <1>3, <1>7, <1>8, <1>11, <1>12, <1>13, <1>14, UpdateKeeps DEF worldVars

LEMMA NoCalls ==
    ASSUME NEW d, NEW n, NEW m, NEW u PROVE Stacked(<<>>, d, n, m, u)
  <1>1. <<>> \in Seq(Calls) /\ DOMAIN <<>> = {} /\ Len(<<>>) = 0
    OBVIOUS
  <1> QED BY <1>1 DEF Stacked

LEMMA TurnKeeps ==
    ASSUME CharactersAssumption, RouteInv, Turn PROVE RouteInv' /\ Steady
  <1>1. Stacked(calls, ch, done, moved, disturbed) /\ calls = <<>>
    BY DEF RouteInv, Turn
  <1>2. Len(Events) \in Nat /\ routeTurn \in 1..Len(Events) /\ Events[routeTurn] \in Ids
    BY EventsFacts DEF RouteInv, Others, Turn
  <1>3. routeTurn' \in 1..Len(Events) + 1
    BY <1>2 DEF Turn
  <1> QED BY <1>1, <1>2, <1>3, UpdateKeeps DEF Turn

LEMMA StartTurnsKeeps ==
    ASSUME CharactersAssumption, RouteInv, StartTurns PROVE RouteInv' /\ Steady
  <1>1. calls' = <<>> /\ Len(Events) \in Nat
    BY EventsFacts DEF StartTurns, Between
  <1>2. Stacked(calls', ch', done', moved', disturbed')
    BY <1>1, NoCalls
  <1>3. People(ch', disturbed')
    BY DEF RouteInv, StartTurns
  <1>4. Others(done, moved, disturbed)'
    <2>1. done' = [e \in Ids |-> FALSE] /\ moved' = {} /\ routeTurn' = 1
      BY DEF StartTurns
    <2>2. /\ routeSwitches' = routeSwitches /\ busy' = busy /\ disturbed' = disturbed
      BY DEF StartTurns
    <2>3. 1 \in 1..Len(Events) + 1
      BY <1>1
    <2> QED BY <2>1, <2>2, <2>3 DEF RouteInv, Others
  <1>5. Steady
    BY DEF StartTurns, Steady
  <1> QED BY <1>2, <1>3, <1>4, <1>5 DEF RouteInv

LEMMA ForceMoveRouteKeeps ==
    ASSUME CharactersAssumption, RouteInv, ForceMoveRoute PROVE RouteInv' /\ Steady
  <1>1. calls' = <<>> /\ UNCHANGED <<worldVars, done, moved, disturbed>>
    BY DEF ForceMoveRoute, Between
  <1>2. PICK e \in Ids, r \in Forced :
          LET c == [ch[e] EXCEPT !.stop = StopBound, !.index = 1, !.repeated = FALSE,
                                 !.over = TRUE, !.route = r]
          IN ch' = [ch EXCEPT ![e] = IF r.cmds = <<>> THEN CancelMoveRoute(c) ELSE c]
    BY DEF ForceMoveRoute
  <1> DEFINE c == [ch[e] EXCEPT !.stop = StopBound, !.index = 1, !.repeated = FALSE,
                                !.over = TRUE, !.route = r]
             b == IF r.cmds = <<>> THEN CancelMoveRoute(c) ELSE c
  <1>3. ch' = [ch EXCEPT ![e] = b]
    BY <1>2
  <1>4. People(ch, disturbed) /\ ch \in [Ids -> Data] /\ ch[e] \in Data
    BY DEF RouteInv, People
  <1>5. c \in Data /\ Same(c, ch[e]) /\ c.own = ch[e].own /\ c.index = 1 /\ c.route = r
    <2> DEFINE o == ch[e]
    <2>1. o \in Data
      BY <1>4
    <2>7. StopBound \in Nat
      BY DEF CharactersAssumption
    <2>2. StopBound \in 0..StopBound /\ 1 \in Nat \ {0}
      BY <2>7
    <2>8. r \in Routes \cup {NoRoute}
      BY DEF Routes
    <2> HIDE DEF o
    <2> DEFINE no == FALSE
               yes == TRUE
    <2>3. no \in BOOLEAN /\ yes \in BOOLEAN
      OBVIOUS
    <2> DEFINE q == [o EXCEPT !.stop = StopBound, !.index = 1, !.route = r]
    <2>4. c = [q EXCEPT !.repeated = no, !.over = yes]
      BY <1>4 DEF o, Data
    <2> HIDE DEF c, no, yes
    <2>5. q \in Data /\ Same(q, o) /\ q.own = o.own /\ q.index = 1 /\ q.route = r
      BY <2>1, <2>2, <2>8 DEF Data, Same
    <2> HIDE DEF q
    <2>6. c \in Data /\ Same(c, q) /\ c.own = q.own /\ c.index = q.index /\ c.route = q.route
      BY <2>3, <2>4, <2>5 DEF Data, Same
    <2> QED BY <2>5, <2>6 DEF Same, o
  <1> HIDE DEF c
  <1>6. /\ b \in Data /\ Same(b, ch[e]) /\ b.own = ch[e].own /\ b.index = 1 /\ b.route = r
    BY <1>5, CancelFacts DEF Same
  <1> HIDE DEF b
  <1>7. InItsRoute(b)
    <2>1. Len(r.cmds) \in Nat
      BY RouteFacts DEF Routes
    <2> QED BY <1>6, <2>1 DEF InItsRoute
  <1>8. Only(e, ch, ch') /\ ch'[e] = b
    BY <1>3, <1>4, <1>6 DEF Only
  <1>9. People(ch', disturbed)
    BY <1>4, <1>6, <1>7, <1>8, PeopleKept
  <1>10. \A i \in Ids : ch'[i].x = ch[i].x
    BY <1>6, <1>8 DEF Only, Same
  <1>11. Kept(ch, moved, disturbed)
    BY <1>1, <1>9, <1>10, NoCalls DEF Kept
  <1> QED BY <1>1, <1>11, Keeps DEF Unmoved

LEMMA HaltAllMovementKeeps ==
    ASSUME CharactersAssumption, RouteInv, HaltAllMovement PROVE RouteInv' /\ Steady
  <1>1. /\ calls' = <<>> /\ UNCHANGED <<worldVars, done, moved, disturbed>>
        /\ ch' = [e \in Ids |-> CancelMoveRoute(ch[e])]
    BY DEF HaltAllMovement, Between
  <1>2. People(ch, disturbed) /\ ch \in [Ids -> Data]
    BY DEF RouteInv, People
  <1>3. ASSUME NEW e \in Ids
        PROVE  /\ ch'[e] \in Data /\ ch'[e].x = ch[e].x
               /\ (Lasting => ch'[e].through = ch[e].through)
               /\ InItsRoute(ch'[e]) /\ InOwnRoute(e, ch'[e], disturbed)
               /\ ch'[e].page \in {0} \cup PagesOf(e) /\ ch'[e].through = (ch'[e].page = 0)
               /\ Lasting => (ch'[e].page = 0 <=> PagesOf(e) = {})
    <2> DEFINE c == CancelMoveRoute(ch[e])
    <2>1. ch'[e] = c
      BY <1>1
    <2>2. /\ c \in Data /\ c.x = ch[e].x /\ c.through = ch[e].through /\ c.page = ch[e].page
          /\ c.own = ch[e].own /\ c.index = ch[e].index /\ c.route = ch[e].route
      BY <1>2, CancelFacts DEF Same
    <2> HIDE DEF c
    <2>3. /\ InItsRoute(ch[e]) /\ InOwnRoute(e, ch[e], disturbed)
          /\ ch[e].page \in {0} \cup PagesOf(e) /\ ch[e].through = (ch[e].page = 0)
          /\ Lasting => (ch[e].page = 0 <=> PagesOf(e) = {})
      BY <1>2 DEF People, Inside, Shown, InItsRoute, InOwnRoute
    <2>4. InItsRoute(c) /\ InOwnRoute(e, c, disturbed)
      BY <2>2, <2>3 DEF InItsRoute, InOwnRoute, OwnRoute
    <2> QED BY <2>1, <2>2, <2>3, <2>4
  <1>4. ch' \in [Ids -> Data]
    <2>1. \A e \in Ids : ch'[e] \in Data
      BY <1>3
    <2>2. ch' = [e \in Ids |-> ch'[e]]
      BY <1>1
    <2> HIDE <1>1, <1>3
    <2> QED BY <2>1, <2>2
  <1>5. People(ch', disturbed)
    <2>1. \A e \in Ids : Remains(e, ch[e], ch'[e], disturbed)
      BY <1>3 DEF Remains
    <2> QED BY <1>2, <1>4, <2>1, PeopleAfter
  <1>6. Kept(ch, moved, disturbed)
    BY <1>1, <1>3, <1>5, NoCalls DEF Kept
  <1> QED BY <1>1, <1>6, Keeps DEF Unmoved

LEMMA SwitchesTurnKeeps ==
    ASSUME CharactersAssumption, RouteInv, SwitchesTurn PROVE RouteInv' /\ Steady
  <1>1. /\ calls' = <<>> /\ UNCHANGED <<routeTurn, done, moved, disturbed>> /\ busy' \in BOOLEAN
        /\ ch' = [e \in Ids |-> Refreshed(e, ch[e], routeSwitches')]
    BY DEF SwitchesTurn, Between
  <1>2. People(ch, disturbed) /\ ch \in [Ids -> Data]
    BY DEF RouteInv, People
  <1>3. ASSUME NEW e \in Ids
        PROVE  /\ ch'[e] \in Data /\ ch'[e].x = ch[e].x
               /\ (Lasting => ch'[e].through = ch[e].through)
               /\ InItsRoute(ch'[e]) /\ InOwnRoute(e, ch'[e], disturbed)
               /\ ch'[e].page \in {0} \cup PagesOf(e) /\ ch'[e].through = (ch'[e].page = 0)
               /\ Lasting => (ch'[e].page = 0 <=> PagesOf(e) = {})
    <2> DEFINE z == ch[e]
               c == Refreshed(e, z, routeSwitches')
    <2>1. ch'[e] = c
      BY <1>1
    <2>2. /\ z \in Data /\ InItsRoute(z) /\ InOwnRoute(e, z, disturbed)
          /\ z.page \in {0} \cup PagesOf(e) /\ z.through = (z.page = 0)
          /\ Lasting => (z.page = 0 <=> PagesOf(e) = {})
      BY <1>2 DEF People, Inside, Shown, InItsRoute, InOwnRoute
    <2>3. c = Refreshed(e, z, routeSwitches')
      OBVIOUS
    <2> HIDE DEF z, c
    <2>4. /\ c \in Data /\ c.x = z.x /\ c.index = z.index /\ c.route = z.route
          /\ c.page \in {0} \cup PagesOf(e) /\ c.through = (c.page = 0)
          /\ Lasting => c.through = z.through /\ (c.page = 0 <=> PagesOf(e) = {})
          /\ InOwnRoute(e, c, disturbed)
      BY <2>2, <2>3, RefreshedFacts
    <2>5. InItsRoute(c)
      BY <2>2, <2>4 DEF InItsRoute
    <2> QED BY <2>1, <2>4, <2>5 DEF z
  <1>4. ch' \in [Ids -> Data]
    <2>1. \A e \in Ids : ch'[e] \in Data
      BY <1>3
    <2>2. ch' = [e \in Ids |-> ch'[e]]
      BY <1>1
    <2> HIDE <1>1, <1>3
    <2> QED BY <2>1, <2>2
  <1>5. People(ch', disturbed)
    <2>1. \A e \in Ids : Remains(e, ch[e], ch'[e], disturbed)
      BY <1>3 DEF Remains
    <2> QED BY <1>2, <1>4, <2>1, PeopleAfter
  <1>6. routeSwitches' \in [RouteSwitches -> BOOLEAN]
    BY DEF SwitchesTurn, RouteInv, Others
  <1>7. Others(done, moved, disturbed)'
    BY <1>1, <1>6 DEF RouteInv, Others
  <1>8. moved \subseteq Ids
    BY DEF RouteInv, Others
  <1>9. Steady
    BY <1>3, <1>8 DEF Steady
  <1>10. Stacked(calls', ch', done', moved', disturbed')
    BY <1>1, NoCalls
  <1> QED BY <1>1, <1>5, <1>7, <1>9, <1>10 DEF RouteInv

LEMMA RoutesInitKeeps == ASSUME CharactersAssumption, RoutesInit PROVE RouteInv
  <1>1. /\ Standing \in [Ids -> Spots] /\ IsInjective(Standing)
        /\ Tile \in Nat \ {0} /\ StopBound \in Nat
    BY DEF CharactersAssumption
  <1>2. ASSUME NEW e \in Ids
        PROVE  /\ ch[e] \in Data /\ ch[e].x = Standing[e] /\ InItsRoute(ch[e])
               /\ InOwnRoute(e, ch[e], disturbed)
               /\ ch[e].page \in {0} \cup PagesOf(e) /\ ch[e].through = (ch[e].page = 0)
               /\ Lasting => (ch[e].page = 0 <=> PagesOf(e) = {})
    <2> DEFINE shows == PageFor(e, routeSwitches)
               gone == PageFor(e, routeSwitches) = 0
               no == FALSE
               c == ch[e]
    <2>1. /\ shows \in {0} \cup PagesOf(e) /\ shows \in Nat /\ (Lasting => (shows = 0 <=> PagesOf(e) = {}))
      BY PageFacts
    <2>2. ch[e] = Placed(e, routeSwitches)
      BY DEF RoutesInit
    <2>3. c = [x |-> Standing[e], rem |-> 0, jumping |-> no, stop |-> 0, max |-> 0,
               page |-> shows, through |-> gone, own |-> 1,
               route |-> NoRoute, index |-> 1, over |-> no, repeated |-> no]
      BY <2>2 DEF Placed
    <2>4. gone \in BOOLEAN /\ no \in BOOLEAN /\ gone = (shows = 0)
      OBVIOUS
    <2>5. Standing[e] \in Spots /\ 0 \in -Tile..Tile /\ 0 \in 0..StopBound
      BY <1>1
    <2> HIDE DEF shows, gone, no, c
    <2>6. /\ c.x = Standing[e] /\ c.page = shows /\ c.through = gone /\ c.own = 1
          /\ c.route = NoRoute /\ c.index = 1
      BY <2>3
    <2>7. c \in Data
      BY <2>1, <2>3, <2>4, <2>5 DEF Data
    <2>8. OwnRoute(e, c) \in Routes \cup {NoRoute}
      BY <2>1, <2>6, OwnRouteIsOne
    <2>9. Len(OwnRoute(e, c).cmds) \in Nat
      BY <2>8, RouteFacts
    <2> HIDE <2>3
    <2>10. InOwnRoute(e, c, disturbed)
      <3>1. 1 \in 1..Len(OwnRoute(e, c).cmds) + 1
        BY <2>9
      <3> QED BY <2>6, <3>1 DEF InOwnRoute
    <2>11. InItsRoute(c)
      BY <2>6 DEF InItsRoute, NoRoute
    <2> QED BY <2>1, <2>4, <2>6, <2>7, <2>10, <2>11 DEF c
  <1>3. ch \in [Ids -> Data]
    <2>1. \A e \in Ids : ch[e] \in Data
      BY <1>2
    <2>2. ch = [e \in Ids |-> ch[e]]
      BY DEF RoutesInit
    <2> QED BY <2>1, <2>2
  <1>4. Alone(ch)
    BY <1>1, <1>2 DEF Alone, IsInjective
  <1>5. Inside(ch, disturbed)
    BY <1>2 DEF Inside, InItsRoute, InOwnRoute
  <1>6. Shown(ch)
    BY <1>2 DEF Shown
  <1>7. Stacked(calls, ch, done, moved, disturbed)
    BY NoCalls DEF RoutesInit
  <1>8. Others(done, moved, disturbed)
    <2>1. Len(Events) \in Nat
      BY EventsFacts
    <2>2. Len(Events) + 1 \in 1..Len(Events) + 1
      BY <2>1
    <2> QED BY <2>2 DEF RoutesInit, Others
  <1> QED BY <1>3, <1>4, <1>5, <1>6, <1>7, <1>8 DEF RouteInv, People

LEMMA RoutesNextKeeps ==
    ASSUME CharactersAssumption, RouteInv, [RoutesNext]_routeVars
    PROVE  RouteInv' /\ Steady
  <1>1. CASE RouteStep
    BY <1>1, LeaveRouteKeeps, FinishRouteKeeps, WaitCommandKeeps, SwitchCommandKeeps,
       MoveCommandKeeps, JumpCommandKeeps, LandKeeps, EdgeKeeps, AskKeeps, AnsweredKeeps
       DEF RouteStep
  <1>2. CASE RouteFrame
    BY <1>1, <1>2, StartTurnsKeeps, TurnKeeps DEF RouteFrame
  <1>3. CASE UNCHANGED routeVars
    BY <1>3 DEF routeVars, worldVars, RouteInv, Others, Steady
  <1> QED
    BY <1>2, <1>3, ForceMoveRouteKeeps, HaltAllMovementKeeps, SwitchesTurnKeeps DEF RoutesNext

LEMMA RouteInvHolds == CharactersAssumption => (RoutesSpec => []RouteInv)
  <1> SUFFICES ASSUME CharactersAssumption PROVE RoutesSpec => []RouteInv
    OBVIOUS
  <1>1. RoutesInit => RouteInv
    BY RoutesInitKeeps
  <1>2. RouteInv /\ [RoutesNext]_routeVars => RouteInv'
    BY RoutesNextKeeps
  <1> QED BY <1>1, <1>2, PTL DEF RoutesSpec

LEMMA RouteInvMeans == ASSUME RouteInv PROVE CharactersInv
  <1>1. CharactersTypeOK
    BY DEF RouteInv, Others, People, Shown, Stacked, CharactersTypeOK
  <1>2. NoOverlap
    BY DEF RouteInv, People, Alone, NoOverlap
  <1>3. IndexInRoute
    BY DEF RouteInv, People, Inside, IndexInRoute
  <1> QED BY <1>1, <1>2, <1>3 DEF CharactersInv

\* Events that push each other and turn each other's pages over never stand on one tile, and
\* keep their places in their routes, however deep they ask each other (Game_Map::MakeWay).
THEOREM CharactersDoNotCollide == CharactersAssumption => (RoutesSpec => []CharactersInv)
  <1> SUFFICES ASSUME CharactersAssumption PROVE RoutesSpec => []CharactersInv
    OBVIOUS
  <1>1. RoutesSpec => []RouteInv
    BY RouteInvHolds
  <1>2. RouteInv => CharactersInv
    BY RouteInvMeans
  <1> QED BY <1>1, <1>2, PTL

\* However many ask for a tile, whoever stands on it moves at most once in a frame
\* (Game_Character::Update, IsProcessed).
THEOREM NobodyMovesTwice == CharactersAssumption => (RoutesSpec => OneStepPerFrame)
  <1> SUFFICES ASSUME CharactersAssumption PROVE RoutesSpec => OneStepPerFrame
    OBVIOUS
  <1>1. RoutesSpec => []RouteInv
    BY RouteInvHolds
  <1>2. RouteInv /\ [RoutesNext]_routeVars => [\A e \in moved : ch'[e].x = ch[e].x]_routeVars
    BY RoutesNextKeeps DEF Steady
  <1> QED BY <1>1, <1>2, PTL DEF RoutesSpec, OneStepPerFrame

-----------------------------------------------------------------------------
(* Events.                                                                 *)

\* Frames as they are on a stack, whatever indices and arms they remember.
Callers == Range(MapEvents) \cup {NoEvent}
Histories == UNION {[DOMAIN Code[l] -> Int] : l \in DOMAIN Code}
Frames == [list : DOMAIN Code, pc : Nat, event : Callers, path : [Indents -> Int], took : Histories]

\* What the index at the level of an option ahead may be: none, or what was decided for it;
\* a question that is open is not decided.
Indexed(f, open) ==
    \A j \in OptionsAhead(f.list, f.pc) :
        LET i == DecidedAt(f.list, j) IN
        \/ open /\ i = f.pc - 1
        \/ f.path[Code[f.list][j].indent] \in {Sentinel, f.took[i]}

\* A frame that executes only what was chosen, and will.
SoundFrame(f, open) == IsFrame(f) /\ InChosenArms(f) /\ Indexed(f, open)

Windows == [at : {"none", "text", "choice", "started", "closing", "finished"},
            by : Interpreters, indent : Int, asked : Seq(DOMAIN Code \cup Nat)]
Runners == [stack : Seq(Frames), wait : Nat, showMessage : BOOLEAN]

\* The types of pages, interpreters and the message window.
CoreTyped ==
    /\ switches \in [Switches -> BOOLEAN]
    /\ page \in [Parallel -> Nat] /\ \A e \in Parallel : page[e] \in 0..Len(Pages[e])
    /\ active \in [Parallel -> BOOLEAN] /\ waiting \in [Parallel -> BOOLEAN]
    /\ paused \in [Parallel -> BOOLEAN]
    /\ interp \in [Interpreters -> Runners]
    /\ \A i \in Interpreters : Len(interp[i].stack) <= CallStackLimit + 1
    /\ window \in Windows

\* The types of what a frame of the map goes through.
FlowTyped ==
    /\ needRefresh \in BOOLEAN /\ requested \in BOOLEAN /\ aborted \in BOOLEAN
    /\ doing \in Phases /\ turn \in 1..Len(Order) + 1 /\ loops \in 0..LoopLimit
    /\ async \in {"none", "screen"} \cup Switches
    /\ updated \subseteq Parallel

\* Every frame is sound; the one on top of the interpreter that asks is at an open question.
FramesSound ==
    \A i \in Interpreters : \A k \in DOMAIN interp[i].stack :
        SoundFrame(interp[i].stack[k], Asks(i) /\ k = Len(interp[i].stack))

\* A question is the command before the frame on top, whose interpreter waits.
QuestionOpen ==
    window.at = "choice" =>
        LET s == interp[window.by].stack
            l == window.asked[1]
            i == window.asked[2]
        IN /\ s # <<>> /\ l = Last(s).list /\ i = Last(s).pc - 1
           /\ window.asked = <<l, i>>
           /\ i \in DOMAIN Code[l] /\ Code[l][i].code = "ShowChoice"
           /\ Code[l][i].indent = window.indent
           /\ window.by # Foreground => interp[window.by].showMessage

\* Where no common event starts by itself, an event that stands still waits for its commands, or they
\* are the first in the foreground, and so will release it.
ReleasedByFrame ==
    (\A q \in CommonPages : q.trigger # "auto") =>
        \A e \in Range(MapEvents) : active[e] /\ paused[e] =>
            \/ waiting[e]
            \/ interp[Foreground].stack # <<>> /\ interp[Foreground].stack[1].event = e

\* A common event has one page; who waits for the foreground has one open.
PagesOpen ==
    /\ \A e \in Range(CommonEvents) : page[e] = 1
    /\ \A e \in Parallel : waiting[e] => page[e] # 0

\* Only events before the one whose turn it is have had theirs.
TurnsInOrder ==
    /\ doing # "idle" => \A e \in updated : \E n \in 1 .. turn - 1 : n <= Len(Order) /\ Order[n] = e
    /\ doing \in {"message", "foreground"} => turn = Len(Order) + 1

\* What is suspended is on top of the interpreter whose turn it is.
SuspendedOnTop ==
    /\ async # "none" => doing \in {"loop", "left", "suspended", "resuming"} /\ Stack # <<>>
    /\ doing \in {"suspended", "resuming"} => async # "none" /\ stopped = <<Last(Stack)>>

\* What pages, interpreters and the window have to do with each other.
Core ==
    /\ CoreTyped /\ FramesSound
    /\ ParallelNeverEnds /\ BackgroundIsOpenPage /\ QuestionOpen /\ ReleasedByFrame
    /\ PagesOpen

\* Where the frame is.
Flow == FlowTyped /\ TurnsInOrder /\ SuspendedOnTop

\* The inductive invariant.
EventsIInv == Core /\ Flow

-----------------------------------------------------------------------------
(* Lists of commands and the arms in them.                                 *)

\* A set of numbers up to n has a greatest element.
LEMMA GreatestOf ==
    ASSUME NEW n \in Nat, NEW T \in SUBSET (1..n), T # {}
    PROVE  Max(T) \in T /\ \A m \in T : m <= Max(T)
  <1> DEFINE U == {n - t : t \in T}
  <1>1. U \in SUBSET Nat /\ U # {}
    <2>1. \A t \in T : n - t \in Nat
      OBVIOUS
    <2> QED BY <2>1
  <1>2. PICK x \in U : \A y \in U : x <= y
    <2> HIDE DEF U
    <2> QED BY <1>1, LeastNumber
  <1>3. PICK t \in T : x = n - t
    BY <1>2
  <1>4. \A m \in T : t >= m
    BY <1>2, <1>3
  <1>5. \A m \in T : Max(T) >= m
    BY <1>4 DEF Max
  <1>6. Max(T) \in T
    BY <1>4 DEF Max
  <1> QED BY <1>5, <1>6

\* A set of positions has a least element.
LEMMA LeastOf ==
    ASSUME NEW T \in SUBSET Nat, T # {}
    PROVE  Min(T) \in T /\ \A m \in T : Min(T) <= m
  <1>1. PICK x \in T : \A y \in T : x <= y
    BY LeastNumber
  <1>2. \A m \in T : Min(T) <= m
    BY <1>1 DEF Min
  <1> QED BY <1>1, <1>2 DEF Min

-----------------------------------------------------------------------------
(* Lists of commands. *)

LEMMA ListFacts ==
    ASSUME InterpreterAssumption, NEW l \in DOMAIN Code
    PROVE  /\ Len(Code[l]) \in Nat /\ DOMAIN Code[l] = 1..Len(Code[l])
           /\ \A i \in 1..Len(Code[l]) : Code[l][i].indent \in Indents /\ Code[l][i].indent \in Nat
  <1>1. Code[l] \in Seq(Range(Code[l])) /\ MaxIndent \in Nat
    BY DEF InterpreterAssumption
  <1>2. DOMAIN Code[l] = 1..Len(Code[l]) /\ Len(Code[l]) \in Nat
    BY <1>1, LenProperties
  <1>3. \A i \in 1..Len(Code[l]) : Code[l][i].indent \in Indents
    BY <1>2 DEF InterpreterAssumption
  <1> QED BY <1>1, <1>2, <1>3 DEF Indents

\* An option is decided by a command before it, at its level.
LEMMA DecidedBefore ==
    ASSUME InterpreterAssumption, NEW l \in DOMAIN Code, NEW j \in 1..Len(Code[l]),
           Code[l][j].code \in Options
    PROVE  LET d == DecidedAt(l, j) IN
           /\ d \in 1..j - 1 /\ Code[l][d].indent = Code[l][j].indent
           /\ Code[l][d].code \in Decisions
           /\ \A k \in 1..j - 1 :
                 Code[l][k].indent = Code[l][j].indent /\ Code[l][k].code \in Decisions => k <= d
           /\ \A k \in d..j : Code[l][k].indent >= Code[l][j].indent
           /\ Arm(l, j) # Sentinel
  <1> DEFINE T == DecisionsFor(l, j)
  <1>1. WellFormedOption(l, j)
    BY ListFacts DEF InterpreterAssumption
  <1>2. DecidedAt(l, j) = Max(T)
    BY DEF DecidedAt, Options
  <1>3. T \in SUBSET (1..j - 1) /\ j - 1 \in Nat /\ T # {}
    BY <1>1, ListFacts DEF DecisionsFor, WellFormedOption
  <1>4. Max(T) \in T /\ \A m \in T : m <= Max(T)
    <2> HIDE DEF T
    <2> QED BY <1>3, GreatestOf
  <1> QED
    BY <1>1, <1>2, <1>3, <1>4 DEF WellFormedOption, DecisionsFor

\* A head above a command is before it, and decided no later than itself.
LEMMA AboveFacts ==
    ASSUME InterpreterAssumption, NEW l \in DOMAIN Code, NEW i \in 1..Len(Code[l]),
           NEW j \in Above(l, i)
    PROVE  /\ j \in 1..i - 1 /\ j \in 1..Len(Code[l]) /\ Code[l][j].code \in Heads
           /\ DecidedAt(l, j) \in 1..j
           /\ Code[l][DecidedAt(l, j)].code \in Decisions
           /\ Code[l][j].code # "ConditionalBranch" => DecidedAt(l, j) < j
  <1>1. j \in 1..i - 1 /\ j \in 1..Len(Code[l]) /\ Code[l][j].code \in Heads
    BY ListFacts DEF Above
  <1>2. CASE Code[l][j].code \in Options
    BY <1>1, <1>2, DecidedBefore
  <1>3. CASE Code[l][j].code = "ConditionalBranch"
    BY <1>1, <1>3 DEF DecidedAt, Decisions
  <1> QED BY <1>1, <1>2, <1>3 DEF Heads

\* An option ahead was decided before this place.
LEMMA AheadFacts ==
    ASSUME InterpreterAssumption, NEW l \in DOMAIN Code, NEW i \in 1..Len(Code[l]) + 1,
           NEW j \in OptionsAhead(l, i)
    PROVE  /\ j \in 1..Len(Code[l]) /\ j >= i /\ Code[l][j].code \in Options
           /\ DecidedAt(l, j) \in 1..i - 1 /\ DecidedAt(l, j) < j
           /\ Code[l][DecidedAt(l, j)].code \in Decisions
           /\ Code[l][DecidedAt(l, j)].indent = Code[l][j].indent
           /\ Code[l][j].indent \in Indents
           /\ i <= Len(Code[l])
  <1>1. j \in 1..Len(Code[l]) /\ j >= i /\ Code[l][j].code \in Options /\ DecidedAt(l, j) < i
    BY ListFacts DEF OptionsAhead
  <1> QED BY <1>1, DecidedBefore, ListFacts

\* The next command is in the arms of this one, or in the arm this one opens.
LEMMA NextInside ==
    ASSUME InterpreterAssumption, NEW l \in DOMAIN Code, NEW i \in 1..Len(Code[l])
    PROVE  /\ i + 1 <= Len(Code[l]) =>
                 \A j \in Above(l, i + 1) : j \in Above(l, i) \/ (j = i /\ Code[l][i].code \in Heads)
           /\ \A j \in OptionsAhead(l, i + 1) : j \in OptionsAhead(l, i) \/ DecidedAt(l, j) = i
  <1>1. ASSUME i + 1 <= Len(Code[l]), NEW j \in Above(l, i + 1), j # i
        PROVE  j \in Above(l, i)
    BY <1>1, ListFacts DEF Above
  <1>2. ASSUME NEW j \in OptionsAhead(l, i + 1), DecidedAt(l, j) # i
        PROVE  j \in OptionsAhead(l, i)
    <2>1. i + 1 \in 1..Len(Code[l]) + 1
      BY ListFacts
    <2>2. DecidedAt(l, j) \in 1..i /\ j >= i + 1
      BY <2>1, <1>2, AheadFacts
    <2> QED BY <2>1, <2>2, <1>2, AheadFacts DEF OptionsAhead
  <1>3. \A j \in Above(l, i + 1) : Code[l][j].code \in Heads
    BY DEF Above
  <1> QED BY <1>1, <1>2, <1>3

\* From the head of an arm to what follows the arm: further in than the head all the way.
LEMMA ArmEnds ==
    ASSUME InterpreterAssumption, NEW f \in Frames, IsFrame(f), ~Finished(f),
           CommandAt(f).code \in Heads,
           NEW t, t = SkipToNextConditional(f, Closing(CommandAt(f).code), CommandAt(f).indent)
    PROVE  LET l == f.list
               i == f.pc
           IN /\ t \in i + 1..Len(Code[l]) + 1
              /\ \A m \in i + 1..t - 1 : Code[l][m].indent > Code[l][i].indent
              /\ t <= Len(Code[l]) => Code[l][t].indent <= Code[l][i].indent
  <1> DEFINE l == f.list
             i == f.pc
             N == {k \in i + 1..Len(Code[l]) : Code[l][k].indent <= Code[l][i].indent}
             S == {k \in N : Code[l][k].code \in Closing(Code[l][i].code)}
  <1>1. l \in DOMAIN Code /\ i \in 1..Len(Code[l])
    BY ListFacts DEF IsFrame, Finished
  <1>2. t = IF S = {} THEN Len(Code[l]) + 1 ELSE Min(S)
    BY DEF SkipToNextConditional, First, CommandAt
  <1>3. WellFormedHead(l, i)
    BY <1>1, ListFacts DEF InterpreterAssumption, CommandAt
  <1>0. Len(Code[l]) \in Nat /\ \A m \in 1..Len(Code[l]) : Code[l][m].indent \in Nat
    BY <1>1, ListFacts
  <1>4. CASE N = {}
    <2>1. t = Len(Code[l]) + 1
      BY <1>2, <1>4
    <2>2. \A m \in i + 1..Len(Code[l]) : Code[l][m].indent > Code[l][i].indent
      BY <1>0, <1>1, <1>4
    <2> QED BY <2>1, <2>2, <1>0, <1>1
  <1>5. CASE N # {}
    <2>1. N \in SUBSET Nat
      BY <1>1
    <2>2. Min(N) \in N /\ \A m \in N : Min(N) <= m
      <3> HIDE DEF N
      <3> QED BY <1>5, <2>1, LeastOf
    <2> DEFINE n == Min(N)
    <2>3. n \in N /\ \A m \in N : n <= m
      BY <2>2
    <2> HIDE DEF n
    <2>4. \A m \in i + 1..n - 1 : Code[l][m].indent > Code[l][i].indent
      <3>1. ASSUME NEW m \in i + 1..n - 1, ~(Code[l][m].indent > Code[l][i].indent) PROVE FALSE
        <4>1. m \in 1..Len(Code[l]) /\ m \in i + 1..Len(Code[l]) /\ m < n
          BY <1>0, <1>1, <2>3
        <4>2. m \in N
          BY <1>0, <1>1, <3>1, <4>1
        <4> QED BY <2>3, <4>1, <4>2, <2>1
      <3> QED BY <3>1
    <2>5. n \in S
      BY <1>3, <2>3, <2>4, <1>1 DEF WellFormedHead
    <2>6. S \in SUBSET Nat /\ S # {} /\ S \subseteq N
      BY <2>1, <2>5
    <2>7. Min(S) \in S /\ \A m \in S : Min(S) <= m
      <3> HIDE DEF S
      <3> QED BY <2>6, LeastOf
    <2>8. t = n
      <3>1. t = Min(S)
        BY <2>6, <1>2
      <3>2. Min(S) <= n /\ Min(S) \in Nat
        BY <2>5, <2>6, <2>7
      <3>3. n <= Min(S) /\ n \in Nat
        BY <2>3, <2>6, <2>7, <2>1
      <3> HIDE DEF S, N
      <3> QED BY <3>1, <3>2, <3>3
    <2> QED BY <2>3, <2>4, <2>8, <1>1, <1>0
  <1> QED BY <1>4, <1>5

\* Skipping what is further in enters no arm, and leaves no options ahead but its own.
LEMMA SkipInside ==
    ASSUME InterpreterAssumption, NEW l \in DOMAIN Code, NEW i \in 1..Len(Code[l]),
           NEW t \in i + 1..Len(Code[l]) + 1,
           \A m \in i + 1..t - 1 : Code[l][m].indent > Code[l][i].indent,
           t <= Len(Code[l]) => Code[l][t].indent <= Code[l][i].indent
    PROVE  /\ t <= Len(Code[l]) => Above(l, t) \subseteq Above(l, i)
           /\ \A j \in OptionsAhead(l, t) : j \in OptionsAhead(l, i) \/ DecidedAt(l, j) = i
  <1>1. ASSUME t <= Len(Code[l]), NEW j \in Above(l, t)
        PROVE  j \in Above(l, i)
    <2>1. /\ j \in 1..t - 1 /\ Code[l][j].code \in Heads
          /\ Code[l][j].indent < Code[l][t].indent
          /\ \A k \in j + 1..t : Code[l][k].indent > Code[l][j].indent
      BY <1>1 DEF Above
    <2>2. t \in Nat /\ i \in Nat /\ Code[l][j].indent \in Nat /\ Code[l][t].indent \in Nat /\ Code[l][i].indent \in Nat
      BY <1>1, <2>1, ListFacts
    <2>3. Code[l][t].indent <= Code[l][i].indent
      BY <1>1
    <2>4. j # i
      BY <2>1, <2>2, <2>3
    <2>5. ~(j \in i + 1..t - 1)
      <3>1. j \in i + 1..t - 1 => Code[l][j].indent > Code[l][i].indent
        OBVIOUS
      <3> QED BY <2>1, <2>2, <2>3, <3>1
    <2>6. j \in 1..i - 1
      BY <2>1, <2>2, <2>4, <2>5
    <2>7. i \in j + 1..t /\ \A k \in j + 1..i : k \in j + 1..t
      BY <2>1, <2>2, <2>6
    <2> QED BY <2>1, <2>6, <2>7 DEF Above
  <1>2. ASSUME NEW j \in OptionsAhead(l, t), DecidedAt(l, j) # i
        PROVE  j \in OptionsAhead(l, i)
    <2> DEFINE d == DecidedAt(l, j)
    <2>1. t \in 1..Len(Code[l]) + 1 /\ t \in Nat /\ Len(Code[l]) \in Nat
      BY ListFacts
    <2>2. j \in 1..Len(Code[l]) /\ j >= t /\ Code[l][j].code \in Options /\ d \in 1..t - 1
          /\ Code[l][d].indent = Code[l][j].indent /\ t <= Len(Code[l])
      BY <2>1, AheadFacts
    <2>3. \A k \in d..j : Code[l][k].indent >= Code[l][j].indent
      BY <2>2, DecidedBefore
    <2>4. Code[l][j].indent \in Nat /\ Code[l][t].indent \in Nat /\ Code[l][i].indent \in Nat
      BY <2>2, <2>1, ListFacts
    <2> HIDE DEF d
    <2>5. t \in d..j
      BY <2>1, <2>2
    <2>6. Code[l][t].indent >= Code[l][j].indent
      BY <2>3, <2>5
    <2>7. ~(d \in i + 1..t - 1)
      BY <2>1, <2>2, <2>4, <2>6
    <2>8. d < i
      BY <1>2, <2>1, <2>2, <2>7 DEF d
    <2> QED BY <2>1, <2>2, <2>8 DEF OptionsAhead, d
  <1> QED BY <1>1, <1>2

-----------------------------------------------------------------------------
(* Frames. *)

LEMMA FrameFacts ==
    ASSUME InterpreterAssumption, NEW f \in Frames, IsFrame(f)
    PROVE  /\ f.list \in DOMAIN Code /\ f.pc \in 1..Len(Code[f.list]) + 1
           /\ Len(Code[f.list]) \in Nat
           /\ f.path \in [Indents -> Int] /\ f.took \in [1..Len(Code[f.list]) -> Int]
           /\ ~Finished(f) => /\ f.pc \in 1..Len(Code[f.list])
                              /\ CommandAt(f) = Code[f.list][f.pc]
                              /\ CommandAt(f).indent \in Indents
  <1>1. f.list \in DOMAIN Code /\ f.pc \in 1..Len(Code[f.list]) + 1 /\ f.path \in [Indents -> Int]
    BY DEF Frames, IsFrame
  <1>2. Len(Code[f.list]) \in Nat /\ DOMAIN Code[f.list] = 1..Len(Code[f.list])
    BY <1>1, ListFacts
  <1>3. f.took \in Histories /\ DOMAIN f.took = 1..Len(Code[f.list])
    BY <1>1, <1>2 DEF Frames, IsFrame
  <1>4. f.took \in [1..Len(Code[f.list]) -> Int]
    BY <1>3 DEF Histories
  <1>5. ~Finished(f) => f.pc \in 1..Len(Code[f.list])
    BY <1>1, <1>2 DEF Finished
  <1> QED BY <1>1, <1>2, <1>4, <1>5, ListFacts DEF CommandAt

LEMMA RecordOf ==
    ASSUME NEW A, NEW B, NEW C, NEW D, NEW H,
           NEW f \in [list : A, pc : B, event : C, path : D, took : H],
           NEW t \in B, NEW path \in D, NEW took \in H
    PROVE  LET g == [f EXCEPT !.pc = t, !.path = path, !.took = took] IN
           /\ g \in [list : A, pc : B, event : C, path : D, took : H]
           /\ DOMAIN g = {"list", "pc", "event", "path", "took"}
           /\ g.list = f.list /\ g.event = f.event /\ g.pc = t /\ g.path = path /\ g.took = took
  OBVIOUS

\* A frame with another position and other marks is a frame.
MovedTo(f, t, path, took) == [f EXCEPT !.pc = t, !.path = path, !.took = took]

LEMMA FrameOf ==
    ASSUME InterpreterAssumption, NEW f \in Frames, IsFrame(f),
           NEW t \in 1..Len(Code[f.list]) + 1,
           NEW path \in [Indents -> Int], NEW took \in [1..Len(Code[f.list]) -> Int]
    PROVE  LET g == MovedTo(f, t, path, took) IN
           /\ g \in Frames /\ IsFrame(g) /\ g.list = f.list /\ g.event = f.event
           /\ g.pc = t /\ g.path = path /\ g.took = took
  <1> DEFINE g == MovedTo(f, t, path, took)
  <1>1. f.list \in DOMAIN Code /\ DOMAIN Code[f.list] = 1..Len(Code[f.list]) /\ Len(Code[f.list]) \in Nat
    BY FrameFacts, ListFacts
  <1>2. took \in Histories
    BY <1>1 DEF Histories
  <1>3. t \in Nat
    BY <1>1
  <1>4. /\ g \in Frames /\ DOMAIN g = {"list", "pc", "event", "path", "took"}
        /\ g.list = f.list /\ g.event = f.event /\ g.pc = t /\ g.path = path /\ g.took = took
    BY <1>2, <1>3, RecordOf DEF Frames, MovedTo
  <1> HIDE DEF g
  <1>5. IsFrame(g)
    BY <1>1, <1>4 DEF IsFrame
  <1> QED BY <1>4, <1>5 DEF g

PutAt(f, t) == [f EXCEPT !.pc = t]

\* To a place that no other arms are around and no other options ahead of.
LEMMA MovedOn ==
    ASSUME InterpreterAssumption, NEW f \in Frames, SoundFrame(f, FALSE), ~Finished(f),
           NEW t \in 1..Len(Code[f.list]) + 1,
           t <= Len(Code[f.list]) => Above(f.list, t) \subseteq Above(f.list, f.pc),
           OptionsAhead(f.list, t) \subseteq OptionsAhead(f.list, f.pc)
    PROVE  LET g == PutAt(f, t) IN
           g \in Frames /\ SoundFrame(g, FALSE) /\ g.list = f.list /\ g.event = f.event
  <1> DEFINE g == PutAt(f, t)
  <1>1. IsFrame(f)
    BY DEF SoundFrame
  <1>0. f.path \in [Indents -> Int] /\ f.took \in [1..Len(Code[f.list]) -> Int]
    BY <1>1, FrameFacts
  <1>2. g = MovedTo(f, t, f.path, f.took)
    BY DEF Frames, MovedTo, PutAt
  <1> HIDE DEF g
  <1>3. /\ g \in Frames /\ IsFrame(g) /\ g.list = f.list /\ g.event = f.event
        /\ g.pc = t /\ g.path = f.path /\ g.took = f.took
    BY <1>0, <1>1, <1>2, FrameOf
  <1>4. InChosenArms(g)
    BY <1>1, <1>3, FrameFacts DEF SoundFrame, InChosenArms, Finished
  <1>5. Indexed(g, FALSE)
    BY <1>3 DEF SoundFrame, Indexed
  <1> QED BY <1>3, <1>4, <1>5 DEF SoundFrame, g

\* To the next command, from one that neither decides nor opens an arm.
LEMMA MovedNext ==
    ASSUME InterpreterAssumption, NEW f \in Frames, SoundFrame(f, FALSE), ~Finished(f),
           CommandAt(f).code \notin Heads \cup Decisions,
           NEW g, g = Next1(f)
    PROVE  g \in Frames /\ SoundFrame(g, FALSE) /\ g.list = f.list /\ g.event = f.event
  <1> DEFINE l == f.list
             i == f.pc
  <1>1. l \in DOMAIN Code /\ i \in 1..Len(Code[l]) /\ CommandAt(f) = Code[l][i] /\ Len(Code[l]) \in Nat
    BY FrameFacts DEF SoundFrame
  <1>2. i + 1 <= Len(Code[l]) => Above(l, i + 1) \subseteq Above(l, i)
    BY <1>1, NextInside
  <1>3. i + 1 \in 1..Len(Code[l]) + 1
    BY <1>1
  <1>4. OptionsAhead(l, i + 1) \subseteq OptionsAhead(l, i)
    BY <1>1, <1>3, NextInside, AheadFacts
  <1>5. g = PutAt(f, i + 1)
    BY DEF Next1, PutAt
  <1> QED BY <1>2, <1>3, <1>4, <1>5, MovedOn

\* Past a question.
LEMMA QuestionPassed ==
    ASSUME InterpreterAssumption, NEW f \in Frames, SoundFrame(f, FALSE), ~Finished(f),
           CommandAt(f).code = "ShowChoice",
           NEW g, g = Next1(f)
    PROVE  /\ g \in Frames /\ SoundFrame(g, TRUE) /\ g.list = f.list /\ g.event = f.event
           /\ g.pc = f.pc + 1
  <1> DEFINE l == f.list
             i == f.pc
  <1>0. IsFrame(f) /\ f.path \in [Indents -> Int] /\ f.took \in [1..Len(Code[f.list]) -> Int]
    BY FrameFacts DEF SoundFrame
  <1>1. l \in DOMAIN Code /\ i \in 1..Len(Code[l]) /\ CommandAt(f) = Code[l][i] /\ Len(Code[l]) \in Nat
    BY FrameFacts DEF SoundFrame
  <1>2. i + 1 \in 1..Len(Code[l]) + 1
    BY <1>1
  <1>3. g = MovedTo(f, i + 1, f.path, f.took)
    BY DEF Next1, Frames, MovedTo
  <1>4. /\ g \in Frames /\ IsFrame(g) /\ g.list = f.list /\ g.event = f.event
        /\ g.pc = i + 1 /\ g.path = f.path /\ g.took = f.took
    BY <1>0, <1>2, <1>3, FrameOf
  <1>5. Code[l][i].code \notin Heads
    BY <1>1 DEF Heads, Options
  <1>6. InChosenArms(g)
    BY <1>1, <1>4, <1>5, NextInside DEF SoundFrame, InChosenArms, Finished
  <1>7. Indexed(g, TRUE)
    BY <1>1, <1>4, NextInside DEF SoundFrame, Indexed
  <1> QED BY <1>4, <1>6, <1>7 DEF SoundFrame

\* An answer is the decision for the options ahead.
WithAnswer(f, k) ==
    [f EXCEPT !.path[Code[f.list][f.pc - 1].indent] = k, !.took = [@ EXCEPT ![f.pc - 1] = k]]

LEMMA AnswerTaken ==
    ASSUME InterpreterAssumption, NEW f \in Frames, SoundFrame(f, TRUE),
           f.pc - 1 \in DOMAIN Code[f.list], Code[f.list][f.pc - 1].code = "ShowChoice",
           NEW k \in Int, NEW g, g = WithAnswer(f, k)
    PROVE  /\ g \in Frames /\ SoundFrame(g, FALSE) /\ g.list = f.list /\ g.event = f.event
           /\ g.pc = f.pc
  <1> DEFINE l == f.list
             i == f.pc
             d == f.pc - 1
             n == Code[f.list][f.pc - 1].indent
             path == [f.path EXCEPT ![n] = k]
             took == [f.took EXCEPT ![d] = k]
  <1>1. IsFrame(f) /\ f.path \in [Indents -> Int] /\ f.took \in [1..Len(Code[l]) -> Int]
        /\ l \in DOMAIN Code /\ i \in 1..Len(Code[l]) + 1 /\ Len(Code[l]) \in Nat
    BY FrameFacts DEF SoundFrame
  <1>2. d \in 1..Len(Code[l]) /\ n \in Indents /\ i = d + 1
    <2>1. d \in 1..Len(Code[l])
      BY <1>1, ListFacts
    <2>2. n \in Indents
      BY <1>1, <2>1, ListFacts
    <2> QED BY <1>1, <2>1, <2>2
  <1>3. path \in [Indents -> Int] /\ took \in [1..Len(Code[l]) -> Int]
    BY <1>1
  <1>4. g = MovedTo(f, i, path, took)
    BY DEF Frames, MovedTo, WithAnswer
  <1>5. /\ g \in Frames /\ IsFrame(g) /\ g.list = l /\ g.event = f.event
        /\ g.pc = i /\ g.path = path /\ g.took = took
    <2>1. /\ IsFrame(f) /\ f.pc \in 1..Len(Code[f.list]) + 1
          /\ path \in [Indents -> Int] /\ took \in [1..Len(Code[f.list]) -> Int]
      BY <1>1, <1>3
    <2>2. g = MovedTo(f, f.pc, path, took)
      BY <1>4
    <2> HIDE DEF path, took
    <2>3. /\ g \in Frames /\ IsFrame(g) /\ g.list = f.list /\ g.event = f.event
          /\ g.pc = f.pc /\ g.path = path /\ g.took = took
      BY <2>1, <2>2, FrameOf
    <2> QED BY <2>3
  <1>6. InChosenArms(g)
    <2> SUFFICES ASSUME ~Finished(g), NEW j \in Above(l, i)
                 PROVE  took[DecidedAt(l, j)] = Arm(l, j)
      BY <1>5 DEF InChosenArms
    <2>1. i \in 1..Len(Code[l]) /\ ~Finished(f)
      BY <1>1, <1>5 DEF Finished
    <2>2. DecidedAt(l, j) # d
      BY <1>2, <2>1, <1>1, AboveFacts
    <2>3. f.took[DecidedAt(l, j)] = Arm(l, j)
      BY <2>1 DEF SoundFrame, InChosenArms
    <2> QED BY <1>1, <1>2, <2>2, <2>3
  <1>7. Indexed(g, FALSE)
    <2> SUFFICES ASSUME NEW j \in OptionsAhead(l, i)
                 PROVE  path[Code[l][j].indent] \in {Sentinel, took[DecidedAt(l, j)]}
      BY <1>5 DEF Indexed
    <2> DEFINE e == DecidedAt(l, j)
    <2>1. /\ j \in 1..Len(Code[l]) /\ j >= i /\ Code[l][j].code \in Options
          /\ e \in 1..i - 1 /\ e < j /\ Code[l][e].indent = Code[l][j].indent /\ Code[l][j].indent \in Indents
      BY <1>1, AheadFacts
    <2>2. \/ e = d \/ f.path[Code[l][j].indent] \in {Sentinel, f.took[e]}
      BY DEF SoundFrame, Indexed
    <2>3. CASE e = d
      BY <1>1, <1>2, <2>1, <2>3
    <2>4. CASE e # d
      <3>1. Code[l][j].indent = n => d <= e
        <4>1. \A m \in 1..j - 1 :
                 Code[l][m].indent = Code[l][j].indent /\ Code[l][m].code \in Decisions => m <= e
          BY <1>1, <2>1, DecidedBefore
        <4>2. d \in 1..j - 1
          BY <1>2, <2>1, <1>1
        <4> QED BY <4>1, <4>2 DEF Decisions
      <3>2. Code[l][j].indent # n
        BY <3>1, <2>1, <2>4, <1>2, <1>1
      <3> QED BY <3>2, <2>1, <2>2, <2>4, <1>1, <1>2
    <2> QED BY <2>3, <2>4
  <1> QED BY <1>5, <1>6, <1>7 DEF SoundFrame

\* Into an arm, when it is the one that was chosen, or past it.
LEMMA OptionTaken ==
    ASSUME InterpreterAssumption, NEW f \in Frames, SoundFrame(f, FALSE), ~Finished(f),
           CommandAt(f).code \in Options,
           NEW g, g = Option(f, Arm(f.list, f.pc), Closing(CommandAt(f).code))
    PROVE  g \in Frames /\ SoundFrame(g, FALSE) /\ g.list = f.list /\ g.event = f.event
  <1> DEFINE l == f.list
             i == f.pc
             n == Code[l][i].indent
             d == DecidedAt(l, i)
             chosen == Arm(l, i)
             next == Closing(CommandAt(f).code)
             t == SkipToNextConditional(f, next, n)
             path == [f.path EXCEPT ![n] = Sentinel]
  <1>1. /\ IsFrame(f) /\ f.path \in [Indents -> Int] /\ f.took \in [1..Len(Code[l]) -> Int]
        /\ l \in DOMAIN Code /\ i \in 1..Len(Code[l]) /\ Len(Code[l]) \in Nat
        /\ CommandAt(f) = Code[l][i] /\ n \in Indents
    BY FrameFacts DEF SoundFrame
  <1>2. i \in OptionsAhead(l, i) /\ Code[l][i].code \in Heads /\ Arm(l, i) # Sentinel
        /\ Code[l][i].code \notin Decisions
    BY <1>1, DecidedBefore DEF OptionsAhead, Heads, Options, Decisions
  <1>3. f.path[n] \in {Sentinel, f.took[d]}
    BY <1>2 DEF SoundFrame, Indexed
  <1>4. CASE f.path[n] = chosen
    <2>1. f.took[d] = Arm(l, i)
      BY <1>2, <1>3, <1>4
    <2>2. path \in [Indents -> Int] /\ i + 1 \in 1..Len(Code[f.list]) + 1
      BY <1>1 DEF Sentinel
    <2>3. g = MovedTo(f, i + 1, path, f.took)
      BY <1>1, <1>4 DEF Option, MovedTo, Frames
    <2>4. /\ g \in Frames /\ IsFrame(g) /\ g.list = f.list /\ g.event = f.event
          /\ g.pc = i + 1 /\ g.path = path /\ g.took = f.took
      <3>1. f.took \in [1..Len(Code[f.list]) -> Int] /\ IsFrame(f)
        BY <1>1
      <3> HIDE DEF path
      <3> QED BY <3>1, <2>2, <2>3, FrameOf
    <2>5. InChosenArms(g)
      <3> SUFFICES ASSUME ~Finished(g), NEW j \in Above(l, i + 1)
                   PROVE  f.took[DecidedAt(l, j)] = Arm(l, j)
        BY <2>4 DEF InChosenArms
      <3>1. i + 1 <= Len(Code[l]) /\ ~Finished(f)
        BY <1>1, <2>4 DEF Finished
      <3>2. j \in Above(l, i) \/ j = i
        BY <3>1, <1>1, NextInside
      <3> QED BY <3>1, <3>2, <2>1 DEF SoundFrame, InChosenArms
    <2>6. Indexed(g, FALSE)
      <3> SUFFICES ASSUME NEW j \in OptionsAhead(l, i + 1)
                   PROVE  path[Code[l][j].indent] \in {Sentinel, f.took[DecidedAt(l, j)]}
        BY <2>4 DEF Indexed
      <3>1. Code[l][j].indent \in Indents /\ Code[l][DecidedAt(l, j)].code \in Decisions
        BY <1>1, <2>2, AheadFacts
      <3>2. j \in OptionsAhead(l, i)
        BY <3>1, <1>1, <1>2, NextInside
      <3>3. f.path[Code[l][j].indent] \in {Sentinel, f.took[DecidedAt(l, j)]}
        BY <3>2 DEF SoundFrame, Indexed
      <3> QED BY <3>1, <3>3, <1>1
    <2> QED BY <2>4, <2>5, <2>6 DEF SoundFrame
  <1>5. CASE f.path[n] # chosen
    <2>1. /\ t \in i + 1..Len(Code[l]) + 1
          /\ \A m \in i + 1..t - 1 : Code[l][m].indent > Code[l][i].indent
          /\ t <= Len(Code[l]) => Code[l][t].indent <= Code[l][i].indent
      BY <1>1, <1>2, ArmEnds
    <2>2. g = PutAt(f, t)
      BY <1>1, <1>5 DEF Option, PutAt
    <2> HIDE DEF t
    <2>3. /\ t <= Len(Code[l]) => Above(l, t) \subseteq Above(l, i)
          /\ \A j \in OptionsAhead(l, t) : j \in OptionsAhead(l, i) \/ DecidedAt(l, j) = i
      BY <1>1, <2>1, SkipInside
    <2>4. t \in 1..Len(Code[l]) + 1
      BY <1>1, <2>1
    <2>5. OptionsAhead(l, t) \subseteq OptionsAhead(l, i)
      BY <1>1, <1>2, <2>3, <2>4, AheadFacts
    <2> QED BY <2>2, <2>3, <2>4, <2>5, MovedOn
  <1> QED BY <1>4, <1>5

\* A branch decides for what is inside it and for what follows at its level.
LEMMA BranchTaken ==
    ASSUME InterpreterAssumption, NEW f \in Frames, SoundFrame(f, FALSE), ~Finished(f),
           CommandAt(f).code = "ConditionalBranch", NEW holds \in BOOLEAN,
           NEW g, g = ConditionalBranch(f, holds)
    PROVE  g \in Frames /\ SoundFrame(g, FALSE) /\ g.list = f.list /\ g.event = f.event
  <1> DEFINE l == f.list
             i == f.pc
             n == Code[l][i].indent
             skip == SkipToNextConditional(f, {"ElseBranch", "EndBranch"}, n)
             t == IF holds THEN i + 1 ELSE skip
             mark == IF holds THEN Sentinel ELSE ElseBranch
             arm == IF holds THEN ThenBranch ELSE ElseBranch
             path == [f.path EXCEPT ![n] = mark]
             took == [f.took EXCEPT ![i] = arm]
  <1>1. /\ IsFrame(f) /\ f.path \in [Indents -> Int] /\ f.took \in [1..Len(Code[f.list]) -> Int]
        /\ l \in DOMAIN Code /\ i \in 1..Len(Code[l]) /\ Len(Code[l]) \in Nat
        /\ CommandAt(f) = Code[l][i] /\ n \in Indents
    BY FrameFacts DEF SoundFrame
  <1>2. Code[l][i].code \in Heads /\ Code[l][i].code \in Decisions
    BY <1>1 DEF Heads, Decisions
  <1>3. /\ skip \in i + 1..Len(Code[l]) + 1
        /\ \A m \in i + 1..skip - 1 : Code[l][m].indent > Code[l][i].indent
        /\ skip <= Len(Code[l]) => Code[l][skip].indent <= Code[l][i].indent
    BY <1>1, <1>2, ArmEnds DEF Closing
  <1>4. g = MovedTo(f, t, path, took)
    BY <1>1 DEF ConditionalBranch, MovedTo, Frames
  <1> HIDE DEF skip
  <1>5. t \in 1..Len(Code[f.list]) + 1 /\ t > i
    BY <1>1, <1>3
  <1>6. path \in [Indents -> Int] /\ took \in [1..Len(Code[f.list]) -> Int]
    BY <1>1 DEF Sentinel, ElseBranch, ThenBranch
  <1>7. /\ g \in Frames /\ IsFrame(g) /\ g.list = f.list /\ g.event = f.event
        /\ g.pc = t /\ g.path = path /\ g.took = took
    <2> HIDE DEF path, took, t
    <2> QED BY <1>1, <1>4, <1>5, <1>6, FrameOf
  <1>8. /\ t <= Len(Code[l]) =>
              \A j \in Above(l, t) : j \in Above(l, i) \/ (j = i /\ holds)
        /\ \A j \in OptionsAhead(l, t) : j \in OptionsAhead(l, i) \/ DecidedAt(l, j) = i
    <2>1. CASE holds
      BY <2>1, <1>1, NextInside
    <2>2. CASE ~holds
      BY <2>2, <1>1, <1>3, SkipInside
    <2> QED BY <2>1, <2>2
  <1> HIDE DEF t
  <1>9. InChosenArms(g)
    <2> SUFFICES ASSUME ~Finished(g), NEW j \in Above(l, t)
                 PROVE  took[DecidedAt(l, j)] = Arm(l, j)
      BY <1>7 DEF InChosenArms
    <2>1. t <= Len(Code[l]) /\ ~Finished(f)
      BY <1>1, <1>5, <1>7 DEF Finished
    <2>2. CASE j = i /\ holds
      BY <2>2, <1>1 DEF DecidedAt, Arm
    <2>3. CASE j \in Above(l, i)
      <3>1. DecidedAt(l, j) \in 1..i - 1
        BY <2>3, <1>1, AboveFacts
      <3>2. f.took[DecidedAt(l, j)] = Arm(l, j)
        BY <2>1, <2>3 DEF SoundFrame, InChosenArms
      <3> QED BY <3>1, <3>2, <1>1
    <2> QED BY <2>1, <2>2, <2>3, <1>8
  <1>10. Indexed(g, FALSE)
    <2> SUFFICES ASSUME NEW j \in OptionsAhead(l, t)
                 PROVE  path[Code[l][j].indent] \in {Sentinel, took[DecidedAt(l, j)]}
      BY <1>7 DEF Indexed
    <2> DEFINE e == DecidedAt(l, j)
    <2>1. /\ j \in 1..Len(Code[l]) /\ j >= t /\ Code[l][j].code \in Options
          /\ e \in 1..t - 1 /\ e < j /\ Code[l][e].indent = Code[l][j].indent /\ Code[l][j].indent \in Indents
      BY <1>1, <1>5, AheadFacts
    <2>2. CASE e = i
      BY <2>1, <2>2, <1>1
    <2>3. CASE e # i
      <3>1. j \in OptionsAhead(l, i)
        BY <2>3, <1>8
      <3>2. f.path[Code[l][j].indent] \in {Sentinel, f.took[e]} /\ e < i /\ e \in 1..Len(Code[l])
        BY <3>1, <1>1, AheadFacts DEF SoundFrame, Indexed
      <3>3. Code[l][j].indent # n
        <4>1. \A m \in 1..j - 1 :
                 Code[l][m].indent = Code[l][j].indent /\ Code[l][m].code \in Decisions => m <= e
          BY <1>1, <2>1, DecidedBefore
        <4>2. i \in 1..j - 1
          BY <1>1, <1>5, <2>1
        <4> QED BY <4>1, <4>2, <1>1, <1>2, <3>2, <2>1
      <3> QED BY <3>2, <3>3, <2>1, <1>1
    <2> QED BY <2>2, <2>3
  <1> QED BY <1>7, <1>9, <1>10 DEF SoundFrame

\* Where a jump leads, no other arms are around and no other options ahead.
LEMMA JumpTaken ==
    ASSUME InterpreterAssumption, NEW f \in Frames, SoundFrame(f, FALSE), ~Finished(f),
           CommandAt(f).code \in {"JumpToLabel", "BreakLoop", "EndLoop", "EndEventProcessing"},
           NEW g, g = Movement(f, FALSE)
    PROVE  g \in Frames /\ SoundFrame(g, FALSE) /\ g.list = f.list /\ g.event = f.event
  <1> DEFINE l == f.list
             i == f.pc
             n == Len(Code[l])
  <1>1. l \in DOMAIN Code /\ i \in 1..n /\ n \in Nat /\ CommandAt(f) = Code[l][i]
        /\ DOMAIN Code[l] = 1..n
    BY FrameFacts, ListFacts DEF SoundFrame
  <1>2. OptionsAhead(l, n + 1) = {}
    BY <1>1 DEF OptionsAhead
  <1>3. ASSUME NEW t \in 1..n + 1, StaysInside(l, i, t), g = PutAt(f, t)
        PROVE  g \in Frames /\ SoundFrame(g, FALSE) /\ g.list = f.list /\ g.event = f.event
    <2>1. OptionsAhead(l, t) \subseteq OptionsAhead(l, i)
      BY <1>1, <1>2, <1>3 DEF StaysInside
    <2>2. t <= n => Above(l, t) \subseteq Above(l, i)
      BY <1>3 DEF StaysInside
    <2> QED BY <1>3, <2>1, <2>2, MovedOn
  <1>4. CASE Code[l][i].code = "JumpToLabel"
    <2> DEFINE labels == {k \in DOMAIN Code[l] : Code[l][k].code = "Label" /\ Code[l][k].arg = Code[l][i].arg}
    <2>1. labels \in SUBSET Nat /\ labels \subseteq 1..n
      BY <1>1
    <2>2. labels # {} => Min(labels) \in labels
      <3> HIDE DEF labels
      <3> QED BY <2>1, LeastOf
    <2>3. LabelAt(l, i) = IF labels = {} THEN i + 1 ELSE Min(labels)
      BY DEF LabelAt
    <2> HIDE DEF labels
    <2>4. LabelAt(l, i) \in 1..n + 1
      <3>1. labels # {} => Min(labels) \in 1..n
        BY <2>1, <2>2
      <3> QED BY <1>1, <2>3, <3>1
    <2>5. StaysInside(l, i, LabelAt(l, i))
      BY <1>1, <1>4 DEF InterpreterAssumption
    <2>6. g = PutAt(f, LabelAt(l, i))
      BY <1>1, <1>4 DEF Movement, JumpToLabel, PutAt
    <2> QED BY <2>4, <2>5, <2>6, <1>3
  <1>5. CASE Code[l][i].code = "BreakLoop"
    <2> DEFINE ends == {k \in i + 1..n : Code[l][k].code = "EndLoop"}
    <2>1. ends \in SUBSET Nat /\ ends \subseteq 1..n
      BY <1>1
    <2>2. ends # {} => Min(ends) \in ends
      <3> HIDE DEF ends
      <3> QED BY <2>1, LeastOf
    <2>3. AfterLoop(l, i) = IF ends = {} THEN n + 1 ELSE Min(ends) + 1
      BY DEF AfterLoop
    <2> HIDE DEF ends
    <2>4. AfterLoop(l, i) \in 1..n + 1
      BY <1>1, <2>1, <2>2, <2>3
    <2>5. StaysInside(l, i, AfterLoop(l, i))
      BY <1>1, <1>5 DEF InterpreterAssumption
    <2>6. g = PutAt(f, AfterLoop(l, i))
      BY <1>1, <1>5 DEF Movement, BreakLoop, PutAt
    <2> QED BY <2>4, <2>5, <2>6, <1>3
  <1>6. CASE Code[l][i].code = "EndLoop"
    <2> DEFINE T == LoopStart(l, i)
    <2>0. T # {} /\ StaysInside(l, i, LoopAgain(l, i))
      BY <1>1, <1>6 DEF InterpreterAssumption
    <2>1. T \in SUBSET (1..i)
      BY <1>1 DEF LoopStart
    <2>2. Max(T) \in T
      <3>1. i \in Nat
        BY <1>1
      <3> HIDE DEF T, i
      <3> QED BY <3>1, <2>0, <2>1, GreatestOf
    <2>3. Max(T) # i
      BY <2>2, <1>6 DEF LoopStart
    <2>4. LoopAgain(l, i) = IF Max(T) + 1 = i THEN i + 1 ELSE Max(T) + 1
      BY DEF LoopAgain
    <2>5. LoopAgain(l, i) \in 1..n + 1
      <3>1. Max(T) \in 1..i - 1
        BY <2>1, <2>2, <2>3, <1>1
      <3> HIDE DEF T
      <3> QED BY <3>1, <2>4, <1>1
    <2>6. g = PutAt(f, LoopAgain(l, i))
      BY <1>1, <1>6 DEF Movement, EndLoop, PutAt
    <2> QED BY <2>0, <2>5, <2>6, <1>3
  <1>7. CASE Code[l][i].code = "EndEventProcessing"
    <2>1. g = PutAt(f, n + 1)
      BY <1>1, <1>7 DEF Movement, EndEventProcessing, PutAt, First
    <2>2. StaysInside(l, i, n + 1) /\ n + 1 \in 1..n + 1
      BY <1>1 DEF StaysInside
    <2> QED BY <2>1, <2>2, <1>3
  <1> QED BY <1>1, <1>4, <1>5, <1>6, <1>7

\* Every command that moves.
LEMMA MovementSound ==
    ASSUME InterpreterAssumption, NEW f \in Frames, SoundFrame(f, FALSE), ~Finished(f),
           NEW holds \in BOOLEAN, CommandAt(f).code # "ShowChoice",
           NEW g, g = Movement(f, holds)
    PROVE  g \in Frames /\ SoundFrame(g, FALSE) /\ g.list = f.list /\ g.event = f.event
  <1> DEFINE c == CommandAt(f)
             Good1 == g \in Frames /\ SoundFrame(g, FALSE) /\ g.list = f.list /\ g.event = f.event
  <1>1. CASE c.code = "ConditionalBranch"
    <2>1. g = ConditionalBranch(f, holds)
      BY <1>1 DEF Movement
    <2> QED BY <1>1, <2>1, BranchTaken
  <1>2. CASE c.code = "ElseBranch"
    <2>1. g = Option(f, ElseBranch, {"EndBranch"})
      BY <1>2 DEF Movement
    <2>2. ElseBranch = Arm(f.list, f.pc) /\ {"EndBranch"} = Closing(c.code) /\ c.code \in Options
      BY <1>2 DEF Arm, Closing, CommandAt, Options
    <2>3. g = Option(f, Arm(f.list, f.pc), Closing(c.code))
      BY <2>1, <2>2
    <2> QED BY <2>2, <2>3, OptionTaken
  <1>3. CASE c.code = "ShowChoiceOption"
    <2>1. g = Option(f, c.arg, {"ShowChoiceOption", "ShowChoiceEnd"})
      BY <1>3 DEF Movement
    <2>2. c.arg = Arm(f.list, f.pc) /\ c.code \in Options
          /\ {"ShowChoiceOption", "ShowChoiceEnd"} = Closing(c.code)
      BY <1>3 DEF Arm, Closing, CommandAt, Options
    <2>3. g = Option(f, Arm(f.list, f.pc), Closing(c.code))
      BY <2>1, <2>2
    <2> QED BY <2>2, <2>3, OptionTaken
  <1>4. CASE c.code \in {"JumpToLabel", "BreakLoop", "EndLoop", "EndEventProcessing"}
    <2>1. g = Movement(f, FALSE)
      BY <1>4 DEF Movement
    <2> QED BY <1>4, <2>1, JumpTaken
  <1>5. CASE c.code \notin {"ConditionalBranch", "ElseBranch", "ShowChoiceOption", "JumpToLabel",
                           "BreakLoop", "EndLoop", "EndEventProcessing"}
    <2>1. g = Next1(f)
      BY <1>5 DEF Movement, Next1
    <2>2. c.code \notin Heads \cup Decisions
      BY <1>5 DEF Heads, Options, Decisions
    <2> QED BY <2>1, <2>2, MovedNext
  <1> QED BY <1>1, <1>2, <1>3, <1>4, <1>5

\* Commands begin outside of all arms.
LEMMA Begins ==
    ASSUME InterpreterAssumption, NEW l \in DOMAIN Code
    PROVE  OptionsAhead(l, 1) = {} /\ Above(l, 1) = {}
  <1>1. Above(l, 1) = {}
    BY DEF Above
  <1>2. OptionsAhead(l, 1) = {}
    BY AheadFacts, ListFacts
  <1> QED BY <1>1, <1>2

LEMMA NewFrameSound ==
    ASSUME InterpreterAssumption, NEW l \in DOMAIN Code, NEW e \in Callers,
           NEW open \in BOOLEAN, NEW g, g = NewFrame(l, e)
    PROVE  g \in Frames /\ SoundFrame(g, open) /\ g.list = l /\ g.event = e
  <1>1. Len(Code[l]) \in Nat /\ DOMAIN Code[l] = 1..Len(Code[l])
    BY ListFacts
  <1>2. [i \in Indents |-> Sentinel] \in [Indents -> Int]
    BY DEF Sentinel
  <1>3. [i \in DOMAIN Code[l] |-> Sentinel] \in Histories
    BY DEF Sentinel, Histories
  <1>4. g \in Frames /\ g.list = l /\ g.event = e /\ g.pc = 1
    BY <1>1, <1>2, <1>3 DEF NewFrame, Frames
  <1>5. IsFrame(g)
    BY <1>1, <1>4 DEF IsFrame, NewFrame
  <1>6. InChosenArms(g) /\ Indexed(g, open)
    BY <1>4, Begins DEF InChosenArms, Indexed
  <1> QED BY <1>4, <1>5, <1>6 DEF SoundFrame

\* The commands of a parallel event begin anew.
LEMMA FrameAgain ==
    ASSUME InterpreterAssumption, NEW f \in Frames, SoundFrame(f, FALSE), NEW g, g = PutAt(f, 1)
    PROVE  g \in Frames /\ SoundFrame(g, FALSE) /\ g.list = f.list /\ g.event = f.event
  <1>1. /\ IsFrame(f) /\ f.list \in DOMAIN Code /\ Len(Code[f.list]) \in Nat
        /\ f.path \in [Indents -> Int] /\ f.took \in [1..Len(Code[f.list]) -> Int]
    BY FrameFacts DEF SoundFrame
  <1>0. g = MovedTo(f, 1, f.path, f.took)
    BY DEF PutAt, MovedTo, Frames
  <1>2. g = MovedTo(f, 1, f.path, f.took) /\ 1 \in 1..Len(Code[f.list]) + 1
    BY <1>0, <1>1
  <1>3. g \in Frames /\ IsFrame(g) /\ g.list = f.list /\ g.event = f.event /\ g.pc = 1
    BY <1>1, <1>2, FrameOf
  <1>4. InChosenArms(g) /\ Indexed(g, FALSE)
    BY <1>1, <1>3, Begins DEF InChosenArms, Indexed
  <1> QED BY <1>3, <1>4 DEF SoundFrame

-----------------------------------------------------------------------------
(* Stacks. *)

WithTop(s, g) == Append(Front(s), g)

TopReplaced(u, s, g) ==
    /\ u \in Seq(Frames) /\ Len(u) = Len(s) /\ u # <<>> /\ DOMAIN u = 1..Len(s)
    /\ Len(s) \in Nat \ {0}
    /\ \A k \in 1..Len(s) - 1 : u[k] = s[k]
    /\ \A k \in 1..Len(s) : k = Len(s) => u[k] = g
    /\ Last(u) \in {g}

LEMMA ReplacesTop ==
    ASSUME NEW s \in Seq(Frames), s # <<>>, NEW g \in Frames
    PROVE  TopReplaced(WithTop(s, g), s, g)
  <1>1. Len(s) \in Nat \ {0} /\ \A k \in 1..Len(s) : s[k] \in Frames
    BY EmptySeq, ElementOfSeq
  <1>2. /\ Front(s) \in Seq(Frames) /\ Len(Front(s)) = Len(s) - 1
        /\ \A k \in 1..Len(s) - 1 : Front(s)[k] = s[k]
    <2> DEFINE n == Len(s) - 1
    <2>1. n \in Int /\ 1 \in Int /\ \A k \in 1..n : s[k] \in Frames
      BY <1>1
    <2>2. Front(s) = SubSeq(s, 1, n)
      BY DEF Front
    <2>4. n >= 0 /\ n - 1 + 1 = n
      BY <1>1
    <2> HIDE DEF n
    <2>3. /\ SubSeq(s, 1, n) \in Seq(Frames) /\ Len(SubSeq(s, 1, n)) = IF 1 <= n THEN n - 1 + 1 ELSE 0
          /\ \A k \in 1..n - 1 + 1 : SubSeq(s, 1, n)[k] = s[1 + k - 1]
      BY <2>1, SubSeqProperties
    <2>5. \A k \in 1..n : 1 + k - 1 = k
      BY <2>1
    <2>6. /\ Front(s) \in Seq(Frames) /\ Len(Front(s)) = n
          /\ \A k \in 1..n : Front(s)[k] = s[k]
      BY <2>1, <2>2, <2>3, <2>4, <2>5
    <2> QED BY <2>6 DEF n
  <1> QED BY <1>1, <1>2, AppendProperties, LenProperties DEF Last, WithTop, TopReplaced

LEMMA PopsTop ==
    ASSUME NEW S, NEW s \in Seq(S), s # <<>>
    PROVE  /\ Front(s) \in Seq(S) /\ Len(Front(s)) = Len(s) - 1 /\ Len(s) \in Nat \ {0}
           /\ DOMAIN Front(s) = 1..Len(s) - 1
           /\ \A k \in 1..Len(s) - 1 : Front(s)[k] = s[k]
           /\ Front(s) = <<>> <=> Len(s) = 1
  <1>1. Len(s) \in Nat \ {0} /\ \A k \in 1..Len(s) : s[k] \in S
    BY EmptySeq, ElementOfSeq
  <1>2. /\ Front(s) \in Seq(S) /\ Len(Front(s)) = Len(s) - 1
        /\ \A k \in 1..Len(s) - 1 : Front(s)[k] = s[k]
    <2> DEFINE n == Len(s) - 1
    <2>1. n \in Int /\ 1 \in Int /\ \A k \in 1..n : s[k] \in S
      BY <1>1
    <2>2. Front(s) = SubSeq(s, 1, n)
      BY DEF Front
    <2>4. n >= 0 /\ n - 1 + 1 = n
      BY <1>1
    <2> HIDE DEF n
    <2>3. /\ SubSeq(s, 1, n) \in Seq(S) /\ Len(SubSeq(s, 1, n)) = IF 1 <= n THEN n - 1 + 1 ELSE 0
          /\ \A k \in 1..n - 1 + 1 : SubSeq(s, 1, n)[k] = s[1 + k - 1]
      BY <2>1, SubSeqProperties
    <2>5. \A k \in 1..n : 1 + k - 1 = k
      BY <2>1
    <2>6. /\ Front(s) \in Seq(S) /\ Len(Front(s)) = n
          /\ \A k \in 1..n : Front(s)[k] = s[k]
      BY <2>1, <2>2, <2>3, <2>4, <2>5
    <2> QED BY <2>6 DEF n
  <1>3. Front(s) = <<>> <=> Len(Front(s)) = 0
    BY <1>2, EmptySeq
  <1> QED BY <1>1, <1>2, <1>3, LenProperties

LEMMA StackFacts ==
    ASSUME NEW S, NEW s \in Seq(S)
    PROVE  /\ Len(s) \in Nat /\ DOMAIN s = 1..Len(s)
           /\ s # <<>> <=> Len(s) # 0
           /\ s # <<>> => Last(s) \in S /\ Last(s) = s[Len(s)] /\ Len(s) \in DOMAIN s /\ 1 \in DOMAIN s
           /\ \A k \in DOMAIN s : s[k] \in S
  <1>1. Len(s) \in Nat /\ DOMAIN s = 1..Len(s) /\ \A k \in 1..Len(s) : s[k] \in S
    BY LenProperties, ElementOfSeq
  <1>2. s # <<>> <=> Len(s) # 0
    BY EmptySeq
  <1> QED BY <1>1, <1>2 DEF Last

-----------------------------------------------------------------------------
(* Events and their order. *)

LEMMA OrderFacts ==
    ASSUME MapUpdateAssumption
    PROVE  /\ Len(Order) \in Nat /\ DOMAIN Order = 1..Len(Order)
           /\ \A n \in 1..Len(Order) : Order[n] \in Parallel
           /\ \A m, n \in 1..Len(Order) : Order[m] = Order[n] => m = n
           /\ Range(CommonEvents) \cap Range(MapEvents) = {}
           /\ Foreground \notin Parallel /\ NoEvent \notin Parallel
           /\ \A n \in DOMAIN CommonEvents : CommonEvents[n] \in Range(CommonEvents)
           /\ \A n \in DOMAIN MapEvents : MapEvents[n] \in Range(MapEvents)
           /\ DOMAIN CommonEvents \subseteq Nat /\ DOMAIN MapEvents \subseteq Nat
  <1> DEFINE C == CommonEvents
             M == MapEvents
  <1>1. C \in Seq(Range(C)) /\ M \in Seq(Range(M))
    BY DEF MapUpdateAssumption
  <1>2. C \in Seq(Parallel) /\ M \in Seq(Parallel)
    BY <1>1, SeqMonotonic DEF Parallel
  <1>3. /\ Order \in Seq(Parallel) /\ Len(Order) = Len(C) + Len(M)
        /\ \A n \in 1..Len(C) + Len(M) : Order[n] = IF n <= Len(C) THEN C[n] ELSE M[n - Len(C)]
    BY <1>2, ConcatProperties DEF Order
  <1>4. /\ Len(C) \in Nat /\ DOMAIN C = 1..Len(C) /\ Len(M) \in Nat /\ DOMAIN M = 1..Len(M)
        /\ Len(Order) \in Nat /\ DOMAIN Order = 1..Len(Order)
    BY <1>1, <1>3, LenProperties
  <1>5. \A n \in 1..Len(Order) : Order[n] \in Parallel
    BY <1>3, ElementOfSeq
  <1>6. \A m, n \in 1..Len(Order) : Order[m] = Order[n] => m = n
    BY <1>4 DEF MapUpdateAssumption
  <1>7. ASSUME NEW e \in Range(C), e \in Range(M) PROVE FALSE
    <2>1. PICK m \in 1..Len(C) : C[m] = e
      BY <1>4 DEF Range
    <2>2. PICK n \in 1..Len(M) : M[n] = e
      BY <1>4, <1>7 DEF Range
    <2>3. Order[m] = e /\ m \in 1..Len(Order)
      BY <1>3, <1>4, <2>1
    <2>4. n + Len(C) \in 1..Len(C) + Len(M) /\ ~(n + Len(C) <= Len(C)) /\ n + Len(C) - Len(C) = n
      BY <1>4, <2>2
    <2>5. Order[n + Len(C)] = e /\ n + Len(C) \in 1..Len(Order)
      BY <1>3, <2>2, <2>4
    <2>6. m = n + Len(C)
      BY <1>6, <2>3, <2>5
    <2> QED BY <2>1, <2>2, <2>6, <1>4
  <1>8. \A n \in DOMAIN C : C[n] \in Range(C)
    BY DEF Range
  <1>9. \A n \in DOMAIN M : M[n] \in Range(M)
    BY DEF Range
  <1>10. Foreground \notin Parallel /\ NoEvent \notin Parallel
    BY DEF MapUpdateAssumption
  <1> QED BY <1>4, <1>5, <1>6, <1>7, <1>8, <1>9, <1>10

LEMMA CurFacts ==
    ASSUME MapUpdateAssumption, FlowTyped
    PROVE  /\ Cur \in Interpreters
           /\ turn <= Len(Order) => Cur = Order[turn] /\ Cur \in Parallel /\ turn \in 1..Len(Order)
           /\ turn > Len(Order) <=> Cur = Foreground
           /\ turn \in Nat
  <1>1. turn \in 1..Len(Order) + 1 /\ Len(Order) \in Nat
    BY OrderFacts DEF FlowTyped
  <1> QED BY <1>1, OrderFacts DEF Cur, Interpreters

\* A page that is open is one of the event's.
LEMMA OpenPage ==
    ASSUME MapUpdateAssumption, NEW e \in Parallel, NEW n \in 1..Len(Pages[e])
    PROVE  /\ Pages[e][n] \in AllPages /\ Pages[e][n].list \in DOMAIN Code
           /\ Len(Pages[e]) \in Nat /\ DOMAIN Pages[e] = 1..Len(Pages[e])
  <1>1. Pages[e] \in Seq(Range(Pages[e]))
    BY DEF MapUpdateAssumption
  <1>2. Len(Pages[e]) \in Nat /\ DOMAIN Pages[e] = 1..Len(Pages[e])
    BY <1>1, LenProperties
  <1>3. Pages[e][n] \in AllPages
    BY <1>2 DEF AllPages, Range
  <1> QED BY <1>2, <1>3 DEF MapUpdateAssumption

LEMMA PageMetFacts ==
    ASSUME MapUpdateAssumption, NEW e \in Parallel, NEW now
    PROVE  PageMet(e, now) \in 0..Len(Pages[e]) /\ Len(Pages[e]) \in Nat
           /\ DOMAIN Pages[e] = 1..Len(Pages[e])
  <1> DEFINE met == {n \in DOMAIN Pages[e] : Holds(Pages[e][n].switch, now)}
  <1>1. Pages[e] \in Seq(Range(Pages[e]))
    BY DEF MapUpdateAssumption
  <1>2. Len(Pages[e]) \in Nat /\ DOMAIN Pages[e] = 1..Len(Pages[e])
    BY <1>1, LenProperties
  <1>3. met \in SUBSET (1..Len(Pages[e]))
    BY <1>2
  <1>4. PageMet(e, now) = IF met = {} THEN 0 ELSE Max(met)
    BY DEF PageMet
  <1>5. met # {} => Max(met) \in met
    <2> HIDE DEF met
    <2> QED BY <1>2, <1>3, GreatestOf
  <1> QED BY <1>2, <1>3, <1>4, <1>5

-----------------------------------------------------------------------------
(* Pages, questions and runners. *)

LEMMA RunnerFacts ==
    ASSUME CoreTyped, NEW i \in Interpreters
    PROVE  /\ interp[i] \in Runners /\ interp[i].stack \in Seq(Frames) /\ interp[i].wait \in Nat
           /\ interp[i].showMessage \in BOOLEAN /\ DOMAIN interp = Interpreters
  BY DEF CoreTyped, Runners

\* The ways in which the actions change one interpreter.
RunnerBecomes(f, i, s, w, shows) ==
    \E r \in Runners : /\ f = [interp EXCEPT ![i] = r]
                       /\ r.stack = s /\ r.wait = w /\ r.showMessage = shows

LEMMA ExceptStack ==
    ASSUME CoreTyped, NEW i \in Interpreters, NEW s \in Seq(Frames), NEW shows \in BOOLEAN, NEW w \in Nat
    PROVE  /\ RunnerBecomes([interp EXCEPT ![i].stack = s, ![i].showMessage = shows], i, s, interp[i].wait, shows)
           /\ RunnerBecomes([interp EXCEPT ![i].showMessage = shows, ![i].stack = s], i, s, interp[i].wait, shows)
           /\ RunnerBecomes([interp EXCEPT ![i].stack = s, ![i].wait = w, ![i].showMessage = shows], i, s, w, shows)
           /\ RunnerBecomes([interp EXCEPT ![i].showMessage = shows, ![i].wait = w], i, interp[i].stack, w, shows)
           /\ RunnerBecomes([interp EXCEPT ![i].stack = s], i, s, interp[i].wait, interp[i].showMessage)
  <1>1. interp[i] \in [stack : Seq(Frames), wait : Nat, showMessage : BOOLEAN]
    BY DEF CoreTyped, Runners
  <1>2. RunnerBecomes([interp EXCEPT ![i].stack = s, ![i].showMessage = shows], i, s, interp[i].wait, shows)
    <2> DEFINE r == [interp[i] EXCEPT !.stack = s, !.showMessage = shows]
    <2>1. r \in Runners /\ r.stack = s /\ r.wait = interp[i].wait /\ r.showMessage = shows
      BY <1>1 DEF Runners
    <2>2. [interp EXCEPT ![i].stack = s, ![i].showMessage = shows] = [interp EXCEPT ![i] = r]
      BY DEF CoreTyped
    <2> HIDE DEF r
    <2> QED BY <2>1, <2>2 DEF RunnerBecomes
  <1>3. RunnerBecomes([interp EXCEPT ![i].showMessage = shows, ![i].stack = s], i, s, interp[i].wait, shows)
    <2> DEFINE r == [interp[i] EXCEPT !.showMessage = shows, !.stack = s]
    <2>1. r \in Runners /\ r.stack = s /\ r.wait = interp[i].wait /\ r.showMessage = shows
      BY <1>1 DEF Runners
    <2>2. [interp EXCEPT ![i].showMessage = shows, ![i].stack = s] = [interp EXCEPT ![i] = r]
      BY DEF CoreTyped
    <2> HIDE DEF r
    <2> QED BY <2>1, <2>2 DEF RunnerBecomes
  <1>4. RunnerBecomes([interp EXCEPT ![i].stack = s, ![i].wait = w, ![i].showMessage = shows], i, s, w, shows)
    <2> DEFINE r == [interp[i] EXCEPT !.stack = s, !.wait = w, !.showMessage = shows]
    <2>1. r \in Runners /\ r.stack = s /\ r.wait = w /\ r.showMessage = shows
      BY <1>1 DEF Runners
    <2>2. [interp EXCEPT ![i].stack = s, ![i].wait = w, ![i].showMessage = shows] = [interp EXCEPT ![i] = r]
      BY DEF CoreTyped
    <2> HIDE DEF r
    <2> QED BY <2>1, <2>2 DEF RunnerBecomes
  <1>5. RunnerBecomes([interp EXCEPT ![i].showMessage = shows, ![i].wait = w], i, interp[i].stack, w, shows)
    <2> DEFINE r == [interp[i] EXCEPT !.showMessage = shows, !.wait = w]
    <2>1. r \in Runners /\ r.stack = interp[i].stack /\ r.wait = w /\ r.showMessage = shows
      BY <1>1 DEF Runners
    <2>2. [interp EXCEPT ![i].showMessage = shows, ![i].wait = w] = [interp EXCEPT ![i] = r]
      BY DEF CoreTyped
    <2> HIDE DEF r
    <2> QED BY <2>1, <2>2 DEF RunnerBecomes
  <1>6. RunnerBecomes([interp EXCEPT ![i].stack = s], i, s, interp[i].wait, interp[i].showMessage)
    <2> DEFINE r == [interp[i] EXCEPT !.stack = s]
    <2>1. r \in Runners /\ r.stack = s /\ r.wait = interp[i].wait /\ r.showMessage = interp[i].showMessage
      BY <1>1 DEF Runners
    <2>2. [interp EXCEPT ![i].stack = s] = [interp EXCEPT ![i] = r]
      BY DEF CoreTyped
    <2> HIDE DEF r
    <2> QED BY <2>1, <2>2 DEF RunnerBecomes
  <1> QED BY <1>2, <1>3, <1>4, <1>5, <1>6

LEMMA RunnerStarts ==
    ASSUME MapUpdateAssumption, Core, NEW i \in Interpreters, NEW r \in Runners,
           interp' = [interp EXCEPT ![i] = r], Len(r.stack) <= CallStackLimit + 1,
           UNCHANGED page, waiting' \in [Parallel -> BOOLEAN],
           \A e \in Parallel : waiting'[e] => waiting[e], switches' \in [Switches -> BOOLEAN],
           active' \in [Parallel -> BOOLEAN], paused' \in [Parallel -> BOOLEAN],
           window' \in Windows,
           \A k \in DOMAIN r.stack : SoundFrame(r.stack[k], Asks(i)' /\ k = Len(r.stack)),
           \A j \in Interpreters \ {i} : Asks(j)' = Asks(j),
           i \in Parallel =>
               /\ r.stack = <<>> <=> interp[i].stack = <<>>
               /\ r.stack # <<>> => r.stack[1].list = interp[i].stack[1].list,
           QuestionOpen', ReleasedByFrame'
    PROVE  Core'
  <1>1. DOMAIN interp = Interpreters /\ CoreTyped
    BY DEF Core, CoreTyped
  <1>2. interp'[i] = r /\ \A j \in Interpreters \ {i} : interp'[j] = interp[j]
    BY <1>1
  <1>3. CoreTyped'
    <2>1. interp' \in [Interpreters -> Runners]
      BY <1>1 DEF CoreTyped
    <2>2. \A j \in Interpreters : Len(interp'[j].stack) <= CallStackLimit + 1
      BY <1>1, <1>2 DEF CoreTyped
    <2> QED BY <2>1, <2>2, <1>1 DEF CoreTyped
  <1>4. FramesSound'
    <2> SUFFICES ASSUME NEW j \in Interpreters, NEW k \in DOMAIN interp'[j].stack
                 PROVE  SoundFrame(interp'[j].stack[k], Asks(j)' /\ k = Len(interp'[j].stack))
      BY DEF FramesSound
    <2>1. CASE j = i
      BY <2>1, <1>2
    <2>2. CASE j # i
      <3>1. interp'[j] = interp[j] /\ Asks(j)' = Asks(j)
        BY <2>2, <1>2
      <3> QED BY <3>1 DEF Core, FramesSound
    <2> QED BY <2>1, <2>2
  <1>5. ParallelNeverEnds'
    <2> SUFFICES ASSUME NEW e \in Range(CommonEvents), TriggerOf(e)' = "parallel", ListOf(e)' # <<>>
                 PROVE  interp'[e].stack # <<>>
      BY DEF ParallelNeverEnds
    <2>1. TriggerOf(e)' = TriggerOf(e) /\ ListOf(e)' = ListOf(e) /\ e \in Parallel /\ e \in Interpreters
      BY DEF TriggerOf, ListOf, PageOf, Parallel, Interpreters
    <2>2. interp[e].stack # <<>>
      BY <2>1 DEF Core, ParallelNeverEnds
    <2> QED BY <1>2, <2>1, <2>2
  <1>6. BackgroundIsOpenPage'
    <2> SUFFICES ASSUME NEW e \in Range(MapEvents), interp'[e].stack # <<>>, page'[e] # 0
                 PROVE  TriggerOf(e)' = "parallel" /\ interp'[e].stack[1].list = (PageOf(e)').list
      BY DEF BackgroundIsOpenPage
    <2>1. TriggerOf(e)' = TriggerOf(e) /\ PageOf(e)' = PageOf(e) /\ e \in Parallel /\ e \in Interpreters
          /\ page[e] # 0
      BY DEF TriggerOf, PageOf, Parallel, Interpreters
    <2>2. interp[e].stack # <<>> /\ interp'[e].stack[1].list = interp[e].stack[1].list
      BY <1>2, <2>1
    <2> QED BY <2>1, <2>2 DEF Core, BackgroundIsOpenPage
  <1>7. PagesOpen'
    BY DEF Core, PagesOpen
  <1> QED BY <1>3, <1>4, <1>5, <1>6, <1>7 DEF Core

LEMMA RunnerChanges ==
    ASSUME MapUpdateAssumption, Core, NEW i \in Interpreters, NEW r \in Runners,
           interp' = [interp EXCEPT ![i] = r], Len(r.stack) <= CallStackLimit + 1,
           UNCHANGED <<page, waiting>>, switches' \in [Switches -> BOOLEAN],
           active' \in [Parallel -> BOOLEAN], paused' \in [Parallel -> BOOLEAN],
           window' \in Windows,
           \A k \in DOMAIN r.stack : SoundFrame(r.stack[k], Asks(i)' /\ k = Len(r.stack)),
           \A j \in Interpreters \ {i} : Asks(j)' = Asks(j),
           i \in Parallel =>
               /\ r.stack = <<>> <=> interp[i].stack = <<>>
               /\ r.stack # <<>> => r.stack[1].list = interp[i].stack[1].list,
           QuestionOpen', ReleasedByFrame'
    PROVE  Core'
  <1>1. waiting' \in [Parallel -> BOOLEAN] /\ \A e \in Parallel : waiting'[e] => waiting[e]
    BY DEF Core, CoreTyped
  <1> QED BY <1>1, RunnerStarts

\* An interpreter that does not ask runs on, whether or not it shows a text.
LEMMA KeepsRunning ==
    ASSUME MapUpdateAssumption, Core, NEW i \in Interpreters, ~Asks(i), NEW r \in Runners,
           interp' = [interp EXCEPT ![i] = r], Len(r.stack) <= CallStackLimit + 1,
           UNCHANGED <<page, waiting, paused>>, switches' \in [Switches -> BOOLEAN],
           active' \in [Parallel -> BOOLEAN], \A e \in Parallel : active'[e] => active[e],
           window' \in Windows,
           window' = window \/ (window.at # "choice" /\ window'.at # "choice"),
           \A k \in DOMAIN r.stack : SoundFrame(r.stack[k], FALSE),
           r.stack = <<>> <=> interp[i].stack = <<>>,
           r.stack # <<>> => /\ r.stack[1].list = interp[i].stack[1].list
                             /\ r.stack[1].event = interp[i].stack[1].event
    PROVE  Core'
  <1>1. DOMAIN interp = Interpreters /\ CoreTyped
    BY DEF Core, CoreTyped
  <1>2. interp'[i] = r /\ \A j \in Interpreters \ {i} : interp'[j] = interp[j]
    BY <1>1
  <1>3. ~Asks(i)' /\ \A j \in Interpreters : Asks(j)' = Asks(j)
    BY DEF Asks
  <1>4. QuestionOpen'
    <2> SUFFICES ASSUME window'.at = "choice" PROVE QuestionOpen'
      BY DEF QuestionOpen
    <2>1. window' = window /\ window.by # i
      BY DEF Asks
    <2>2. window.by \in Interpreters
      BY <1>1 DEF CoreTyped, Windows
    <2>3. interp'[window.by] = interp[window.by]
      BY <1>2, <2>1, <2>2
    <2> QED BY <2>1, <2>3 DEF Core, QuestionOpen
  <1>5. ReleasedByFrame'
    <2> SUFFICES ASSUME \A q \in CommonPages : q.trigger # "auto",
                        NEW e \in Range(MapEvents), active'[e], paused'[e], ~waiting'[e]
                 PROVE  interp'[Foreground].stack # <<>> /\ interp'[Foreground].stack[1].event = e
      BY DEF ReleasedByFrame
    <2>1. interp[Foreground].stack # <<>> /\ interp[Foreground].stack[1].event = e
      BY DEF Core, ReleasedByFrame, Parallel
    <2>2. Foreground \in Interpreters
      BY DEF Interpreters
    <2> QED BY <1>2, <2>1, <2>2
  <1>6. paused' \in [Parallel -> BOOLEAN]
    BY <1>1 DEF CoreTyped
  <1>7. \A k \in DOMAIN r.stack : SoundFrame(r.stack[k], Asks(i)' /\ k = Len(r.stack))
    <2>1. (Asks(i)' /\ TRUE) = FALSE
      BY <1>3
    <2> SUFFICES ASSUME NEW k \in DOMAIN r.stack
                 PROVE  SoundFrame(r.stack[k], Asks(i)' /\ k = Len(r.stack))
      OBVIOUS
    <2>2. (Asks(i)' /\ k = Len(r.stack)) = FALSE
      BY <1>3
    <2> QED BY <2>2
  <1> QED BY <1>3, <1>4, <1>5, <1>6, <1>7, RunnerChanges

\* What changes nothing of this.
LEMMA CoreStays ==
    ASSUME Core, UNCHANGED <<page, active, waiting, paused, interp, window>>,
           switches' \in [Switches -> BOOLEAN]
    PROVE  Core'
  <1>1. CoreTyped'
    BY DEF Core, CoreTyped
  <1>2. FramesSound'
    BY DEF Core, FramesSound, Asks
  <1>3. ParallelNeverEnds' /\ BackgroundIsOpenPage'
    BY DEF Core, ParallelNeverEnds, BackgroundIsOpenPage, TriggerOf, ListOf, PageOf
  <1>4. QuestionOpen' /\ ReleasedByFrame' /\ PagesOpen'
    BY DEF Core, QuestionOpen, ReleasedByFrame, PagesOpen
  <1> QED BY <1>1, <1>2, <1>3, <1>4 DEF Core

-----------------------------------------------------------------------------
(* The interpreter whose turn it is. *)

LEMMA NotAsking ==
    ASSUME MapUpdateAssumption, EventsIInv, ~Blocked
    PROVE  /\ ~Asks(Cur) /\ async = "none" /\ loops < LoopLimit
           /\ Cur = Foreground => window.at # "choice"
  <1>1. async = "none" /\ ~(loops >= LoopLimit)
    BY DEF Blocked
  <1>2. loops < LoopLimit
    BY <1>1 DEF EventsIInv, Flow, FlowTyped, MapUpdateAssumption
  <1>3. Cur = Foreground => window.at # "choice"
    BY DEF Blocked, MessagePending
  <1>4. ASSUME Asks(Cur), Cur # Foreground PROVE FALSE
    <2>1. interp[Cur].showMessage /\ window.at = "choice"
      BY <1>4 DEF Asks, EventsIInv, Core, QuestionOpen
    <2> QED BY <2>1, <1>4 DEF Blocked, MessageActive
  <1> QED BY <1>1, <1>2, <1>3, <1>4 DEF Asks

LEMMA SoundOf ==
    ASSUME Core, NEW i \in Interpreters, ~Asks(i), NEW k \in DOMAIN interp[i].stack
    PROVE  SoundFrame(interp[i].stack[k], FALSE)
  <1>1. (Asks(i) /\ k = Len(interp[i].stack)) = FALSE
    OBVIOUS
  <1> QED BY <1>1 DEF Core, FramesSound

LEMMA InLoopFacts ==
    ASSUME InterpreterAssumption, MapUpdateAssumption, EventsIInv, InLoop
    PROVE  /\ Cur \in Interpreters /\ ~Asks(Cur) /\ async = "none" /\ loops + 1 \in 0..LoopLimit
           /\ Stack # <<>> /\ Stack \in Seq(Frames) /\ Last(Stack) \in Frames
           /\ SoundFrame(Last(Stack), FALSE)
           /\ Len(Stack) \in Nat \ {0} /\ Len(Stack) <= CallStackLimit + 1
           /\ DOMAIN Stack = 1..Len(Stack)
           /\ \A k \in DOMAIN Stack : Stack[k] \in Frames /\ SoundFrame(Stack[k], FALSE)
           /\ Last(Stack) = Stack[Len(Stack)]
           /\ doing = "loop" /\ aborted = FALSE
           /\ Cur = Foreground => window.at # "choice"
  <1>1. Cur \in Interpreters
    BY CurFacts DEF EventsIInv, Flow
  <1>2. ~Blocked /\ Stack # <<>> /\ doing = "loop" /\ ~aborted
    BY DEF InLoop
  <1>3. ~Asks(Cur) /\ async = "none" /\ loops < LoopLimit /\ (Cur = Foreground => window.at # "choice")
    BY <1>2, NotAsking
  <1>4. Stack \in Seq(Frames) /\ Len(Stack) <= CallStackLimit + 1
    BY <1>1, RunnerFacts DEF EventsIInv, Core, Stack, CoreTyped
  <1>5. \A k \in DOMAIN Stack : SoundFrame(Stack[k], FALSE)
    BY <1>1, <1>3, SoundOf DEF EventsIInv, Stack
  <1>6. loops + 1 \in 0..LoopLimit
    BY <1>3 DEF EventsIInv, Flow, FlowTyped, MapUpdateAssumption
  <1> QED
    <2>1. aborted = FALSE
      BY <1>2 DEF EventsIInv, Flow, FlowTyped
    <2>2. Len(Stack) \in Nat \ {0} /\ DOMAIN Stack = 1..Len(Stack) /\ Last(Stack) \in Frames
          /\ Last(Stack) = Stack[Len(Stack)] /\ Len(Stack) \in DOMAIN Stack
          /\ \A k \in DOMAIN Stack : Stack[k] \in Frames
      BY <1>2, <1>4, StackFacts
    <2> QED BY <1>1, <1>2, <1>3, <1>4, <1>5, <1>6, <2>1, <2>2

TopChanged(u, s, g) ==
    /\ u \in Seq(Frames) /\ Len(u) = Len(s) /\ u # <<>>
    /\ DOMAIN u = 1..Len(u) /\ Len(s) \in Nat \ {0}
    /\ u[1].list = s[1].list /\ u[1].event = s[1].event
    /\ \A k \in 1..Len(u) : k # Len(u) => u[k] = s[k] /\ SoundFrame(u[k], FALSE)
    /\ \A k \in 1..Len(u) : k = Len(u) => u[k] = g
    /\ Last(u) \in {g}

LEMMA TopOf ==
    ASSUME NEW s \in Seq(Frames), s # <<>>, NEW g \in Frames,
           g.list = Last(s).list, g.event = Last(s).event,
           \A k \in DOMAIN s : k # Len(s) => SoundFrame(s[k], FALSE),
           NEW u, u = WithTop(s, g)
    PROVE  TopChanged(u, s, g)
  <1>0. TopReplaced(u, s, g)
    BY ReplacesTop
  <1>1. /\ u \in Seq(Frames) /\ Len(u) = Len(s) /\ u # <<>> /\ DOMAIN u = 1..Len(s)
        /\ Len(s) \in Nat \ {0}
        /\ \A k \in 1..Len(s) - 1 : u[k] = s[k]
    BY <1>0 DEF TopReplaced
  <1>2. (\A k \in 1..Len(s) : k = Len(s) => u[k] = g) /\ Last(u) \in {g}
    BY <1>0 DEF TopReplaced
  <1>3. Last(s) = s[Len(s)] /\ DOMAIN s = 1..Len(s)
    BY StackFacts
  <1>4. u[1].list = s[1].list /\ u[1].event = s[1].event
    <2>1. CASE Len(s) = 1
      <3>1. u[1] = g /\ Last(s) = s[1]
        BY <1>1, <1>2, <1>3, <2>1
      <3> QED BY <3>1
    <2>2. CASE Len(s) # 1
      <3>1. 1 \in 1..Len(s) - 1
        BY <2>2, <1>1
      <3>2. u[1] = s[1]
        BY <3>1, <1>1
      <3> QED BY <3>2
    <2> QED BY <2>1, <2>2
  <1>5. \A k \in 1..Len(u) : k # Len(u) => u[k] = s[k] /\ SoundFrame(u[k], FALSE)
    <2> SUFFICES ASSUME NEW k \in 1..Len(s), k # Len(s) PROVE u[k] = s[k] /\ SoundFrame(u[k], FALSE)
      BY <1>1
    <2>0. Len(s) \in Nat /\ DOMAIN s = 1..Len(s)
      BY StackFacts
    <2>1. k \in 1..Len(s) - 1 /\ k \in DOMAIN s
      BY <2>0
    <2>2. u[k] = s[k]
      BY <1>1, <2>1
    <2>3. SoundFrame(s[k], FALSE)
      BY <2>1
    <2> QED BY <2>2, <2>3
  <1>6. \A k \in 1..Len(u) : k = Len(u) => u[k] = g
    BY <1>1, <1>2
  <1>7. u \in Seq(Frames) /\ Len(u) = Len(s) /\ u # <<>> /\ DOMAIN u = 1..Len(u) /\ Len(s) \in Nat \ {0}
    BY <1>1
  <1> QED BY <1>2, <1>4, <1>5, <1>6, <1>7, Zenon DEF TopChanged

\* A command replaces the frame on top by one that is sound, or by one that asks.
LEMMA TopRuns ==
    ASSUME InterpreterAssumption, MapUpdateAssumption, EventsIInv, InLoop,
           NEW g \in Frames, SoundFrame(g, FALSE),
           g.list = Last(Stack).list, g.event = Last(Stack).event,
           NEW u, u = WithTop(Stack, g),
           NEW w, NEW shows, RunnerBecomes(interp', Cur, u, w, shows),
           UNCHANGED <<page, waiting, paused>>, switches' \in [Switches -> BOOLEAN],
           active' \in [Parallel -> BOOLEAN], \A e \in Parallel : active'[e] => active[e],
           window' \in Windows,
           window' = window \/ (window.at # "choice" /\ window'.at # "choice")
    PROVE  Core'
  <1>1. PICK r \in Runners : interp' = [interp EXCEPT ![Cur] = r] /\ r.stack = u
    BY DEF RunnerBecomes
  <1>3. /\ Cur \in Interpreters /\ ~Asks(Cur) /\ Stack # <<>> /\ Len(Stack) <= CallStackLimit + 1
        /\ Stack \in Seq(Frames) /\ \A k \in DOMAIN Stack : SoundFrame(Stack[k], FALSE)
    BY InLoopFacts
  <1>2. /\ Len(u) = Len(Stack) /\ u # <<>> /\ DOMAIN u = 1..Len(u)
        /\ u[1].list = Stack[1].list /\ u[1].event = Stack[1].event
        /\ \A k \in 1..Len(u) : k # Len(u) => SoundFrame(u[k], FALSE)
        /\ \A k \in 1..Len(u) : k = Len(u) => u[k] = g
    <2>1. TopChanged(u, Stack, g)
      BY <1>3, TopOf
    <2> QED BY <2>1, Zenon DEF TopChanged
  <1>4. \A k \in DOMAIN u : SoundFrame(u[k], FALSE)
    BY <1>2, Zenon
  <1>5. Stack = interp[Cur].stack
    BY DEF Stack
  <1>6. Len(r.stack) <= CallStackLimit + 1 /\ (r.stack = <<>> <=> Stack = <<>>)
    BY <1>1, <1>2, <1>3
  <1>7. r.stack # <<>> => r.stack[1].list = Stack[1].list /\ r.stack[1].event = Stack[1].event
    BY <1>1, <1>2
  <1>8. \A k \in DOMAIN r.stack : SoundFrame(r.stack[k], FALSE)
    BY <1>1, <1>4
  <1> QED BY <1>1, <1>3, <1>5, <1>6, <1>7, <1>8, KeepsRunning DEF EventsIInv

\* What a step within the loop may change of the frame.
LEMMA LoopFlow ==
    ASSUME MapUpdateAssumption, EventsIInv, doing # "idle", doing' \in {"loop", "left"},
           loops' \in 0..LoopLimit, needRefresh' \in BOOLEAN, requested' \in BOOLEAN,
           aborted' \in BOOLEAN, async' \in {"none", "screen"} \cup Switches,
           async' # "none" => Stack' # <<>>,
           UNCHANGED <<turn, updated>>
    PROVE  Flow'
  <1>1. FlowTyped'
    BY DEF EventsIInv, Flow, FlowTyped, Phases
  <1>2. TurnsInOrder'
    BY DEF EventsIInv, Flow, TurnsInOrder
  <1>3. SuspendedOnTop'
    BY DEF SuspendedOnTop
  <1> QED BY <1>1, <1>2, <1>3 DEF Flow

\* A command that leaves a sound frame on top keeps everything.
LEMMA CommandKeeps ==
    ASSUME InterpreterAssumption, MapUpdateAssumption, EventsIInv, InLoop,
           NEW g \in Frames, SoundFrame(g, FALSE),
           g.list = Last(Stack).list, g.event = Last(Stack).event,
           NEW w, NEW shows, RunnerBecomes(interp', Cur, WithTop(Stack, g), w, shows),
           UNCHANGED <<page, waiting, paused, turn, updated>>,
           switches' \in [Switches -> BOOLEAN],
           active' \in [Parallel -> BOOLEAN], \A e \in Parallel : active'[e] => active[e],
           window' \in Windows,
           window' = window \/ (window.at # "choice" /\ window'.at # "choice"),
           doing' \in {"loop", "left"}, loops' \in 0..LoopLimit, needRefresh' \in BOOLEAN,
           requested' \in BOOLEAN, aborted' \in BOOLEAN,
           async' \in {"none", "screen"} \cup Switches
    PROVE  EventsIInv'
  <1> DEFINE u == WithTop(Stack, g)
  <1>1. Core'
    BY TopRuns
  <1>2. PICK r \in Runners : interp' = [interp EXCEPT ![Cur] = r] /\ r.stack = u
    BY DEF RunnerBecomes
  <1>3. /\ Cur \in Interpreters /\ Stack # <<>> /\ Stack \in Seq(Frames) /\ doing = "loop"
        /\ \A k \in DOMAIN Stack : SoundFrame(Stack[k], FALSE)
    BY InLoopFacts
  <1>4. u # <<>>
    <2>1. TopChanged(u, Stack, g)
      BY <1>3, TopOf
    <2> QED BY <2>1 DEF TopChanged
  <1> HIDE DEF u
  <1>5. Stack' # <<>>
    <2>1. Cur' = Cur /\ DOMAIN interp = Interpreters
      BY RunnerFacts DEF Cur, EventsIInv, Core, CoreTyped
    <2>2. interp'[Cur] = r
      BY <1>2, <1>3, <2>1
    <2> QED BY <1>2, <1>4, <2>1, <2>2 DEF Stack
  <1>6. Flow'
    BY <1>3, <1>5, LoopFlow
  <1> QED BY <1>1, <1>6 DEF EventsIInv

LEMMA TypedFacts ==
    ASSUME EventsIInv
    PROVE  /\ switches \in [Switches -> BOOLEAN] /\ needRefresh \in BOOLEAN
           /\ active \in [Parallel -> BOOLEAN] /\ waiting \in [Parallel -> BOOLEAN]
           /\ paused \in [Parallel -> BOOLEAN] /\ window \in Windows
           /\ requested \in BOOLEAN /\ aborted \in BOOLEAN /\ loops \in 0..LoopLimit
           /\ async \in {"none", "screen"} \cup Switches /\ updated \subseteq Parallel
           /\ page \in [Parallel -> Nat] /\ \A e \in Parallel : page[e] \in 0..Len(Pages[e])
           /\ interp \in [Interpreters -> Runners]
  BY DEF EventsIInv, Core, CoreTyped, Flow, FlowTyped

\* What a command begins with.
LEMMA NextIsFacts ==
    ASSUME InterpreterAssumption, MapUpdateAssumption, EventsIInv, NEW codes, NextIs(codes)
    PROVE  /\ InLoop /\ Com.code \in codes /\ Last(Stack) \in Frames /\ SoundFrame(Last(Stack), FALSE)
           /\ ~Finished(Last(Stack)) /\ needRefresh = FALSE
           /\ CommandAt(Last(Stack)) = Com
           /\ Last(Stack).list \in DOMAIN Code
           /\ Com \in Range(Code[Last(Stack).list])
  <1>1. InLoop /\ Com.code \in codes /\ ~Finished(Last(Stack)) /\ ~needRefresh
    BY DEF NextIs, Ready
  <1>2. Last(Stack) \in Frames /\ SoundFrame(Last(Stack), FALSE)
    BY <1>1, InLoopFacts
  <1> DEFINE f == Last(Stack)
  <1>3. f.list \in DOMAIN Code /\ f.pc \in 1..Len(Code[f.list]) /\ CommandAt(f) = Code[f.list][f.pc]
    BY <1>1, <1>2, FrameFacts DEF SoundFrame
  <1>4. DOMAIN Code[f.list] = 1..Len(Code[f.list])
    BY <1>3, ListFacts
  <1>5. CommandAt(f) \in Range(Code[f.list])
    BY <1>3, <1>4 DEF Range
  <1>6. needRefresh = FALSE
    BY <1>1, TypedFacts
  <1> QED BY <1>1, <1>2, <1>3, <1>5, <1>6 DEF Com

LEMMA Continues ==
    ASSUME InterpreterAssumption, MapUpdateAssumption, EventsIInv, InLoop, NEW g \in Frames,
           g.list = Last(Stack).list, g.event = Last(Stack).event,
           Continue(g) \/ LeaveWith(g)
    PROVE  /\ RunnerBecomes(interp', Cur, WithTop(Stack, g), interp[Cur].wait, FALSE)
           /\ doing' \in {"loop", "left"} /\ loops' \in 0..LoopLimit
  <1>1. /\ Cur \in Interpreters /\ Stack # <<>> /\ Stack \in Seq(Frames) /\ loops + 1 \in 0..LoopLimit
        /\ \A k \in DOMAIN Stack : SoundFrame(Stack[k], FALSE)
    BY InLoopFacts
  <1>2. TopReplaced(WithTop(Stack, g), Stack, g)
    BY <1>1, ReplacesTop
  <1>3. WithTop(Stack, g) \in Seq(Frames)
    BY <1>2 DEF TopReplaced
  <1>4. interp' = [interp EXCEPT ![Cur].stack = WithTop(Stack, g), ![Cur].showMessage = FALSE]
    BY DEF Continue, LeaveWith, WithTop, Stack
  <1>5. RunnerBecomes(interp', Cur, WithTop(Stack, g), interp[Cur].wait, FALSE)
    BY <1>1, <1>3, <1>4, ExceptStack, TypedFacts DEF EventsIInv, Core
  <1>6. doing' \in {"loop", "left"} /\ loops' \in 0..LoopLimit
    BY <1>1, TypedFacts DEF Continue, LeaveWith
  <1> QED BY <1>5, <1>6

LEMMA MoveKeeps ==
    ASSUME InterpreterAssumption, MapUpdateAssumption, EventsIInv, Move
    PROVE  EventsIInv'
  <1> DEFINE codes == {"ConditionalBranch", "ElseBranch", "EndBranch", "ShowChoiceOption",
                 "ShowChoiceEnd", "Label", "JumpToLabel", "Loop", "BreakLoop", "EndLoop",
                 "EndEventProcessing"}
             f == Last(Stack)
  <1>0. NextIs(codes)
    BY DEF Move
  <1>1. /\ InLoop /\ Com.code \in codes /\ f \in Frames /\ SoundFrame(f, FALSE)
        /\ ~Finished(f) /\ CommandAt(f) = Com
    <2> HIDE DEF codes
    <2> QED BY <1>0, NextIsFacts
  <1>2. PICK holds \in BOOLEAN : Continue(Movement(f, holds))
    BY DEF Move
  <1> DEFINE g == Movement(f, holds)
  <1>3. g \in Frames /\ SoundFrame(g, FALSE) /\ g.list = f.list /\ g.event = f.event
    BY <1>1, MovementSound
  <1>4. Continue(g)
    BY <1>2
  <1>5. UNCHANGED <<mapVars, window, requested, turn, async, updated, aborted>>
    BY DEF Move
  <1> HIDE DEF g, codes
  <1>6. /\ RunnerBecomes(interp', Cur, WithTop(Stack, g), interp[Cur].wait, FALSE)
        /\ doing' \in {"loop", "left"} /\ loops' \in 0..LoopLimit
    BY <1>1, <1>3, <1>4, Continues
  <1> QED
    BY <1>1, <1>3, <1>5, <1>6, CommandKeeps, TypedFacts DEF mapVars

LEMMA ArgumentFacts ==
    ASSUME MapUpdateAssumption, NEW l \in DOMAIN Code, NEW c \in Range(Code[l])
    PROVE  /\ c.code = "ControlSwitches" => c.arg[1] \in Switches /\ c.arg[2] \in BOOLEAN
           /\ c.code = "Wait" => c.arg \in Nat
           /\ c.code = "Save" => c.arg \in Switches
           /\ c.code = "CallEvent" => /\ c.arg.list \in DOMAIN Code
                                      /\ c.arg.event \in Callers
  <1>1. (CASE c.code = "ControlSwitches" -> c.arg[1] \in Switches /\ c.arg[2] \in BOOLEAN
          [] c.code = "Wait" -> c.arg \in Nat
          [] c.code = "Save" -> c.arg \in Switches
          [] c.code = "CallEvent" -> /\ c.arg.list \in DOMAIN Code
                                     /\ c.arg.event \in Range(MapEvents) \cup {NoEvent}
          [] OTHER -> TRUE)
    BY DEF MapUpdateAssumption
  <1>2. c.code = "ControlSwitches" => c.arg[1] \in Switches /\ c.arg[2] \in BOOLEAN
    BY <1>1
  <1>3. c.code = "Wait" => c.arg \in Nat
    BY <1>1
  <1>4. c.code = "Save" => c.arg \in Switches
    BY <1>1
  <1>5. c.code = "CallEvent" => c.arg.list \in DOMAIN Code /\ c.arg.event \in Callers
    BY <1>1 DEF Callers
  <1> QED BY <1>2, <1>3, <1>4, <1>5

\* Most commands only move on.
LEMMA NextSound ==
    ASSUME InterpreterAssumption, MapUpdateAssumption, EventsIInv, NEW codes, NextIs(codes),
           codes \cap (Heads \cup Decisions) = {}
    PROVE  LET f == Last(Stack) IN
           /\ Next1(f) \in Frames /\ SoundFrame(Next1(f), FALSE)
           /\ Next1(f).list = f.list /\ Next1(f).event = f.event
  <1> DEFINE f == Last(Stack)
  <1>1. /\ Com.code \in codes /\ f \in Frames /\ SoundFrame(f, FALSE)
        /\ ~Finished(f) /\ CommandAt(f) = Com
    BY NextIsFacts
  <1>2. CommandAt(f).code \notin Heads \cup Decisions
    BY <1>1
  <1> HIDE DEF f
  <1>3. /\ Next1(f) \in Frames /\ SoundFrame(Next1(f), FALSE)
        /\ Next1(f).list = f.list /\ Next1(f).event = f.event
    BY <1>1, <1>2, MovedNext
  <1> QED BY <1>3 DEF f

LEMMA ControlSwitchesKeeps ==
    ASSUME InterpreterAssumption, MapUpdateAssumption, EventsIInv, ControlSwitches
    PROVE  EventsIInv'
  <1> DEFINE f == Last(Stack)
             g == Next1(Last(Stack))
             codes == {"ControlSwitches"}
  <1>0. NextIs(codes) /\ codes \cap (Heads \cup Decisions) = {}
    BY DEF ControlSwitches, Heads, Decisions, Options
  <1>1. /\ InLoop /\ Com.code = "ControlSwitches" /\ f.list \in DOMAIN Code /\ Com \in Range(Code[f.list])
        /\ g \in Frames /\ SoundFrame(g, FALSE) /\ g.list = f.list /\ g.event = f.event
    <2> Com.code \in codes => Com.code = "ControlSwitches"
      OBVIOUS
    <2> HIDE DEF codes
    <2> QED BY <1>0, NextIsFacts, NextSound
  <1>2. Com.arg[1] \in Switches /\ Com.arg[2] \in BOOLEAN
    BY <1>1, ArgumentFacts
  <1>3. Continue(g) /\ needRefresh' = TRUE
        /\ UNCHANGED <<page, active, waiting, paused, window, requested, turn, async, updated, aborted>>
    BY DEF ControlSwitches
  <1>4. switches' \in [Switches -> BOOLEAN]
    BY <1>2, TypedFacts DEF ControlSwitches
  <1> HIDE DEF g
  <1>6. /\ RunnerBecomes(interp', Cur, WithTop(Stack, g), interp[Cur].wait, FALSE)
        /\ doing' \in {"loop", "left"} /\ loops' \in 0..LoopLimit
    BY <1>1, <1>3, Continues
  <1> QED
    BY <1>1, <1>3, <1>4, <1>6, CommandKeeps, TypedFacts

LEMMA WaitKeeps ==
    ASSUME InterpreterAssumption, MapUpdateAssumption, EventsIInv, Wait
    PROVE  EventsIInv'
  <1> DEFINE f == Last(Stack)
             g == Next1(Last(Stack))
             codes == {"Wait"}
  <1>0. NextIs(codes) /\ codes \cap (Heads \cup Decisions) = {}
    BY DEF Wait, Heads, Decisions, Options
  <1>1. /\ InLoop /\ Com.code = "Wait" /\ f.list \in DOMAIN Code /\ Com \in Range(Code[f.list])
        /\ g \in Frames /\ SoundFrame(g, FALSE) /\ g.list = f.list /\ g.event = f.event
    <2> Com.code \in codes => Com.code = "Wait"
      OBVIOUS
    <2> HIDE DEF codes
    <2> QED BY <1>0, NextIsFacts, NextSound
  <1>2. Com.arg \in Nat
    BY <1>1, ArgumentFacts
  <1>3. /\ Cur \in Interpreters /\ Stack # <<>> /\ Stack \in Seq(Frames) /\ loops + 1 \in 0..LoopLimit
        /\ doing = "loop"
    BY <1>1, InLoopFacts
  <1>4. interp' = [interp EXCEPT ![Cur].stack = WithTop(Stack, g), ![Cur].wait = Com.arg,
                                 ![Cur].showMessage = FALSE]
    BY DEF Wait, WithTop, Stack
  <1>5. loops' \in 0..LoopLimit /\ doing' \in {"loop", "left"}
        /\ UNCHANGED <<mapVars, window, requested, turn, async, updated, aborted>>
    BY <1>3 DEF Wait
  <1> HIDE DEF g
  <1>7. WithTop(Stack, g) \in Seq(Frames)
    <2>1. TopReplaced(WithTop(Stack, g), Stack, g)
      BY <1>1, <1>3, ReplacesTop
    <2> QED BY <2>1 DEF TopReplaced
  <1>6. RunnerBecomes(interp', Cur, WithTop(Stack, g), Com.arg, FALSE)
    BY <1>2, <1>3, <1>4, <1>7, ExceptStack DEF EventsIInv, Core
  <1> QED
    BY <1>1, <1>5, <1>6, CommandKeeps, TypedFacts DEF mapVars

LEMMA EraseEventKeeps ==
    ASSUME InterpreterAssumption, MapUpdateAssumption, EventsIInv, EraseEvent
    PROVE  EventsIInv'
  <1> DEFINE f == Last(Stack)
             g == Next1(Last(Stack))
  <1>0. NextIs({"EraseEvent"}) /\ {"EraseEvent"} \cap (Heads \cup Decisions) = {}
    BY DEF EraseEvent, Heads, Decisions, Options
  <1>1. /\ InLoop /\ g \in Frames /\ SoundFrame(g, FALSE) /\ g.list = f.list /\ g.event = f.event
    BY <1>0, NextIsFacts, NextSound
  <1>3. Continue(g) \/ LeaveWith(g)
    BY DEF EraseEvent
  <1>4. active' = active \/ \E e \in Parallel \cup {NoEvent} : active' = [active EXCEPT ![e] = FALSE]
    <2>1. f \in Frames
      BY <1>0, NextIsFacts
    <2>2. f.event \in Parallel \cup {NoEvent}
      BY <2>1 DEF Frames, Callers, Parallel
    <2> QED BY <2>2 DEF EraseEvent
  <1>5. active' \in [Parallel -> BOOLEAN] /\ \A e \in Parallel : active'[e] => active[e]
    BY <1>4, TypedFacts
  <1>6. UNCHANGED <<switches, needRefresh, page, waiting, paused, window, requested, turn, async,
                    updated, aborted>>
    BY DEF EraseEvent
  <1> HIDE DEF g
  <1>7. /\ RunnerBecomes(interp', Cur, WithTop(Stack, g), interp[Cur].wait, FALSE)
        /\ doing' \in {"loop", "left"} /\ loops' \in 0..LoopLimit
    BY <1>1, <1>3, Continues
  <1> QED
    BY <1>1, <1>5, <1>6, <1>7, CommandKeeps, TypedFacts

LEMMA AsyncCommandKeeps ==
    ASSUME InterpreterAssumption, MapUpdateAssumption, EventsIInv, AsyncCommand
    PROVE  EventsIInv'
  <1> DEFINE f == Last(Stack)
             codes == {"EraseScreen", "Save"}
  <1>0. NextIs(codes) /\ codes \cap (Heads \cup Decisions) = {}
    BY DEF AsyncCommand, Heads, Decisions, Options
  <1> HIDE DEF codes
  <1>1. /\ InLoop /\ f.list \in DOMAIN Code /\ Com \in Range(Code[f.list])
        /\ f \in Frames /\ SoundFrame(f, FALSE)
    BY <1>0, NextIsFacts
  <1>2. PICK g \in {f, Next1(f)} : Continue(g) \/ LeaveWith(g)
    BY DEF AsyncCommand
  <1>3. g \in Frames /\ SoundFrame(g, FALSE) /\ g.list = f.list /\ g.event = f.event
    BY <1>0, <1>1, <1>2, NextSound
  <1>4. async' \in {"none", "screen"} \cup Switches
    BY <1>1, ArgumentFacts, TypedFacts DEF AsyncCommand
  <1>5. UNCHANGED <<mapVars, window, requested, turn, updated, aborted>>
    BY DEF AsyncCommand
  <1>6. /\ RunnerBecomes(interp', Cur, WithTop(Stack, g), interp[Cur].wait, FALSE)
        /\ doing' \in {"loop", "left"} /\ loops' \in 0..LoopLimit
    BY <1>1, <1>2, <1>3, Continues
  <1> QED
    BY <1>1, <1>3, <1>4, <1>5, <1>6, CommandKeeps, TypedFacts DEF mapVars

LEMMA CallSceneKeeps ==
    ASSUME InterpreterAssumption, MapUpdateAssumption, EventsIInv, CallScene
    PROVE  EventsIInv'
  <1> DEFINE f == Last(Stack)
             codes == {"CallScene"}
  <1>0. NextIs(codes) /\ codes \cap (Heads \cup Decisions) = {}
    BY DEF CallScene, Heads, Decisions, Options
  <1> HIDE DEF codes
  <1>1. InLoop /\ f \in Frames /\ SoundFrame(f, FALSE)
    BY <1>0, NextIsFacts
  <1>2. PICK g \in {f, Next1(f)} : LeaveWith(g)
    BY DEF CallScene
  <1>3. g \in Frames /\ SoundFrame(g, FALSE) /\ g.list = f.list /\ g.event = f.event
    BY <1>0, <1>1, <1>2, NextSound
  <1>4. requested' \in BOOLEAN
    BY TypedFacts DEF CallScene
  <1>5. UNCHANGED <<mapVars, window, async, turn, updated, aborted>>
    BY DEF CallScene
  <1>6. /\ RunnerBecomes(interp', Cur, WithTop(Stack, g), interp[Cur].wait, FALSE)
        /\ doing' \in {"loop", "left"} /\ loops' \in 0..LoopLimit
    BY <1>1, <1>2, <1>3, Continues
  <1> QED
    BY <1>1, <1>3, <1>4, <1>5, <1>6, CommandKeeps, TypedFacts DEF mapVars

\* A call puts its commands on top of the frame that calls.
LEMMA CallEventKeeps ==
    ASSUME InterpreterAssumption, MapUpdateAssumption, EventsIInv, CallEvent
    PROVE  EventsIInv'
  <1> DEFINE f == Last(Stack)
             g == Next1(Last(Stack))
             codes == {"CallEvent"}
             list == Com.arg.list
             event == Com.arg.event
  <1>0. NextIs(codes) /\ codes \cap (Heads \cup Decisions) = {}
    BY DEF CallEvent, Heads, Decisions, Options
  <1>1. /\ InLoop /\ Com.code = "CallEvent" /\ f.list \in DOMAIN Code /\ Com \in Range(Code[f.list])
        /\ g \in Frames /\ SoundFrame(g, FALSE) /\ g.list = f.list /\ g.event = f.event
    <2> Com.code \in codes => Com.code = "CallEvent"
      OBVIOUS
    <2> HIDE DEF codes
    <2> QED BY <1>0, NextIsFacts, NextSound
  <1>2. list \in DOMAIN Code /\ event \in Callers
    BY <1>1, ArgumentFacts
  <1>3. /\ Cur \in Interpreters /\ Stack # <<>> /\ Stack \in Seq(Frames) /\ loops + 1 \in 0..LoopLimit
        /\ doing = "loop" /\ ~Asks(Cur) /\ async = "none" /\ Len(Stack) \in Nat \ {0}
        /\ \A k \in DOMAIN Stack : SoundFrame(Stack[k], FALSE)
    BY <1>1, InLoopFacts
  <1>4. UNCHANGED <<mapVars, window, requested, doing, turn, async, stopped, updated>>
    BY DEF CallEvent
  <1>5. /\ switches' \in [Switches -> BOOLEAN] /\ needRefresh' \in BOOLEAN /\ requested' \in BOOLEAN
        /\ async' \in {"none", "screen"} \cup Switches /\ active' \in [Parallel -> BOOLEAN]
        /\ active' = active /\ window' \in Windows /\ doing' \in {"loop", "left"}
        /\ async' = "none"
    BY <1>3, <1>4, TypedFacts DEF mapVars
  <1>6. CASE aborted' = TRUE /\ UNCHANGED <<interp, loops>>
    <2>1. Core'
      BY <1>4, <1>5, <1>6, CoreStays DEF EventsIInv, mapVars
    <2>2. Flow'
      BY <1>3, <1>4, <1>5, <1>6, LoopFlow, TypedFacts
    <2> QED BY <2>1, <2>2 DEF EventsIInv
  <1> DEFINE calling == WithTop(Stack, g)
             pushed == IF Code[list] = <<>> THEN calling ELSE Append(calling, NewFrame(list, event))
  <1>7. CASE /\ ~(Code[list] # <<>> /\ Len(Stack) > CallStackLimit)
             /\ interp' = [interp EXCEPT ![Cur].stack = pushed, ![Cur].showMessage = FALSE]
             /\ loops' = loops + 1 /\ UNCHANGED aborted
    <2>1. TopChanged(calling, Stack, g)
      <3> HIDE DEF g
      <3> QED BY <1>1, <1>3, TopOf
    <2> HIDE DEF calling, g
    <2>2. loops' \in 0..LoopLimit /\ aborted' \in BOOLEAN
      BY <1>3, <1>7, TypedFacts
    <2>3. calling \in Seq(Frames)
      BY <2>1 DEF TopChanged
    <2>4. CASE Code[list] = <<>>
      <3>1. interp' = [interp EXCEPT ![Cur].stack = calling, ![Cur].showMessage = FALSE]
        BY <2>4, <1>7
      <3>2. RunnerBecomes(interp', Cur, WithTop(Stack, g), interp[Cur].wait, FALSE)
        BY <1>3, <2>3, <3>1, ExceptStack DEF EventsIInv, Core, calling
      <3> QED BY <1>1, <1>4, <1>5, <2>2, <3>2, CommandKeeps DEF mapVars
    <2>5. CASE Code[list] # <<>>
      <3> DEFINE new == NewFrame(list, event)
                 s == Append(calling, new)
      <3>1. new \in Frames /\ SoundFrame(new, FALSE)
        BY <1>2, NewFrameSound
      <3> HIDE DEF new
      <3>2. /\ s \in Seq(Frames) /\ Len(s) = Len(calling) + 1
            /\ \A k \in 1..Len(calling) : s[k] = calling[k]
            /\ s[Len(calling) + 1] = new
        BY <2>3, <3>1, AppendProperties
      <3>3. interp' = [interp EXCEPT ![Cur].stack = s, ![Cur].showMessage = FALSE]
        BY <2>5, <1>7 DEF new
      <3> HIDE DEF s
      <3>4. RunnerBecomes(interp', Cur, s, interp[Cur].wait, FALSE)
        BY <1>3, <3>2, <3>3, ExceptStack DEF EventsIInv, Core
      <3>5. PICK r \in Runners : interp' = [interp EXCEPT ![Cur] = r] /\ r.stack = s
        BY <3>4 DEF RunnerBecomes
      <3>6. Len(calling) = Len(Stack) /\ Len(calling) \in Nat \ {0}
        BY <1>3, <2>1 DEF TopChanged
      <3>7. Len(s) <= CallStackLimit + 1 /\ s # <<>> /\ DOMAIN s = 1..Len(calling) + 1
        <4>1. Len(Stack) <= CallStackLimit
          BY <1>3, <1>7, <2>5 DEF MapUpdateAssumption
        <4>2. CallStackLimit \in Nat
          BY DEF MapUpdateAssumption
        <4>3. Len(s) # 0 /\ DOMAIN s = 1..Len(s)
          BY <3>2, <3>6, LenProperties
        <4> QED BY <4>1, <4>2, <4>3, <3>2, <3>6, <1>3, EmptySeq
      <3>8. s[1].list = Stack[1].list /\ s[1].event = Stack[1].event
        <4>1. s[1] = calling[1]
          BY <3>2, <3>6
        <4> QED BY <4>1, <2>1 DEF TopChanged
      <3>9. \A k \in DOMAIN s : SoundFrame(s[k], FALSE)
        <4> SUFFICES ASSUME NEW k \in 1..Len(calling) + 1 PROVE SoundFrame(s[k], FALSE)
          BY <3>7
        <4>1. CASE k = Len(calling) + 1
          BY <4>1, <3>1, <3>2
        <4>2. CASE k # Len(calling) + 1
          <5>1. k \in 1..Len(calling)
            BY <4>2, <3>6
          <5>2. SoundFrame(calling[k], FALSE)
            <6>1. CASE k = Len(calling)
              BY <5>1, <6>1, <2>1, <1>1 DEF TopChanged
            <6>2. CASE k # Len(calling)
              BY <5>1, <6>2, <2>1, Zenon DEF TopChanged
            <6> QED BY <6>1, <6>2
          <5>3. s[k] = calling[k]
            BY <3>2, <5>1
          <5> QED BY <5>2, <5>3
        <4> QED BY <4>1, <4>2
      <3>10. Stack = interp[Cur].stack
        BY DEF Stack
      <3>11. Core'
        <4>1. Len(r.stack) <= CallStackLimit + 1 /\ (r.stack = <<>> <=> interp[Cur].stack = <<>>)
          BY <1>3, <3>5, <3>7, <3>10
        <4>2. r.stack # <<>> => /\ r.stack[1].list = interp[Cur].stack[1].list
                                /\ r.stack[1].event = interp[Cur].stack[1].event
          BY <3>5, <3>8, <3>10
        <4>3. \A k \in DOMAIN r.stack : SoundFrame(r.stack[k], FALSE)
          BY <3>5, <3>9
        <4>4. UNCHANGED <<page, waiting, paused, window>>
          BY <1>4 DEF mapVars
        <4> QED BY <1>3, <1>5, <3>5, <4>1, <4>2, <4>3, <4>4, KeepsRunning DEF EventsIInv
      <3>12. Flow'
        BY <1>3, <1>4, <1>5, <2>2, LoopFlow
      <3> QED BY <3>11, <3>12 DEF EventsIInv
    <2> QED BY <2>4, <2>5
  <1>8. \/ aborted' = TRUE /\ UNCHANGED <<interp, loops>>
        \/ /\ ~(Code[list] # <<>> /\ Len(Stack) > CallStackLimit)
           /\ interp' = [interp EXCEPT ![Cur].stack = pushed, ![Cur].showMessage = FALSE]
           /\ loops' = loops + 1 /\ UNCHANGED aborted
    <2>1. calling = Append(Front(Stack), Next1(Last(Stack)))
      BY DEF WithTop
    <2> QED BY <2>1 DEF CallEvent
  <1> QED BY <1>6, <1>7, <1>8

\* A question leaves on top the frame that asks, which waits.
LEMMA QuestionAsked ==
    ASSUME InterpreterAssumption, MapUpdateAssumption, EventsIInv, InLoop, window.at # "choice",
           NEW f \in Frames, SoundFrame(f, FALSE), ~Finished(f), CommandAt(f).code = "ShowChoice",
           f.list = Last(Stack).list, f.event = Last(Stack).event,
           window' = Opened(f),
           NEW w, RunnerBecomes(interp', Cur, WithTop(Stack, Next1(f)), w, TRUE),
           UNCHANGED <<mapVars, turn, updated>>,
           doing' \in {"loop", "left"}, loops' \in 0..LoopLimit,
           requested' \in BOOLEAN, aborted' \in BOOLEAN, async' = "none"
    PROVE  EventsIInv'
  <1> DEFINE g == Next1(f)
             u == WithTop(Stack, g)
  <1>1. g \in Frames /\ SoundFrame(g, TRUE) /\ g.list = f.list /\ g.event = f.event /\ g.pc = f.pc + 1
    BY QuestionPassed
  <1> HIDE DEF g
  <1>2. /\ Cur \in Interpreters /\ Stack # <<>> /\ Stack \in Seq(Frames) /\ doing = "loop" /\ ~Asks(Cur)
        /\ Len(Stack) \in Nat \ {0} /\ Len(Stack) <= CallStackLimit + 1
        /\ \A k \in DOMAIN Stack : SoundFrame(Stack[k], FALSE)
    BY InLoopFacts
  <1>3. TopChanged(u, Stack, g)
    BY <1>1, <1>2, TopOf
  <1>4. PICK r \in Runners : interp' = [interp EXCEPT ![Cur] = r] /\ r.stack = u /\ r.showMessage = TRUE
    BY DEF RunnerBecomes, g
  <1> HIDE DEF u
  <1>5. /\ f.list \in DOMAIN Code /\ f.pc \in 1..Len(Code[f.list]) /\ f.pc \in Nat
        /\ DOMAIN Code[f.list] = 1..Len(Code[f.list])
        /\ CommandAt(f) = Code[f.list][f.pc] /\ CommandAt(f).indent \in Int
    BY FrameFacts, ListFacts DEF SoundFrame
  <1>6. /\ window'.at = "choice" /\ window'.by = Cur /\ window'.indent = CommandAt(f).indent
        /\ window'.asked = <<f.list, f.pc>>
    BY DEF Opened
  <1>7. window' \in Windows
    <2>1. <<f.list, f.pc>> \in Seq(DOMAIN Code \cup Nat)
      BY <1>5
    <2>2. window' = [at |-> "choice", by |-> Cur, indent |-> CommandAt(f).indent, asked |-> <<f.list, f.pc>>]
      BY DEF Opened
    <2> QED BY <1>2, <1>5, <2>1, <2>2 DEF Windows
  <1>8. Asks(Cur)' /\ \A j \in Interpreters \ {Cur} : Asks(j)' = Asks(j)
    <2>1. Cur' = Cur
      BY DEF Cur
    <2> QED BY <1>6, <2>1 DEF Asks
  <1>9. /\ Len(u) = Len(Stack) /\ u # <<>> /\ DOMAIN u = 1..Len(u)
        /\ u[1].list = Stack[1].list /\ u[1].event = Stack[1].event /\ Last(u) \in {g}
    BY <1>3 DEF TopChanged
  <1>10. \A k \in DOMAIN u : k # Len(u) => SoundFrame(u[k], FALSE)
    BY <1>3, Zenon DEF TopChanged
  <1>11. \A k \in DOMAIN u : k = Len(u) => SoundFrame(u[k], TRUE)
    BY <1>1, <1>3, Zenon DEF TopChanged
  <1>12. \A k \in DOMAIN r.stack : SoundFrame(r.stack[k], Asks(Cur)' /\ k = Len(r.stack))
    <2> SUFFICES ASSUME NEW k \in DOMAIN u
                 PROVE  SoundFrame(u[k], Asks(Cur)' /\ k = Len(u))
      BY <1>4
    <2>1. CASE k = Len(u)
      <3>1. (Asks(Cur)' /\ k = Len(u)) = TRUE
        BY <2>1, <1>8
      <3> QED BY <3>1, <2>1, <1>11
    <2>2. CASE k # Len(u)
      <3>1. (Asks(Cur)' /\ k = Len(u)) = FALSE
        BY <2>2
      <3> QED BY <3>1, <2>2, <1>10
    <2> QED BY <2>1, <2>2
  <1>13. interp'[Cur] = r /\ (\A j \in Interpreters \ {Cur} : interp'[j] = interp[j]) /\ Stack = interp[Cur].stack
    <2>1. DOMAIN interp = Interpreters
      BY TypedFacts
    <2> QED BY <1>2, <1>4, <2>1 DEF Stack
  <1>14. QuestionOpen'
    <2>1. interp'[window'.by].stack = u /\ interp'[window'.by].showMessage
      BY <1>4, <1>6, <1>13
    <2>2. window'.asked[1] = f.list /\ window'.asked[2] = f.pc
      BY <1>6
    <2>3. Last(u) = g /\ f.pc = g.pc - 1 /\ f.list = g.list
      BY <1>1, <1>5, <1>9
    <2> QED BY <1>5, <1>6, <1>9, <2>1, <2>2, <2>3 DEF QuestionOpen
  <1>15. ReleasedByFrame'
    <2> SUFFICES ASSUME \A q \in CommonPages : q.trigger # "auto",
                        NEW e \in Range(MapEvents), active[e], paused[e], ~waiting[e]
                 PROVE  interp'[Foreground].stack # <<>> /\ interp'[Foreground].stack[1].event = e
      BY DEF ReleasedByFrame, mapVars
    <2>1. interp[Foreground].stack # <<>> /\ interp[Foreground].stack[1].event = e
      BY DEF EventsIInv, Core, ReleasedByFrame, Parallel
    <2>2. Foreground \in Interpreters
      BY DEF Interpreters
    <2>3. CASE Foreground = Cur
      BY <2>1, <2>3, <1>4, <1>9, <1>13
    <2>4. CASE Foreground # Cur
      BY <2>1, <2>2, <2>4, <1>13
    <2> QED BY <2>3, <2>4
  <1>16. Core'
    <2>0. PICK i \in Interpreters : i = Cur
      BY <1>2
    <2>4. \A k \in DOMAIN r.stack : SoundFrame(r.stack[k], Asks(i)' /\ k = Len(r.stack))
      <3>1. Asks(i)' = Asks(Cur)'
        BY <2>0 DEF Asks, Cur
      <3> QED BY <3>1, <1>12
    <2>1. Len(r.stack) <= CallStackLimit + 1 /\ (r.stack = <<>> <=> interp[Cur].stack = <<>>)
      BY <1>2, <1>4, <1>9, <1>13
    <2>2. r.stack # <<>> => r.stack[1].list = interp[Cur].stack[1].list
      BY <1>4, <1>9, <1>13
    <2>3. switches' \in [Switches -> BOOLEAN] /\ active' \in [Parallel -> BOOLEAN] /\ paused' \in [Parallel -> BOOLEAN]
          /\ UNCHANGED <<page, waiting>>
      BY TypedFacts DEF mapVars
    <2> QED BY <1>2, <1>4, <1>7, <1>8, <1>14, <1>15, <2>0, <2>1, <2>2, <2>3, <2>4, RunnerChanges DEF EventsIInv
  <1>17. needRefresh' \in BOOLEAN
    BY TypedFacts DEF mapVars
  <1>18. Flow'
    BY <1>2, <1>17, LoopFlow
  <1> QED BY <1>16, <1>18 DEF EventsIInv

\* A text, or nothing, is shown.
LEMMA ShowMessageKeeps ==
    ASSUME InterpreterAssumption, MapUpdateAssumption, EventsIInv, ShowMessage
    PROVE  EventsIInv'
  <1> DEFINE top == Last(Stack)
             f == Next1(Last(Stack))
             codes == {"ShowMessage"}
             with == ~Finished(f) /\ CommandAt(f).code = "ShowChoice"
             new == IF with THEN Next1(f) ELSE f
  <1>0. NextIs(codes) /\ codes \cap (Heads \cup Decisions) = {}
    BY DEF ShowMessage, Heads, Decisions, Options
  <1>1. /\ InLoop /\ Com.code = "ShowMessage" /\ CommandAt(top) = Com
        /\ top \in Frames /\ SoundFrame(top, FALSE)
        /\ f \in Frames /\ SoundFrame(f, FALSE) /\ f.list = top.list /\ f.event = top.event
    <2> Com.code \in codes => Com.code = "ShowMessage"
      OBVIOUS
    <2> HIDE DEF codes
    <2> QED BY <1>0, NextIsFacts, NextSound
  <1>3. /\ Cur \in Interpreters /\ Stack # <<>> /\ Stack \in Seq(Frames) /\ loops + 1 \in 0..LoopLimit
        /\ doing = "loop" /\ async = "none"
    BY <1>1, InLoopFacts
  <1>4. UNCHANGED <<mapVars, requested, turn, async, stopped, updated, aborted>>
    BY DEF ShowMessage
  <1>5. /\ switches' \in [Switches -> BOOLEAN] /\ needRefresh' \in BOOLEAN /\ requested' \in BOOLEAN
        /\ async' \in {"none", "screen"} \cup Switches /\ active' \in [Parallel -> BOOLEAN]
        /\ active' = active /\ aborted' \in BOOLEAN
    BY <1>4, TypedFacts DEF mapVars
  <1>6. CASE CanShowMessage
    <2>1. window.at # "choice"
      BY <1>6 DEF CanShowMessage
    <2>2. /\ window' = IF with THEN Opened(f) ELSE Opened(top)
          /\ interp' = [interp EXCEPT ![Cur].stack = WithTop(Stack, new), ![Cur].showMessage = TRUE]
          /\ loops' = loops + 1 /\ UNCHANGED doing
      BY <1>6 DEF ShowMessage, WithTop, Stack
    <2>3. loops' \in 0..LoopLimit /\ doing' \in {"loop", "left"}
      BY <1>3, <2>2
    <2> HIDE DEF f, top
    <2>4. new \in Frames
      <3>1. CASE with
        BY <1>1, <3>1, QuestionPassed
      <3>2. CASE ~with
        BY <1>1, <3>2
      <3> QED BY <3>1, <3>2
    <2> HIDE DEF new
    <2>5. WithTop(Stack, new) \in Seq(Frames)
      <3>1. TopReplaced(WithTop(Stack, new), Stack, new)
        BY <1>3, <2>4, ReplacesTop
      <3> QED BY <3>1 DEF TopReplaced
    <2>6. RunnerBecomes(interp', Cur, WithTop(Stack, new), interp[Cur].wait, TRUE)
      BY <1>3, <2>2, <2>5, ExceptStack DEF EventsIInv, Core
    <2>7. CASE with
      <3>1. new = Next1(f) /\ window' = Opened(f) /\ ~Finished(f) /\ CommandAt(f).code = "ShowChoice"
        BY <2>2, <2>7 DEF new
      <3>2. async' = "none"
        BY <1>3, <1>4
      <3>3. f.list = Last(Stack).list /\ f.event = Last(Stack).event
        BY <1>1 DEF top
      <3>4. RunnerBecomes(interp', Cur, WithTop(Stack, Next1(f)), interp[Cur].wait, TRUE)
        BY <2>6, <3>1
      <3> HIDE DEF with
      <3> QED BY <1>1, <1>4, <1>5, <2>1, <2>3, <3>1, <3>2, <3>3, <3>4, QuestionAsked
    <2>8. CASE ~with
      <3>1. new = f /\ window' = Opened(top)
        BY <2>2, <2>8 DEF new
      <3>2. window' = [NoWindow EXCEPT !.at = "text", !.by = Cur]
        BY <1>1, <3>1 DEF Opened
      <3>3. window' \in Windows /\ window'.at # "choice"
        <4>1. window' = [at |-> "text", by |-> Cur, indent |-> 0, asked |-> <<>>]
          BY <3>2 DEF NoWindow
        <4>2. <<>> \in Seq(DOMAIN Code \cup Nat)
          OBVIOUS
        <4> QED BY <1>3, <4>1, <4>2 DEF Windows
      <3>4. f.list = Last(Stack).list /\ f.event = Last(Stack).event
        BY <1>1 DEF top
      <3>5. RunnerBecomes(interp', Cur, WithTop(Stack, f), interp[Cur].wait, TRUE)
        BY <2>6, <3>1
      <3> HIDE DEF with
      <3> QED BY <1>1, <1>4, <1>5, <2>1, <2>3, <3>3, <3>4, <3>5, CommandKeeps DEF mapVars
    <2> QED BY <2>7, <2>8
  <1>7. CASE ~CanShowMessage
    <2>1. LeaveWith(top) /\ UNCHANGED window
      BY <1>7 DEF ShowMessage
    <2>2. /\ RunnerBecomes(interp', Cur, WithTop(Stack, top), interp[Cur].wait, FALSE)
          /\ doing' \in {"loop", "left"} /\ loops' \in 0..LoopLimit
      BY <1>1, <2>1, Continues
    <2>3. window' \in Windows
      BY <2>1, TypedFacts
    <2> QED BY <1>1, <1>4, <1>5, <2>1, <2>2, <2>3, CommandKeeps DEF mapVars
  <1> QED BY <1>6, <1>7

LEMMA ShowChoicesKeeps ==
    ASSUME InterpreterAssumption, MapUpdateAssumption, EventsIInv, ShowChoices
    PROVE  EventsIInv'
  <1> DEFINE f == Last(Stack)
             codes == {"ShowChoice"}
  <1>0. NextIs(codes)
    BY DEF ShowChoices
  <1>1. /\ InLoop /\ CommandAt(f).code = "ShowChoice" /\ ~Finished(f)
        /\ f \in Frames /\ SoundFrame(f, FALSE)
    <2> Com.code \in codes => Com.code = "ShowChoice"
      OBVIOUS
    <2> HIDE DEF codes
    <2> QED BY <1>0, NextIsFacts
  <1>3. /\ Cur \in Interpreters /\ Stack # <<>> /\ Stack \in Seq(Frames)
        /\ doing = "loop" /\ async = "none"
    BY <1>1, InLoopFacts
  <1>4. UNCHANGED <<mapVars, requested, turn, async, stopped, updated, aborted>>
    BY DEF ShowChoices
  <1>5. /\ switches' \in [Switches -> BOOLEAN] /\ needRefresh' \in BOOLEAN /\ requested' \in BOOLEAN
        /\ async' \in {"none", "screen"} \cup Switches /\ active' \in [Parallel -> BOOLEAN]
        /\ active' = active /\ aborted' \in BOOLEAN /\ async' = "none"
    BY <1>3, <1>4, TypedFacts DEF mapVars
  <1>6. CASE CanShowMessage
    <2>1. window.at # "choice"
      BY <1>6 DEF CanShowMessage
    <2>2. /\ window' = Opened(f)
          /\ interp' = [interp EXCEPT ![Cur].stack = WithTop(Stack, Next1(f)), ![Cur].showMessage = TRUE]
          /\ doing' = "left" /\ UNCHANGED loops
      BY <1>6 DEF ShowChoices, WithTop, Stack
    <2>3. loops' \in 0..LoopLimit /\ doing' \in {"loop", "left"}
      BY <2>2, TypedFacts
    <2>4. Next1(f) \in Frames
      BY <1>1, QuestionPassed
    <2>5. WithTop(Stack, Next1(f)) \in Seq(Frames)
      <3>1. TopReplaced(WithTop(Stack, Next1(f)), Stack, Next1(f))
        BY <1>3, <2>4, ReplacesTop
      <3> QED BY <3>1 DEF TopReplaced
    <2>6. RunnerBecomes(interp', Cur, WithTop(Stack, Next1(f)), interp[Cur].wait, TRUE)
      BY <1>3, <2>2, <2>5, ExceptStack DEF EventsIInv, Core
    <2> QED BY <1>1, <1>4, <1>5, <2>1, <2>2, <2>3, <2>6, QuestionAsked
  <1>7. CASE ~CanShowMessage
    <2>1. LeaveWith(f) /\ UNCHANGED window
      BY <1>7 DEF ShowChoices
    <2>2. /\ RunnerBecomes(interp', Cur, WithTop(Stack, f), interp[Cur].wait, FALSE)
          /\ doing' \in {"loop", "left"} /\ loops' \in 0..LoopLimit
      BY <1>1, <2>1, Continues
    <2>3. window' \in Windows
      BY <2>1, TypedFacts
    <2> QED BY <1>1, <1>4, <1>5, <2>1, <2>2, <2>3, CommandKeeps DEF mapVars
  <1> QED BY <1>6, <1>7

\* Frames come to their end: parallel commands begin anew, a caller goes on, and what was
\* called first in the foreground releases its event.
LEMMA FinishFrameKeeps ==
    ASSUME InterpreterAssumption, MapUpdateAssumption, EventsIInv, FinishFrame
    PROVE  EventsIInv'
  <1> DEFINE base == Len(Stack) = 1
             f == Last(Stack)
             s == IF base /\ Cur # Foreground THEN <<PutAt(f, 1)>> ELSE Front(Stack)
  <1>1. InLoop
    BY DEF FinishFrame, Ready
  <1>2. /\ Cur \in Interpreters /\ Stack # <<>> /\ Stack \in Seq(Frames) /\ loops + 1 \in 0..LoopLimit
        /\ doing = "loop" /\ async = "none" /\ ~Asks(Cur)
        /\ Len(Stack) \in Nat \ {0} /\ Len(Stack) <= CallStackLimit + 1
        /\ f = Stack[Len(Stack)] /\ DOMAIN Stack = 1..Len(Stack)
        /\ f \in Frames /\ SoundFrame(f, FALSE)
    BY <1>1, InLoopFacts
  <1>3. /\ \A k \in DOMAIN Stack : SoundFrame(Stack[k], FALSE)
        /\ Cur = Foreground => window.at # "choice"
    BY <1>1, InLoopFacts
  <1>4. /\ interp' = [interp EXCEPT ![Cur].showMessage = FALSE, ![Cur].stack = s]
        /\ paused' = IF base /\ Cur = Foreground /\ f.event # NoEvent
                       THEN [paused EXCEPT ![f.event] = FALSE] ELSE paused
        /\ IF base THEN doing' = "left" /\ UNCHANGED loops ELSE loops' = loops + 1 /\ UNCHANGED doing
        /\ UNCHANGED <<switches, needRefresh, page, active, waiting, window, requested, turn,
                       async, stopped, updated, aborted>>
    BY DEF FinishFrame, PutAt, Stack
  <1>5. Front(Stack) \in Seq(Frames) /\ Len(Front(Stack)) = Len(Stack) - 1
        /\ DOMAIN Front(Stack) = 1..Len(Stack) - 1
        /\ \A k \in 1..Len(Stack) - 1 : Front(Stack)[k] = Stack[k]
    BY <1>2, PopsTop
  <1>6. Front(Stack) = <<>> <=> base
    BY <1>2, PopsTop
  <1>7. /\ PutAt(f, 1) \in Frames /\ SoundFrame(PutAt(f, 1), FALSE)
        /\ PutAt(f, 1).list = f.list /\ PutAt(f, 1).event = f.event
    <2> HIDE DEF f
    <2> QED BY <1>2, FrameAgain
  <1>8. s \in Seq(Frames)
    <2>1. <<PutAt(f, 1)>> \in Seq(Frames)
      BY <1>7
    <2> QED BY <2>1, <1>5
  <1>9. Len(s) <= CallStackLimit + 1
    <2>1. Len(<<PutAt(f, 1)>>) = 1 /\ CallStackLimit \in Nat
      BY DEF MapUpdateAssumption
    <2>2. CASE base /\ Cur # Foreground
      BY <2>1, <2>2, <1>2
    <2>3. CASE ~(base /\ Cur # Foreground)
      BY <2>1, <2>3, <1>2, <1>5
    <2> QED BY <2>2, <2>3
  <1>10. \A k \in DOMAIN s : SoundFrame(s[k], FALSE)
    <2>1. CASE base /\ Cur # Foreground
      <3>1. DOMAIN <<PutAt(f, 1)>> = {1} /\ <<PutAt(f, 1)>>[1] = PutAt(f, 1)
        BY <1>7
      <3> HIDE DEF f
      <3> QED BY <3>1, <2>1, <1>7
    <2>2. CASE ~(base /\ Cur # Foreground)
      <3>1. \A k \in 1..Len(Stack) - 1 : k \in DOMAIN Stack
        BY <1>2
      <3>2. \A k \in 1..Len(Stack) - 1 : SoundFrame(Front(Stack)[k], FALSE)
        BY <3>1, <1>3, <1>5
      <3> QED BY <2>2, <3>2, <1>5
    <2> QED BY <2>1, <2>2
  <1>11. ~(base /\ Cur = Foreground) =>
            s # <<>> /\ s[1].list = Stack[1].list /\ s[1].event = Stack[1].event
    <2>1. CASE base /\ Cur # Foreground
      <3>1. s # <<>> /\ s[1] = PutAt(f, 1) /\ f = Stack[1]
        BY <2>1, <1>2, <1>7
      <3> QED BY <3>1, <1>7
    <2>2. CASE ~base
      <3>1. 1 \in 1..Len(Stack) - 1
        BY <2>2, <1>2
      <3> QED BY <2>2, <3>1, <1>5, <1>6
    <2> QED BY <2>1, <2>2
  <1>12. base /\ Cur = Foreground => s = <<>>
    BY <1>6
  <1> HIDE DEF s
  <1>13. RunnerBecomes(interp', Cur, s, interp[Cur].wait, FALSE)
    BY <1>2, <1>4, <1>8, ExceptStack DEF EventsIInv, Core
  <1>14. PICK r \in Runners : interp' = [interp EXCEPT ![Cur] = r] /\ r.stack = s
    BY <1>13 DEF RunnerBecomes
  <1>15. Stack = interp[Cur].stack
    BY DEF Stack
  <1>16. /\ switches' \in [Switches -> BOOLEAN] /\ needRefresh' \in BOOLEAN /\ requested' \in BOOLEAN
         /\ async' \in {"none", "screen"} \cup Switches /\ active' \in [Parallel -> BOOLEAN]
         /\ active' = active /\ aborted' \in BOOLEAN /\ async' = "none" /\ window' \in Windows
         /\ doing' \in {"loop", "left"} /\ loops' \in 0..LoopLimit
    BY <1>2, <1>4, TypedFacts
  <1>17. Core'
    <2>1. CASE ~(base /\ Cur = Foreground)
      <3>1. paused' = paused
        BY <2>1, <1>4
      <3>2. Len(r.stack) <= CallStackLimit + 1 /\ (r.stack = <<>> <=> interp[Cur].stack = <<>>)
        BY <2>1, <1>2, <1>9, <1>11, <1>14, <1>15
      <3>3. r.stack # <<>> => /\ r.stack[1].list = interp[Cur].stack[1].list
                              /\ r.stack[1].event = interp[Cur].stack[1].event
        BY <2>1, <1>11, <1>14, <1>15
      <3>4. \A k \in DOMAIN r.stack : SoundFrame(r.stack[k], FALSE)
        BY <1>10, <1>14
      <3> QED BY <1>2, <1>4, <1>14, <1>16, <3>1, <3>2, <3>3, <3>4, KeepsRunning DEF EventsIInv
    <2>2. CASE base /\ Cur = Foreground
      <3>1. r.stack = <<>> /\ Len(r.stack) <= CallStackLimit + 1
        BY <2>2, <1>9, <1>12, <1>14
      <3>2. Foreground \notin Parallel /\ NoEvent \notin Parallel
        BY OrderFacts
      <3>3. paused' \in [Parallel -> BOOLEAN]
        BY <1>4, TypedFacts
      <3>4. QuestionOpen'
        BY <2>2, <1>3, <1>4 DEF QuestionOpen
      <3>5. ReleasedByFrame'
        <4> SUFFICES ASSUME \A q \in CommonPages : q.trigger # "auto",
                            NEW e \in Range(MapEvents), active[e], paused'[e], ~waiting[e]
                     PROVE  FALSE
          BY <1>4 DEF ReleasedByFrame
        <4>1. e \in Parallel /\ e # NoEvent
          BY <3>2 DEF Parallel
        <4>2. paused[e]
          BY <4>1, <1>4, TypedFacts
        <4>3. Stack[1].event = e
          BY <4>2, <2>2, <1>15 DEF EventsIInv, Core, ReleasedByFrame
        <4>4. f.event = e
          BY <4>3, <2>2, <1>2
        <4>5. paused' = [paused EXCEPT ![e] = FALSE]
          BY <4>1, <4>4, <2>2, <1>4
        <4> QED BY <4>1, <4>5, TypedFacts
      <3>6. \A k \in DOMAIN r.stack : SoundFrame(r.stack[k], Asks(Foreground)' /\ k = Len(r.stack))
        BY <3>1
      <3>7. interp' = [interp EXCEPT ![Foreground] = r] /\ Foreground \in Interpreters
        BY <2>2, <1>2, <1>14
      <3>8. \A j \in Interpreters \ {Foreground} : Asks(j)' = Asks(j)
        BY <1>4 DEF Asks
      <3> QED BY <1>4, <1>16, <3>1, <3>2, <3>3, <3>4, <3>5, <3>6, <3>7, <3>8, RunnerChanges DEF EventsIInv
    <2> QED BY <2>1, <2>2
  <1>18. Flow'
    BY <1>2, <1>4, <1>16, LoopFlow
  <1> QED BY <1>17, <1>18 DEF EventsIInv

LEMMA LeaveLoopKeeps ==
    ASSUME InterpreterAssumption, MapUpdateAssumption, EventsIInv, LeaveLoop
    PROVE  EventsIInv'
  <1>1. /\ doing = "loop" /\ doing' = "left"
        /\ UNCHANGED <<mapVars, window, requested, turn, loops, async, stopped, updated, aborted>>
    BY DEF LeaveLoop
  <1>2. /\ switches' \in [Switches -> BOOLEAN] /\ needRefresh' \in BOOLEAN /\ requested' \in BOOLEAN
        /\ async' \in {"none", "screen"} \cup Switches /\ active' \in [Parallel -> BOOLEAN]
        /\ active' = active /\ aborted' \in BOOLEAN /\ window' \in Windows
        /\ doing' \in {"loop", "left"} /\ loops' \in 0..LoopLimit
    BY <1>1, TypedFacts DEF mapVars
  <1>3. Cur \in Interpreters /\ Cur' = Cur
    BY <1>1, CurFacts DEF EventsIInv, Flow, Cur
  <1>4. CASE Blocked
    <2>1. interp' = interp
      BY <1>4 DEF LeaveLoop
    <2>2. Core'
      BY <1>1, <1>2, <2>1, CoreStays DEF EventsIInv, mapVars
    <2>3. async' # "none" => Stack' # <<>>
      BY <1>1, <1>3, <2>1 DEF EventsIInv, Flow, SuspendedOnTop, Stack
    <2>4. Flow'
      BY <1>1, <1>2, <2>3, LoopFlow
    <2> QED BY <2>2, <2>4 DEF EventsIInv
  <1>5. CASE ~Blocked
    <2> DEFINE w == IF interp[Cur].wait > 0 THEN interp[Cur].wait - 1 ELSE 0
    <2>1. interp' = [interp EXCEPT ![Cur].showMessage = FALSE, ![Cur].wait = w]
      BY <1>5 DEF LeaveLoop
    <2>2. ~Asks(Cur) /\ async = "none"
      BY <1>5, NotAsking
    <2>3. w \in Nat
      BY <1>3, RunnerFacts DEF EventsIInv, Core
    <2> HIDE DEF w
    <2>4. RunnerBecomes(interp', Cur, interp[Cur].stack, w, FALSE)
      BY <1>3, <2>1, <2>3, ExceptStack, RunnerFacts DEF EventsIInv, Core
    <2>5. PICK r \in Runners : interp' = [interp EXCEPT ![Cur] = r] /\ r.stack = interp[Cur].stack
      BY <2>4 DEF RunnerBecomes
    <2>6. \A k \in DOMAIN interp[Cur].stack : SoundFrame(interp[Cur].stack[k], FALSE)
      BY <1>3, <2>2, SoundOf DEF EventsIInv
    <2>7. Len(interp[Cur].stack) <= CallStackLimit + 1
      BY <1>3 DEF EventsIInv, Core, CoreTyped
    <2>8. Core'
      BY <1>1, <1>2, <1>3, <2>2, <2>5, <2>6, <2>7, KeepsRunning DEF EventsIInv, mapVars
    <2>9. Flow'
      BY <1>1, <1>2, <2>2, LoopFlow
    <2> QED BY <2>8, <2>9 DEF EventsIInv
  <1> QED BY <1>4, <1>5

-----------------------------------------------------------------------------
(* Pages turn over. *)

\* A page that turns over takes with it only what neither asks nor is suspended.
LEMMA RefreshKeepsCore ==
    ASSUME InterpreterAssumption, MapUpdateAssumption, EventsIInv, Refresh, UNCHANGED window,
           ~Overtaken
    PROVE  Core' /\ needRefresh' \in BOOLEAN
  <1>1. /\ needRefresh' = FALSE
        /\ page' = [e \in Parallel |-> IF Leaves(e) THEN PageMet(e, switches) ELSE page[e]]
        /\ waiting' = [e \in Parallel |-> waiting[e] /\ ~Leaves(e)]
        /\ paused' = [e \in Parallel |-> paused[e] /\ ~Leaves(e)]
        /\ interp' = [i \in Interpreters |-> IF i \in Parallel /\ Turns(i) THEN Idle ELSE interp[i]]
        /\ UNCHANGED <<switches, active>>
    BY DEF Refresh
  <1>2. Idle \in Runners /\ Idle.stack = <<>> /\ Len(Idle.stack) = 0
    BY DEF Idle, Runners
  <1>3. Parallel \subseteq Interpreters /\ Foreground \in Interpreters /\ Foreground \notin Parallel
        /\ Range(CommonEvents) \subseteq Parallel /\ Range(MapEvents) \subseteq Parallel
    BY OrderFacts DEF Interpreters, Parallel
  <1>4. \A e \in Range(CommonEvents) : ~Leaves(e) /\ ~Turns(e)
    BY OrderFacts DEF Leaves, Turns
  <1>5. CoreTyped'
    <2>1. page' \in [Parallel -> Nat] /\ \A e \in Parallel : page'[e] \in 0..Len(Pages[e])
      <3>1. \A e \in Parallel : PageMet(e, switches) \in 0..Len(Pages[e]) /\ Len(Pages[e]) \in Nat
        BY PageMetFacts
      <3> QED BY <1>1, <3>1, TypedFacts
    <2>2. interp' \in [Interpreters -> Runners]
      BY <1>1, <1>2, TypedFacts
    <2>3. \A i \in Interpreters : Len(interp'[i].stack) <= CallStackLimit + 1
      <3> SUFFICES ASSUME NEW i \in Interpreters PROVE Len(interp'[i].stack) <= CallStackLimit + 1
        OBVIOUS
      <3>1. CallStackLimit \in Nat
        BY DEF MapUpdateAssumption
      <3>2. CASE interp'[i] = Idle
        BY <3>1, <3>2, <1>2
      <3>3. CASE interp'[i] = interp[i]
        BY <3>3 DEF EventsIInv, Core, CoreTyped
      <3> QED BY <1>1, <3>2, <3>3
    <2>4. waiting' \in [Parallel -> BOOLEAN] /\ paused' \in [Parallel -> BOOLEAN]
      BY <1>1
    <2> QED BY <1>1, <2>1, <2>2, <2>3, <2>4, TypedFacts DEF CoreTyped
  <1>6. \A i \in Interpreters : interp'[i] = IF i \in Parallel /\ Turns(i) THEN Idle ELSE interp[i]
    BY <1>1
  <1>7. FramesSound'
    <2> SUFFICES ASSUME NEW i \in Interpreters, NEW k \in DOMAIN interp'[i].stack
                 PROVE  SoundFrame(interp'[i].stack[k], Asks(i)' /\ k = Len(interp'[i].stack))
      BY DEF FramesSound
    <2>1. interp'[i] # Idle
      BY <1>2
    <2>2. interp'[i] = interp[i] /\ Asks(i)' = Asks(i)
      BY <2>1, <1>6 DEF Asks
    <2> QED BY <2>2 DEF EventsIInv, Core, FramesSound
  <1>8. ParallelNeverEnds'
    <2> SUFFICES ASSUME NEW e \in Range(CommonEvents), TriggerOf(e)' = "parallel", ListOf(e)' # <<>>
                 PROVE  interp'[e].stack # <<>>
      BY DEF ParallelNeverEnds
    <2>1. page'[e] = page[e] /\ interp'[e] = interp[e]
      BY <1>1, <1>3, <1>4, <1>6
    <2> QED BY <2>1 DEF EventsIInv, Core, ParallelNeverEnds, TriggerOf, ListOf, PageOf
  <1>9. BackgroundIsOpenPage'
    <2> SUFFICES ASSUME NEW e \in Range(MapEvents), interp'[e].stack # <<>>, page'[e] # 0
                 PROVE  TriggerOf(e)' = "parallel" /\ interp'[e].stack[1].list = (PageOf(e)').list
      BY DEF BackgroundIsOpenPage
    <2>1. interp'[e] = interp[e] /\ ~Turns(e)
      BY <1>2, <1>3, <1>6
    <2>2. page'[e] = page[e]
      BY <1>1, <1>3, <2>1 DEF Turns
    <2> QED BY <2>1, <2>2 DEF EventsIInv, Core, BackgroundIsOpenPage, TriggerOf, PageOf
  <1>10. QuestionOpen'
    <2> SUFFICES ASSUME window.at = "choice" PROVE QuestionOpen'
      BY DEF QuestionOpen
    <2> DEFINE i == window.by
    <2>1. i \in Interpreters /\ interp[i].stack # <<>>
      BY TypedFacts DEF Windows, EventsIInv, Core, QuestionOpen
    <2>2. ~(i \in Parallel /\ Turns(i))
      BY <2>1, <1>2, <1>6 DEF Overtaken, Asks
    <2>3. interp'[i] = interp[i]
      BY <2>1, <2>2, <1>6
    <2> QED BY <2>3 DEF EventsIInv, Core, QuestionOpen
  <1>11. ReleasedByFrame'
    <2> SUFFICES ASSUME \A q \in CommonPages : q.trigger # "auto",
                        NEW e \in Range(MapEvents), active'[e], paused'[e], ~waiting'[e]
                 PROVE  interp'[Foreground].stack # <<>> /\ interp'[Foreground].stack[1].event = e
      BY DEF ReleasedByFrame
    <2>1. active[e] /\ paused[e] /\ ~waiting[e]
      BY <1>1, <1>3
    <2>2. interp'[Foreground] = interp[Foreground]
      BY <1>3, <1>6
    <2> QED BY <2>1, <2>2 DEF EventsIInv, Core, ReleasedByFrame
  <1>12. PagesOpen'
    <2>1. \A e \in Range(CommonEvents) : page'[e] = 1
      BY <1>1, <1>3, <1>4 DEF EventsIInv, Core, PagesOpen
    <2>2. \A e \in Parallel : waiting'[e] => page'[e] # 0
      BY <1>1 DEF EventsIInv, Core, PagesOpen
    <2> QED BY <2>1, <2>2 DEF PagesOpen
  <1> QED BY <1>1, <1>5, <1>7, <1>8, <1>9, <1>10, <1>11, <1>12 DEF Core

\* The interpreter that is suspended keeps its commands.
LEMMA RefreshKeepsTop ==
    ASSUME InterpreterAssumption, MapUpdateAssumption, EventsIInv, Refresh, ~Overtaken,
           async # "none", UNCHANGED turn
    PROVE  Stack # <<>> /\ Stack' = Stack
  <1>1. Stack # <<>> /\ Cur' = Cur /\ Cur \in Interpreters
    BY CurFacts DEF EventsIInv, Flow, SuspendedOnTop, Cur
  <1>2. interp'[Cur] = IF Cur \in Parallel /\ Turns(Cur) THEN Idle ELSE interp[Cur]
    BY <1>1 DEF Refresh
  <1>3. ~(Cur \in Parallel /\ Turns(Cur))
    BY <1>1, <1>2 DEF Overtaken, Stack, Idle
  <1> QED BY <1>1, <1>2, <1>3 DEF Stack

LEMMA RefreshIfNeededKeeps ==
    ASSUME InterpreterAssumption, MapUpdateAssumption, EventsIInv, RefreshIfNeeded,
           UNCHANGED window, ~Overtaken
    PROVE  /\ Core' /\ needRefresh' \in BOOLEAN
           /\ UNCHANGED turn /\ async # "none" => Stack # <<>> /\ Stack' = Stack
  <1>1. CASE needRefresh
    <2>1. Refresh
      BY <1>1 DEF RefreshIfNeeded
    <2> QED BY <2>1, RefreshKeepsCore, RefreshKeepsTop
  <1>2. CASE ~needRefresh
    <2>1. UNCHANGED <<mapVars, interp>>
      BY <1>2 DEF RefreshIfNeeded
    <2>2. Core' /\ needRefresh' \in BOOLEAN
      BY <2>1, CoreStays, TypedFacts DEF EventsIInv, mapVars
    <2>3. UNCHANGED turn /\ async # "none" => Stack # <<>> /\ Stack' = Stack
      BY <2>1 DEF EventsIInv, Flow, SuspendedOnTop, Stack, Cur
    <2> QED BY <2>2, <2>3
  <1> QED BY <1>1, <1>2

LEMMA StartFrameKeeps ==
    ASSUME InterpreterAssumption, MapUpdateAssumption, EventsIInv, StartFrame, ~Overtaken
    PROVE  EventsIInv'
  <1>1. /\ doing = "idle" /\ RefreshIfNeeded /\ doing' = "events" /\ turn' = 1 /\ updated' = {}
        /\ UNCHANGED <<window, requested, loops, async, stopped, aborted>>
    BY DEF StartFrame
  <1>2. Core' /\ needRefresh' \in BOOLEAN
    BY <1>1, RefreshIfNeededKeeps
  <1>3. async' = "none"
    BY <1>1 DEF EventsIInv, Flow, SuspendedOnTop
  <1>4. FlowTyped'
    <2>1. 1 \in 1..Len(Order) + 1
      BY OrderFacts
    <2> QED BY <1>1, <1>2, <1>3, <2>1, TypedFacts DEF FlowTyped, Phases
  <1>5. TurnsInOrder' /\ SuspendedOnTop'
    BY <1>1, <1>3 DEF TurnsInOrder, SuspendedOnTop
  <1> QED BY <1>2, <1>4, <1>5 DEF EventsIInv, Flow

LEMMA LoopRefreshKeeps ==
    ASSUME InterpreterAssumption, MapUpdateAssumption, EventsIInv, LoopRefresh \/ LeftRefresh, ~Overtaken
    PROVE  EventsIInv'
  <1>1. /\ doing \in {"loop", "left"} /\ Refresh /\ UNCHANGED <<window, requested, frameVars, aborted>>
    BY DEF LoopRefresh, LeftRefresh, InLoop
  <1>2. Core' /\ needRefresh' \in BOOLEAN
    BY <1>1, RefreshKeepsCore
  <1>3. async' # "none" => Stack' # <<>>
    BY <1>1, RefreshKeepsTop DEF frameVars
  <1>4. Flow'
    BY <1>1, <1>2, <1>3, LoopFlow, TypedFacts DEF frameVars
  <1> QED BY <1>2, <1>4 DEF EventsIInv

LEMMA ResumeRefreshKeeps ==
    ASSUME InterpreterAssumption, MapUpdateAssumption, EventsIInv, ResumeRefresh, ~Overtaken
    PROVE  EventsIInv'
  <1>1. /\ doing = "suspended" /\ RefreshIfNeeded /\ doing' = "resuming"
        /\ UNCHANGED <<window, requested, turn, loops, async, stopped, updated, aborted>>
    BY DEF ResumeRefresh
  <1>2. Core' /\ needRefresh' \in BOOLEAN
    BY <1>1, RefreshIfNeededKeeps
  <1>3. async # "none" /\ stopped = <<Last(Stack)>>
    BY <1>1 DEF EventsIInv, Flow, SuspendedOnTop
  <1>4. Stack # <<>> /\ Stack' = Stack
    BY <1>1, <1>3, RefreshIfNeededKeeps
  <1>5. FlowTyped'
    BY <1>1, <1>2 DEF EventsIInv, Flow, FlowTyped, Phases
  <1>6. TurnsInOrder'
    BY <1>1 DEF EventsIInv, Flow, TurnsInOrder
  <1>7. SuspendedOnTop'
    BY <1>1, <1>3, <1>4 DEF SuspendedOnTop
  <1> QED BY <1>2, <1>5, <1>6, <1>7 DEF EventsIInv, Flow

-----------------------------------------------------------------------------
(* The frame goes on. *)

\* What waits and stands still is scheduled.
LEMMA ScheduleKeepsCore ==
    ASSUME MapUpdateAssumption, EventsIInv, UNCHANGED <<page, active, interp, window>>,
           switches' \in [Switches -> BOOLEAN],
           UNCHANGED <<waiting, paused>> \/ \E e \in Range(MapEvents) : Schedule(e)
    PROVE  Core'
  <1>1. CASE UNCHANGED <<waiting, paused>>
    BY <1>1, CoreStays DEF EventsIInv
  <1>2. ASSUME NEW e \in Range(MapEvents), ListOf(e) # <<>>,
               waiting' = [waiting EXCEPT ![e] = TRUE], paused' = [paused EXCEPT ![e] = TRUE]
        PROVE  Core'
    <2>0. e \in Parallel
      BY DEF Parallel
    <2>1. CoreTyped'
      BY <1>2, <2>0 DEF EventsIInv, Core, CoreTyped
    <2>2. FramesSound' /\ ParallelNeverEnds' /\ BackgroundIsOpenPage' /\ QuestionOpen'
      BY DEF EventsIInv, Core, FramesSound, Asks, ParallelNeverEnds, BackgroundIsOpenPage,
             TriggerOf, ListOf, PageOf, QuestionOpen
    <2>3. ReleasedByFrame'
      <3> SUFFICES ASSUME \A q \in CommonPages : q.trigger # "auto",
                          NEW d \in Range(MapEvents), active[d], paused'[d], ~waiting'[d]
                   PROVE  interp[Foreground].stack # <<>> /\ interp[Foreground].stack[1].event = d
        BY DEF ReleasedByFrame
      <3>1. d # e /\ d \in Parallel
        BY <1>2, <2>0, TypedFacts DEF Parallel
      <3>2. paused[d] /\ ~waiting[d]
        BY <3>1, <1>2, TypedFacts
      <3> QED BY <3>2 DEF EventsIInv, Core, ReleasedByFrame
    <2>4. PagesOpen'
      <3>1. page[e] # 0
        BY <1>2 DEF ListOf
      <3>2. \A d \in Parallel : waiting'[d] => waiting[d] \/ d = e
        BY <1>2, TypedFacts
      <3> QED BY <3>1, <3>2 DEF EventsIInv, Core, PagesOpen
    <2> QED BY <2>1, <2>2, <2>3, <2>4 DEF Core
  <1> QED BY <1>1, <1>2 DEF Schedule

LEMMA EndTurnKeeps ==
    ASSUME MapUpdateAssumption, EventsIInv, turn <= Len(Order), doing # "idle", async = "none",
           EndTurn(Cur), UNCHANGED <<interp, window, requested, aborted>>
    PROVE  EventsIInv'
  <1>1. /\ doing' = "events" /\ turn' = turn + 1 /\ updated' = updated \cup {Cur}
        /\ UNCHANGED <<waiting, paused>> \/ \E e \in Range(MapEvents) : Schedule(e)
        /\ UNCHANGED <<switches, needRefresh, page, active, loops, async, stopped>>
    BY DEF EndTurn
  <1>2. Core'
    BY <1>1, ScheduleKeepsCore, TypedFacts
  <1>3. /\ Cur = Order[turn] /\ Cur \in Parallel /\ turn \in 1..Len(Order) /\ turn \in Nat
        /\ Len(Order) \in Nat
    BY CurFacts, OrderFacts DEF EventsIInv, Flow
  <1>4. FlowTyped'
    <2>1. turn' \in 1..Len(Order) + 1
      BY <1>1, <1>3
    <2>2. updated' \subseteq Parallel
      BY <1>1, <1>3, TypedFacts
    <2> QED BY <1>1, <2>1, <2>2, TypedFacts DEF FlowTyped, Phases
  <1>5. TurnsInOrder'
    <2> SUFFICES ASSUME NEW e \in updated'
                 PROVE  \E n \in 1 .. turn' - 1 : n <= Len(Order) /\ Order[n] = e
      BY <1>1 DEF TurnsInOrder
    <2>1. CASE e \in updated
      <3>1. PICK n \in 1 .. turn - 1 : n <= Len(Order) /\ Order[n] = e
        BY <2>1 DEF EventsIInv, Flow, TurnsInOrder
      <3>2. n \in 1 .. turn' - 1
        BY <1>1, <1>3
      <3> QED BY <3>1, <3>2
    <2>2. CASE e = Cur
      <3>1. turn \in 1 .. turn' - 1
        BY <1>1, <1>3
      <3> QED BY <2>2, <3>1, <1>3
    <2> QED BY <1>1, <2>1, <2>2
  <1>6. SuspendedOnTop'
    BY <1>1 DEF SuspendedOnTop
  <1> QED BY <1>2, <1>4, <1>5, <1>6 DEF EventsIInv, Flow

\* The commands of the page that is open begin in the background.
LEMMA CommandsBegin ==
    ASSUME InterpreterAssumption, MapUpdateAssumption, EventsIInv, NEW e \in Parallel,
           TriggerOf(e) = "parallel", interp' = WithCommands(e), UNCHANGED <<mapVars, window>>
    PROVE  Core'
  <1>1. CASE interp' = interp
    BY <1>1, CoreStays, TypedFacts DEF EventsIInv, mapVars
  <1>2. CASE /\ e \in Range(MapEvents) /\ interp[e].stack = <<>> /\ ListOf(e) # <<>>
             /\ interp' = [interp EXCEPT ![e].stack = <<NewFrame(PageOf(e).list, e)>>]
    <2> DEFINE g == NewFrame(PageOf(e).list, e)
    <2>1. page[e] \in 1..Len(Pages[e])
      <3>1. page[e] # 0 /\ page[e] \in Nat /\ page[e] \in 0..Len(Pages[e])
        BY <1>2, TypedFacts DEF ListOf
      <3> QED BY <3>1
    <2>2. PageOf(e).list \in DOMAIN Code /\ e \in Callers /\ e \in Interpreters
      BY <1>2, <2>1, OpenPage DEF PageOf, Callers, Interpreters
    <2>3. g \in Frames /\ SoundFrame(g, FALSE) /\ g.list = PageOf(e).list
      BY <2>2, NewFrameSound
    <2> HIDE DEF g
    <2>4. <<g>> \in Seq(Frames) /\ Len(<<g>>) = 1 /\ <<g>> # <<>> /\ DOMAIN <<g>> = {1} /\ <<g>>[1] = g
      BY <2>3
    <2>5. RunnerBecomes(interp', e, <<g>>, interp[e].wait, interp[e].showMessage)
      BY <1>2, <2>2, <2>4, ExceptStack DEF EventsIInv, Core, g
    <2>6. PICK r \in Runners : interp' = [interp EXCEPT ![e] = r] /\ r.stack = <<g>>
      BY <2>5 DEF RunnerBecomes
    <2>7. interp'[e] = r /\ \A i \in Interpreters \ {e} : interp'[i] = interp[i]
      BY <2>2, <2>6, TypedFacts
    <2>8. CoreTyped'
      <3>1. interp' \in [Interpreters -> Runners]
        BY <2>6, TypedFacts
      <3>2. \A i \in Interpreters : Len(interp'[i].stack) <= CallStackLimit + 1
        <4> SUFFICES ASSUME NEW i \in Interpreters PROVE Len(interp'[i].stack) <= CallStackLimit + 1
          OBVIOUS
        <4>1. CASE i = e
          <5>1. CallStackLimit \in Nat /\ Len(interp'[i].stack) = 1
            BY <4>1, <2>4, <2>6, <2>7 DEF MapUpdateAssumption
          <5> QED BY <5>1
        <4>2. CASE i # e
          BY <4>2, <2>7 DEF EventsIInv, Core, CoreTyped
        <4> QED BY <4>1, <4>2
      <3> QED BY <3>1, <3>2, TypedFacts DEF CoreTyped, mapVars
    <2>9. ~Asks(e) /\ ~Asks(e)'
      <3>1. ~Asks(e)
        BY <1>2 DEF EventsIInv, Core, QuestionOpen, Asks
      <3> QED BY <3>1 DEF Asks
    <2>10. FramesSound'
      <3> SUFFICES ASSUME NEW i \in Interpreters, NEW k \in DOMAIN interp'[i].stack
                   PROVE  SoundFrame(interp'[i].stack[k], Asks(i)' /\ k = Len(interp'[i].stack))
        BY DEF FramesSound
      <3>1. CASE i = e
        <4>1. (Asks(i)' /\ k = Len(interp'[i].stack)) = FALSE
          BY <2>9, <3>1
        <4>2. interp'[i].stack[k] = g
          BY <3>1, <2>4, <2>6, <2>7
        <4> QED BY <4>1, <4>2, <2>3
      <3>2. CASE i # e
        <4>1. interp'[i] = interp[i] /\ Asks(i)' = Asks(i)
          BY <3>2, <2>7 DEF Asks
        <4> QED BY <4>1 DEF EventsIInv, Core, FramesSound
      <3> QED BY <3>1, <3>2
    <2>11. ParallelNeverEnds'
      <3> SUFFICES ASSUME NEW d \in Range(CommonEvents), TriggerOf(d)' = "parallel", ListOf(d)' # <<>>
                   PROVE  interp'[d].stack # <<>>
        BY DEF ParallelNeverEnds
      <3>1. d \in Interpreters /\ d # e
        BY <1>2, OrderFacts DEF Interpreters, Parallel
      <3> QED BY <2>7, <3>1 DEF EventsIInv, Core, ParallelNeverEnds, TriggerOf, ListOf, PageOf, mapVars
    <2>12. BackgroundIsOpenPage'
      <3> SUFFICES ASSUME NEW d \in Range(MapEvents), interp'[d].stack # <<>>, page[d] # 0
                   PROVE  TriggerOf(d) = "parallel" /\ interp'[d].stack[1].list = PageOf(d).list
        BY DEF BackgroundIsOpenPage, TriggerOf, PageOf, mapVars
      <3>1. CASE d = e
        BY <3>1, <2>3, <2>4, <2>6, <2>7
      <3>2. CASE d # e
        <4>1. interp'[d] = interp[d]
          BY <3>2, <2>7 DEF Interpreters, Parallel
        <4> QED BY <4>1 DEF EventsIInv, Core, BackgroundIsOpenPage
      <3> QED BY <3>1, <3>2
    <2>13. QuestionOpen'
      <3> SUFFICES ASSUME window.at = "choice" PROVE QuestionOpen'
        BY DEF QuestionOpen
      <3>1. window.by \in Interpreters /\ window.by # e
        BY <2>9, TypedFacts DEF Windows, Asks
      <3>2. interp'[window.by] = interp[window.by]
        BY <3>1, <2>7
      <3> QED BY <3>2 DEF EventsIInv, Core, QuestionOpen
    <2>14. ReleasedByFrame' /\ PagesOpen'
      <3>1. interp'[Foreground] = interp[Foreground]
        BY <1>2, <2>7, OrderFacts DEF Interpreters, Parallel
      <3> QED BY <3>1 DEF EventsIInv, Core, ReleasedByFrame, PagesOpen, mapVars
    <2> QED BY <2>8, <2>10, <2>11, <2>12, <2>13, <2>14 DEF Core
  <1> QED BY <1>1, <1>2 DEF WithCommands

LEMMA BeginTurnKeeps ==
    ASSUME InterpreterAssumption, MapUpdateAssumption, EventsIInv, BeginTurn
    PROVE  EventsIInv'
  <1>1. doing = "events" /\ turn <= Len(Order) /\ UNCHANGED <<window, requested, aborted>>
    BY DEF BeginTurn
  <1>2. async = "none" /\ Cur \in Parallel
    BY <1>1, CurFacts DEF EventsIInv, Flow, SuspendedOnTop
  <1>3. CASE Runs(Cur) /\ interp' = WithCommands(Cur) /\ UNCHANGED mapVars /\ EntersLoop
    <2>1. TriggerOf(Cur) = "parallel"
      BY <1>3 DEF Runs
    <2>2. Core'
      BY <1>1, <1>2, <1>3, <2>1, CommandsBegin
    <2>3. doing' = "loop" /\ loops' = 0 /\ UNCHANGED <<turn, updated, async, stopped>>
      BY <1>3 DEF EntersLoop
    <2>4. loops' \in 0..LoopLimit
      BY <2>3 DEF MapUpdateAssumption
    <2>5. Flow'
      BY <1>1, <1>2, <1>3, <2>3, <2>4, LoopFlow, TypedFacts DEF mapVars
    <2> QED BY <2>2, <2>5 DEF EventsIInv
  <1>4. CASE EndTurn(Cur) /\ UNCHANGED interp
    BY <1>1, <1>2, <1>4, EndTurnKeeps
  <1> QED BY <1>3, <1>4 DEF BeginTurn

LEMMA LeftKeeps ==
    ASSUME InterpreterAssumption, MapUpdateAssumption, EventsIInv, Left
    PROVE  EventsIInv'
  <1>1. doing = "left" /\ ~needRefresh /\ UNCHANGED <<interp, window, requested, aborted>>
    BY DEF Left
  <1>2. turn \in Nat /\ turn \in 1..Len(Order) + 1 /\ Len(Order) \in Nat /\ (turn > Len(Order) <=> Cur = Foreground)
    BY CurFacts, OrderFacts DEF EventsIInv, Flow, FlowTyped
  <1>3. CASE async # "none"
    <2>1. /\ doing' = "suspended"
          /\ stopped' = IF Stack = <<>> THEN <<>> ELSE <<Last(Stack)>>
          /\ switches' = [s \in Switches |-> s = async \/ switches[s]]
          /\ needRefresh' = (async \in Switches)
          /\ UNCHANGED <<page, active, waiting, paused, turn, loops, async, updated>>
      BY <1>3 DEF Left, Saves
    <2>2. Stack # <<>> /\ Stack' = Stack
      BY <1>1, <1>3, <2>1 DEF EventsIInv, Flow, SuspendedOnTop, Stack, Cur
    <2>3. switches' \in [Switches -> BOOLEAN] /\ needRefresh' \in BOOLEAN
      BY <2>1, TypedFacts
    <2>4. Core'
      BY <1>1, <2>1, <2>3, CoreStays DEF EventsIInv
    <2>5. FlowTyped'
      BY <1>1, <2>1, <2>3 DEF EventsIInv, Flow, FlowTyped, Phases
    <2>6. TurnsInOrder'
      BY <1>1, <2>1 DEF EventsIInv, Flow, TurnsInOrder
    <2>7. SuspendedOnTop'
      BY <1>3, <2>1, <2>2 DEF SuspendedOnTop
    <2> QED BY <2>4, <2>5, <2>6, <2>7 DEF EventsIInv, Flow
  <1>4. CASE async = "none" /\ Cur = Foreground
    <2>1. doing' = "foreground" /\ UNCHANGED <<mapVars, turn, loops, async, stopped, updated>>
      BY <1>4 DEF Left
    <2>2. Core'
      BY <1>1, <2>1, CoreStays, TypedFacts DEF EventsIInv, mapVars
    <2>3. FlowTyped'
      BY <1>1, <2>1 DEF EventsIInv, Flow, FlowTyped, Phases, mapVars
    <2>4. TurnsInOrder'
      <3>1. turn = Len(Order) + 1
        BY <1>2, <1>4
      <3> QED BY <1>1, <2>1, <3>1 DEF EventsIInv, Flow, TurnsInOrder
    <2>5. SuspendedOnTop'
      BY <1>4, <2>1 DEF SuspendedOnTop
    <2> QED BY <2>2, <2>3, <2>4, <2>5 DEF EventsIInv, Flow
  <1>5. CASE async = "none" /\ Cur # Foreground
    <2>1. EndTurn(Cur)
      BY <1>5 DEF Left
    <2>2. turn <= Len(Order)
      BY <1>2, <1>5
    <2> QED BY <1>1, <1>5, <2>1, <2>2, EndTurnKeeps
  <1> QED BY <1>3, <1>4, <1>5

LEMMA ResumeKeeps ==
    ASSUME InterpreterAssumption, MapUpdateAssumption, EventsIInv, Resume
    PROVE  EventsIInv'
  <1>1. /\ doing = "resuming" /\ doing' \in {"loop", "left"} /\ async' = "none"
        /\ interp' \in {interp, WithCommands(Cur)}
        /\ UNCHANGED <<mapVars, window, requested, turn, loops, stopped, updated, aborted>>
    BY DEF Resume
  <1>2. Stack # <<>>
    BY <1>1 DEF EventsIInv, Flow, SuspendedOnTop
  <1>3. interp' = interp
    BY <1>1, <1>2 DEF WithCommands, Stack
  <1>4. Core'
    BY <1>1, <1>3, CoreStays, TypedFacts DEF EventsIInv, mapVars
  <1>5. Flow'
    BY <1>1, LoopFlow, TypedFacts DEF mapVars
  <1> QED BY <1>4, <1>5 DEF EventsIInv

LEMMA PlayerUpdateKeeps ==
    ASSUME InterpreterAssumption, MapUpdateAssumption, EventsIInv, PlayerUpdate
    PROVE  EventsIInv'
  <1>1. /\ doing = "events" /\ turn > Len(Order) /\ doing' = "message"
        /\ UNCHANGED <<waiting, paused>> \/ \E e \in Range(MapEvents) : Schedule(e)
        /\ UNCHANGED <<switches, needRefresh, page, active, interp, window, requested, turn,
                       loops, async, stopped, updated, aborted>>
    BY DEF PlayerUpdate
  <1>2. Core'
    BY <1>1, ScheduleKeepsCore, TypedFacts
  <1>3. FlowTyped'
    BY <1>1 DEF EventsIInv, Flow, FlowTyped, Phases
  <1>4. turn = Len(Order) + 1
    BY <1>1, OrderFacts DEF EventsIInv, Flow, FlowTyped
  <1>5. TurnsInOrder'
    BY <1>1, <1>4 DEF EventsIInv, Flow, TurnsInOrder
  <1>6. SuspendedOnTop'
    BY <1>1 DEF EventsIInv, Flow, SuspendedOnTop
  <1> QED BY <1>2, <1>3, <1>5, <1>6 DEF EventsIInv, Flow

LEMMA EndFrameKeeps ==
    ASSUME InterpreterAssumption, MapUpdateAssumption, EventsIInv, EndFrame
    PROVE  EventsIInv'
  <1>1. /\ doing = "foreground" /\ doing' = "idle" /\ turn' = 1 /\ requested' = FALSE
        /\ UNCHANGED <<mapVars, interp, window, loops, async, stopped, updated, aborted>>
    BY DEF EndFrame
  <1>2. Core'
    BY <1>1, CoreStays, TypedFacts DEF EventsIInv, mapVars
  <1>3. FlowTyped'
    <2>1. 1 \in 1..Len(Order) + 1
      BY OrderFacts
    <2> QED BY <1>1, <2>1 DEF EventsIInv, Flow, FlowTyped, Phases, mapVars
  <1>4. TurnsInOrder' /\ SuspendedOnTop'
    BY <1>1 DEF EventsIInv, Flow, TurnsInOrder, SuspendedOnTop
  <1> QED BY <1>2, <1>3, <1>4 DEF EventsIInv, Flow

LEMMA ReceiveSwitchKeeps ==
    ASSUME InterpreterAssumption, MapUpdateAssumption, EventsIInv, ReceiveSwitch
    PROVE  EventsIInv'
  <1>1. /\ switches' \in [Switches -> BOOLEAN] /\ needRefresh' = TRUE
        /\ UNCHANGED <<page, active, waiting, paused, interp, window, requested, frameVars, aborted>>
    BY TypedFacts DEF ReceiveSwitch
  <1>2. Core'
    BY <1>1, CoreStays DEF EventsIInv
  <1>3. FlowTyped' /\ TurnsInOrder'
    BY <1>1 DEF EventsIInv, Flow, FlowTyped, TurnsInOrder, frameVars
  <1>4. SuspendedOnTop'
    <2>1. Stack' = Stack
      BY <1>1 DEF Stack, Cur, frameVars
    <2> QED BY <1>1, <2>1 DEF EventsIInv, Flow, SuspendedOnTop, frameVars
  <1> QED BY <1>2, <1>3, <1>4 DEF EventsIInv, Flow

LEMMA AnswerKeepsCore ==
    ASSUME InterpreterAssumption, MapUpdateAssumption, EventsIInv, NEW k \in {0, 1}, Answer(k),
           UNCHANGED mapVars
    PROVE  Core' /\ aborted' \in BOOLEAN
  <1>0. window.at = "choice" /\ window.by \in Interpreters
    BY TypedFacts DEF Answer, Windows
  <1>1. PICK i \in Interpreters : i = window.by
    BY <1>0
  <1> DEFINE s == interp[i].stack
             f == Last(s)
             g == WithAnswer(f, k)
             l == window.asked[1]
             d == window.asked[2]
  <1>2. /\ s # <<>> /\ l = f.list /\ d = f.pc - 1 /\ d \in DOMAIN Code[l] /\ Code[l][d].code = "ShowChoice"
        /\ Code[l][d].indent = window.indent
    BY <1>0, <1>1 DEF EventsIInv, Core, QuestionOpen
  <1>3. /\ s \in Seq(Frames) /\ f \in Frames /\ f = s[Len(s)] /\ Len(s) \in DOMAIN s
        /\ DOMAIN s = 1..Len(s) /\ Len(s) \in Nat
    BY <1>2, RunnerFacts, StackFacts DEF EventsIInv, Core
  <1>4. Asks(i)
    BY <1>0, <1>1 DEF Asks
  <1>5. SoundFrame(f, TRUE)
    <2>1. (Asks(i) /\ Len(s) = Len(s)) = TRUE
      BY <1>4
    <2>2. SoundFrame(s[Len(s)], Asks(i) /\ Len(s) = Len(s))
      BY <1>3 DEF EventsIInv, Core, FramesSound
    <2> QED BY <2>1, <2>2, <1>3
  <1>6. \A n \in DOMAIN s : n # Len(s) => SoundFrame(s[n], FALSE)
    <2> SUFFICES ASSUME NEW n \in DOMAIN s, n # Len(s) PROVE SoundFrame(s[n], FALSE)
      OBVIOUS
    <2>1. (Asks(i) /\ n = Len(s)) = FALSE
      OBVIOUS
    <2> QED BY <2>1 DEF EventsIInv, Core, FramesSound
  <1>7. /\ g \in Frames /\ SoundFrame(g, FALSE) /\ g.list = f.list /\ g.event = f.event
    <2>1. f.pc - 1 \in DOMAIN Code[f.list] /\ Code[f.list][f.pc - 1].code = "ShowChoice" /\ k \in Int
      BY <1>2
    <2> HIDE DEF f, s
    <2> QED BY <1>3, <1>5, <2>1, AnswerTaken
  <1>8. /\ window' = [NoWindow EXCEPT !.at = "started"] /\ UNCHANGED aborted
        /\ interp' = [interp EXCEPT ![i].stack = WithTop(s, g)]
    BY <1>1, <1>2 DEF Answer, WithTop, WithAnswer
  <1> HIDE DEF f, g
  <1> DEFINE u == WithTop(s, g)
  <1>9. TopChanged(u, s, g)
    <2> HIDE DEF s
    <2> QED BY <1>2, <1>3, <1>6, <1>7, TopOf DEF f
  <1>10. /\ u \in Seq(Frames) /\ Len(u) = Len(s) /\ u # <<>> /\ DOMAIN u = 1..Len(u)
         /\ u[1].list = s[1].list /\ u[1].event = s[1].event
    BY <1>9 DEF TopChanged
  <1>11. \A n \in DOMAIN u : SoundFrame(u[n], FALSE)
    BY <1>7, <1>9, Zenon DEF TopChanged
  <1> HIDE DEF u
  <1>12. RunnerBecomes(interp', i, u, interp[i].wait, interp[i].showMessage)
    BY <1>8, <1>10, ExceptStack, RunnerFacts DEF EventsIInv, Core, u
  <1>13. PICK r \in Runners : interp' = [interp EXCEPT ![i] = r] /\ r.stack = u
    BY <1>12 DEF RunnerBecomes
  <1>14. window'.at = "started" /\ window' \in Windows
    <2>1. window' = [at |-> "started", by |-> Foreground, indent |-> 0, asked |-> <<>>]
      BY <1>8 DEF NoWindow
    <2>2. <<>> \in Seq(DOMAIN Code \cup Nat) /\ Foreground \in Interpreters
      BY DEF Interpreters
    <2> QED BY <2>1, <2>2 DEF Windows
  <1>15. \A j \in Interpreters : ~Asks(j)'
    BY <1>14 DEF Asks
  <1>16. \A j \in Interpreters \ {i} : Asks(j)' = Asks(j)
    <2> SUFFICES ASSUME NEW j \in Interpreters \ {i} PROVE Asks(j)' = Asks(j)
      OBVIOUS
    <2>1. ~(window'.at = "choice" /\ window'.by = j) /\ ~(window.at = "choice" /\ window.by = j)
      BY <1>1, <1>14
    <2> QED BY <2>1 DEF Asks
  <1>17. \A n \in DOMAIN r.stack : SoundFrame(r.stack[n], Asks(i)' /\ n = Len(r.stack))
    <2> SUFFICES ASSUME NEW n \in DOMAIN u PROVE SoundFrame(u[n], Asks(i)' /\ n = Len(u))
      BY <1>13
    <2>1. (Asks(i)' /\ n = Len(u)) = FALSE
      BY <1>15
    <2> QED BY <2>1, <1>11
  <1>18. QuestionOpen'
    BY <1>14 DEF QuestionOpen
  <1>19. ReleasedByFrame'
    <2> SUFFICES ASSUME \A q \in CommonPages : q.trigger # "auto",
                        NEW e \in Range(MapEvents), active[e], paused[e], ~waiting[e]
                 PROVE  interp'[Foreground].stack # <<>> /\ interp'[Foreground].stack[1].event = e
      BY DEF ReleasedByFrame, mapVars
    <2>1. interp[Foreground].stack # <<>> /\ interp[Foreground].stack[1].event = e
      BY DEF EventsIInv, Core, ReleasedByFrame, Parallel
    <2>2. Foreground \in Interpreters
      BY DEF Interpreters
    <2>3. CASE Foreground = i
      BY <2>1, <2>3, <1>10, <1>13, TypedFacts
    <2>4. CASE Foreground # i
      BY <2>1, <2>2, <2>4, <1>13, TypedFacts
    <2> QED BY <2>3, <2>4
  <1>20. Len(s) <= CallStackLimit + 1
    BY DEF EventsIInv, Core, CoreTyped
  <1>21. /\ Len(r.stack) <= CallStackLimit + 1 /\ (r.stack = <<>> <=> interp[i].stack = <<>>)
         /\ r.stack # <<>> => r.stack[1].list = interp[i].stack[1].list
    BY <1>2, <1>10, <1>13, <1>20
  <1>22. switches' \in [Switches -> BOOLEAN] /\ active' \in [Parallel -> BOOLEAN] /\ paused' \in [Parallel -> BOOLEAN]
         /\ UNCHANGED <<page, waiting>>
    BY TypedFacts DEF mapVars
  <1> HIDE DEF s
  <1>23. Core'
    BY <1>13, <1>14, <1>16, <1>17, <1>18, <1>19, <1>21, <1>22, RunnerChanges DEF EventsIInv
  <1> QED BY <1>8, <1>23, TypedFacts

LEMMA UpdateMessageKeeps ==
    ASSUME InterpreterAssumption, MapUpdateAssumption, EventsIInv, UpdateMessage
    PROVE  EventsIInv'
  <1>1. /\ doing = "message" /\ doing' \in {"foreground", "loop"} /\ loops' = 0
        /\ UNCHANGED <<mapVars, requested, turn, async, stopped, updated>>
    BY DEF UpdateMessage
  <1>2. ASSUME UNCHANGED <<window, interp, aborted>> PROVE Core' /\ aborted' \in BOOLEAN
    BY <1>1, <1>2, CoreStays, TypedFacts DEF EventsIInv, mapVars
  <1>3. ASSUME NEW k \in {0, 1}, Answer(k) PROVE Core' /\ aborted' \in BOOLEAN
    BY <1>1, <1>3, AnswerKeepsCore
  <1>4. ASSUME window.at \notin {"choice"},
               window' = [NoWindow EXCEPT !.at =
                CASE window.at = "text" -> "started" [] window.at = "started" -> "closing"
                  [] window.at = "closing" -> "finished" [] OTHER -> "none"],
               UNCHANGED <<interp, aborted>>
        PROVE  Core' /\ aborted' \in BOOLEAN
    <2>1. PICK now \in {"started", "closing", "finished", "none"} : window' = [NoWindow EXCEPT !.at = now]
      BY <1>4
    <2>2. window' = [at |-> now, by |-> Foreground, indent |-> 0, asked |-> <<>>]
      BY <2>1 DEF NoWindow
    <2>3. window' \in Windows /\ window'.at # "choice"
      <3>1. <<>> \in Seq(DOMAIN Code \cup Nat) /\ Foreground \in Interpreters
        BY DEF Interpreters
      <3> QED BY <2>2, <3>1 DEF Windows
    <2>4. CoreTyped'
      BY <1>1, <1>4, <2>3 DEF EventsIInv, Core, CoreTyped, mapVars
    <2>5. \A i \in Interpreters : (Asks(i)' = FALSE) /\ (Asks(i) = FALSE)
      BY <1>4, <2>3 DEF Asks
    <2>6. FramesSound'
      <3> SUFFICES ASSUME NEW i \in Interpreters, NEW k \in DOMAIN interp[i].stack
                   PROVE  SoundFrame(interp[i].stack[k], Asks(i)' /\ k = Len(interp[i].stack))
        BY <1>4 DEF FramesSound
      <3>1. (Asks(i)' /\ k = Len(interp[i].stack)) = (Asks(i) /\ k = Len(interp[i].stack))
        BY <2>5
      <3> QED BY <3>1 DEF EventsIInv, Core, FramesSound
    <2>7. ParallelNeverEnds' /\ BackgroundIsOpenPage' /\ ReleasedByFrame' /\ PagesOpen'
      BY <1>1, <1>4 DEF EventsIInv, Core, ParallelNeverEnds, BackgroundIsOpenPage, ReleasedByFrame,
                        PagesOpen, TriggerOf, ListOf, PageOf, mapVars
    <2>8. QuestionOpen'
      BY <2>3 DEF QuestionOpen
    <2>9. aborted' \in BOOLEAN
      BY <1>4, TypedFacts
    <2> QED BY <2>4, <2>6, <2>7, <2>8, <2>9 DEF Core
  <1>5. Core' /\ aborted' \in BOOLEAN
    <2>1. \/ UNCHANGED <<window, interp, aborted>>
          \/ \E k \in {0, 1} : Answer(k)
          \/ /\ window.at \notin {"choice"}
             /\ window' = [NoWindow EXCEPT !.at =
                CASE window.at = "text" -> "started" [] window.at = "started" -> "closing"
                  [] window.at = "closing" -> "finished" [] OTHER -> "none"]
             /\ UNCHANGED <<interp, aborted>>
      BY DEF UpdateMessage
    <2> QED BY <2>1, <1>2, <1>3, <1>4
  <1>6. async' = "none" /\ async = "none"
    BY <1>1 DEF EventsIInv, Flow, SuspendedOnTop
  <1>7. FlowTyped'
    <2>1. 0 \in 0..LoopLimit
      BY DEF MapUpdateAssumption
    <2> QED BY <1>1, <1>5, <2>1 DEF EventsIInv, Flow, FlowTyped, Phases, mapVars
  <1>8. TurnsInOrder' /\ SuspendedOnTop'
    BY <1>1, <1>6 DEF EventsIInv, Flow, TurnsInOrder, SuspendedOnTop
  <1> QED BY <1>5, <1>7, <1>8 DEF EventsIInv, Flow

LEMMA FrameOrNone ==
    ASSUME NEW T, NEW g, T => g \in Frames /\ SoundFrame(g, FALSE),
           NEW A, A = IF T THEN <<g>> ELSE <<>>
    PROVE  /\ A \in Seq(Frames) /\ Len(A) \in {0, 1} /\ (T => Len(A) = 1) /\ (~T => Len(A) = 0)
           /\ \A k \in 1..Len(A) : SoundFrame(A[k], FALSE)
           /\ T => A[1] \in {g}
  <1>1. CASE T
    <2>1. A = <<g>> /\ g \in Frames /\ SoundFrame(g, FALSE)
      BY <1>1
    <2>2. Len(A) = 1 /\ A[1] \in {g} /\ A \in Seq(Frames) /\ \A k \in 1..1 : A[k] = g
      BY <2>1
    <2> QED BY <1>1, <2>1, <2>2
  <1>2. CASE ~T
    <2>1. A = <<>>
      BY <1>2
    <2> QED BY <1>2, <2>1
  <1> QED BY <1>1, <1>2

\* What is put into the foreground.
LEMMA PushedFacts ==
    ASSUME InterpreterAssumption, MapUpdateAssumption, EventsIInv
    PROVE  /\ Pushed \in Seq(Frames) /\ Len(Pushed) <= 2
           /\ \A k \in DOMAIN Pushed : SoundFrame(Pushed[k], FALSE)
           /\ AutoEvents = {} /\ Waiting # {} => Pushed # <<>> /\ Pushed[1].event = FirstWaiting
           /\ Waiting # {} => FirstWaiting \in Range(MapEvents)
  <1>1. DOMAIN CommonEvents \subseteq Nat /\ DOMAIN MapEvents \subseteq Nat
        /\ (\A n \in DOMAIN CommonEvents : CommonEvents[n] \in Range(CommonEvents))
        /\ (\A n \in DOMAIN MapEvents : MapEvents[n] \in Range(MapEvents))
    BY OrderFacts
  <1>2. AutoEvents # {} => FirstAuto \in Range(CommonEvents)
    <2>1. AutoEvents \in SUBSET Nat /\ AutoEvents \subseteq DOMAIN CommonEvents
      BY <1>1 DEF AutoEvents
    <2>2. AutoEvents # {} => Min(AutoEvents) \in AutoEvents
      BY <2>1, LeastOf
    <2> QED BY <1>1, <2>1, <2>2 DEF FirstAuto
  <1>3. Waiting # {} => FirstWaiting \in Range(MapEvents) /\ waiting[FirstWaiting]
    <2>1. Waiting \in SUBSET Nat /\ Waiting \subseteq DOMAIN MapEvents
          /\ \A n \in Waiting : waiting[MapEvents[n]]
      BY <1>1 DEF Waiting
    <2>2. Waiting # {} => Min(Waiting) \in Waiting
      BY <2>1, LeastOf
    <2> QED BY <1>1, <2>1, <2>2 DEF FirstWaiting
  <1>4. \A e \in Parallel : page[e] # 0 => PageOf(e).list \in DOMAIN Code
    <2> SUFFICES ASSUME NEW e \in Parallel, page[e] # 0 PROVE PageOf(e).list \in DOMAIN Code
      OBVIOUS
    <2>1. page[e] \in 1..Len(Pages[e])
      <3>1. page[e] \in 0..Len(Pages[e])
        BY TypedFacts
      <3> QED BY <3>1
    <2> QED BY <2>1, OpenPage DEF PageOf
  <1>5. PICK a : a = NewFrame(PageOf(FirstAuto).list, NoEvent)
    OBVIOUS
  <1>6. PICK b : b = NewFrame(PageOf(FirstWaiting).list, FirstWaiting)
    OBVIOUS
  <1>7. AutoEvents # {} => a \in Frames /\ SoundFrame(a, FALSE)
    <2> SUFFICES ASSUME AutoEvents # {} PROVE a \in Frames /\ SoundFrame(a, FALSE)
      OBVIOUS
    <2>1. FirstAuto \in Parallel /\ page[FirstAuto] = 1
      BY <1>2 DEF Parallel, EventsIInv, Core, PagesOpen
    <2>2. PageOf(FirstAuto).list \in DOMAIN Code /\ NoEvent \in Callers
      BY <1>4, <2>1 DEF Callers
    <2> QED BY <2>2, <1>5, NewFrameSound
  <1>8. Waiting # {} => b \in Frames /\ SoundFrame(b, FALSE) /\ b.event = FirstWaiting
    <2> SUFFICES ASSUME Waiting # {} PROVE b \in Frames /\ SoundFrame(b, FALSE) /\ b.event = FirstWaiting
      OBVIOUS
    <2>1. FirstWaiting \in Parallel /\ page[FirstWaiting] # 0
      BY <1>3 DEF Parallel, EventsIInv, Core, PagesOpen
    <2>2. PageOf(FirstWaiting).list \in DOMAIN Code /\ FirstWaiting \in Callers
      BY <1>3, <1>4, <2>1 DEF Callers
    <2> DEFINE l == PageOf(FirstWaiting).list
               e == FirstWaiting
    <2>3. l \in DOMAIN Code /\ e \in Callers /\ b = NewFrame(l, e)
      BY <2>2, <1>6
    <2> HIDE DEF l, e
    <2>4. b \in Frames /\ SoundFrame(b, FALSE)
      BY <2>3, NewFrameSound
    <2>5. b.event = e
      BY <2>3 DEF NewFrame
    <2> QED BY <2>4, <2>5 DEF e
  <1>9. PICK A : A = IF AutoEvents # {} THEN <<a>> ELSE <<>>
    OBVIOUS
  <1>10. PICK B : B = IF Waiting # {} THEN <<b>> ELSE <<>>
    OBVIOUS
  <1>11. Pushed = A \o B
    BY <1>5, <1>6, <1>9, <1>10 DEF Pushed
  <1>12. /\ A \in Seq(Frames) /\ Len(A) \in {0, 1} /\ (AutoEvents = {} => Len(A) = 0)
         /\ \A k \in 1..Len(A) : SoundFrame(A[k], FALSE)
    BY <1>7, <1>9, FrameOrNone
  <1>13. /\ B \in Seq(Frames) /\ Len(B) \in {0, 1} /\ (Waiting # {} => Len(B) = 1 /\ B[1] \in {b})
         /\ \A k \in 1..Len(B) : SoundFrame(B[k], FALSE)
    BY <1>8, <1>10, FrameOrNone
  <1>14. PICK s : s = A \o B
    OBVIOUS
  <1>15. /\ s \in Seq(Frames) /\ Len(s) = Len(A) + Len(B)
         /\ \A k \in 1..Len(A) + Len(B) : s[k] = IF k <= Len(A) THEN A[k] ELSE B[k - Len(A)]
    BY <1>12, <1>13, <1>14, ConcatProperties
  <1>16. Len(s) <= 2
    BY <1>12, <1>13, <1>15
  <1>17. \A k \in DOMAIN s : SoundFrame(s[k], FALSE)
    <2>1. DOMAIN s = 1..Len(A) + Len(B)
      BY <1>15, LenProperties
    <2> SUFFICES ASSUME NEW k \in 1..Len(A) + Len(B) PROVE SoundFrame(s[k], FALSE)
      BY <2>1
    <2>2. CASE k <= Len(A)
      <3>1. s[k] = A[k] /\ k \in 1..Len(A)
        BY <2>2, <1>12, <1>15
      <3> QED BY <3>1, <1>12
    <2>3. CASE ~(k <= Len(A))
      <3>1. s[k] = B[k - Len(A)]
        BY <2>3, <1>15
      <3>2. k - Len(A) \in 1..Len(B)
        BY <2>3, <1>12, <1>13
      <3> QED BY <3>1, <3>2, <1>13
    <2> QED BY <2>2, <2>3
  <1>18. AutoEvents = {} /\ Waiting # {} => s # <<>> /\ s[1].event = FirstWaiting
    <2> SUFFICES ASSUME AutoEvents = {}, Waiting # {} PROVE s # <<>> /\ s[1].event = FirstWaiting
      OBVIOUS
    <2>1. Len(A) = 0 /\ Len(B) = 1 /\ B[1] \in {b}
      BY <1>12, <1>13
    <2>2. Len(s) = 1 /\ s[1] = B[1]
      BY <2>1, <1>15
    <2>3. s # <<>>
      BY <2>2, <1>15, EmptySeq
    <2>4. s[1] = b
      BY <2>1, <2>2
    <2> QED BY <2>3, <2>4, <1>8
  <1>19. Pushed = s
    BY <1>11, <1>14
  <1> HIDE <1>9, <1>10, <1>14
  <1> QED BY <1>3, <1>15, <1>16, <1>17, <1>18, <1>19

LEMMA RunForegroundKeeps ==
    ASSUME InterpreterAssumption, MapUpdateAssumption, EventsIInv, RunForeground
    PROVE  EventsIInv'
  <1>1. /\ doing = "foreground" /\ ~Stops /\ doing' = "loop"
        /\ interp' = [interp EXCEPT ![Foreground] = [Idle EXCEPT !.stack = Pushed]]
        /\ waiting' = [e \in Parallel |->
                      waiting[e] /\ active[e] /\ (Waiting = {} \/ e # FirstWaiting)]
        /\ UNCHANGED <<switches, needRefresh, page, active, paused, window, requested, turn,
                       loops, async, stopped, updated, aborted>>
    BY DEF RunForeground
  <1>2. turn = Len(Order) + 1 /\ async = "none"
    BY <1>1 DEF EventsIInv, Flow, TurnsInOrder, SuspendedOnTop
  <1>3. Cur = Foreground
    BY <1>2, OrderFacts, CurFacts DEF EventsIInv, Flow
  <1>4. interp[Foreground].stack = <<>> /\ Foreground \in Interpreters /\ Foreground \notin Parallel
    BY <1>1, <1>3, OrderFacts DEF Stops, Stack, Interpreters
  <1>5. PICK s : s = Pushed
    OBVIOUS
  <1>6. /\ s \in Seq(Frames) /\ Len(s) <= 2 /\ Len(s) \in Nat
        /\ \A k \in DOMAIN s : SoundFrame(s[k], FALSE)
        /\ AutoEvents = {} /\ Waiting # {} => s # <<>> /\ s[1].event = FirstWaiting
    BY <1>5, PushedFacts, LenProperties
  <1>7. PICK r : r = [Idle EXCEPT !.stack = s]
    OBVIOUS
  <1>8. r \in Runners /\ r.stack = s
    BY <1>6, <1>7 DEF Runners, Idle
  <1>7a. [Idle EXCEPT !.stack = Pushed] = r
    BY <1>5, <1>7, Zenon
  <1>9. interp' = [interp EXCEPT ![Foreground] = r]
    BY <1>1, <1>7a
  <1> HIDE <1>5, <1>7, <1>7a
  <1>10. interp'[Foreground] = r
    BY <1>4, <1>9, TypedFacts
  <1>11. waiting' \in [Parallel -> BOOLEAN] /\ \A e \in Parallel : waiting'[e] => waiting[e]
    BY <1>1
  <1>12. ~Asks(Foreground) /\ \A j \in Interpreters : Asks(j)' = Asks(j)
    BY <1>1, <1>4 DEF EventsIInv, Core, QuestionOpen, Asks
  <1>13. \A k \in DOMAIN r.stack : SoundFrame(r.stack[k], Asks(Foreground)' /\ k = Len(r.stack))
    <2> SUFFICES ASSUME NEW k \in DOMAIN s PROVE SoundFrame(s[k], Asks(Foreground)' /\ k = Len(s))
      BY <1>8
    <2>1. (Asks(Foreground)' /\ k = Len(s)) = FALSE
      BY <1>4, <1>12
    <2> QED BY <2>1, <1>6
  <1>14. Len(r.stack) <= CallStackLimit + 1
    <2>1. CallStackLimit \in Nat \ {0}
      BY DEF MapUpdateAssumption
    <2> QED BY <2>1, <1>6, <1>8
  <1>15. QuestionOpen'
    <2> SUFFICES ASSUME window.at = "choice" PROVE QuestionOpen'
      BY <1>1 DEF QuestionOpen
    <2>1. window.by \in Interpreters /\ window.by # Foreground
      BY <1>12, TypedFacts DEF Windows, Asks
    <2>2. interp'[window.by] = interp[window.by]
      BY <2>1, <1>9, TypedFacts
    <2> QED BY <2>2, <1>1 DEF EventsIInv, Core, QuestionOpen
  <1>16. ReleasedByFrame'
    <2> SUFFICES ASSUME \A q \in CommonPages : q.trigger # "auto",
                        NEW e \in Range(MapEvents), active[e], paused[e], ~waiting'[e]
                 PROVE  s # <<>> /\ s[1].event = e
      BY <1>1, <1>8, <1>10 DEF ReleasedByFrame
    <2>1. waiting[e]
      BY <1>4 DEF EventsIInv, Core, ReleasedByFrame
    <2>2. Waiting # {} /\ e = FirstWaiting
      BY <2>1, <1>1 DEF Parallel
    <2>3. AutoEvents = {}
      <3> SUFFICES ASSUME NEW n \in DOMAIN CommonEvents, TriggerOf(CommonEvents[n]) = "auto"
                   PROVE  FALSE
        BY DEF AutoEvents
      <3> DEFINE d == CommonEvents[n]
      <3>1. d \in Parallel /\ page[d] = 1
        BY OrderFacts DEF Parallel, EventsIInv, Core, PagesOpen
      <3>2. 1 \in 1..Len(Pages[d])
        BY <3>1, TypedFacts
      <3>3. PageOf(d) \in CommonPages
        BY <3>1, <3>2, OpenPage DEF PageOf, CommonPages, Range
      <3> QED BY <3>1, <3>3 DEF TriggerOf
    <2> QED BY <2>2, <2>3, <1>6
  <1>17. Core'
    <2>1. /\ switches' \in [Switches -> BOOLEAN] /\ active' \in [Parallel -> BOOLEAN]
          /\ paused' \in [Parallel -> BOOLEAN] /\ window' \in Windows /\ UNCHANGED page
      BY <1>1, TypedFacts
    <2> QED BY <1>4, <1>8, <1>9, <1>11, <1>12, <1>13, <1>14, <1>15, <1>16, <2>1, RunnerStarts DEF EventsIInv
  <1>18. Flow'
    BY <1>1, <1>2, LoopFlow, TypedFacts
  <1> QED BY <1>17, <1>18 DEF EventsIInv

LEMMA EventsInitIInv ==
    ASSUME InterpreterAssumption, MapUpdateAssumption, EventsInit
    PROVE  EventsIInv
  <1>1. /\ switches = [s \in Switches |-> FALSE] /\ needRefresh = FALSE
        /\ page = [e \in Parallel |-> IF e \in Range(MapEvents) THEN PageMet(e, switches) ELSE 1]
        /\ active = [e \in Parallel |-> TRUE]
        /\ waiting = [e \in Parallel |-> FALSE] /\ paused = [e \in Parallel |-> FALSE]
        /\ window = NoWindow /\ requested = FALSE
        /\ doing = "idle" /\ turn = 1 /\ loops = 0 /\ async = "none" /\ stopped = <<>>
        /\ updated = {} /\ aborted = FALSE
    BY DEF EventsInit
  <1>2. \A i \in Interpreters :
           \/ interp[i] = Idle /\ ~(i \in Range(CommonEvents) /\ Pages[i][1].trigger = "parallel"
                                     /\ Code[Pages[i][1].list] # <<>>)
           \/ /\ i \in Range(CommonEvents)
              /\ interp[i] = [Idle EXCEPT !.stack = <<NewFrame(Pages[i][1].list, NoEvent)>>]
    BY DEF EventsInit
  <1>3. DOMAIN interp = Interpreters /\ interp = [i \in Interpreters |-> interp[i]]
    BY DEF EventsInit
  <1>4. /\ Parallel \subseteq Interpreters /\ Range(CommonEvents) \cap Range(MapEvents) = {}
        /\ Range(CommonEvents) \subseteq Parallel /\ Range(MapEvents) \subseteq Parallel
        /\ Parallel = Range(CommonEvents) \cup Range(MapEvents)
    BY OrderFacts DEF Interpreters, Parallel
  <1>5. \A e \in Range(CommonEvents) : Len(Pages[e]) = 1
    BY DEF MapUpdateAssumption
  <1>6. \A i \in Interpreters :
           /\ interp[i] \in Runners /\ Len(interp[i].stack) <= CallStackLimit + 1
           /\ \A k \in DOMAIN interp[i].stack : SoundFrame(interp[i].stack[k], FALSE)
           /\ i \notin Range(CommonEvents) => interp[i].stack = <<>>
    <2> SUFFICES ASSUME NEW i \in Interpreters
                 PROVE  /\ interp[i] \in Runners /\ Len(interp[i].stack) <= CallStackLimit + 1
                        /\ \A k \in DOMAIN interp[i].stack : SoundFrame(interp[i].stack[k], FALSE)
                        /\ i \notin Range(CommonEvents) => interp[i].stack = <<>>
      OBVIOUS
    <2>0. CallStackLimit \in Nat
      BY DEF MapUpdateAssumption
    <2>1. CASE interp[i] = Idle
      BY <2>0, <2>1 DEF Idle, Runners
    <2>2. CASE /\ i \in Range(CommonEvents)
               /\ interp[i] = [Idle EXCEPT !.stack = <<NewFrame(Pages[i][1].list, NoEvent)>>]
      <3>0. PICK l : l = Pages[i][1].list
        OBVIOUS
      <3>1. PICK g : g = NewFrame(l, NoEvent)
        OBVIOUS
      <3>2. 1 \in 1..Len(Pages[i]) /\ i \in Parallel
        BY <2>2, <1>4, <1>5
      <3>3. l \in DOMAIN Code /\ NoEvent \in Callers
        BY <3>0, <3>2, OpenPage DEF Callers
      <3>3a. NewFrame(l, NoEvent) \in Frames /\ SoundFrame(NewFrame(l, NoEvent), FALSE)
        BY <3>3, NewFrameSound
      <3>4. g \in Frames /\ SoundFrame(g, FALSE)
        BY <3>1, <3>3a
      <3>5. interp[i] = [stack |-> <<g>>, wait |-> 0, showMessage |-> FALSE]
        BY <2>2, <3>0, <3>1 DEF Idle
      <3> HIDE <3>1, <3>0
      <3>6. <<g>> \in Seq(Frames) /\ Len(<<g>>) = 1 /\ DOMAIN <<g>> = {1} /\ <<g>>[1] = g
        BY <3>4
      <3>7. interp[i] \in Runners /\ interp[i].stack = <<g>>
        BY <3>5, <3>6 DEF Runners
      <3>8. \A k \in DOMAIN interp[i].stack : SoundFrame(interp[i].stack[k], FALSE)
        <4> SUFFICES ASSUME NEW k \in DOMAIN interp[i].stack
                     PROVE  SoundFrame(interp[i].stack[k], FALSE)
          OBVIOUS
        <4>1. DOMAIN interp[i].stack = {1}
          BY <3>6, <3>7, Zenon
        <4>2. k = 1
          BY <4>1
        <4>3. interp[i].stack[k] = g
          BY <4>2, <3>6, <3>7, Zenon
        <4> QED BY <4>3, <3>4, Zenon
      <3>9. Len(interp[i].stack) <= CallStackLimit + 1
        <4>1. Len(interp[i].stack) = 1
          BY <3>6, <3>7, Zenon
        <4> QED BY <4>1, <2>0
      <3> QED BY <2>2, <3>7, <3>8, <3>9, Zenon
    <2> QED BY <1>2, <2>1, <2>2
  <1>7. page \in [Parallel -> Nat] /\ \A e \in Parallel : page[e] \in 0..Len(Pages[e])
    <2>1. \A e \in Parallel : PageMet(e, switches) \in 0..Len(Pages[e]) /\ Len(Pages[e]) \in Nat
      BY PageMetFacts
    <2>2. page = [e \in Parallel |-> page[e]]
      BY <1>1
    <2>3. \A e \in Parallel : page[e] \in 0..Len(Pages[e])
      <3> SUFFICES ASSUME NEW e \in Parallel PROVE page[e] \in 0..Len(Pages[e])
        OBVIOUS
      <3>1. CASE e \in Range(MapEvents)
        BY <1>1, <2>1, <3>1
      <3>2. CASE e \notin Range(MapEvents)
        <4>1. page[e] = 1 /\ e \in Range(CommonEvents)
          BY <1>1, <1>4, <3>2
        <4> QED BY <4>1, <1>5
      <3> QED BY <3>1, <3>2
    <2> QED BY <2>1, <2>2, <2>3
  <1>8. window \in Windows /\ window.at # "choice"
    <2>1. window = [at |-> "none", by |-> Foreground, indent |-> 0, asked |-> <<>>]
      BY <1>1 DEF NoWindow
    <2>2. <<>> \in Seq(DOMAIN Code \cup Nat) /\ Foreground \in Interpreters
      BY DEF Interpreters
    <2> QED BY <2>1, <2>2 DEF Windows
  <1>9. CoreTyped
    BY <1>1, <1>3, <1>6, <1>7, <1>8 DEF CoreTyped
  <1>10. FramesSound
    <2> SUFFICES ASSUME NEW i \in Interpreters, NEW k \in DOMAIN interp[i].stack
                 PROVE  SoundFrame(interp[i].stack[k], Asks(i) /\ k = Len(interp[i].stack))
      BY DEF FramesSound
    <2>1. (Asks(i) /\ k = Len(interp[i].stack)) = FALSE
      BY <1>8 DEF Asks
    <2> QED BY <2>1, <1>6
  <1>11. ParallelNeverEnds
    <2> SUFFICES ASSUME NEW e \in Range(CommonEvents), TriggerOf(e) = "parallel", ListOf(e) # <<>>
                 PROVE  interp[e].stack # <<>>
      BY DEF ParallelNeverEnds
    <2>1. page[e] = 1
      BY <1>1, <1>4
    <2>2. Pages[e][1].trigger = "parallel" /\ Code[Pages[e][1].list] # <<>>
      BY <2>1 DEF TriggerOf, ListOf, PageOf
    <2>3. interp[e] = [Idle EXCEPT !.stack = <<NewFrame(Pages[e][1].list, NoEvent)>>]
      BY <2>2, <1>2, <1>4
    <2> QED BY <2>3 DEF Idle
  <1>12. BackgroundIsOpenPage
    <2>1. \A e \in Range(MapEvents) : interp[e].stack = <<>>
      BY <1>4, <1>6
    <2> QED BY <2>1 DEF BackgroundIsOpenPage
  <1>13. QuestionOpen /\ ReleasedByFrame /\ PagesOpen
    BY <1>1, <1>4, <1>8 DEF QuestionOpen, ReleasedByFrame, PagesOpen
  <1>14. FlowTyped
    <2>1. 1 \in 1..Len(Order) + 1 /\ 0 \in 0..LoopLimit
      BY OrderFacts DEF MapUpdateAssumption
    <2> QED BY <1>1, <2>1 DEF FlowTyped, Phases
  <1>15. TurnsInOrder /\ SuspendedOnTop
    BY <1>1 DEF TurnsInOrder, SuspendedOnTop
  <1> QED BY <1>9, <1>10, <1>11, <1>12, <1>13, <1>14, <1>15 DEF EventsIInv, Core, Flow

-----------------------------------------------------------------------------
(* The theorems about events.                                              *)

\* A step that changes nothing.
LEMMA UnchangedKeeps ==
    ASSUME EventsIInv, UNCHANGED eventVars
    PROVE  EventsIInv'
  <1> USE DEF eventVars, mapVars, frameVars
  <1>1. UNCHANGED <<switches, needRefresh, page, active, waiting, paused, interp, window, requested,
                    doing, turn, loops, async, stopped, updated, aborted>>
    OBVIOUS
  <1>2. Cur' = Cur /\ Stack' = Stack
    BY <1>1 DEF Cur, Stack
  <1>3. CoreTyped' /\ FlowTyped'
    BY <1>1 DEF EventsIInv, Core, Flow, CoreTyped, FlowTyped
  <1>4. FramesSound' /\ QuestionOpen' /\ ReleasedByFrame' /\ PagesOpen'
    BY <1>1 DEF EventsIInv, Core, FramesSound, QuestionOpen, ReleasedByFrame, PagesOpen, Asks
  <1>5. ParallelNeverEnds' /\ BackgroundIsOpenPage'
    BY <1>1 DEF EventsIInv, Core, ParallelNeverEnds, BackgroundIsOpenPage, TriggerOf, ListOf, PageOf
  <1>6. TurnsInOrder' /\ SuspendedOnTop'
    BY <1>1, <1>2 DEF EventsIInv, Flow, TurnsInOrder, SuspendedOnTop
  <1> QED BY <1>3, <1>4, <1>5, <1>6 DEF EventsIInv, Core, Flow

\* Every step keeps the invariant, one lemma per action.
LEMMA EventsNextIInv ==
    ASSUME InterpreterAssumption, MapUpdateAssumption, EventsIInv, [EventsNext]_eventVars,
           [~Overtaken]_eventVars
    PROVE  EventsIInv'
  <1>1. CASE UNCHANGED eventVars
    BY <1>1, UnchangedKeeps
  <1>2. CASE ~Overtaken /\ StartFrame
    BY <1>2, StartFrameKeeps
  <1>3. CASE ~Overtaken /\ (LoopRefresh \/ LeftRefresh)
    BY <1>3, LoopRefreshKeeps
  <1>4. CASE ~Overtaken /\ ResumeRefresh
    BY <1>4, ResumeRefreshKeeps
  <1>5. CASE Execute
    BY <1>5, MoveKeeps, ControlSwitchesKeeps, WaitKeeps, ShowMessageKeeps, ShowChoicesKeeps,
       EraseEventKeeps, CallEventKeeps, AsyncCommandKeeps, CallSceneKeeps DEF Execute
  <1>6. CASE BeginTurn \/ LeaveLoop \/ FinishFrame \/ Left \/ Resume
    BY <1>6, BeginTurnKeeps, LeaveLoopKeeps, FinishFrameKeeps, LeftKeeps, ResumeKeeps
  <1>7. CASE PlayerUpdate \/ UpdateMessage \/ RunForeground \/ EndFrame \/ ReceiveSwitch
    BY <1>7, PlayerUpdateKeeps, UpdateMessageKeeps, RunForegroundKeeps, EndFrameKeeps, ReceiveSwitchKeeps
  <1> QED BY <1>1, <1>2, <1>3, <1>4, <1>5, <1>6, <1>7 DEF EventsNext, Step

\* The invariant has what the runs check.
LEMMA EventsIInvImplies ==
    ASSUME InterpreterAssumption, MapUpdateAssumption, EventsIInv
    PROVE  EventsInv
  <1>1. OnlyChosenArms
    BY DEF EventsIInv, Core, FramesSound, SoundFrame, OnlyChosenArms, CoreTyped
  <1>2. AnswerFindsItsFrame
    BY DEF EventsIInv, Core, QuestionOpen, AnswerFindsItsFrame
  <1>3. StandsStillToAct
    <2> SUFFICES ASSUME NEW e \in Range(MapEvents), active[e], paused[e],
                        \A q \in CommonPages : q.trigger # "auto", ~waiting[e]
                 PROVE  \E k \in DOMAIN interp[Foreground].stack :
                            interp[Foreground].stack[k].event = e
      BY DEF StandsStillToAct
    <2>1. interp[Foreground].stack # <<>> /\ interp[Foreground].stack[1].event = e
      BY DEF EventsIInv, Core, ReleasedByFrame
    <2>2. interp[Foreground].stack \in Seq(Frames)
      BY DEF EventsIInv, Core, CoreTyped, Runners, Interpreters
    <2>3. 1 \in DOMAIN interp[Foreground].stack
      BY <2>1, <2>2
    <2> QED BY <2>1, <2>3
  <1>4. EventsTypeOK
    <2>1. \A i \in Interpreters : interp[i] \in Runners
      BY DEF EventsIInv, Core, CoreTyped
    <2>2. \A i \in Interpreters :
              /\ Len(interp[i].stack) <= CallStackLimit + 1
              /\ \A k \in DOMAIN interp[i].stack : IsFrame(interp[i].stack[k])
              /\ interp[i].wait \in Nat /\ interp[i].showMessage \in BOOLEAN
      BY <2>1 DEF EventsIInv, Core, CoreTyped, FramesSound, SoundFrame, Runners
    <2>3. window.at \in {"none", "text", "choice", "started", "closing", "finished"}
      BY DEF EventsIInv, Core, CoreTyped, Windows
    <2> QED BY <2>2, <2>3 DEF EventsIInv, Core, CoreTyped, Flow, FlowTyped, EventsTypeOK
  <1> QED BY <1>1, <1>2, <1>3, <1>4 DEF EventsInv, EventsIInv, Core

\* Whose turn it is has not had it: no event is in the order twice.
LEMMA NotUpdatedYet ==
    ASSUME MapUpdateAssumption, EventsIInv, doing # "idle"
    PROVE  Cur \notin updated
  <1> SUFFICES ASSUME Cur \in updated PROVE FALSE
    OBVIOUS
  <1>1. Cur \in Parallel
    BY DEF EventsIInv, Flow, FlowTyped
  <1>2. turn <= Len(Order) /\ Cur = Order[turn] /\ turn \in 1..Len(Order)
    BY <1>1, OrderFacts, CurFacts, TypedFacts DEF EventsIInv, Flow
  <1>3. PICK n \in 1 .. turn - 1 : n <= Len(Order) /\ Order[n] = Cur
    BY DEF EventsIInv, Flow, TurnsInOrder
  <1> QED BY <1>2, <1>3, OrderFacts

\* A step gives commands to the interpreter whose turn it is; a refresh only takes them.
LEMMA OthersStay ==
    ASSUME EventsIInv, EventsNext, doing \notin {"message", "idle"},
           NEW e \in Parallel, e # Cur, e # Foreground
    PROVE  interp'[e].stack \in {interp[e].stack, <<>>}
  <1>0. interp \in [Interpreters -> Runners] /\ e \in Interpreters
    BY DEF EventsIInv, Core, CoreTyped, Interpreters
  <1>1. ASSUME Refresh PROVE interp'[e].stack \in {interp[e].stack, <<>>}
    BY <1>0, <1>1 DEF Refresh, Idle
  <1>2. CASE StartFrame \/ ReceiveSwitch \/ EndFrame \/ Left \/ PlayerUpdate
    BY <1>2 DEF StartFrame, ReceiveSwitch, EndFrame, Left, PlayerUpdate
  <1>3. CASE LoopRefresh \/ LeftRefresh \/ ResumeRefresh
    BY <1>1, <1>3 DEF LoopRefresh, LeftRefresh, ResumeRefresh, RefreshIfNeeded
  <1>4. CASE BeginTurn \/ Resume
    <2>1. interp' \in {interp, WithCommands(Cur)}
      BY <1>4 DEF BeginTurn, Resume
    <2> QED BY <1>0, <2>1 DEF WithCommands
  <1>5. CASE LeaveLoop
    BY <1>0, <1>5 DEF LeaveLoop
  <1>6. CASE FinishFrame
    BY <1>0, <1>6 DEF FinishFrame
  <1>7. CASE Execute
    <2>1. CASE Move \/ ControlSwitches
      BY <1>0, <2>1 DEF Move, ControlSwitches, Continue
    <2>2. CASE Wait
      BY <1>0, <2>2 DEF Wait
    <2>3. CASE ShowMessage \/ ShowChoices
      BY <1>0, <2>3 DEF ShowMessage, ShowChoices, LeaveWith
    <2>4. CASE EraseEvent \/ AsyncCommand \/ CallScene
      BY <1>0, <2>4 DEF EraseEvent, AsyncCommand, CallScene, LeaveWith, Continue
    <2>5. CASE CallEvent
      BY <1>0, <2>5 DEF CallEvent
    <2> QED BY <1>7, <2>1, <2>2, <2>3, <2>4, <2>5 DEF Execute
  <1>8. CASE UpdateMessage
    BY <1>8 DEF UpdateMessage
  <1>9. CASE RunForeground
    BY <1>0, <1>9 DEF RunForeground
  <1> QED BY <1>2, <1>3, <1>4, <1>5, <1>6, <1>7, <1>8, <1>9 DEF EventsNext, Step

\* So nobody whose turn is over is given commands.
LEMMA NoTurnTwice ==
    ASSUME MapUpdateAssumption, EventsIInv, [EventsNext]_eventVars
    PROVE  OncePerFrame
  <1> SUFFICES ASSUME NEW e \in updated, doing \notin {"message", "idle"}
               PROVE  interp'[e].stack \in {interp[e].stack, <<>>}
    BY DEF OncePerFrame
  <1>1. CASE UNCHANGED eventVars
    BY <1>1 DEF eventVars
  <1>2. CASE EventsNext
    <2>1. e \in Parallel /\ e # Foreground /\ e # Cur
      BY NotUpdatedYet, OrderFacts DEF EventsIInv, Flow, FlowTyped, MapUpdateAssumption
    <2> QED BY <1>2, <2>1, OthersStay
  <1> QED BY <1>1, <1>2

\* Only Resume goes on, and finds what was on top.
LEMMA GoesOnWhereItStopped ==
    ASSUME MapUpdateAssumption, EventsIInv, [EventsNext]_eventVars
    PROVE  ResumesWhereItStopped
  <1> SUFFICES ASSUME doing = "resuming", doing' = "loop"
               PROVE  interp'[Cur].stack # <<>> /\ <<Last(interp'[Cur].stack)>> = stopped
    BY DEF ResumesWhereItStopped
  <1>1. doing' # doing
    OBVIOUS
  <1>2. EventsNext
    BY <1>1 DEF eventVars, frameVars
  <1>3. ~StartFrame /\ ~ReceiveSwitch /\ ~BeginTurn /\ ~LeaveLoop /\ ~LeftRefresh /\ ~Left
    BY DEF StartFrame, ReceiveSwitch, BeginTurn, LeaveLoop, LeftRefresh, Left
  <1>4. ~ResumeRefresh /\ ~PlayerUpdate /\ ~UpdateMessage /\ ~RunForeground /\ ~EndFrame
    BY DEF ResumeRefresh, PlayerUpdate, UpdateMessage, RunForeground, EndFrame
  <1>5. ~InLoop
    BY DEF InLoop
  <1>6. ~LoopRefresh /\ ~FinishFrame /\ ~Execute
    BY <1>5 DEF LoopRefresh, FinishFrame, Execute, Ready, NextIs, Move, ControlSwitches, Wait,
       ShowMessage, ShowChoices, EraseEvent, CallEvent, AsyncCommand, CallScene
  <1>7. Resume
    BY <1>2, <1>3, <1>4, <1>6 DEF EventsNext, Step
  <1>8. interp' \in {interp, WithCommands(Cur)}
    BY <1>7 DEF Resume
  <1>9. Stack # <<>> /\ stopped = <<Last(Stack)>>
    BY DEF EventsIInv, Flow, SuspendedOnTop
  <1>10. interp' = interp
    BY <1>8, <1>9 DEF WithCommands, Stack
  <1> QED BY <1>9, <1>10 DEF Stack

\* Whatever the lists of commands, pages, packets and calls: only chosen arms are executed, a
\* parallel common event never ends, what runs in the background is the page that is open, an
\* answer finds the frame that asked, and an event that stands still is released. All that as
\* long as no page is turned over under an interpreter that asks or is suspended
\* (Game_Map::Update, Game_Interpreter::Update, Game_Event::RefreshPage).
THEOREM EventsKeepTheirPlaces ==
    ASSUME InterpreterAssumption, MapUpdateAssumption
    PROVE  EventsSpec /\ [][~Overtaken]_eventVars => []EventsInv
  <1>1. EventsInit => EventsIInv
    BY EventsInitIInv
  <1>2. EventsIInv /\ [EventsNext]_eventVars /\ [~Overtaken]_eventVars => EventsIInv'
    BY EventsNextIInv
  <1>3. EventsIInv => EventsInv
    BY EventsIInvImplies
  <1> QED BY <1>1, <1>2, <1>3, PTL DEF EventsSpec

\* A frame of the map that is suspended resumes at the command after the one that suspended it,
\* and no event has its turn twice in it (MapUpdateAsyncContext).
THEOREM FramesGoOnInOrder ==
    ASSUME InterpreterAssumption, MapUpdateAssumption
    PROVE  EventsSpec /\ [][~Overtaken]_eventVars => EventsInOrder
  <1>1. EventsInit => EventsIInv
    BY EventsInitIInv
  <1>2. EventsIInv /\ [EventsNext]_eventVars /\ [~Overtaken]_eventVars => EventsIInv'
    BY EventsNextIInv
  <1>3. EventsIInv /\ [EventsNext]_eventVars => [OncePerFrame /\ ResumesWhereItStopped]_eventVars
    BY NoTurnTwice, GoesOnWhereItStopped
  <1> QED BY <1>1, <1>2, <1>3, PTL DEF EventsSpec, EventsInOrder

=============================================================================
