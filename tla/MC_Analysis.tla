---------------------------- MODULE MC_Analysis -----------------------------
(***************************************************************************)
(* The analysis of a strobed picture, the two searches of the image        *)
(* processor it calls, for the balls in a picture and for the rotation     *)
(* between two of them, and the flight that it reports.  Each is checked   *)
(* on inputs of its own; a behaviour is one of any of the four.            *)
(***************************************************************************)
EXTENDS MC_ShotAnalysis

CONSTANTS
  Kinds, Strengths, Settings, NarrowingLevel, RadiiToAverage, MinRatio, MaxRatio,
  MinCandidateRadius, IndexWeight,                             \* BallSearch
  Pairs, StartThreshold, kGaborMinWhitePercent, kGaborMaxWhitePercent,
  CoarseStart, CoarseEnd, CoarseIncrement,                     \* SpinSearch
  Flights, Rotations, FocalPixels, BallRadius, CameraAngles, Camera2Offset, Tee,
  AngleError, SpeedError                                       \* ShotFlight

VARIABLES
  part,  \* the component of this behaviour
  picture, search, level, circles, loosening, final, radii, found,
  pair, comparison, threshold, calibrated, threshold2, deltas, offset, rotation,
  step, flight, teed, strobed, chosen, result, rpm, report

\* Five circles: three about one centre, a coloured one and one that is too large
\* for a narrowed search.
Circle(x, r, colour) == [x |-> x, r |-> r, colour |-> colour]
MCKinds ==
  <<Circle(1, 9, 5), Circle(1, 12, 0), Circle(1, 14, 0), Circle(2, 12, 30), Circle(3, 20, 0)>>

Levels(start, min, max, fewest, most) ==
  [start |-> start, min |-> min, max |-> max, inc |-> 1, fewest |-> fewest, most |-> most,
   radii |-> <<7, 20>>]
MCSettings ==
  [placed  |-> Levels(3, 1, 4, 1, 2), strobed  |-> Levels(3, 1, 4, 2, 3),
   putting |-> Levels(2, 1, 4, 2, 3), external |-> Levels(1, 5, 8, 2, 3)]

\* Blank images, to whiteness alone; all rotations within the coarse grid; views to
\* either side of the ball, near and far, for both kinds of golfers.
Angle(x, y, z) == [x |-> x, y |-> y, z |-> z]
Response(white, up, down) == [white |-> white, up |-> up, down |-> down]
Plain == [response |-> Response(41, 1, 1), view1 |-> Angle(0, 0, 0), view2 |-> Angle(0, 0, 0),
          leftHanded |-> FALSE, truth |-> Angle(0, 0, 0), blank |-> FALSE]
Views == {-62, -8, 0, 30, 64}
MCPairs ==
  {[Plain EXCEPT !.response = Response(w, u, d), !.blank = TRUE] :
     w \in 0..100, u \in {1, 3, 5}, d \in {1, 4, 5}}
  \cup {[Plain EXCEPT !.truth = Angle(x, y, z)] : x \in -8..8, y \in -5..5, z \in -6..12}
  \cup {[Plain EXCEPT !.view1 = Angle(a, b, 0), !.view2 = Angle(c, d, 0), !.leftHanded = h] :
          a \in Views, b \in Views, c \in Views, d \in Views, h \in BOOLEAN}
MCStart == Angle(-8, -5, -6)
MCEnd == Angle(8, 5, 12)
MCIncrement == Angle(4, 5, 4)

\* The cameras as they are configured; shots of both golfers and putts, level to
\* steep, to either side; a ball faster than a simulator is told.
MCCameraAngles == <<[x |-> 21, y |-> -264], [x |-> -9, y |-> 33]>>
MCOffset == [x |-> 0, y |-> -1900, z |-> 0]
MCTee == [x |-> -300, y |-> -2900, z |-> 6200]
MCFlights ==
  [hand : {"right", "left"}, putter : {FALSE}, launch : {0, 120, 250}, side : {-50, 0, 50},
   speed : {300, 950}, exposures : {<<600, 1200, 1900>>}]
  \cup [hand : {"right", "left"}, putter : {TRUE}, launch : {0}, side : {0}, speed : {30},
        exposures : {<<300, 700, 1000>>}]
MCRotations == [x : {0, 50}, z : {0, 300}]

Search == INSTANCE BallSearch WITH stage <- search, balls <- found
Spin == INSTANCE SpinSearch WITH Shots <- Pairs, shot <- pair, stage <- comparison
Flight == INSTANCE ShotFlight

\* The first threshold is within the limits of the ratchet, and the band is as wide
\* as its steps need.
ASSUME RatchetAssumption ==
  /\ StartThreshold \in 4..60
  /\ kGaborMinWhitePercent \in Nat /\ kGaborMaxWhitePercent \in Nat
  /\ kGaborMaxWhitePercent - kGaborMinWhitePercent >= 5

ASSUME PairsAssumption ==
  \A p \in Pairs :
    /\ p.response.white \in Nat /\ p.response.up \in Nat /\ p.response.down \in Nat
    /\ \A a \in Spin!Axes : p.view1[a] \in Int /\ p.view2[a] \in Int

\* The circles are a list, and levels are numbers a whole step or more apart.
ASSUME LevelsAssumption ==
  /\ Len(Kinds) \in Nat /\ DOMAIN Kinds = 1..Len(Kinds) /\ Strengths \subseteq Int
  /\ \A i \in DOMAIN Kinds : Kinds[i].r \in Nat
  /\ \A mode \in {"placed", "strobed", "putting", "external"} :
       LET set == Settings[mode]
       IN  /\ set.inc \in Nat \ {0} /\ set.start \in Int /\ set.min \in Int /\ set.max \in Int
           /\ set.fewest \in Nat /\ set.most \in Nat

searchVars == <<picture, search, level, circles, loosening, final, radii, found>>
spinVars == <<pair, comparison, threshold, calibrated, threshold2, deltas, offset, rotation>>
flightVars == <<step, flight, teed, strobed, chosen, result, rpm, report>>
allVars == <<part, vars, searchVars, spinVars, flightVars>>

\* A component that does not move is as if called with nothing to look at.
ShotAtRest ==
  /\ stage = "received" /\ shot = [found |-> <<>>, golfer |-> "right", putter |-> FALSE]
  /\ rightHanded = TRUE /\ balls = <<>> /\ best = NoBall /\ second = NoBall /\ kept = <<>>
  /\ timings = <<>> /\ clear = <<>> /\ face = NoBall /\ ball2 = NoBall
  /\ between = NoInterval /\ spin = NoSpin

SearchAtRest ==
  /\ picture = [mode |-> "placed", coloured |-> FALSE, dynamic |-> FALSE,
                strength |-> [i \in DOMAIN Kinds |-> 0]]
  /\ search = "called" /\ level = 3 /\ circles = <<>> /\ loosening = FALSE
  /\ final = 0 /\ radii = <<7, 20>> /\ found = <<>>

SpinAtRest ==
  /\ pair = Plain /\ comparison = "isolated" /\ threshold = StartThreshold
  /\ calibrated = 0 /\ threshold2 = 0 /\ deltas = <<>> /\ offset = <<>> /\ rotation = <<>>

FlightAtRest ==
  /\ step = "timed" /\ flight = NoBall /\ teed = NoBall /\ strobed = <<>> /\ chosen = <<>>
  /\ result = NoBall /\ rpm = [x |-> 0, z |-> 0] /\ report = NoBall

AnalysisInit ==
  \/ part = "shot" /\ Init /\ SearchAtRest /\ SpinAtRest /\ FlightAtRest
  \/ part = "search" /\ Search!Init /\ ShotAtRest /\ SpinAtRest /\ FlightAtRest
  \/ part = "spin" /\ Spin!Init /\ ShotAtRest /\ SearchAtRest /\ FlightAtRest
  \/ part = "flight" /\ Flight!Init /\ ShotAtRest /\ SearchAtRest /\ SpinAtRest

ShotStep == part = "shot" /\ Next /\ UNCHANGED <<part, searchVars, spinVars, flightVars>>
SearchStep == part = "search" /\ Search!Next /\ UNCHANGED <<part, vars, spinVars, flightVars>>
SpinStep == part = "spin" /\ Spin!Next /\ UNCHANGED <<part, vars, searchVars, flightVars>>
FlightStep ==
  part = "flight" /\ Flight!Next /\ UNCHANGED <<part, vars, searchVars, spinVars>>

AnalysisNext == ShotStep \/ SearchStep \/ SpinStep \/ FlightStep

\* The search is a function its caller waits for, as BallSearch says; of the other
\* three no property needs it.
AnalysisSpec == AnalysisInit /\ [][AnalysisNext]_allVars /\ WF_allVars(SearchStep)

\* The loop over the Hough parameter ends on every picture without a jump from too
\* many circles to too few, whatever way it turns.
SearchEnds == Search!SearchEnds

\* When some level in reach gives a number of circles that suits, the search ends
\* with such a number.
AcceptableLevelIsUsed == Search!AcceptableLevelIsUsed

\* The ratchet of the filter's threshold ends in the band whenever it can.
EndsInBand == Spin!EndsInBand

\* The two balls are filtered with one threshold and turned to one direction.
ImagesAreComparable == Spin!ImagesAreComparable

\* The angles and the speed that are reported are those of the flight.
FlightIsRecovered == Flight!FlightIsRecovered
=============================================================================
