----------------------------- MODULE ShotFlight -----------------------------
(***************************************************************************)
(* From the timed balls of a shot to what is reported of it: the second    *)
(* half of GolfSimCamera::ProcessReceivedCam2Image and the results that    *)
(* the FSM sends.  Positions in space are tenths of millimetres as seen    *)
(* from the launch monitor (x to the right, y up, z away), angles tenths   *)
(* of degrees, positions in a picture pixels and radii tenths of pixels.   *)
(* The square roots and trigonometric functions of the code are whole      *)
(* numbers here, odd or even as those are and true to two in a thousand.   *)
(***************************************************************************)
EXTENDS Integers, Sequences, SequencesExt

CONSTANTS
  Flights,        \* the shots: hand, launch, side, speed, how far exposures are
  Rotations,      \* what GetBallRotation may return, tenths of degrees
  FocalPixels,    \* focal_length_, as so many pixels of the sensor
  BallRadius,     \* kBallRadiusMeters
  ResolutionX, ResolutionY,
  CameraAngles,   \* kCamera1Angles and kCamera2Angles
  Camera2Offset,  \* kCamera2OffsetFromCamera1OriginMeters
  Tee,            \* where a ball is teed up for a right-handed golfer
  NoBall,
  AngleError, SpeedError  \* what the approximations may amount to

VARIABLES
  step,     \* where ProcessReceivedCam2Image has got to
  flight,   \* the shot that is flown
  teed,     \* calibrated_ball, in the picture of camera 1
  strobed,  \* return_balls_and_timing, in the picture of camera 2
  chosen,   \* the numbers of the two balls nearest the centre
  result,   \* result_ball
  rpm,      \* rotation_speeds_RPM_ of the result ball
  report    \* what the simulators and the monitor get

vars == <<step, flight, teed, strobed, chosen, result, rpm, report>>

-----------------------------------------------------------------------------
(***************************************************************************)
(* Arithmetic.                                                             *)
(***************************************************************************)
Magnitude(n) == IF n < 0 THEN -n ELSE n
Signed(n, m) == IF n < 0 THEN -m ELSE m

\* Division to the nearest whole number, odd in n.
Over(n, d) == Signed(n, (2 * Magnitude(n) + d) \div (2 * d))

\* sin in thousandths, of less than half a turn.
SinTable ==
  [a \in 0..1800 |-> LET p == (a * (1800 - a)) \div 10 IN (4000 * p) \div (405000 - p)]
Sin(a) == Signed(a, SinTable[Magnitude(a)])
Cos(a) == Sin(900 - Magnitude(a))

\* atan(n / d), of an eighth of a turn from a table.
AtanTable == [q \in 0..1000 |-> Over(573000 * q, 1000000 + (28 * q * q) \div 100)]
Part(n, d) == IF d = 0 THEN 0 ELSE (1000 * Magnitude(n)) \div Magnitude(d)
Atan(n, d) ==
  (IF (n < 0) = (d < 0) THEN 1 ELSE -1)
    * (IF Magnitude(n) > Magnitude(d) THEN 900 - AtanTable[Part(d, n)] ELSE AtanTable[Part(n, d)])

\* GetTotalDistance.  The root in steps of bisection, from 2^15 down.
GetTotalDistance(p) ==
  LET square == p.x * p.x + p.y * p.y + p.z * p.z
      root[bit \in 0..15] ==
        IF bit = 15 THEN 0
        ELSE LET r == root[bit + 1] + 2^bit
             IN IF r * r <= square THEN r ELSE r - 2^bit
  IN root[0]

MeanOf(numbers) == Over(FoldLeft(LAMBDA sum, n : sum + n, 0, numbers), Len(numbers))

-----------------------------------------------------------------------------
(***************************************************************************)
(* The picture of a ball: a pinhole camera of those angles, and a size that *)
(* tells the distance along the line of sight, as the code takes it.       *)
(***************************************************************************)
Picture(camera, p) ==
  LET pan == CameraAngles[camera].x
      tilt == CameraAngles[camera].y
      across == Over(p.x * Cos(pan) + p.z * Sin(pan), 1000)
      ahead == Over(p.z * Cos(pan) - p.x * Sin(pan), 1000)
      up == Over(p.y * Cos(tilt) - ahead * Sin(tilt), 1000)
      depth == Over(p.y * Sin(tilt) + ahead * Cos(tilt), 1000)
  IN [camera |-> camera,
      x |-> ResolutionX \div 2 + Over(FocalPixels * across, depth),
      y |-> ResolutionY \div 2 - Over(FocalPixels * up, depth),
      r |-> Over(10 * FocalPixels * BallRadius, GetTotalDistance(p))]

\* Where the ball is after flying so far: a left-handed golfer's flies to the left.
Direction(f) == IF f.hand = "right" THEN 1 ELSE -1
At(f, distance) ==
  LET level == Over(distance * Cos(f.launch), 1000)
  IN [x |-> Direction(f) * (Tee.x + Over(level * Cos(f.side), 1000)),
      y |-> Tee.y + Over(distance * Sin(f.launch), 1000),
      z |-> Tee.z - Over(level * Sin(f.side), 1000)]

FromCamera2(p) ==
  [x |-> p.x - Camera2Offset.x, y |-> p.y - Camera2Offset.y, z |-> p.z - Camera2Offset.z]

-----------------------------------------------------------------------------
(***************************************************************************)
(* Where a ball is, from its place and size in a picture.                  *)
(***************************************************************************)
ComputeDistanceToBallUsingRadius(ball) == Over(10 * FocalPixels * BallRadius, ball.r)

ComputeXyzDistanceFromOrthoCamPerspective(ball) ==
  LET rho == ComputeDistanceToBallUsingRadius(ball)
      theta == CameraAngles[ball.camera].x - Atan(ball.x - ResolutionX \div 2, FocalPixels)
      elevation == CameraAngles[ball.camera].y + Atan(ResolutionY \div 2 - ball.y, FocalPixels)
      level == Over(rho * Cos(elevation), 1000)
  IN [x |-> -Over(level * Sin(theta), 1000),
      y |-> Over(rho * Sin(elevation), 1000),
      z |-> Over(level * Cos(theta), 1000)]

\* The angles to a place can be computed: it is in front of the monitor.
ComputeBallXYAnglesFromCameraPerspective(place) == place.z >= 1

\* The ball can be placed: it is not in the lens, and its angles can be computed.
ComputeSingleBallXYZOrthoCamPerspective(ball) ==
  /\ ComputeDistanceToBallUsingRadius(ball) > 1
  /\ ComputeBallXYAnglesFromCameraPerspective(ComputeXyzDistanceFromOrthoCamPerspective(ball))

\* From the ball's perspective x is towards the monitor and z along the flight.
ComputeXyzDeltaDistances(one, two) == [x |-> one.z - two.z, y |-> two.y - one.y, z |-> two.x - one.x]

\* The angles of a ball that hardly moved along z are 0.
getXYDeltaAnglesBallPerspective(p) ==
  IF Magnitude(p.z) <= 10 THEN [side |-> 0, launch |-> 0]
  ELSE [side |-> Atan(p.x, p.z), launch |-> Atan(p.y, p.z)]

\* The second ball with its deltas from the first.  Between pictures of two
\* cameras the offset of the second from the first is added.
ComputeBallDeltas(ball1, ball2) ==
  LET one == ComputeXyzDistanceFromOrthoCamPerspective(ball1)
      two == ComputeXyzDistanceFromOrthoCamPerspective(ball2)
      seen == ComputeXyzDeltaDistances(one, two)
      p == IF ball1.camera = ball2.camera THEN seen
           ELSE [x |-> seen.x + Camera2Offset.z, y |-> seen.y + Camera2Offset.y,
                 z |-> seen.z + Camera2Offset.x]
  IN [at |-> two, position |-> p, angles |-> getXYDeltaAnglesBallPerspective(p)]

AllPlaced(balls) == \A b \in balls : ComputeSingleBallXYZOrthoCamPerspective(b)

\* Both angles change their sign for a left-handed golfer.
ReverseBallAngleDeltas(angles) == [side |-> -angles.side, launch |-> -angles.launch]

ForGolfer(angles) == IF flight.hand = "left" THEN ReverseBallAngleDeltas(angles) ELSE angles

\* AverageBalls: only the angles of the average are used.
AverageBalls(balls) ==
  [side |-> MeanOf([i \in DOMAIN balls |-> balls[i].angles.side]),
   launch |-> MeanOf([i \in DOMAIN balls |-> balls[i].angles.launch])]

CalculateBallVelocity(p, time) == Over(1000 * GetTotalDistance(p), time)

-----------------------------------------------------------------------------
\* The exposures and the teed ball were found and timed; the two nearest the
\* centre are any two, in either order.
Init ==
  /\ step = "timed"
  /\ flight \in Flights
  /\ teed = Picture(1, At(flight, 0))
  /\ strobed = [i \in 1..Len(flight.exposures) |->
                  Picture(2, FromCamera2(At(flight, flight.exposures[i])))]
  /\ chosen \in {<<i, j>> : i, j \in 1..Len(flight.exposures)}
  /\ chosen[1] # chosen[2]
  /\ result = NoBall
  /\ rpm = [x |-> 0, z |-> 0]
  /\ report = NoBall

\* time_between_balls_uS: what the strobes make of the distance, in microseconds.
TimeBetween ==
  Over(1000 * Magnitude(flight.exposures[chosen[1]] - flight.exposures[chosen[2]]),
       flight.speed)

\* The left and the right of the two nearest the centre; the right one becomes
\* the result ball.
MeasurePair ==
  /\ step = "timed"
  /\ LET a == strobed[chosen[1]]
         b == strobed[chosen[2]]
         ball1 == IF a.x > b.x THEN b ELSE a
         ball2 == IF a.x > b.x THEN a ELSE b
         deltas == ComputeBallDeltas(ball1, ball2)
     IN IF AllPlaced({a, b})
        THEN /\ result' = [at |-> deltas.at, position |-> deltas.position,
                           angles |-> ForGolfer(deltas.angles), velocity |-> 0]
             /\ step' = "paired"
        ELSE step' = "failed" /\ UNCHANGED result
  /\ UNCHANGED <<flight, teed, strobed, chosen, rpm, report>>

\* The angles from the teed ball to each exposure, averaged; with the side angle
\* the pair's distance towards the monitor is computed again, from how far right
\* of the monitor the right ball is.  Then the speed.
AverageFromTee ==
  /\ step = "paired"
  /\ LET seen == [i \in 1..Len(strobed) |-> ComputeBallDeltas(teed, strobed[i])]
         angles == ForGolfer(AverageBalls(seen))
         p == [result.position EXCEPT !.x = Over(result.at.x * Sin(angles.side), 1000)]
     IN IF AllPlaced({teed} \cup ToSet(strobed))
        THEN /\ result' = [result EXCEPT !.angles = angles, !.position = p,
                                         !.velocity = CalculateBallVelocity(p, TimeBetween)]
             /\ step' = "aimed"
        ELSE step' = "failed" /\ UNCHANGED result
  /\ UNCHANGED <<flight, teed, strobed, chosen, rpm, report>>

\* ComputeAveragedStrobedBallData: every exposure with every later one.
StrobedDeltas ==
  FlattenSeq([i \in 1..Len(strobed) - 1 |->
                [j \in 1..Len(strobed) - i |-> ComputeBallDeltas(strobed[i], strobed[i + j])]])

\* A mutant: the average of the pairs is taken as it is seen.
AverageFlightUnreversed ==
  /\ step = "aimed"
  /\ result' = [result EXCEPT !.angles.launch = AverageBalls(StrobedDeltas).launch]
  /\ step' = IF flight.putter THEN "measured" ELSE "spinning"
  /\ UNCHANGED <<flight, teed, strobed, chosen, rpm, report>>

\* The launch angle is that between the exposures.  No spin of a putt.
AverageFlight ==
  /\ step = "aimed"
  /\ result' = [result EXCEPT !.angles.launch = ForGolfer(AverageBalls(StrobedDeltas)).launch]
  /\ step' = IF flight.putter THEN "measured" ELSE "spinning"
  /\ UNCHANGED <<flight, teed, strobed, chosen, rpm, report>>

\* Fewer than two clear exposures, or a pair that cannot be compared: no spin, and
\* the shot is reported all the same.
NoSpinMeasured ==
  /\ step = "spinning"
  /\ step' = "measured"
  /\ UNCHANGED <<flight, teed, strobed, chosen, result, rpm, report>>

\* Turns a minute of an angle in a time: 60 * (a / 3600) / t * 1000000.
Rpm(a, time) == Over(100000 * a, 6 * time)

\* ProcessSpin: the rotation between the clear pair, in its own time.
ProcessSpin ==
  /\ step = "spinning"
  /\ \E rotation \in Rotations :
       rpm' = [x |-> Rpm(rotation.x, TimeBetween), z |-> Rpm(rotation.z, TimeBetween)]
  /\ step' = "measured"
  /\ UNCHANGED <<flight, teed, strobed, chosen, result, report>>

\* GsResults: what a simulator is told.  No faster than 200 mph, 894 dm/s.
GsResults ==
  [speed |-> IF result.velocity > 894 THEN 894 ELSE result.velocity,
   hla |-> result.angles.side, vla |-> result.angles.launch,
   backSpin |-> rpm.z, sideSpin |-> rpm.x]

\* GetSpinAxis: a quarter turn without back spin.
GetSpinAxis ==
  IF rpm.x = 0 THEN 0 ELSE IF rpm.z = 0 THEN Signed(rpm.x, 900) ELSE Atan(rpm.x, rpm.z)

\* GsE6Results::Format: each range is applied to a copy that is not sent.
E6Message == GsResults

\* GsGSProResults::Format.
GSProMessage == [ball |-> GsResults, spinAxis |-> GetSpinAxis]

\* SendIPCHitMessage: the result ball itself, without the club.
HitMessage ==
  [speed |-> result.velocity, side |-> result.angles.side, launch |-> result.angles.launch,
   backSpin |-> rpm.z, sideSpin |-> rpm.x]

\* The simulators first, then the monitor.
SendResults ==
  /\ step = "measured"
  /\ report' = [e6 |-> E6Message, gsPro |-> GSProMessage, hit |-> HitMessage]
  /\ step' = "reported"
  /\ UNCHANGED <<flight, teed, strobed, chosen, result, rpm>>

Next ==
  \/ MeasurePair \/ AverageFromTee \/ AverageFlight
  \/ NoSpinMeasured \/ ProcessSpin \/ SendResults

Spec == Init /\ [][Next]_vars

-----------------------------------------------------------------------------
Reported == step = "reported"

\* What is reported is the flight, for either hand: its launch angle and how far it
\* turns to the monitor within AngleError, although the tee and the flight are seen by
\* two cameras at angles of their own and each hand's deltas have their own signs; and
\* its speed within SpeedError per cent, whichever two exposures are taken.
FlightIsRecovered ==
  Reported =>
    /\ Magnitude(report.hit.launch - flight.launch) <= AngleError
    /\ Magnitude(report.hit.side - flight.side) <= AngleError
    /\ 100 * Magnitude(report.hit.speed - flight.speed) <= SpeedError * flight.speed
=============================================================================
