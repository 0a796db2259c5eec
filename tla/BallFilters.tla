---------------------------- MODULE BallFilters ----------------------------
(***************************************************************************)
(* The filters of GolfSimCamera that throw circles out of the list that    *)
(* the picture analysis found.  A ball is a record: centre (x, y) and      *)
(* radius r in pixels, q its quality ranking (0 the best), colour its      *)
(* brightness, and strobe, which the code does not have: the exposure the  *)
(* circle comes from, 0 for a circle that is no ball.                      *)
(***************************************************************************)
EXTENDS StrobeIntervals

CONSTANTS MaxColorDifferenceRelaxed, MaxColorDifferenceStrict,
          MaxDistanceFromTrajectory, MaxOffTrajectoryDistance,
          ProximityMarginRelaxed, ProximityMarginStrict,       \* per cent
          MaxRadiusDifferenceFromBest, MaxRadiusChange,        \* per cent
          MaxOverlappedRadiusChangeRatio,                      \* tenths
          MaxFallTangent, MaxLaunchTangent,                    \* thousandths
          MaxBallsToRetain, ResolutionX, ResolutionY

NumberHighQualityBallsToRetain == 2
UnlikelyAngleMinimumDistancePixels == 40

\* DetermineHandedness: of the three best balls, left to right, more go up
\* than down for a right-handed shot.
RisesToTheRight(balls) ==
  LET three == SortSeq(SubSeq(balls, 1, 3), LAMBDA a, b : a.x < b.x)
      slope(i) == CASE three[i].y < three[i + 1].y -> -1
                    [] three[i].y > three[i + 1].y -> 1
                    [] OTHER -> IF three[i].x = three[i + 1].x THEN 0 ELSE 1
  IN slope(1) + slope(2) >= 0

\* SortBallsByXPosition: in the order of the flight.
SortBallsByXPosition(balls, rightHanded) ==
  SortSeq(balls, LAMBDA a, b : IF rightHanded THEN a.x < b.x ELSE a.x > b.x)

\* The darker a ball, the less its difference counts.
ColorDifference(ball, expected) ==
  LET d == ball.colour - expected.colour IN (IF d < 0 THEN 5 ELSE 10) * d * d

RemoveWrongColorBalls(balls, expected, max) ==
  SelectSeq(balls, LAMBDA b : ColorDifference(b, expected) <= max)

\* The best ball, at the head, is never looked at.
RemoveWrongRadiusBalls(balls, expected) ==
  SubSeq(balls, 1, 1) \o
  SelectSeq(SubSeq(balls, 2, Len(balls)),
            LAMBDA b : 100 * Abs(expected.r - b.r) <= expected.r * MaxRadiusDifferenceFromBest)

\* The angle from a ball to another that is close by, upwards in the
\* direction of flight: its tangent in thousandths must be in range.
LikelyAngle(current, b, rightHanded) ==
  LET dx == Abs(b.x - current.x)
      up == (IF b.x > current.x THEN current.y - b.y ELSE b.y - current.y)
            * (IF rightHanded THEN 1 ELSE -1)
  IN \/ dx > UnlikelyAngleMinimumDistancePixels
     \/ dx = 0 /\ b.y = current.y
     \/ /\ dx > 0
        /\ 1000 * up >= -(MaxFallTangent * dx)
        /\ 1000 * up <= MaxLaunchTangent * dx

\* Each ball that is left, in turn, removes those behind it in the list.
RemoveUnlikelyAngleLowerQualityBalls(balls, rightHanded) ==
  LET after[k \in 0..Len(balls)] ==
        IF k = 0 THEN balls
        ELSE LET left == after[k - 1]
             IN IF k >= Len(left) THEN left
                ELSE SubSeq(left, 1, k) \o
                     SelectSeq(SubSeq(left, k + 1, Len(left)),
                               LAMBDA b : LikelyAngle(left[k], b, rightHanded))
  IN after[Len(balls)]

RemoveLowScoringBalls(balls) ==
  SubSeq(balls, 1, IF Len(balls) < MaxBallsToRetain THEN Len(balls) ELSE MaxBallsToRetain)

\* GetPerpendicularDistanceFromLine(c, a, b) > d, without the square root.
FurtherFromLine(c, a, b, d) ==
  LET cross == (b.x - a.x) * (c.y - a.y) - (b.y - a.y) * (c.x - a.x)
  IN CASE b.x = a.x -> Abs(c.x - b.x) > d
       [] b.x # a.x /\ b.y = a.y -> Abs(c.y - b.y) > d
       [] OTHER -> Abs(cross) > d * ISqrt(SquaredDistance(a, b))

DistanceFromLine(c, a, b) ==
  LET cross == (b.x - a.x) * (c.y - a.y) - (b.y - a.y) * (c.x - a.x)
  IN CASE b.x = a.x -> Abs(c.x - b.x)
       [] b.x # a.x /\ b.y = a.y -> Abs(c.y - b.y)
       [] OTHER -> Abs(cross) \div ISqrt(SquaredDistance(a, b))

RemoveOffTrajectoryBalls(balls, best, second) ==
  SelectSeq(balls, LAMBDA b : \/ b.q \in {best.q, second.q}
                              \/ ~FurtherFromLine(b, best, second, MaxDistanceFromTrajectory))

(***************************************************************************)
(* RemoveUnlikelyRadiusChangeBalls: every three neighbours from the right. *)
(* The middle one goes when it is larger, or smaller, than both; else the  *)
(* one that overlaps the middle ball and whose radius differs more.        *)
(***************************************************************************)
StandsOut(b1, b2, b3) ==
  LET near(a, b) == (100 * PixelDistanceFromBall(a, b)) \div 150    \* hundredths of a per cent
      limit(a) == MaxRadiusChange * 100 + near(a, b2)
      bigger(a) == 10000 * b2.r > a.r * (10000 + limit(a))
      smaller(a) == 10000 * b2.r < a.r * (10000 - limit(a))
  IN (bigger(b1) /\ bigger(b3)) \/ (smaller(b1) /\ smaller(b3))

\* The outer ball overlaps the middle one, which is far from the other side.
OverlapsOddly(outer, middle, other) ==
  /\ PixelDistanceFromBall(outer, middle) < outer.r
  /\ 2 * PixelDistanceFromBall(outer, middle) < PixelDistanceFromBall(middle, other)
  /\ 10 * Abs(outer.r - middle.r) > MaxOverlappedRadiusChangeRatio * Abs(other.r - middle.r)

RemoveUnlikelyRadiusChangeBalls(balls, preserve) ==
  LET n == Len(balls)
      erasable(b) == b.q >= NumberHighQualityBallsToRetain
      Step(bs, i) ==
        LET b1 == bs[i]  b2 == bs[i + 1]  b3 == bs[i + 2]
        IN IF StandsOut(b1, b2, b3)
           THEN IF erasable(b2) THEN RemoveAt(bs, i + 1) ELSE bs
           ELSE IF OverlapsOddly(b3, b2, b1)
           THEN IF erasable(b3) \/ ~preserve THEN RemoveAt(bs, i + 2) ELSE bs
           ELSE IF OverlapsOddly(b1, b2, b3) /\ (erasable(b1) \/ ~preserve)
           THEN RemoveAt(bs, i) ELSE bs
      from[k \in 0..n] == IF k < 3 THEN balls ELSE Step(from[k - 1], n - k + 1)
  IN from[n]

(***************************************************************************)
(* RemoveNearbyPoorQualityBalls: each ball of the list as it was removes,  *)
(* behind its own position, the balls close to it and much worse.          *)
(***************************************************************************)
RemoveNearbyPoorQualityBalls(balls, proximity, maxDifference) ==
  LET after[k \in 0..Len(balls)] ==
        IF k = 0 THEN balls
        ELSE LET left == after[k - 1]
                 head == IF k < Len(left) THEN k ELSE Len(left)
             IN SubSeq(left, 1, head) \o
                SelectSeq(SubSeq(left, head + 1, Len(left)),
                          LAMBDA b : \/ SquaredDistance(balls[k], b) >= proximity * proximity
                                     \/ b.q - balls[k].q <= maxDifference)
  IN after[Len(balls)]

(***************************************************************************)
(* RemoveOverlappingBalls, from the far end of the flight: of two balls    *)
(* that overlap, a high-quality one may be kept, the one nearer the line   *)
(* of flight is kept when one is off it, else both go, and with them the   *)
(* very first ball when it is next.                                        *)
(***************************************************************************)
Overlap(a, b, margin) ==
  100 * PixelDistanceFromBall(a, b) < (100 - margin) * (a.r + b.r)

RemoveOverlappingBalls(balls, margin, avoidOffTrajectory, preserve, best, second) ==
  LET high(b) == preserve /\ b.q < NumberHighQualityBallsToRetain
      onLine(b) == DistanceFromLine(b, best, second) < MaxOffTrajectoryDistance
      left[i \in 0..Len(balls)] ==
        LET ball == balls[i]
            closer == balls[i - 1]
            both == IF i = 3 THEN <<>> ELSE left[i - 2]
        IN CASE i = 0 -> <<>>
             [] i = 1 -> <<ball>>
             [] i > 1 /\ ~Overlap(ball, closer, margin) -> Append(left[i - 1], ball)
             [] i > 1 /\ Overlap(ball, closer, margin) ->
                  IF ~avoidOffTrajectory THEN both
                  ELSE IF onLine(ball) /\ onLine(closer)
                       THEN IF high(ball) THEN Append(left[i - 2], ball)
                            ELSE IF high(closer) THEN left[i - 1]
                            ELSE both
                       ELSE IF DistanceFromLine(closer, best, second)
                                 > DistanceFromLine(ball, best, second)
                            THEN Append(left[i - 2], ball)
                            ELSE left[i - 1]
  IN left[Len(balls)]

(***************************************************************************)
(* The ball nearest the centre of the picture, but for one (positions      *)
(* from 0, the first of equals; -1 when there is none).                    *)
(***************************************************************************)
GetMostCenteredBallIndex(balls, ignored) ==
  LET centre == [x |-> ResolutionX \div 2, y |-> ResolutionY \div 2]
      d(i) == PixelDistanceFromBall(balls[i + 1], centre)
      others == (0..Len(balls) - 1) \ {ignored}
      nearest == {i \in others : \A j \in others : d(i) <= d(j)}
  IN IF others = {} THEN -1 ELSE CHOOSE i \in nearest : \A j \in nearest : i <= j
=============================================================================
