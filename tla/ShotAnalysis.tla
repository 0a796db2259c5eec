---------------------------- MODULE ShotAnalysis ----------------------------
(***************************************************************************)
(* Camera 2's analysis of the strobed picture of a shot:                   *)
(* GolfSimCamera::ProcessReceivedCam2Image with AnalyzeStrobedBalls, from  *)
(* the circles that the picture search returns to the times that speed and *)
(* spin are computed from.  Each action is a stage of the two functions,   *)
(* between two of the lists they log.                                      *)
(***************************************************************************)
EXTENDS BallFilters

CONSTANTS Pauses,        \* PulseStrobe::GetPulseIntervals, the last is 0
          Circles,       \* what the picture search may return, without q
          MaxFound,      \* bound on the circles it returns
          ManyBalls,     \* above this many, crowded circles are thinned
          MinBallRadius, \* ip->min_ball_radius_
          EdgeBackoff,   \* kClosestBallPairEdgeBackoffPixels
          NoBall

ASSUME PausesAssumption == Pauses[Len(Pauses)] = 0 /\ Len(Pauses) >= 3

VARIABLES stage,         \* where ProcessReceivedCam2Image has got to
          shot,          \* the circles of the search, best first; the golfer; the club
          rightHanded,   \* golfer_orientation_ of the options
          balls,         \* initial_balls
          best, second,  \* best_ball, second_best_ball
          kept,          \* possibly_overlapping_balls_before_color_filter
          timings,       \* return_balls_and_timings
          clear,         \* non_overlapping_balls_and_timing
          face, ball2,   \* the two balls nearest the centre
          between,       \* time_between_ball_images_uS
          spin           \* the pair compared for spin and its interval

vars == <<stage, shot, rightHanded, balls, best, second, kept, timings, clear,
          face, ball2, between, spin>>

NoSpin == [one |-> NoBall, two |-> NoBall, interval |-> 0]

Ranked(seq) == [i \in 1..Len(seq) |->
                  [x |-> seq[i].x, y |-> seq[i].y, r |-> seq[i].r, q |-> i - 1,
                   colour |-> seq[i].colour, strobe |-> seq[i].strobe]]

\* A left-handed shot is the mirror image.
Mirrored(seq) == [i \in 1..Len(seq) |-> [seq[i] EXCEPT !.x = ResolutionX - @]]

\* Any two circles are the best, the others follow from left to right.
Lists == UNION {{s \in [1..n -> Circles] :
                   /\ IsInjective(s)
                   /\ \A i, j \in 3..n : i < j => s[i].x < s[j].x} : n \in 0..MaxFound}

Init ==
  /\ stage = "received"
  /\ \E s \in Lists, golfer \in {"right", "left", "putting"} :
       shot = [found  |-> Ranked(IF golfer = "left" THEN Mirrored(s) ELSE s),
               golfer |-> golfer, putter |-> golfer = "putting"]
  /\ rightHanded = TRUE
  /\ balls = <<>> /\ best = NoBall /\ second = NoBall /\ kept = <<>>
  /\ timings = <<>> /\ clear = <<>> /\ face = NoBall /\ ball2 = NoBall
  /\ between = NoInterval /\ spin = NoSpin

Fail == stage' = "failed"

\* An empty image, or a teed ball that camera 1's picture does not show.
NoTeedBall ==
  /\ stage = "received"
  /\ Fail
  /\ UNCHANGED <<shot, rightHanded, balls, best, second, kept, timings, clear,
                 face, ball2, between, spin>>

\* The teed ball is calibrated, the circles are found: two at least, and three
\* for the handedness.  Then colour, size and angle against the best circle.
FindBalls ==
  /\ stage = "received"
  /\ IF Len(shot.found) < 3
     THEN Fail /\ UNCHANGED <<rightHanded, balls>>
     ELSE LET right == RisesToTheRight(shot.found)
              expected == shot.found[1]
              coloured == RemoveWrongColorBalls(shot.found, expected, MaxColorDifferenceRelaxed)
              sized == RemoveWrongRadiusBalls(coloured, expected)
              angled == RemoveUnlikelyAngleLowerQualityBalls(sized, right)
          IN /\ rightHanded' = right
             /\ balls' = angled
             /\ IF Len(angled) < 2 THEN Fail ELSE stage' = "found"
  /\ UNCHANGED <<shot, best, second, kept, timings, clear, face, ball2, between, spin>>

\* The worst go, the angle and size filters run again, and the two at the
\* head of the list are read without looking at its length.
ChooseBestPair ==
  /\ stage = "found"
  /\ LET retained == RemoveLowScoringBalls(balls)
         angled == RemoveUnlikelyAngleLowerQualityBalls(retained, rightHanded)
         sized == RemoveWrongRadiusBalls(angled, balls[1])
     IN /\ balls' = sized
        /\ best' = sized[1]
        /\ second' = IF Len(sized) < 2 THEN NoBall ELSE sized[2]
  /\ stage' = "paired"
  /\ UNCHANGED <<shot, rightHanded, kept, timings, clear, face, ball2, between, spin>>

\* Circles off the line of the best two go, crowded ones, those whose radius
\* jumps (three times over), and those off the line again.
FollowTrajectory ==
  /\ stage = "paired" /\ second # NoBall
  /\ LET Sorted(bs) == SortBallsByXPosition(bs, rightHanded)
         onLine == RemoveOffTrajectoryBalls(Sorted(balls), best, second)
         n == Len(shot.found)
         thinned == IF n > ManyBalls
                    THEN RemoveNearbyPoorQualityBalls(onLine, MinBallRadius, n \div 2)
                    ELSE onLine
         retained == Sorted(RemoveLowScoringBalls(thinned))
         pass[k \in 0..3] ==
           IF k = 0 THEN retained
           ELSE Sorted(RemoveUnlikelyRadiusChangeBalls(pass[k - 1], TRUE))
         smooth == RemoveOffTrajectoryBalls(pass[3], best, second)
     IN /\ balls' = smooth
        /\ kept' = smooth
        /\ IF Len(retained) = 1 THEN Fail ELSE stage' = "smooth"
  /\ UNCHANGED <<shot, rightHanded, best, second, timings, clear, face, ball2, between, spin>>

\* First pass over overlapping balls, which keeps high-quality ones.
FirstOverlapPass ==
  /\ stage = "smooth"
  /\ balls' = SortBallsByXPosition(
                RemoveOverlappingBalls(balls, ProximityMarginRelaxed, TRUE, TRUE, best, second),
                rightHanded)
  /\ stage' = IF balls = <<>> THEN "failed" ELSE "parted"
  /\ UNCHANGED <<shot, rightHanded, best, second, kept, timings, clear,
                 face, ball2, between, spin>>

\* Second pass, which keeps none; two balls must be left.
SecondOverlapPass ==
  /\ stage = "parted"
  /\ LET smooth == SortBallsByXPosition(RemoveUnlikelyRadiusChangeBalls(balls, FALSE),
                                        rightHanded)
         left == RemoveOverlappingBalls(smooth, ProximityMarginRelaxed, TRUE, FALSE,
                                        best, second)
     IN /\ balls' = SortBallsByXPosition(left, rightHanded)
        /\ IF Len(left) < 2 THEN Fail ELSE stage' = "timed"
  /\ UNCHANGED <<shot, rightHanded, best, second, kept, timings, clear,
                 face, ball2, between, spin>>

\* DetermineSecondBall: the ball nearest the centre but for the first.
DetermineSecondBall(bs, most) == GetMostCenteredBallIndex(bs, most)

\* The two balls nearest the centre, and the pauses before every ball.  What
\* DetermineStrobeIntervals returns is not looked at.
TimeBalls ==
  /\ stage = "timed"
  /\ LET most == GetMostCenteredBallIndex(balls, -1)
         next == DetermineSecondBall(balls, most)
         result == DetermineStrobeIntervals(balls, most, next, Pauses, shot.putter)
     IN /\ face' = balls[most + 1]
        /\ ball2' = balls[next + 1]
        /\ between' = result.between
        /\ timings' = result.timings
        /\ stage' = IF result = Undefined THEN "undefined" ELSE "separated"
  /\ UNCHANGED <<shot, rightHanded, balls, best, second, kept, clear, spin>>

\* A mutant: the pause before a ball that goes is lost.
WithoutUnclearLossy(list, good) ==
  SelectSeq(list, LAMBDA t : \E b \in good : b.x = t.ball.x /\ b.y = t.ball.y)

\* The timings without the balls that are not clear of the others; the pause
\* before a ball that goes is added to that of the next in the list.
WithoutUnclear(list, good) ==
  LET left[i \in 0..Len(list)] ==
        \* the list once its elements from Len(list) - i + 1 on are dealt with
        IF i = 0 THEN list
        ELSE LET l == left[i - 1]
                 k == Len(list) - i + 1
                 merged == IF k < Len(l)
                           THEN [l EXCEPT ![k + 1].before = @ + l[k].before] ELSE l
             IN IF \E b \in good : b.x = l[k].ball.x /\ b.y = l[k].ball.y THEN l
                ELSE RemoveAt(merged, k)
  IN left[Len(list)]

KeepClearBalls ==
  /\ stage = "separated"
  /\ LET smooth == RemoveUnlikelyRadiusChangeBalls(SortBallsByXPosition(kept, rightHanded), FALSE)
         angled == RemoveUnlikelyAngleLowerQualityBalls(smooth, rightHanded)
         apart == RemoveOverlappingBalls(angled, ProximityMarginStrict, FALSE, FALSE,
                                         best, second)
         alike == RemoveWrongColorBalls(SortBallsByXPosition(apart, rightHanded), best,
                                        MaxColorDifferenceStrict)
     IN clear' = WithoutUnclear(timings, ToSet(alike))
  /\ stage' = "analyzed"
  /\ UNCHANGED <<shot, rightHanded, balls, best, second, kept, timings,
                 face, ball2, between, spin>>

\* Speed and angles: at least two timed balls, and deltas that can be computed.
ComputeFlight ==
  /\ stage = "analyzed"
  /\ \E computable \in BOOLEAN :
       stage' = IF Len(timings) < 2 \/ ~computable THEN "failed"
                ELSE IF shot.putter \/ Len(clear) < 2 THEN "done" ELSE "spinning"
  /\ UNCHANGED <<shot, rightHanded, balls, best, second, kept, timings, clear,
                 face, ball2, between, spin>>

\* The score of a pair for spin, in hundredths: clear of the edges and of each
\* other but close, near the middle, of the same size.
PairScore(a, b) ==
  LET centre == [x |-> ResolutionX \div 2, y |-> ResolutionY \div 2]
      toEdge == ISqrt(SquaredDistance(centre, [x |-> ResolutionX, y |-> ResolutionY]))
      atEdge(c) == \/ c.x - c.r < EdgeBackoff \/ c.x + c.r > ResolutionX - EdgeBackoff
                   \/ c.y - c.r < EdgeBackoff \/ c.y + c.r > ResolutionY - EdgeBackoff
      edge == 1000 - (IF atEdge(a) THEN 500 ELSE 0) - (IF atEdge(b) THEN 500 ELSE 0)
      d == PixelDistanceFromBall(a, b)
      proximity == IF 100 * d < 95 * (a.r + b.r) THEN 0 ELSE (1000 * (a.r + b.r)) \div d
      middle(c) == (500 * (toEdge - PixelDistanceFromBall(c, centre))) \div toEdge
      alike == ((1000 * ResolutionY) \div 136 - 300 * (a.r - b.r) * (a.r - b.r)) \div 8
  IN 4 * edge + 6 * proximity + 2 * (middle(a) + middle(b))
     + 7 * (IF alike < 0 THEN 0 ELSE alike)

\* FindBestTwoSpinBalls: the pairs of the best score.  Equal ones are sorted
\* any way.
BestSpinPairs(list) ==
  LET pairs == {p \in (1..Len(list)) \X (1..Len(list)) : p[1] < p[2]}
      score(p) == PairScore(list[p[1]].ball, list[p[2]].ball)
  IN {p \in pairs : \A other \in pairs : score(other) <= score(p)}

\* ProcessSpin: the interval is the pause recorded before the later ball of the
\* pair in the list, whether the earlier is its neighbour or not.
ComputeSpin ==
  /\ stage = "spinning"
  /\ \E p \in BestSpinPairs(clear) :
       spin' = [one |-> clear[p[1]].ball, two |-> clear[p[2]].ball,
                interval |-> clear[p[2]].before]
  /\ stage' = "done"
  /\ UNCHANGED <<shot, rightHanded, balls, best, second, kept, timings, clear,
                 face, ball2, between>>

Next ==
  \/ NoTeedBall \/ FindBalls \/ ChooseBestPair \/ FollowTrajectory
  \/ FirstOverlapPass \/ SecondOverlapPass \/ TimeBalls \/ KeepClearBalls
  \/ ComputeFlight \/ ComputeSpin

Spec == Init /\ [][Next]_vars

-----------------------------------------------------------------------------
(***************************************************************************)
(* What must hold.  Flown is the time the strobes say lies between two     *)
(* exposures; the list is genuine when each circle in it is an exposure    *)
(* and the golfer's hand was told from the best three.                     *)
(***************************************************************************)
FlashAt == LET t[i \in 1..Len(Pauses)] == IF i = 1 THEN 0 ELSE t[i - 1] + Pauses[i - 1]
           IN t

Flown(a, b) == Abs(FlashAt[a.strobe] - FlashAt[b.strobe])

Exposures == {b.strobe : b \in ToSet(balls)}

Genuine == /\ 0 \notin Exposures
           /\ rightHanded = (shot.golfer # "left")

\* The exposures that were lost can be told: three pauses at least are known,
\* and an exposure is missing inside the row or two at one of its ends.
Tellable ==
  /\ Cardinality(Exposures) >= 4
  /\ \/ \E s \in 1..Len(Pauses) : /\ s \notin Exposures
                                  /\ \E e, f \in Exposures : e < s /\ s < f
     \/ {1, 2} \cap Exposures = {}
     \/ {Len(Pauses), Len(Pauses) - 1} \cap Exposures = {}

Analyzed == stage \in {"analyzed", "spinning", "done"}

\* Every exposure that was told is given the pause that the strobe made before
\* it, counted from the exposure found before it, for both hands.
IntervalsAreFlown ==
  Analyzed /\ timings # <<>> /\ Genuine /\ Tellable =>
    \A i \in 2..Len(balls) :
      \A t \in ToSet(timings) :
        t.ball = balls[i] => t.before = Flown(balls[i - 1], balls[i])

\* The times that speed and spin are computed from are flown: the one between the two
\* balls of the speed, and, once overlapping balls are taken out of a right-handed
\* shot, each pause since the ball that is now before.
UsedTimesAreFlown ==
  Analyzed /\ Genuine /\ Tellable =>
    /\ timings # <<>> => between = Flown(face, ball2)
    /\ rightHanded =>
         \A i \in 2..Len(clear) : clear[i].before = Flown(clear[i - 1].ball, clear[i].ball)

\* "There might be 0 missing exposures, in which case, we won't have to do any
\* interval collapsing": a pattern is found then as well.
NoPatternIsNeeded == stage # "undefined"
=============================================================================
