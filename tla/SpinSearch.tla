----------------------------- MODULE SpinSearch -----------------------------
(***************************************************************************)
(* BallImageProc::GetBallRotation: by what angles the ball turned between  *)
(* two of its images.  The dimples of both images are filtered, the images *)
(* are turned to a common view, and the first is compared with the second  *)
(* at every rotation of a coarse grid, then of a fine one about the best.  *)
(* An image is what the search can tell of it: how white the filter leaves *)
(* it at each threshold, from where the camera saw it, and the rotation    *)
(* between the two, which the closest candidates match best.               *)
(***************************************************************************)
EXTENDS Integers, Sequences, FiniteSets

CONSTANTS Shots,                 \* the pairs of images, see Init
          StartThreshold,        \* binary_threshold, in halves
          kGaborMinWhitePercent, kGaborMaxWhitePercent,
          CoarseStart, CoarseEnd, CoarseIncrement  \* the coarse grid, [x, y, z]

VARIABLES shot,        \* the two images
          stage,       \* where GetBallRotation has got to
          threshold,   \* binary_threshold of ball 1, in halves
          calibrated,  \* calibrated_binary_threshold, 0 is none
          threshold2,  \* binary_threshold of ball 2
          deltas,      \* angleOffsetDeltas1 and 2, whole degrees
          offset,      \* spin_offset_angle, tenths of a degree
          rotation     \* the best rotation, coarse then fine

vars == <<shot, stage, threshold, calibrated, threshold2, deltas, offset, rotation>>

Axes == {"x", "y", "z"}

Zero == [a \in Axes |-> 0]

Init ==
  /\ shot \in Shots
  /\ stage = "isolated"
  /\ threshold = StartThreshold /\ calibrated = 0 /\ threshold2 = 0
  /\ deltas = <<Zero, Zero>> /\ offset = Zero
  /\ rotation = Zero

-----------------------------------------------------------------------------
(***************************************************************************)
(* The Gabor filter: a lower threshold leaves more of the image white.     *)
(***************************************************************************)
White(h) ==
  LET r == shot.response
      w == IF h <= StartThreshold THEN r.white + r.down * (StartThreshold - h)
           ELSE r.white - r.up * (h - StartThreshold)
  IN IF w < 0 THEN 0 ELSE IF w > 100 THEN 100 ELSE w

InBand(w) == kGaborMinWhitePercent <= w /\ w < kGaborMaxWhitePercent

\* The direction is set by the first result and kept.
Down == White(StartThreshold) < kGaborMinWhitePercent

\* A mutant: the small step far from the band and the large one near it.
RatchetStepSwapped(w) ==
  LET missing == IF Down THEN kGaborMinWhitePercent - w ELSE w - kGaborMaxWhitePercent
  IN IF missing > 5 THEN 1 ELSE 2

\* How far the threshold moves, in halves.
RatchetStep(w) ==
  LET missing == IF Down THEN kGaborMinWhitePercent - w ELSE w - kGaborMaxWhitePercent
  IN IF missing > 5 THEN 2 ELSE 1

FilterBall1 ==
  /\ stage = "isolated"
  /\ stage' = IF InBand(White(threshold)) THEN "filtered" ELSE "ratcheting"
  /\ UNCHANGED <<shot, threshold, calibrated, threshold2, deltas, offset, rotation>>

\* One more filter; the loop ends in the band, or beyond 2 or 30.
Ratchet ==
  /\ stage = "ratcheting"
  /\ LET step == RatchetStep(White(threshold))
         next == IF Down THEN threshold - step ELSE threshold + step
     IN /\ threshold' = next
        /\ IF InBand(White(next)) \/ next > 60 \/ next < 4
           THEN stage' = "filtered" /\ calibrated' = next
           ELSE UNCHANGED <<stage, calibrated>>
  /\ UNCHANGED <<shot, threshold2, deltas, offset, rotation>>

\* Ball 2 is given the threshold found for ball 1, where one was, and is not
\* calibrated itself.
FilterBall2 ==
  /\ stage = "filtered"
  /\ threshold2' = IF calibrated > 0 THEN calibrated ELSE StartThreshold
  /\ stage' = "binary"
  /\ UNCHANGED <<shot, threshold, calibrated, deltas, offset, rotation>>

-----------------------------------------------------------------------------
\* Tenths of a degree to whole degrees, half away from zero.
RoundDegrees(t) == IF t >= 0 THEN (t + 5) \div 10 ELSE -((5 - t) \div 10)

\* Half the difference of the two views; for a left-handed golfer the other
\* way round in y.
HalfDelta ==
  [a \in Axes |->
     LET half == (shot.view2[a] - shot.view1[a]) \div 2
     IN IF a = "y" /\ shot.leftHanded THEN -half ELSE half]

\* A mutant: ball 2 is turned on by the other half, not back.
Deltas2Unsigned ==
  [a \in Axes |->
     LET whole == shot.view2[a] - shot.view1[a]
     IN RoundDegrees((IF a = "y" /\ shot.leftHanded THEN -whole ELSE whole) - HalfDelta[a])]

Deltas2 ==
  [a \in Axes |->
     LET whole == shot.view2[a] - shot.view1[a]
     IN RoundDegrees(-((IF a = "y" /\ shot.leftHanded THEN -whole ELSE whole)
                       - HalfDelta[a]))]

\* GetRotatedImage: from where a ball seen from view is seen once it is turned by
\* delta.  The sign is one for all golfers.
Rotated(view, delta) == [a \in Axes |-> view[a] + (10 * delta[a])]

\* Each ball is turned half way to where the other was seen; for a left-handed
\* golfer in y by as much the other way.  The offset of
\* the point between them takes the y half back, negated or not.
TurnToCommonView ==
  /\ stage = "binary"
  /\ deltas' = <<[a \in Axes |-> RoundDegrees(HalfDelta[a])], Deltas2>>
  /\ offset' = [a \in Axes |-> IF a = "y" THEN shot.view1[a] - HalfDelta[a]
                               ELSE shot.view1[a] + HalfDelta[a]]
  /\ stage' = "turned"
  /\ UNCHANGED <<shot, threshold, calibrated, threshold2, rotation>>

-----------------------------------------------------------------------------
(***************************************************************************)
(* The search spaces: [start, end, inc] for each axis.                     *)
(***************************************************************************)
Coarse == [a \in Axes |-> [start |-> CoarseStart[a], end |-> CoarseEnd[a],
                           inc |-> CoarseIncrement[a]]]

\* Half the coarse increment to each side, rounded up, in steps of one degree
\* but for y, whose step is that half again.
FineAbout(c) ==
  [a \in Axes |->
     LET half == (CoarseIncrement[a] + 1) \div 2
     IN [start |-> c[a] - half, end |-> c[a] + half, inc |-> IF a = "y" THEN half ELSE 1]]

\* The loops' turns along an axis, and the side of the matrix.
Turns(axis) == {k \in 0..(axis.end - axis.start) : axis.start + (k * axis.inc) <= axis.end}

Side(axis) == ((axis.end - axis.start) \div axis.inc) + 1

\* vectorIndex, a short counted by the three loops, at their turns k.
VectorIndex(space, k) ==
  LET n == (k.x * Cardinality(Turns(space.y)) + k.y) * Cardinality(Turns(space.z)) + k.z
  IN ((n + 2^15) % 2^16) - 2^15

\* The candidates that are scored: those the matrix has a cell for.
Compared(space) ==
  {k \in [x : Turns(space.x), y : Turns(space.y), z : Turns(space.z)] :
     \A a \in Axes : k[a] < Side(space[a])}

Angles(space, k) == [a \in Axes |-> space[a].start + (k[a] * space[a].inc)]

Distance(c, d) ==
  LET Abs(n) == IF n < 0 THEN -n ELSE n
  IN Abs(c.x - d.x) + Abs(c.y - d.y) + Abs(c.z - d.z)

\* The best candidate, and of equal ones that of the least index.
CompareCandidates(space) ==
  LET compared == Compared(space)
      off(k) == Distance(Angles(space, k), shot.truth)
      least == CHOOSE n \in {off(k) : k \in compared} : \A k \in compared : n <= off(k)
      best == {k \in compared : off(k) = least}
  IN Angles(space, CHOOSE k \in best :
                     \A j \in best : VectorIndex(space, k) <= VectorIndex(space, j))

\* When no pixel of any candidate can be compared every score is 0 / 0, none is
\* the best, and no rotation is returned.
CoarseSearch ==
  /\ stage = "turned"
  /\ IF shot.blank THEN stage' = "none" /\ UNCHANGED rotation
     ELSE stage' = "coarse" /\ rotation' = CompareCandidates(Coarse)
  /\ UNCHANGED <<shot, threshold, calibrated, threshold2, deltas, offset>>

FineSearch ==
  /\ stage = "coarse"
  /\ rotation' = CompareCandidates(FineAbout(rotation))
  /\ stage' = "done"
  /\ UNCHANGED <<shot, threshold, calibrated, threshold2, deltas, offset>>

Next ==
  \/ FilterBall1 \/ Ratchet \/ FilterBall2 \/ TurnToCommonView
  \/ CoarseSearch \/ FineSearch

Spec == Init /\ [][Next]_vars

-----------------------------------------------------------------------------
(***************************************************************************)
(* What must hold.                                                         *)
(***************************************************************************)
Filtered == stage \notin {"isolated", "ratcheting"}

\* An image whose whiteness changes by at most five per cent in half a
\* threshold does not pass the band: the steps of the ratchet, large and
\* small, end in it whenever it is within the limits.
EndsInBand ==
  Filtered /\ shot.response.up <= 5 /\ shot.response.down <= 5
    /\ (\E h \in 4..60 : InBand(White(h))) => InBand(White(threshold))

\* The two images are comparable: filtered with one threshold, also when the first
\* needed no calibration and reports none, and turned to directions a degree apart at
\* most.  Nothing is claimed of y for a left-handed golfer, where the halves are
\* negated and the rotation is not: there the two balls are turned apart.
ImagesAreComparable ==
  stage \in {"turned", "coarse", "done"} =>
    /\ threshold2 = threshold
    /\ \A a \in Axes : ~(a = "y" /\ shot.leftHanded) =>
         Rotated(shot.view1, deltas[1])[a] - Rotated(shot.view2, deltas[2])[a] \in -10..10
=============================================================================
