-------------------------- MODULE StrobeIntervals --------------------------
(***************************************************************************)
(* Which strobe lit which ball: the pure part of GolfSimCamera that        *)
(* compares the distances between the balls of the strobed picture with    *)
(* the pauses between the strobe pulses, and so finds the time between     *)
(* the exposures.  Distances are pixels, pauses are tenths of              *)
(* milliseconds, ratios are thousandths.  Offsets and pattern positions    *)
(* count from 0, as in the code; sequences count from 1.                   *)
(***************************************************************************)
EXTENDS Integers, Sequences, FiniteSets, SequencesExt

CONSTANTS SlowdownPerMille,    \* k...BallSpeedSlowdownPercentage, in thousandths
          NoInterval           \* the code reads outside its vectors: any value

ASSUME SlowdownAssumption == SlowdownPerMille \in Nat

(***************************************************************************)
(* Geometry shared with BallFilters.                                       *)
(***************************************************************************)
Abs(n) == IF n < 0 THEN -n ELSE n

\* The root of a number below 2^22, rounded down, bit by bit.
ISqrt(n) ==
  LET root[bit \in 0..11] ==
        IF bit = 11 THEN 0
        ELSE LET r == root[bit + 1] + 2^bit
             IN IF r * r <= n THEN r ELSE r - 2^bit
  IN root[0]

SquaredDistance(a, b) == (a.x - b.x) * (a.x - b.x) + (a.y - b.y) * (a.y - b.y)

PixelDistanceFromBall(a, b) == ISqrt(SquaredDistance(a, b))

(***************************************************************************)
(* Distances between neighbouring balls, and the ratio of each to the one  *)
(* before it, made a little longer for the ball slows down.                *)
(***************************************************************************)
Distances(balls) ==
  [i \in 1..Len(balls) - 1 |-> PixelDistanceFromBall(balls[i], balls[i + 1])]

AdjustDistanceForSlowing(distance) == distance * (1000 + SlowdownPerMille)

DistanceRatios(distances) ==
  [i \in 1..Len(distances) - 1 |->
     AdjustDistanceForSlowing(distances[i + 1]) \div distances[i]]

\* GetBallDistancesAndRatios fails when two balls are on top of each other.
RatiosExist(distances) == \A i \in 1..Len(distances) - 1 : distances[i] > 1

(***************************************************************************)
(* The pauses that remain when some pulses lit no ball that was found.     *)
(* Pause number v and the one after it become one pause.                   *)
(***************************************************************************)
Collapse(pauses, v) ==
  [i \in 1..Len(pauses) - 1 |->
     CASE i <= v    -> pauses[i]
       [] i = v + 1 -> pauses[i] + pauses[i + 1]
       [] OTHER     -> pauses[i + 1]]

\* GetPulseIntervalsAndRatiosFromIntervalVector: the last entry of the vector
\* is not looked at, and without any entry to collapse nothing is returned.
IntervalsOfPattern(pauses, pattern) ==
  LET last == Len(pauses) - 3
      collapsed[v \in 0..last + 1] ==
        IF v = 0 THEN pauses
        ELSE IF v - 1 \in pattern
             THEN Collapse(collapsed[v - 1],
                           v - 1 - Cardinality({u \in pattern : u < v - 1}))
             ELSE collapsed[v - 1]
  IN IF pattern \cap 0..last = {} THEN <<>> ELSE collapsed[last + 1]

PulseRatios(intervals) ==
  [i \in 1..Len(intervals) - 1 |-> (1000 * intervals[i + 1]) \div intervals[i]]

\* Distance between the ratios of the balls and those of the pulses from
\* an offset on, each difference capped.
ComputeRatioDistance(ratios, pulseRatios, offset) ==
  LET capped(i) == LET d == Abs(ratios[i] - pulseRatios[offset + i])
                   IN IF d > 10000 THEN 10000 ELSE d
      total[i \in 0..Len(ratios)] ==
        IF i = 0 THEN 0 ELSE total[i - 1] + capped(i) * capped(i)
  IN total[Len(ratios)]

\* A mutant: without try_different_offsets, only the first offset is tried.
ClosestOffsetFirst(ratios, pulseRatios) ==
  IF Len(pulseRatios) <= Len(ratios) THEN {}
  ELSE {[offset |-> 0, delta |-> ComputeRatioDistance(ratios, pulseRatios, 0)]}

\* FindClosestRatioPatternMatchOffset: the first of the offsets that fit best;
\* the last pause is not tried, nor a distance as large as 99999.
ClosestOffset(ratios, pulseRatios) ==
  LET offsets == 0..Len(pulseRatios) - Len(ratios) - 1
      delta == [o \in offsets |-> ComputeRatioDistance(ratios, pulseRatios, o)]
      best  == {o \in offsets : /\ delta[o] < 9999900
                                /\ \A p \in offsets : delta[o] <= delta[p]}
      first == CHOOSE o \in best : \A p \in best : o <= p
  IN IF best = {} THEN {} ELSE {[offset |-> first, delta |-> delta[first]]}

(***************************************************************************)
(* The candidates are the numbers below 2^N - 1 with as many bits set as   *)
(* exposures are missing; bit b stands at position N - 2 - b of the vector *)
(* and bit N - 1 outside it.  They are tried in increasing order and the   *)
(* last of the best is kept.                                               *)
(***************************************************************************)
Candidates(strobes, missing) ==
  {bits \in SUBSET (0..strobes - 1) : Cardinality(bits) = missing} \ {0..strobes - 1}

PatternOf(bits, strobes) == {strobes - 2 - b : b \in bits \ {strobes - 1}}

IsLater(bits, other) ==
  LET differ == (bits \ other) \cup (other \ bits)
  IN \E b \in bits \ other : \A d \in differ : d <= b

BestPattern(ratios, pauses, missing) ==
  LET strobes == Len(pauses)
      Try(bits) ==
        LET intervals == IntervalsOfPattern(pauses, PatternOf(bits, strobes))
        IN IF intervals = <<>> THEN {}
           ELSE {[bits |-> bits, intervals |-> intervals,
                  offset |-> c.offset, delta |-> c.delta] :
                    c \in ClosestOffset(ratios, PulseRatios(intervals))}
      tried == UNION {Try(bits) : bits \in Candidates(strobes, missing)}
      best  == {t \in tried : \A u \in tried : t.delta <= u.delta}
  IN {t \in best : \A u \in best \ {t} : IsLater(t.bits, u.bits)}

(***************************************************************************)
(* DetermineStrobeIntervals: the balls in the order of their flight, each  *)
(* with the pause before it, and the time between the two balls nearest    *)
(* the centre (most, second: positions counted from 0).                    *)
(***************************************************************************)
SortByX(timings) == SortSeq(timings, LAMBDA s, t : s.ball.x < t.ball.x)

TimingsOf(balls, pattern) ==
  [i \in 1..Len(balls) |->
     [ball   |-> balls[i],
      before |-> IF i = 1 THEN 0 ELSE pattern.intervals[pattern.offset + i - 1]]]

\* The pause after the most centred ball when the second comes after it, else
\* the pause before it.
Between(pattern, most, second) ==
  pattern.intervals[pattern.offset + most + (IF second > most THEN 1 ELSE 0)]

\* With two balls only, a guess: the last two pulses for a putt, else the first.
GuessForTwo(balls, pauses, putter) ==
  LET guess == IF putter THEN pauses[Len(pauses) - 1] ELSE pauses[1]
  IN [ok |-> TRUE, between |-> guess,
      timings |-> SortByX(<<[ball |-> balls[1], before |-> 0],
                            [ball |-> balls[2], before |-> guess]>>)]

NoTimings == [ok |-> FALSE, between |-> 0, timings |-> <<>>]

Undefined == [ok |-> FALSE, between |-> NoInterval, timings |-> <<>>]

DetermineStrobeIntervals(balls, most, second, pauses, putter) ==
  LET distances == Distances(balls)
      missing   == Len(pauses) - Len(balls)
      best      == BestPattern(DistanceRatios(distances), pauses, missing)
  IN IF ~RatiosExist(distances) THEN NoTimings
     ELSE IF Len(balls) = 2 THEN GuessForTwo(balls, pauses, putter)
     ELSE IF missing < 0 THEN NoTimings
     ELSE IF best = {} THEN Undefined
     ELSE LET p == CHOOSE p \in best : TRUE
          IN [ok |-> TRUE,
              between |-> Between(p, most, second),
              timings |-> SortByX(TimingsOf(balls, p))]
=============================================================================
