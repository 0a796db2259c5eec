--------------------------- MODULE Analysis_proofs ---------------------------
(* Theorems about the search for the spin, for all pairs of images and every *)
(* band and first threshold the assumptions allow; about the search for      *)
(* balls, for all circles and parameters; and about the pauses of the balls  *)
(* of a shot.  No fairness is used.                                          *)
EXTENDS MC_Analysis, FiniteSetTheorems, SequenceTheorems, WellFoundedInduction, TLAPS

Before == {"isolated", "ratcheting"}

\* The threshold the second ball is given.
Passed == IF calibrated > 0 THEN calibrated ELSE StartThreshold

\* The ratchet never leaves its limits by more than a step, so that what it ends at
\* is no 0, the mark of no calibration.
SpinInv ==
  IF part # "spin" THEN comparison = "isolated"
  ELSE /\ pair \in Pairs
       /\ comparison \in {"isolated", "ratcheting", "filtered", "binary", "turned",
                          "none", "coarse", "done"}
       /\ comparison = "isolated" => threshold = StartThreshold
       /\ comparison = "ratcheting" => threshold \in 4..60
       /\ comparison \in Before => calibrated = 0
       /\ comparison \notin Before => threshold = Passed /\ threshold \in Int
       /\ comparison \notin Before \cup {"filtered"} => threshold2 = threshold
       /\ comparison \in {"turned", "coarse", "done"} =>
             deltas = <<[a \in Spin!Axes |-> Spin!RoundDegrees(Spin!HalfDelta[a])], Spin!Deltas2>>

Gentle == pair.response.up <= 5 /\ pair.response.down <= 5

\* The ratchet is still on the side of the band it came from, and every threshold
\* between it and its start is so as well.
BandInv ==
  /\ (part = "spin" /\ comparison = "ratcheting" /\ Gentle) =>
        IF Spin!Down THEN Spin!White(threshold) < kGaborMinWhitePercent
        ELSE Spin!White(threshold) >= kGaborMaxWhitePercent
  /\ EndsInBand

-----------------------------------------------------------------------------
(* How white the filter leaves an image.                                     *)

\* A product grows with its second factor.
LEMMA Products ==
    ASSUME NEW x \in Nat, NEW a \in Nat, NEW b \in Nat, a <= b
    PROVE  x * a \in Nat /\ x * b \in Nat /\ x * a <= x * b
<1>1. PICK d \in Nat : b = a + d
  <2>1. b - a \in Nat /\ b = a + (b - a)
    OBVIOUS
  <2> QED
    BY <2>1
<1>2. x * a \in Nat /\ x * d \in Nat
  OBVIOUS
<1>3. x * b = x * a + x * d
  BY <1>1
<1> QED
  BY <1>2, <1>3

Clamp(w) == IF w < 0 THEN 0 ELSE IF w > 100 THEN 100 ELSE w

LEMMA ClampIsGentle ==
    ASSUME NEW v \in Int, NEW w \in Int, v <= w
    PROVE  /\ Clamp(v) \in 0..100 /\ Clamp(w) \in 0..100 /\ Clamp(v) <= Clamp(w)
           /\ Clamp(w) - Clamp(v) <= w - v
BY DEF Clamp

\* Whiteness before it is cut to per cents.
Raw(h) ==
  IF h <= StartThreshold THEN pair.response.white + pair.response.down * (StartThreshold - h)
  ELSE pair.response.white - pair.response.up * (h - StartThreshold)

LEMMA WhiteIsClamped == ASSUME NEW h PROVE Spin!White(h) = Clamp(Raw(h))
BY DEF Spin!White, Clamp, Raw

\* A higher threshold leaves less of the image white.
LEMMA RawFalls ==
    ASSUME pair \in Pairs, NEW g \in Int, NEW h \in Int, g <= h
    PROVE  Raw(g) \in Int /\ Raw(h) \in Int /\ Raw(h) <= Raw(g)
<1> DEFINE w == pair.response.white
           d == pair.response.down
           u == pair.response.up
           S == StartThreshold
<1>1. w \in Nat /\ d \in Nat /\ u \in Nat
  BY PairsAssumption
<1>2. S \in Nat
  BY RatchetAssumption
<1>3. /\ Raw(g) = IF g <= S THEN w + d * (S - g) ELSE w - u * (g - S)
      /\ Raw(h) = IF h <= S THEN w + d * (S - h) ELSE w - u * (h - S)
  BY DEF Raw
<1> HIDE DEF w, d, u, S
<1>4. CASE h <= S
  <2>1. S - h \in Nat /\ S - g \in Nat /\ S - h <= S - g /\ g <= S
    BY <1>2, <1>4
  <2>2. d * (S - h) \in Nat /\ d * (S - g) \in Nat /\ d * (S - h) <= d * (S - g)
    BY <1>1, <2>1, Products
  <2>3. Raw(g) = w + d * (S - g) /\ Raw(h) = w + d * (S - h)
    BY <1>3, <1>4, <2>1
  <2> QED
    BY <1>1, <2>2, <2>3
<1>5. CASE g <= S /\ ~(h <= S)
  <2>1. S - g \in Nat /\ h - S \in Nat
    BY <1>2, <1>5
  <2>2. d * (S - g) \in Nat /\ u * (h - S) \in Nat
    BY <1>1, <2>1, Products
  <2>3. Raw(g) = w + d * (S - g) /\ Raw(h) = w - u * (h - S)
    BY <1>3, <1>5
  <2> QED
    BY <1>1, <2>2, <2>3
<1>6. CASE ~(g <= S)
  <2>1. g - S \in Nat /\ h - S \in Nat /\ g - S <= h - S /\ ~(h <= S)
    BY <1>2, <1>6
  <2>2. u * (g - S) \in Nat /\ u * (h - S) \in Nat /\ u * (g - S) <= u * (h - S)
    BY <1>1, <2>1, Products
  <2>3. Raw(g) = w - u * (g - S) /\ Raw(h) = w - u * (h - S)
    BY <1>3, <1>6, <2>1
  <2> QED
    BY <1>1, <2>2, <2>3
<1> QED
  BY <1>4, <1>5, <1>6

\* Of a gentle image no more than five per cent change in half a threshold.
LEMMA RawFallsGently ==
    ASSUME pair \in Pairs, Gentle, NEW h \in Int
    PROVE  Raw(h) - Raw(h + 1) <= 5
<1> DEFINE w == pair.response.white
           d == pair.response.down
           u == pair.response.up
           S == StartThreshold
<1>1. w \in Nat /\ d \in 0..5 /\ u \in 0..5
  BY PairsAssumption DEF Gentle
<1>2. S \in Nat
  BY RatchetAssumption
<1>3. /\ Raw(h) = IF h <= S THEN w + d * (S - h) ELSE w - u * (h - S)
      /\ Raw(h + 1) = IF h + 1 <= S THEN w + d * (S - (h + 1)) ELSE w - u * ((h + 1) - S)
  BY DEF Raw
<1> HIDE DEF w, d, u, S
<1>4. CASE h + 1 <= S
  <2> DEFINE n == S - (h + 1)
  <2>1. n \in Nat /\ S - h = n + 1 /\ h <= S
    BY <1>2, <1>4
  <2>2. Raw(h) = w + d * (n + 1) /\ Raw(h + 1) = w + d * n
    BY <1>3, <1>4, <2>1
  <2> HIDE DEF n
  <2>3. d * (n + 1) = d * n + d /\ d * n \in Nat
    BY <1>1, <2>1
  <2> QED
    BY <1>1, <2>2, <2>3
<1>5. CASE h = S
  <2>1. Raw(h) = w + d * 0 /\ Raw(h + 1) = w - u * 1
    BY <1>2, <1>3, <1>5
  <2>2. d * 0 = 0 /\ u * 1 = u
    BY <1>1
  <2> QED
    BY <1>1, <2>1, <2>2
<1>6. CASE h > S
  <2> DEFINE n == h - S
  <2>1. n \in Nat /\ (h + 1) - S = n + 1 /\ ~(h <= S) /\ ~(h + 1 <= S)
    BY <1>2, <1>6
  <2>2. Raw(h) = w - u * n /\ Raw(h + 1) = w - u * (n + 1)
    BY <1>3, <2>1
  <2> HIDE DEF n
  <2>3. u * (n + 1) = u * n + u /\ u * n \in Nat
    BY <1>1, <2>1
  <2> QED
    BY <1>1, <2>2, <2>3
<1> QED
  BY <1>2, <1>4, <1>5, <1>6

LEMMA WhiteFalls ==
    ASSUME pair \in Pairs, NEW g \in Int, NEW h \in Int, g <= h
    PROVE  /\ Spin!White(g) \in 0..100 /\ Spin!White(h) \in 0..100
           /\ Spin!White(h) <= Spin!White(g)
BY WhiteIsClamped, RawFalls, ClampIsGentle

LEMMA WhiteFallsGently ==
    ASSUME pair \in Pairs, Gentle, NEW h \in Int, NEW n \in {1, 2}
    PROVE  Spin!White(h) - Spin!White(h + n) <= 5 * n
<1>1. ASSUME NEW k \in Int PROVE Spin!White(k) - Spin!White(k + 1) <= 5
  <2>1. /\ Raw(k) \in Int /\ Raw(k + 1) \in Int /\ Raw(k + 1) <= Raw(k)
        /\ Raw(k) - Raw(k + 1) <= 5
    BY RawFalls, RawFallsGently
  <2>2. /\ Clamp(Raw(k)) \in 0..100 /\ Clamp(Raw(k + 1)) \in 0..100
        /\ Clamp(Raw(k)) - Clamp(Raw(k + 1)) <= Raw(k) - Raw(k + 1)
    BY <2>1, ClampIsGentle
  <2> QED
    BY <2>1, <2>2, WhiteIsClamped
<1>2. /\ Spin!White(h) \in 0..100 /\ Spin!White(h + 1) \in 0..100
      /\ Spin!White(h + 2) \in 0..100
  BY WhiteFalls
<1>3. Spin!White(h) - Spin!White(h + 1) <= 5
  BY <1>1
<1>4. Spin!White(h + 1) - Spin!White((h + 1) + 1) <= 5
  BY <1>1
<1>5. (h + 1) + 1 = h + 2
  OBVIOUS
<1> QED
  BY <1>2, <1>3, <1>4, <1>5

-----------------------------------------------------------------------------
(* The ratchet and what comes after it.                                      *)

\* A behaviour of another part leaves the search for the spin where it starts.
LEMMA OnlySpin ==
    ASSUME [AnalysisNext]_allVars
    PROVE  /\ part' = part
           /\ \/ part = "spin" /\ Spin!Next
              \/ UNCHANGED spinVars
BY DEF AnalysisNext, ShotStep, SearchStep, SpinStep, FlightStep, allVars

LEMMA SpinInit == AnalysisInit => SpinInv
BY DEF AnalysisInit, SpinAtRest, Spin!Init, SpinInv, Before

LEMMA SpinStepKeeps == SpinInv /\ [AnalysisNext]_allVars => SpinInv'
<1> SUFFICES ASSUME SpinInv, [AnalysisNext]_allVars PROVE SpinInv'
  OBVIOUS
<1> USE RatchetAssumption DEF Before, Passed
<1>1. CASE UNCHANGED spinVars
  <2>1. UNCHANGED <<part, Spin!HalfDelta, Spin!Deltas2>>
    BY <1>1, OnlySpin DEF spinVars, Spin!HalfDelta, Spin!Deltas2
  <2>2. UNCHANGED <<pair, comparison, threshold, calibrated, threshold2, deltas>>
    BY <1>1 DEF spinVars
  <2> QED
    BY <2>1, <2>2 DEF SpinInv
<1>2. CASE part = "spin" /\ Spin!Next
  <2>a. part' = part /\ pair' = pair /\ pair \in Pairs
    BY <1>2, OnlySpin DEF SpinInv, Spin!Next, Spin!FilterBall1, Spin!Ratchet, Spin!FilterBall2,
       Spin!TurnToCommonView, Spin!CoarseSearch, Spin!FineSearch
  <2>1. CASE Spin!FilterBall1
    <3>1. /\ comparison = "isolated" /\ comparison' \in {"filtered", "ratcheting"}
          /\ UNCHANGED <<threshold, calibrated>>
      BY <2>1 DEF Spin!FilterBall1
    <3> QED
      BY <1>2, <2>a, <3>1 DEF SpinInv
  <2>2. CASE Spin!Ratchet
    <3> DEFINE move == Spin!RatchetStep(Spin!White(threshold))
               next == IF Spin!Down THEN threshold - move ELSE threshold + move
    <3>1. move \in {1, 2}
      BY DEF Spin!RatchetStep
    <3>2. /\ comparison = "ratcheting" /\ threshold' = next
          /\ \/ comparison' = "filtered" /\ calibrated' = next
             \/ comparison' = comparison /\ calibrated' = calibrated /\ ~(next > 60) /\ ~(next < 4)
      BY <2>2 DEF Spin!Ratchet
    <3>3. threshold \in 4..60 /\ calibrated = 0
      BY <1>2, <3>2 DEF SpinInv
    <3>4. next \in Nat /\ next > 0
      BY <3>1, <3>3
    <3> HIDE DEF next
    <3> QED
      BY <1>2, <2>a, <3>2, <3>3, <3>4 DEF SpinInv
  <2>3. CASE Spin!FilterBall2
    <3>1. /\ comparison = "filtered" /\ comparison' = "binary" /\ threshold2' = Passed
          /\ UNCHANGED <<threshold, calibrated>>
      BY <2>3 DEF Spin!FilterBall2
    <3> QED
      BY <1>2, <2>a, <3>1 DEF SpinInv
  <2>4. CASE Spin!TurnToCommonView
    <3>1. /\ comparison = "binary" /\ comparison' = "turned"
          /\ deltas' = <<[a \in Spin!Axes |-> Spin!RoundDegrees(Spin!HalfDelta[a])], Spin!Deltas2>>
          /\ UNCHANGED <<threshold, calibrated, threshold2>>
      BY <2>4 DEF Spin!TurnToCommonView
    <3>2. UNCHANGED <<Spin!HalfDelta, Spin!Deltas2>>
      BY <2>a DEF Spin!HalfDelta, Spin!Deltas2
    <3> QED
      BY <1>2, <2>a, <3>1, <3>2 DEF SpinInv
  <2>5. CASE Spin!CoarseSearch \/ Spin!FineSearch
    <3>1. /\ comparison \in {"turned", "coarse"} /\ comparison' \in {"none", "coarse", "done"}
          /\ UNCHANGED <<threshold, calibrated, threshold2, deltas>>
      BY <2>5 DEF Spin!CoarseSearch, Spin!FineSearch
    <3>2. UNCHANGED <<Spin!HalfDelta, Spin!Deltas2>>
      BY <2>a DEF Spin!HalfDelta, Spin!Deltas2
    <3> QED
      BY <1>2, <2>a, <3>1, <3>2 DEF SpinInv
  <2> QED
    BY <1>2, <2>1, <2>2, <2>3, <2>4, <2>5 DEF Spin!Next
<1> QED
  BY <1>1, <1>2, OnlySpin

\* Tenths of a degree are rounded by half a degree at most.
LEMMA RoundDegreesIsNear ==
    ASSUME NEW t \in Int
    PROVE  Spin!RoundDegrees(t) \in Int /\ 10 * Spin!RoundDegrees(t) - t \in -5..5
<1>1. CASE t >= 0
  <2>1. Spin!RoundDegrees(t) = (t + 5) \div 10
    BY <1>1 DEF Spin!RoundDegrees
  <2> QED
    BY <1>1, <2>1
<1>2. CASE ~(t >= 0)
  <2>1. Spin!RoundDegrees(t) = -((5 - t) \div 10)
    BY <1>2 DEF Spin!RoundDegrees
  <2> QED
    BY <1>2, <2>1
<1> QED
  BY <1>1, <1>2

\* Two balls turned half way to each other meet but for the two roundings.
LEMMA HalfWays ==
    ASSUME NEW v1 \in Int, NEW v2 \in Int, NEW h \in Int, NEW d1 \in Int, NEW d2 \in Int,
           10 * d1 - h \in -5..5, 10 * d2 + ((v2 - v1) - h) \in -5..5
    PROVE  (v1 + 10 * d1) - (v2 + 10 * d2) \in -10..10
<1>1. (v1 + 10 * d1) - (v2 + 10 * d2) = (10 * d1 - h) - (10 * d2 + ((v2 - v1) - h))
  OBVIOUS
<1> QED
  BY <1>1

\* The two images whose rotation is looked for were filtered with one threshold and
\* turned, by the code's rotation of one sign, to directions a degree apart at most,
\* for all views and all axes but the y of a left-handed golfer.
THEOREM BallsAreComparable == AnalysisSpec => []ImagesAreComparable
<1>1. SpinInv => ImagesAreComparable
  <2> SUFFICES ASSUME SpinInv, comparison \in {"turned", "coarse", "done"}
               PROVE  ImagesAreComparable
    BY DEF ImagesAreComparable, Spin!ImagesAreComparable
  <2>1. part = "spin" /\ pair \in Pairs /\ threshold2 = threshold
    BY DEF SpinInv, Before
  <2>2. deltas[1] = [a \in Spin!Axes |-> Spin!RoundDegrees(Spin!HalfDelta[a])]
        /\ deltas[2] = Spin!Deltas2
    BY DEF SpinInv, Before
  <2>3. ASSUME NEW a \in Spin!Axes, ~(a = "y" /\ pair.leftHanded)
        PROVE  Spin!Rotated(pair.view1, deltas[1])[a]
                 - Spin!Rotated(pair.view2, deltas[2])[a] \in -10..10
    <3> DEFINE v1 == pair.view1[a]
               v2 == pair.view2[a]
               whole == v2 - v1
               half == whole \div 2
    <3>1. v1 \in Int /\ v2 \in Int
      BY <2>1, PairsAssumption
    <3>2. Spin!HalfDelta[a] = half
      BY <2>3 DEF Spin!HalfDelta
    <3>3. deltas[1][a] = Spin!RoundDegrees(half)
      BY <2>2, <3>2
    <3>4. deltas[2][a] = Spin!RoundDegrees(-(whole - half))
      BY <2>2, <2>3, <3>2 DEF Spin!Deltas2
    <3>5. whole \in Int /\ half \in Int /\ -(whole - half) \in Int
      BY <3>1
    <3>6. /\ Spin!Rotated(pair.view1, deltas[1])[a] = v1 + (10 * deltas[1][a])
          /\ Spin!Rotated(pair.view2, deltas[2])[a] = v2 + (10 * deltas[2][a])
      BY DEF Spin!Rotated
    <3> HIDE DEF half, v1, v2
    <3>7. deltas[1][a] \in Int /\ 10 * deltas[1][a] - half \in -5..5
      BY <3>3, <3>5, RoundDegreesIsNear
    <3>8. deltas[2][a] \in Int /\ 10 * deltas[2][a] + (whole - half) \in -5..5
      BY <3>4, <3>5, RoundDegreesIsNear
    <3>9. (v1 + 10 * deltas[1][a]) - (v2 + 10 * deltas[2][a]) \in -10..10
      BY <3>1, <3>5, <3>7, <3>8, HalfWays
    <3> QED
      BY <3>6, <3>9
  <2> QED
    BY <2>1, <2>3 DEF ImagesAreComparable, Spin!ImagesAreComparable
<1> QED
  BY <1>1, SpinInit, SpinStepKeeps, PTL DEF AnalysisSpec

\* One step of the ratchet does not pass the band, from below it or from above.
LEMMA StepsShort ==
    ASSUME pair \in Pairs, Gentle, NEW h \in Int
    PROVE  LET move == Spin!RatchetStep(Spin!White(h))
           IN  /\ Spin!Down /\ Spin!White(h) < kGaborMinWhitePercent =>
                     Spin!White(h - move) < kGaborMaxWhitePercent
               /\ ~Spin!Down /\ Spin!White(h) >= kGaborMaxWhitePercent =>
                     Spin!White(h + move) >= kGaborMinWhitePercent
<1> DEFINE move == Spin!RatchetStep(Spin!White(h))
           w == Spin!White(h)
<1>1. w \in 0..100 /\ kGaborMinWhitePercent \in Nat /\ kGaborMaxWhitePercent \in Nat
      /\ kGaborMaxWhitePercent - kGaborMinWhitePercent >= 5
  BY RatchetAssumption, WhiteFalls
<1>2. /\ move \in {1, 2}
      /\ Spin!Down /\ move = 2 => kGaborMinWhitePercent - w > 5
      /\ ~Spin!Down /\ move = 2 => w - kGaborMaxWhitePercent > 5
  BY DEF Spin!RatchetStep
<1> HIDE DEF move
<1>3. /\ Spin!White(h - move) \in 0..100 /\ Spin!White(h - move) - w <= 5 * move
      /\ Spin!White(h + move) \in 0..100 /\ w - Spin!White(h + move) <= 5 * move
  <2>1. h - move \in Int /\ h + move \in Int /\ (h - move) + move = h
    BY <1>2
  <2> QED
    BY <1>2, <2>1, WhiteFalls, WhiteFallsGently
<1> HIDE DEF w
<1>4. Spin!Down /\ w < kGaborMinWhitePercent => Spin!White(h - move) < kGaborMaxWhitePercent
  BY <1>1, <1>2, <1>3
<1>5. ~Spin!Down /\ w >= kGaborMaxWhitePercent => Spin!White(h + move) >= kGaborMinWhitePercent
  BY <1>1, <1>2, <1>3
<1> QED
  BY <1>4, <1>5 DEF move, w

\* While the pictures stay the same, so does what the filter makes of them.
LEMMA SameWhite ==
    ASSUME pair' = pair
    PROVE  /\ Spin!Down' = Spin!Down /\ Gentle' = Gentle
           /\ \A h : Spin!White(h)' = Spin!White(h)
           /\ Spin!White(threshold)' = Spin!White(threshold')
BY DEF Spin!Down, Gentle, Spin!White

LEMMA BandInit == AnalysisInit => BandInv
BY DEF AnalysisInit, SpinAtRest, Spin!Init, BandInv, EndsInBand, Spin!EndsInBand, Spin!Filtered

LEMMA BandStep ==
    SpinInv /\ BandInv /\ [AnalysisNext]_allVars => BandInv'
<1> SUFFICES ASSUME SpinInv, BandInv, [AnalysisNext]_allVars PROVE BandInv'
  OBVIOUS
<1>1. CASE UNCHANGED spinVars
  BY <1>1, OnlySpin, SameWhite DEF spinVars, BandInv, EndsInBand, Spin!EndsInBand,
     Spin!Filtered
<1>2. CASE part = "spin" /\ Spin!Next
  <2>a. part' = "spin" /\ pair' = pair /\ pair \in Pairs
    BY <1>2, OnlySpin DEF SpinInv, Spin!Next, Spin!FilterBall1, Spin!Ratchet, Spin!FilterBall2,
       Spin!TurnToCommonView, Spin!CoarseSearch, Spin!FineSearch
  <2>b. ASSUME comparison' # "ratcheting",
               (comparison' # "isolated" /\ Gentle /\ \E h \in 4..60 : Spin!InBand(Spin!White(h)))
                  => Spin!InBand(Spin!White(threshold'))
        PROVE  BandInv'
    BY <2>a, <2>b, SameWhite DEF BandInv, EndsInBand, Spin!EndsInBand, Spin!Filtered,
       Gentle, Spin!InBand
  <2>1. CASE Spin!FilterBall1
    <3>1. /\ comparison = "isolated" /\ UNCHANGED threshold
          /\ comparison' = IF Spin!InBand(Spin!White(threshold)) THEN "filtered" ELSE "ratcheting"
      BY <2>1 DEF Spin!FilterBall1
    <3>2. threshold = StartThreshold
      BY <1>2, <3>1 DEF SpinInv
    <3>3. CASE Spin!InBand(Spin!White(threshold))
      BY <2>b, <3>1, <3>3
    <3>4. CASE ~Spin!InBand(Spin!White(threshold))
      <4>1. /\ IF Spin!Down THEN Spin!White(threshold) < kGaborMinWhitePercent
               ELSE Spin!White(threshold) >= kGaborMaxWhitePercent
        BY <3>2, <3>4, RatchetAssumption, WhiteFalls, <2>a DEF Spin!Down, Spin!InBand
      <4>2. comparison' = "ratcheting"
        BY <3>1, <3>4
      <4> QED
        BY <2>a, <3>1, <4>1, <4>2, SameWhite DEF BandInv, EndsInBand, Spin!EndsInBand,
           Spin!Filtered
    <3> QED
      BY <3>3, <3>4
  <2>2. CASE Spin!Ratchet
    <3> DEFINE move == Spin!RatchetStep(Spin!White(threshold))
               next == IF Spin!Down THEN threshold - move ELSE threshold + move
    <3>1. /\ comparison = "ratcheting" /\ threshold' = next
          /\ IF Spin!InBand(Spin!White(next)) \/ next > 60 \/ next < 4
               THEN comparison' = "filtered" ELSE comparison' = comparison
      BY <2>2 DEF Spin!Ratchet
    <3>2. threshold \in 4..60 /\ move \in {1, 2}
      BY <1>2, <3>1 DEF SpinInv, Spin!RatchetStep
    <3>3. Gentle => IF Spin!Down THEN Spin!White(next) < kGaborMaxWhitePercent
                    ELSE Spin!White(next) >= kGaborMinWhitePercent
      BY <1>2, <2>a, <3>1, <3>2, StepsShort DEF BandInv
    <3>4. /\ next \in Int
          /\ Spin!Down => next <= 60
          /\ ~Spin!Down => next >= 4
      BY <3>2
    <3> HIDE DEF next
    <3>5. CASE comparison' = comparison
      <4>1. ~Spin!InBand(Spin!White(next))
        BY <3>1, <3>5
      <4>2. Spin!White(next) \in 0..100
        BY <2>a, <3>4, WhiteFalls
      <4>3. Gentle => IF Spin!Down THEN Spin!White(next) < kGaborMinWhitePercent
                      ELSE Spin!White(next) >= kGaborMaxWhitePercent
        BY <3>3, <4>1, <4>2, RatchetAssumption DEF Spin!InBand
      <4> QED
        BY <2>a, <3>1, <3>5, <4>3, SameWhite DEF BandInv, EndsInBand, Spin!EndsInBand,
           Spin!Filtered
    <3>6. CASE comparison' = "filtered" /\ Spin!InBand(Spin!White(next))
      BY <2>b, <3>1, <3>6
    <3>7. CASE comparison' = "filtered" /\ ~Spin!InBand(Spin!White(next))
      <4>1. next > 60 \/ next < 4
        BY <3>1, <3>7
      <4>2. ASSUME Gentle, NEW h \in 4..60 PROVE ~Spin!InBand(Spin!White(h))
        <5>1. CASE Spin!Down
          <6>1. next <= h
            BY <3>4, <4>1, <5>1
          <6>2. /\ Spin!White(next) \in 0..100 /\ Spin!White(h) \in 0..100
                /\ Spin!White(h) <= Spin!White(next)
            BY <2>a, <3>4, <6>1, WhiteFalls
          <6>3. Spin!White(next) < kGaborMinWhitePercent
            BY <3>3, <3>7, <4>2, <5>1, <6>2, RatchetAssumption DEF Spin!InBand
          <6> QED
            BY <6>2, <6>3, RatchetAssumption DEF Spin!InBand
        <5>2. CASE ~Spin!Down
          <6>1. h <= next
            BY <3>4, <4>1, <5>2
          <6>2. /\ Spin!White(next) \in 0..100 /\ Spin!White(h) \in 0..100
                /\ Spin!White(next) <= Spin!White(h)
            BY <2>a, <3>4, <6>1, WhiteFalls
          <6>3. Spin!White(next) >= kGaborMaxWhitePercent
            BY <3>3, <3>7, <4>2, <5>2, <6>2, RatchetAssumption DEF Spin!InBand
          <6> QED
            BY <6>2, <6>3, RatchetAssumption DEF Spin!InBand
        <5> QED
          BY <5>1, <5>2
      <4> QED
        BY <2>b, <3>7, <4>2
    <3> QED
      BY <3>1, <3>5, <3>6, <3>7
  <2>3. CASE Spin!FilterBall2 \/ Spin!TurnToCommonView \/ Spin!CoarseSearch \/ Spin!FineSearch
    <3>1. /\ comparison \in {"filtered", "binary", "turned", "coarse"}
          /\ comparison' \in {"binary", "turned", "none", "coarse", "done"}
          /\ UNCHANGED threshold
      BY <2>3 DEF Spin!FilterBall2, Spin!TurnToCommonView, Spin!CoarseSearch, Spin!FineSearch
    <3>2. (Gentle /\ \E h \in 4..60 : Spin!InBand(Spin!White(h)))
             => Spin!InBand(Spin!White(threshold))
      BY <3>1 DEF BandInv, EndsInBand, Spin!EndsInBand, Spin!Filtered, Gentle
    <3> QED
      BY <2>b, <3>1, <3>2
  <2> QED
    BY <1>2, <2>1, <2>2, <2>3 DEF Spin!Next
<1> QED
  BY <1>1, <1>2, OnlySpin

\* The ratchet of the filter's threshold ends in the band whenever it can, for every
\* image whose whiteness changes gently and every band as wide as its steps need.
THEOREM RatchetEndsInBand == AnalysisSpec => []EndsInBand
<1>1. BandInv => EndsInBand
  BY DEF BandInv
<1> QED
  BY <1>1, SpinInit, SpinStepKeeps, BandInit, BandStep, PTL DEF AnalysisSpec

-----------------------------------------------------------------------------
(* The search of a picture for balls.                                       *)

\* The level is so many steps from the start; between the two the search has turned
\* away from every level, for the one before gave too many or the one after too few.
\* While it tightens, the level before gave too many.
SearchInv ==
  IF part # "search" THEN search = "called"
  ELSE /\ picture \in Search!Pictures /\ loosening \in BOOLEAN
       /\ search \in {"called", "searching", "chosen", "found", "failed"}
       /\ \E j \in Int : level = Search!set.start + j * Search!set.inc
       /\ search = "called" => level = Search!set.start /\ circles = <<>>
       /\ search = "searching" =>
            /\ level > Search!set.start => Search!Count(level - Search!set.inc) > Search!set.most
            /\ level < Search!set.start => Search!Count(level + Search!set.inc) < Search!set.fewest
            /\ ~loosening /\ Search!prior > 0 =>
                 Search!Count(level - Search!set.inc) > Search!set.most
       /\ AcceptableLevelIsUsed

LEMMA SearchCardinality == ASSUME NEW S PROVE Search!Cardinality(S) = Cardinality(S)
BY DEF Search!Cardinality, Cardinality

\* Fewer circles are found the stricter the level is.
LEMMA FewerCircles ==
    ASSUME NEW p \in Search!Pictures, NEW rs, NEW l \in Int, NEW m \in Int, l <= m
    PROVE  /\ Cardinality(Search!Seen(p, rs, l)) \in Nat
           /\ Cardinality(Search!Seen(p, rs, m)) <= Cardinality(Search!Seen(p, rs, l))
<1>1. IsFiniteSet(DOMAIN Kinds)
  BY LevelsAssumption, FS_Interval
<1>2. Search!Seen(p, rs, l) \subseteq DOMAIN Kinds
  BY DEF Search!Seen
<1>3. p.strength \in [DOMAIN Kinds -> Strengths]
  BY DEF Search!Pictures
<1>4. Search!Seen(p, rs, m) \subseteq Search!Seen(p, rs, l)
  <2> SUFFICES ASSUME NEW i \in Search!Seen(p, rs, m) PROVE i \in Search!Seen(p, rs, l)
    OBVIOUS
  <2>1. /\ i \in DOMAIN Kinds /\ p.strength[i] >= m
        /\ rs[1] <= Kinds[i].r /\ Kinds[i].r <= rs[2]
    BY DEF Search!Seen
  <2>2. p.strength[i] \in Int
    BY <1>3, <2>1, LevelsAssumption
  <2>3. p.strength[i] >= l
    BY <2>1, <2>2
  <2> QED BY <2>1, <2>3 DEF Search!Seen
<1> QED
  BY <1>1, <1>2, <1>4, FS_Subset, FS_CardinalityType

LEMMA Looser ==
    ASSUME picture \in Search!Pictures
    PROVE  \A l, m \in Int : l <= m => /\ Search!Count(l) \in Nat /\ Search!Count(m) \in Nat
                                       /\ Search!Count(m) <= Search!Count(l)
<1> SUFFICES ASSUME NEW l \in Int, NEW m \in Int, l <= m
             PROVE  /\ Search!Count(l) \in Nat /\ Search!Count(m) \in Nat
                    /\ Search!Count(m) <= Search!Count(l)
  OBVIOUS
<1>1. /\ Cardinality(Search!Seen(picture, radii, l)) \in Nat
      /\ Cardinality(Search!Seen(picture, radii, m)) <= Cardinality(Search!Seen(picture, radii, l))
  BY FewerCircles
<1>2. Cardinality(Search!Seen(picture, radii, m)) \in Nat
  BY FewerCircles
<1> QED
  BY <1>1, <1>2, SearchCardinality DEF Search!Count

LEMMA NumberIsCount ==
    ASSUME picture \in Search!Pictures, level \in Int
    PROVE  Search!number = Search!Count(level) /\ Search!number \in Nat
<1>1. Cardinality(Search!Seen(picture, radii, level)) \in Nat
  BY FewerCircles
<1> QED
  BY <1>1, SearchCardinality DEF Search!Count, Search!number, Search!found

\* Two levels that differ are a step apart at least.
LEMMA StepApart ==
    ASSUME NEW inc \in Nat \ {0}, NEW start \in Int, NEW j \in Int, NEW k \in Int,
           start + j * inc < start + k * inc
    PROVE  start + j * inc + inc <= start + k * inc
<1>1. j * inc \in Int /\ k * inc \in Int
  OBVIOUS
<1>2. CASE k <= j
  <2>1. PICK d \in Nat : j = k + d
    <3>1. j - k \in Nat /\ j = k + (j - k)
      BY <1>2
    <3> QED BY <3>1
  <2>2. d * inc \in Nat
    OBVIOUS
  <2>3. j * inc = k * inc + d * inc
    BY <2>1
  <2> QED BY <1>1, <2>2, <2>3
<1>3. CASE k > j
  <2>1. PICK d \in Nat : k = (j + 1) + d
    <3>1. k - (j + 1) \in Nat /\ k = (j + 1) + (k - (j + 1))
      BY <1>3
    <3> QED BY <3>1
  <2>2. d * inc \in Nat
    OBVIOUS
  <2>3. k * inc = j * inc + inc + d * inc
    BY <2>1
  <2> QED BY <1>1, <2>2, <2>3
<1> QED BY <1>2, <1>3

LEMMA SetTypes ==
    ASSUME picture \in Search!Pictures
    PROVE  LET s == Search!set
           IN  /\ s.inc \in Nat \ {0} /\ s.start \in Int /\ s.min \in Int /\ s.max \in Int
               /\ s.fewest \in Nat /\ s.most \in Nat
<1>1. picture.mode \in {"placed", "strobed", "putting", "external"}
  BY DEF Search!Pictures
<1> QED
  BY <1>1, LevelsAssumption DEF Search!set

\* A level in reach is the search's, or a step below it or above it at least.
LEMMA GridApart ==
    ASSUME picture \in Search!Pictures, NEW j \in Int,
           level = Search!set.start + j * Search!set.inc, NEW g \in Search!Grid
    PROVE  /\ g \in Int /\ level \in Int
           /\ g < level => g <= level - Search!set.inc
           /\ g > level => g >= level + Search!set.inc
           /\ g < Search!set.start => g + Search!set.inc > Search!set.min
           /\ g > Search!set.start => g - Search!set.inc < Search!set.max
<1> DEFINE start == Search!set.start
           inc == Search!set.inc
<1>1. inc \in Nat \ {0} /\ start \in Int
  BY SetTypes
<1>2. PICK k \in -10..10 : g = start + (k * inc)
  BY DEF Search!Grid
<1>3. /\ g < start => g + inc > Search!set.min
      /\ g > start => g - inc < Search!set.max
  BY DEF Search!Grid
<1>4. level = start + j * inc
  OBVIOUS
<1> HIDE DEF start, inc
<1>5. k \in Int /\ j * inc \in Int /\ k * inc \in Int
  BY <1>1, <1>2
<1>6. g \in Int /\ level \in Int
  BY <1>1, <1>2, <1>4, <1>5
<1>7. g < level => g + inc <= level
  BY <1>1, <1>2, <1>4, <1>5, StepApart
<1>8. level < g => level + inc <= g
  BY <1>1, <1>2, <1>4, <1>5, StepApart
<1>9. (g < level => g <= level - inc) /\ (g > level => g >= level + inc)
  BY <1>1, <1>6, <1>7, <1>8
<1> QED
  BY <1>3, <1>6, <1>9 DEF start, inc

Unsuitable(l) == Search!Count(l) \notin Search!set.fewest..Search!set.most

\* Turned away from every level below as too crowded and from every level above as
\* too empty, the search leaves none in reach that suits.
LEMMA NoneSuits ==
    ASSUME SearchInv, part = "search", search = "searching", NEW g \in Search!Grid,
           \/ Search!number < Search!set.fewest /\ level <= Search!set.min
           \/ Search!number > Search!set.most /\ level >= Search!set.max
           \/ Search!number < Search!set.fewest /\ ~loosening /\ Search!prior > 0
    PROVE  Unsuitable(g)
<1> DEFINE s == Search!set
<1>1. PICK j \in Int : level = s.start + j * s.inc
  BY DEF SearchInv
<1>2. picture \in Search!Pictures
  BY DEF SearchInv
<1>3. /\ g \in Int /\ level \in Int
      /\ g < level => g <= level - s.inc
      /\ g > level => g >= level + s.inc
      /\ g < s.start => g + s.inc > s.min
      /\ g > s.start => g - s.inc < s.max
  BY <1>1, <1>2, GridApart
<1>4. /\ s.inc \in Nat \ {0} /\ s.start \in Int /\ s.min \in Int /\ s.max \in Int
      /\ s.fewest \in Nat /\ s.most \in Nat
  BY <1>2, SetTypes
<1>5. /\ level > s.start => Search!Count(level - s.inc) > s.most
      /\ level < s.start => Search!Count(level + s.inc) < s.fewest
      /\ (~loosening /\ Search!prior > 0) => Search!Count(level - s.inc) > s.most
  BY DEF SearchInv
<1>6. Search!number = Search!Count(level)
  BY <1>2, <1>3, NumberIsCount
<1>7. \A l, m \in Int : l <= m => /\ Search!Count(l) \in Nat /\ Search!Count(m) \in Nat
                                  /\ Search!Count(m) <= Search!Count(l)
  BY <1>2, Looser
<1>8. level - s.inc \in Int /\ level + s.inc \in Int
  BY <1>3, <1>4
<1> HIDE DEF s
<1>9. CASE g >= level /\ Search!number < s.fewest
  BY <1>3, <1>4, <1>6, <1>7, <1>9 DEF Unsuitable, s
<1>10. CASE g <= level /\ Search!number > s.most
  BY <1>3, <1>4, <1>6, <1>7, <1>10 DEF Unsuitable, s
<1>11. CASE g < level /\ Search!Count(level - s.inc) > s.most
  BY <1>3, <1>4, <1>7, <1>8, <1>11 DEF Unsuitable, s
<1>12. CASE g > level /\ Search!Count(level + s.inc) < s.fewest
  BY <1>3, <1>4, <1>7, <1>8, <1>12 DEF Unsuitable, s
<1>13. CASE Search!number < s.fewest /\ level <= s.min
  BY <1>3, <1>4, <1>5, <1>9, <1>11, <1>13
<1>14. CASE Search!number > s.most /\ level >= s.max
  BY <1>3, <1>4, <1>5, <1>10, <1>12, <1>14
<1>15. CASE Search!number < s.fewest /\ ~loosening /\ Search!prior > 0
  BY <1>3, <1>5, <1>9, <1>11, <1>15
<1> QED
  BY <1>13, <1>14, <1>15 DEF s

\* One iteration: the search ends with a number that suits or where none does, or moves
\* a step away from a level that does not suit.
Moves(direction) ==
  /\ level' = level + direction * Search!set.inc /\ search' = "searching"
  /\ IF direction = 1 THEN Search!number > Search!set.most /\ loosening' = FALSE
                      ELSE Search!number < Search!set.fewest /\ loosening' = TRUE

LEMMA Iteration ==
    ASSUME SearchInv, part = "search", Search!Iterate
    PROVE  \/ /\ search' = "chosen" /\ level' = level /\ loosening' = loosening
              /\ \/ final' \in Search!set.fewest..Search!set.most
                 \/ \A g \in Search!Grid : Unsuitable(g)
           \/ Moves(1) \/ Moves(-1)
<1> DEFINE s == Search!set
<1>1. search = "searching" /\ picture \in Search!Pictures /\ loosening \in BOOLEAN /\ level \in Int
  <2>1. search = "searching" /\ picture \in Search!Pictures /\ loosening \in BOOLEAN
    BY DEF SearchInv, Search!Iterate
  <2>2. PICK j \in Int : level = s.start + j * s.inc
    BY DEF SearchInv
  <2>3. s.inc \in Int /\ s.start \in Int
    BY <2>1, SetTypes
  <2> QED BY <2>1, <2>2, <2>3
<1>2. /\ s.inc \in Nat \ {0} /\ s.min \in Int /\ s.max \in Int
      /\ s.fewest \in Nat /\ s.most \in Nat /\ Search!number \in Nat
      /\ level + s.inc = level + 1 * s.inc /\ level - s.inc = level + (-1) * s.inc
      /\ level + (-s.inc) = level - s.inc
  BY <1>1, SetTypes, NumberIsCount
<1>3. ASSUME \/ Search!number < s.fewest /\ level <= s.min
             \/ Search!number > s.most /\ level >= s.max
             \/ Search!number < s.fewest /\ ~loosening /\ Search!prior > 0
      PROVE  \A g \in Search!Grid : Unsuitable(g)
  BY <1>1, <1>3, NoneSuits
<1>4. CASE Search!Suits
  BY <1>2, <1>4 DEF Search!Suits, Search!Finish
<1>5. CASE Search!TooMany
  <2>1. CASE level >= s.max
    BY <1>3, <1>5, <2>1 DEF Search!TooMany, Search!Finish
  <2>2. CASE ~ (level >= s.max)
    BY <1>1, <1>2, <1>5, <2>2 DEF Search!TooMany, Moves
  <2> QED BY <2>1, <2>2
<1>6. CASE Search!NoneYet
  <2>1. Search!number < s.fewest
    BY <1>2, <1>6 DEF Search!NoneYet
  <2>2. CASE level <= s.min
    BY <1>3, <1>6, <2>1, <2>2 DEF Search!NoneYet
  <2>3. CASE ~ (level <= s.min)
    BY <1>1, <1>2, <1>6, <2>1, <2>3 DEF Search!NoneYet, Search!Move, Moves
  <2> QED BY <2>2, <2>3
<1>7. CASE Search!TooFew
  <2>1. CASE level <= s.min
    BY <1>3, <1>7, <2>1 DEF Search!TooFew, Search!Finish
  <2>2. CASE ~ (level <= s.min)
    BY <1>1, <1>2, <1>7, <2>2 DEF Search!TooFew, Search!Move, Moves
  <2> QED BY <2>1, <2>2
<1>8. CASE Search!NoneLeft
  <2>1. Search!number < s.fewest /\ ~loosening /\ Search!prior > 0
    BY <1>2, <1>8 DEF Search!NoneLeft
  <2> QED BY <1>3, <1>8, <2>1 DEF Search!NoneLeft
<1> QED BY <1>4, <1>5, <1>6, <1>7, <1>8 DEF Search!Iterate

LEMMA SearchInit == AnalysisInit => SearchInv
<1> SUFFICES ASSUME AnalysisInit PROVE SearchInv
  OBVIOUS
<1>1. CASE part # "search"
  BY <1>1 DEF AnalysisInit, SearchAtRest, SearchInv
<1>2. CASE part = "search"
  <2>1. Search!Init
    BY <1>2 DEF AnalysisInit
  <2>2. picture \in Search!Pictures /\ level = Search!set.start
    BY <2>1 DEF Search!Init
  <2>3. level = Search!set.start + 0 * Search!set.inc
    BY <2>2, SetTypes
  <2>4. \E j \in Int : level = Search!set.start + j * Search!set.inc
    <3>1. 0 \in Int
      OBVIOUS
    <3> QED BY <2>3, <3>1
  <2>5. AcceptableLevelIsUsed
    BY <2>1 DEF Search!Init, AcceptableLevelIsUsed, Search!AcceptableLevelIsUsed
  <2> QED
    BY <1>2, <2>1, <2>2, <2>4, <2>5 DEF Search!Init, SearchInv
<1> QED BY <1>1, <1>2

LEMMA SearchStepKeeps == SearchInv /\ [AnalysisNext]_allVars => SearchInv'
<1> SUFFICES ASSUME SearchInv, [AnalysisNext]_allVars PROVE SearchInv'
  OBVIOUS
<1>1. /\ part' = part
      /\ \/ UNCHANGED searchVars
         \/ part = "search" /\ Search!Next
  BY DEF AnalysisNext, ShotStep, SearchStep, SpinStep, FlightStep, allVars
<1>2. CASE UNCHANGED searchVars
  <2>1. UNCHANGED <<Search!set, Search!prior, Search!Grid>> /\ \A l : UNCHANGED Search!Count(l)
    BY <1>2 DEF searchVars, Search!set, Search!prior, Search!Grid, Search!Count
  <2>2. UNCHANGED <<part, picture, search, level, circles, loosening, final>>
    BY <1>1, <1>2 DEF searchVars
  <2>3. AcceptableLevelIsUsed => AcceptableLevelIsUsed'
    BY <2>1, <2>2 DEF AcceptableLevelIsUsed, Search!AcceptableLevelIsUsed
  <2> QED
    BY <2>1, <2>2, <2>3 DEF SearchInv
<1>3. ASSUME part = "search", Search!Next PROVE SearchInv'
  <2> DEFINE s == Search!set
  <2>1. UNCHANGED <<part, picture, Search!set>> /\ picture \in Search!Pictures
    BY <1>1, <1>3 DEF Search!Next, Search!Reject, Search!NarrowRadii, Search!Iterate,
       Search!RankBalls, Search!set, SearchInv
  <2>2. /\ s.inc \in Nat \ {0} /\ s.start \in Int /\ s.min \in Int /\ s.max \in Int
        /\ s.fewest \in Nat /\ s.most \in Nat
    BY <2>1, SetTypes
  <2>3. PICK j \in Int : level = s.start + j * s.inc
    BY <1>3 DEF SearchInv
  <2>4. CASE Search!Reject \/ Search!RankBalls
    <3>1. search' \in {"found", "failed"} /\ UNCHANGED <<level, loosening>>
      BY <2>4 DEF Search!Reject, Search!RankBalls
    <3>2. AcceptableLevelIsUsed'
      BY <3>1 DEF AcceptableLevelIsUsed, Search!AcceptableLevelIsUsed
    <3> QED
      BY <1>3, <2>1, <3>1, <3>2 DEF SearchInv
  <2>5. CASE Search!NarrowRadii
    <3>1. /\ search' \in {"searching", "failed"} /\ UNCHANGED <<level, loosening, circles>>
          /\ search = "called"
      BY <2>5 DEF Search!NarrowRadii
    <3>2. level = s.start /\ circles' = <<>>
      BY <1>3, <3>1 DEF SearchInv
    <3>3. Search!prior' = 0
      BY <3>2 DEF Search!prior
    <3>4. AcceptableLevelIsUsed'
      BY <3>1 DEF AcceptableLevelIsUsed, Search!AcceptableLevelIsUsed
    <3> QED
      BY <1>3, <2>1, <2>2, <3>1, <3>2, <3>3, <3>4 DEF SearchInv
  <2>6. CASE Search!Iterate
    <3>1. search = "searching" /\ UNCHANGED radii /\ \A l : UNCHANGED Search!Count(l)
      BY <2>1, <2>6 DEF Search!Iterate, Search!Count
    <3>2. UNCHANGED Search!Grid
      BY <2>1 DEF Search!Grid
    <3>3. CASE /\ search' = "chosen" /\ level' = level /\ loosening' = loosening
               /\ \/ final' \in s.fewest..s.most
                  \/ \A g \in Search!Grid : Unsuitable(g)
      <4>1. AcceptableLevelIsUsed'
        BY <2>1, <3>1, <3>2, <3>3 DEF AcceptableLevelIsUsed, Search!AcceptableLevelIsUsed, Unsuitable
      <4> QED
        BY <1>3, <2>1, <3>3, <4>1 DEF SearchInv
    <3>4. AcceptableLevelIsUsed' \/ search' = "chosen"
      BY DEF AcceptableLevelIsUsed, Search!AcceptableLevelIsUsed
    <3>5. /\ level \in Int
          /\ level > s.start => Search!Count(level - s.inc) > s.most
          /\ level < s.start => Search!Count(level + s.inc) < s.fewest
      BY <1>3, <2>2, <2>3, <3>1 DEF SearchInv
    <3>6. Search!number = Search!Count(level)
      BY <2>1, <3>5, NumberIsCount
    <3>7. \A l, m \in Int : l <= m => /\ Search!Count(l) \in Nat /\ Search!Count(m) \in Nat
                                      /\ Search!Count(m) <= Search!Count(l)
      BY <2>1, Looser
    <3>8. ASSUME Moves(1) PROVE SearchInv'
      <4>1. level' = level + s.inc /\ search' = "searching" /\ loosening' = FALSE
        BY <2>2, <2>6, <3>8 DEF Moves
      <4>2. level' = s.start + (j + 1) * s.inc /\ j + 1 \in Int
        <5> DEFINE inc == s.inc
                   start == s.start
        <5>1. inc \in Int /\ start \in Int /\ j \in Int /\ level = start + j * inc
          BY <2>2, <2>3
        <5>2. level' = level + inc
          BY <4>1
        <5> HIDE DEF inc, start, s
        <5>3. level' = start + (j + 1) * inc /\ j + 1 \in Int
          BY <5>1, <5>2
        <5> QED BY <5>3 DEF inc, start
      <4>3. level' - s.inc = level /\ Search!Count(level) > s.most
        BY <2>2, <3>5, <3>6, <3>8, <4>1 DEF Moves
      <4>4. level' < s.start => Search!Count(level' + s.inc) < s.fewest
        <5>1. level' < s.start => level < s.start /\ level' <= level' + s.inc /\ level' + s.inc \in Int
                                    /\ level' \in Int
          BY <2>2, <3>5, <4>1
        <5> QED
          BY <2>2, <3>5, <3>7, <4>1, <5>1
      <4> QED
        BY <1>3, <2>1, <3>1, <3>4, <4>1, <4>2, <4>3, <4>4 DEF SearchInv
    <3>9. ASSUME Moves(-1) PROVE SearchInv'
      <4>1. level' = level - s.inc /\ search' = "searching" /\ loosening' = TRUE
        BY <2>2, <3>5, <3>9 DEF Moves
      <4>2. level' = s.start + (j - 1) * s.inc /\ j - 1 \in Int
        <5> DEFINE inc == s.inc
                   start == s.start
        <5>1. inc \in Int /\ start \in Int /\ j \in Int /\ level = start + j * inc
          BY <2>2, <2>3
        <5>2. level' = level - inc
          BY <4>1
        <5> HIDE DEF inc, start, s
        <5>3. level' = start + (j - 1) * inc /\ j - 1 \in Int
          BY <5>1, <5>2
        <5> QED BY <5>3 DEF inc, start
      <4>3. level' + s.inc = level /\ Search!Count(level) < s.fewest
        BY <2>2, <3>5, <3>6, <3>9, <4>1 DEF Moves
      <4>4. level' > s.start => Search!Count(level' - s.inc) > s.most
        <5>1. level' > s.start => level > s.start /\ level' - s.inc <= level' /\ level' - s.inc \in Int
                                    /\ level' \in Int
          BY <2>2, <3>5, <4>1
        <5> QED
          BY <2>2, <3>5, <3>7, <4>1, <5>1
      <4> QED
        BY <1>3, <2>1, <3>1, <3>4, <4>1, <4>2, <4>3, <4>4 DEF SearchInv
    <3> QED
      BY <1>3, <2>6, <3>3, <3>8, <3>9, Iteration
  <2> QED
    BY <1>3, <2>4, <2>5, <2>6 DEF Search!Next
<1> QED
  BY <1>1, <1>2, <1>3

\* When some level in reach of the search gives a number of circles that suits, the
\* search ends with such a number, for every picture and all parameters of the modes.
THEOREM SearchFindsWhatSuits == AnalysisSpec => []AcceptableLevelIsUsed
<1>1. SearchInv => AcceptableLevelIsUsed
  BY DEF SearchInv, AcceptableLevelIsUsed, Search!AcceptableLevelIsUsed
<1> QED
  BY <1>1, SearchInit, SearchStepKeeps, PTL DEF AnalysisSpec

-----------------------------------------------------------------------------
(* The safety part of SearchEnds: the search always has a branch to take,   *)
(* and every branch brings it nearer to its end.                            *)

LEMMA LeastNumber ==
    ASSUME NEW T \in SUBSET Nat, T # {}
    PROVE  \E m \in T : \A n \in T : m <= n
<1> DEFINE R == OpToRel(<, Nat)
<1>1. IsWellFoundedOn(R, Nat)
  BY NatLessThanWellFounded
<1>2. \A m, n \in Nat : m < n => <<m, n>> \in R
  BY DEF OpToRel
<1> HIDE DEF R
<1>3. PICK m \in T : \A n \in T : ~ (<<n, m>> \in R)
  BY <1>1, WFMin
<1>4. ASSUME NEW n \in T PROVE m <= n
  <2>1. m \in Nat /\ n \in Nat
    OBVIOUS
  <2>2. ~ (n < m)
    BY <1>2, <1>3, <2>1
  <2> QED BY <2>1, <2>2
<1> QED BY <1>4

LEMMA SetInduction ==
    ASSUME NEW P, 0 \in P, \A n \in Nat : n \in P => n + 1 \in P
    PROVE  \A n \in Nat : n \in P
<1> DEFINE T == Nat \ P
<1>1. SUFFICES ASSUME T # {} PROVE FALSE
  OBVIOUS
<1>2. PICK m \in T : \A n \in T : m <= n
  BY <1>1, LeastNumber
<1>3. m # 0 /\ m \in Nat /\ m \notin P
  OBVIOUS
<1>4. m - 1 \in Nat /\ m - 1 \in P
  BY <1>2, <1>3
<1>5. (m - 1) + 1 = m
  BY <1>3
<1> QED BY <1>3, <1>4, <1>5


\* Some element of a set of places has the greatest value of all.
LEMMA GreatestOf ==
    ASSUME NEW n \in Nat, NEW f \in [1..n -> Int], NEW S \in SUBSET (1..n), S # {}
    PROVE  \E i \in S : \A j \in S : f[j] <= f[i]
<1> DEFINE Top(k) == \E i \in S : i <= k /\ \A j \in S : j <= k => f[j] <= f[i]
           P == {k \in Nat : (\E i \in S : i <= k) => Top(k)}
<1>1. 0 \in P
  OBVIOUS
<1>2. ASSUME NEW k \in Nat, NEW m \in Nat, m = k + 1, k \in P PROVE m \in P
  <2> SUFFICES ASSUME \E i \in S : i <= m PROVE Top(m)
    OBVIOUS
  <2>1. CASE m \notin S
    <3>1. \A j \in S : j <= m => j <= k
      BY <1>2, <2>1
    <3>2. PICK i \in S : i <= k /\ \A j \in S : j <= k => f[j] <= f[i]
      BY <1>2, <3>1
    <3>3. i <= m /\ \A j \in S : j <= m => f[j] <= f[i]
      BY <1>2, <3>1, <3>2
    <3> QED BY <3>3
  <2>2. CASE m \in S /\ ~ (\E i \in S : i <= k)
    <3>1. \A j \in S : j <= m => j = m
      BY <1>2, <2>2
    <3>2. f[m] \in Int
      BY <2>2
    <3>3. m <= m /\ \A j \in S : j <= m => f[j] <= f[m]
      BY <3>1, <3>2
    <3> QED BY <2>2, <3>3
  <2>3. CASE m \in S /\ \E i \in S : i <= k
    <3>1. PICK i \in S : i <= k /\ \A j \in S : j <= k => f[j] <= f[i]
      BY <1>2, <2>3
    <3>2. f[i] \in Int /\ f[m] \in Int
      BY <2>3
    <3>3. \A j \in S : j <= m => j = m \/ j <= k
      BY <1>2
    <3>4. \A j \in S : f[j] \in Int
      OBVIOUS
    <3>5. CASE f[i] >= f[m]
      <4>1. i <= m /\ \A j \in S : j <= m => f[j] <= f[i]
        BY <1>2, <3>1, <3>2, <3>3, <3>5
      <4> QED BY <4>1
    <3>6. CASE f[i] < f[m]
      <4>1. m <= m /\ \A j \in S : j <= m => f[j] <= f[m]
        BY <3>1, <3>2, <3>3, <3>4, <3>6
      <4> QED BY <2>3, <4>1
    <3> HIDE DEF Top
    <3> QED BY <3>2, <3>5, <3>6
  <2> HIDE DEF Top
  <2> QED BY <2>1, <2>2, <2>3
<1> HIDE DEF P
<1>a. \A k \in Nat : k \in P => k + 1 \in P
  BY <1>2
<1>3. n \in P
  BY <1>1, <1>a, SetInduction
<1>4. \A j \in S : j <= n
  OBVIOUS
<1>5. Top(n)
  BY <1>3, <1>4 DEF P
<1> QED BY <1>4, <1>5

LEMMA KindsTypes ==
    /\ Len(Kinds) \in Nat /\ DOMAIN Kinds = 1..Len(Kinds) /\ Strengths \subseteq Int
    /\ \A i \in DOMAIN Kinds : Kinds[i].r \in Nat
BY LevelsAssumption

\* The loop over all pairs never erases all circles: the largest stays.
LEMMA SomethingKept ==
    ASSUME NEW p \in Search!Pictures, NEW S \in SUBSET DOMAIN Kinds, S # {}
    PROVE  \E i \in S : \A j \in S : ~Search!Removes(p, j, i)
<1> DEFINE n == Len(Kinds)
           radius == [i \in 1..n |-> Kinds[i].r]
           strength == [i \in 1..n |-> p.strength[i]]
           early == [i \in 1..n |-> 0 - i]
<1>1. n \in Nat /\ DOMAIN Kinds = 1..n
  BY KindsTypes
<1>2. radius \in [1..n -> Int] /\ early \in [1..n -> Int]
  BY KindsTypes
<1>3. strength \in [1..n -> Int]
  <2>1. p.strength \in [DOMAIN Kinds -> Strengths]
    BY DEF Search!Pictures
  <2> QED BY <1>1, <2>1, KindsTypes
<1>a. \A i \in S : i \in 1..n /\ radius[i] = Kinds[i].r /\ strength[i] = p.strength[i] /\ early[i] = 0 - i
  BY <1>1
<1>b. S \in SUBSET (1..n)
  BY <1>1
<1> HIDE DEF n, radius, strength, early
<1>4. PICK a \in S : \A j \in S : radius[j] <= radius[a]
  BY <1>1, <1>2, <1>b, GreatestOf
<1> DEFINE S1 == {i \in S : radius[i] = radius[a]}
<1>5. PICK b \in S1 : \A j \in S1 : strength[j] <= strength[b]
  <2>1. S1 \in SUBSET (1..n) /\ S1 # {}
    BY <1>b
  <2> HIDE DEF S1
  <2> QED BY <1>1, <1>3, <2>1, GreatestOf
<1> DEFINE S2 == {i \in S1 : strength[i] = strength[b]}
<1>6. PICK c \in S2 : \A j \in S2 : early[j] <= early[c]
  <2>1. S2 \in SUBSET (1..n) /\ S2 # {}
    BY <1>b
  <2> HIDE DEF S2
  <2> QED BY <1>1, <1>2, <2>1, GreatestOf
<1>7. ASSUME NEW j \in S, Search!Removes(p, j, c) PROVE FALSE
  <2>1. /\ c \in S /\ radius[c] = radius[a] /\ strength[c] = strength[b]
        /\ radius[j] \in Int /\ radius[c] \in Int /\ strength[j] \in Int /\ strength[c] \in Int
        /\ c \in Int /\ j \in Int
    BY <1>2, <1>3, <1>b
  <2>2. radius[j] <= radius[c]
    BY <1>4, <2>1
  <2>3. radius[j] = radius[c] /\ Search!Stronger(p, j, c)
    BY <1>7, <1>a, <2>1, <2>2 DEF Search!Removes
  <2>4. j \in S1 /\ strength[j] <= strength[c]
    BY <1>5, <2>1, <2>3
  <2>5. strength[j] = strength[c] /\ j < c
    BY <1>a, <2>1, <2>3, <2>4 DEF Search!Stronger
  <2>6. j \in S2 /\ early[j] <= early[c]
    BY <1>6, <2>1, <2>4, <2>5
  <2>7. early[j] = 0 - j /\ early[c] = 0 - c
    BY <1>a, <2>1
  <2> QED BY <2>1, <2>5, <2>6, <2>7
<1>8. c \in S
  OBVIOUS
<1> QED BY <1>7, <1>8

LEMMA KeptCount ==
    ASSUME NEW p \in Search!Pictures, NEW S \in SUBSET DOMAIN Kinds
    PROVE  LET n == Len(Search!RemoveSmallestConcentricCircles(p, S))
           IN  n \in Nat /\ (S # {} => n > 0)
<1> DEFINE rest == {i \in S : \A j \in S : ~Search!Removes(p, j, i)}
           m == Search!Cardinality(rest)
           F(k) == CHOOSE i \in rest :
                     Search!Cardinality({j \in rest : Search!Stronger(p, j, i)}) = k - 1
<1>1. IsFiniteSet(rest) /\ m = Cardinality(rest)
  <2>1. IsFiniteSet(DOMAIN Kinds) /\ rest \in SUBSET DOMAIN Kinds
    BY KindsTypes, FS_Interval
  <2> HIDE DEF rest
  <2> QED BY <2>1, FS_Subset, SearchCardinality
<1>2. m \in Nat
  <2> HIDE DEF rest
  <2> QED BY <1>1, FS_CardinalityType
<1>3. S # {} => rest # {}
  BY SomethingKept
<1>4. S # {} => m # 0
  <2> HIDE DEF rest
  <2> QED BY <1>1, <1>3, FS_EmptySet
<1>5. Search!RemoveSmallestConcentricCircles(p, S) = [k \in 1..m |-> F(k)]
  BY DEF Search!RemoveSmallestConcentricCircles, Search!HoughCircles
<1> HIDE DEF rest, m, F
<1>6. Len([k \in 1..m |-> F(k)]) = m
  BY <1>2
<1> QED BY <1>2, <1>4, <1>5, <1>6

\* No step of the parameter leads from too many circles to too few but some.
NoJump ==
  \A l \in Int : Search!Count(l) > Search!set.most =>
                   Search!Count(l + Search!set.inc) \notin 1..(Search!set.fewest - 1)

\* One of the guards of the loop's branches: Suits, TooMany, NoneYet, TooFew, NoneLeft.
HasBranch ==
  LET number == Search!number
      prior == Search!prior
      s == Search!set
  IN \/ s.fewest <= number /\ number <= s.most
     \/ number > s.most
     \/ number = 0 /\ prior = 0 /\ s.fewest > 0
     \/ number < s.fewest /\ ~(number = 0 /\ prior = 0) /\ (prior = 0 \/ loosening)
     \/ number = 0 /\ prior > 0 /\ ~loosening /\ s.fewest > 0

SearchGoesOn == part = "search" /\ search = "searching" /\ NoJump => HasBranch

\* A search starts, may loosen, and may then tighten, as it may from the start;
\* in each phase it has so far to go to its last level.
Phase == IF loosening THEN 1 ELSE IF Search!prior > 0 THEN 0 ELSE 2
Ahead == IF loosening THEN level - Search!set.min ELSE Search!set.max - level

\* It never turns back to an earlier phase, and within one it comes nearer to its end.
SearchAdvances ==
  [][ part = "search" /\ search = "searching" =>
        \/ search' # "searching"
        \/ Phase' < Phase
        \/ Phase' = Phase /\ 0 < Ahead /\ Ahead' < Ahead ]_allVars

PriorInv == part = "search" => Search!prior \in Nat

LEMMA SearchTypes ==
    ASSUME SearchInv, part = "search"
    PROVE  picture \in Search!Pictures /\ loosening \in BOOLEAN /\ level \in Int
<1>1. picture \in Search!Pictures /\ loosening \in BOOLEAN
  BY DEF SearchInv
<1>2. PICK j \in Int : level = Search!set.start + j * Search!set.inc
  BY DEF SearchInv
<1>3. Search!set.inc \in Int /\ Search!set.start \in Int
  BY <1>1, SetTypes
<1> QED BY <1>1, <1>2, <1>3

LEMMA BranchExists == SearchInv /\ PriorInv => SearchGoesOn
<1> SUFFICES ASSUME SearchInv, PriorInv, part = "search", search = "searching", NoJump
             PROVE  HasBranch
  BY DEF SearchGoesOn
<1> DEFINE s == Search!set
           prior == Search!prior
           number == Search!number
<1>1. picture \in Search!Pictures /\ loosening \in BOOLEAN /\ level \in Int
  BY SearchTypes
<1>2. /\ s.inc \in Nat \ {0} /\ s.fewest \in Nat /\ s.most \in Nat /\ prior \in Nat
      /\ number = Search!Count(level) /\ number \in Nat
  BY <1>1, SetTypes, NumberIsCount DEF PriorInv
<1>3. ASSUME ~loosening, prior > 0 PROVE number \notin 1..(s.fewest - 1)
  <2>1. Search!Count(level - s.inc) > s.most
    BY <1>3 DEF SearchInv
  <2>2. level - s.inc \in Int /\ (level - s.inc) + s.inc = level
    BY <1>1, <1>2
  <2>3. Search!Count((level - s.inc) + s.inc) \notin 1..(s.fewest - 1)
    BY <2>1, <2>2 DEF NoJump
  <2> QED BY <1>2, <2>2, <2>3
<1> HIDE DEF s, prior, number
<1>4. \/ s.fewest <= number /\ number <= s.most
      \/ number > s.most
      \/ number = 0 /\ prior = 0 /\ s.fewest > 0
      \/ number < s.fewest /\ ~(number = 0 /\ prior = 0) /\ (prior = 0 \/ loosening)
      \/ number = 0 /\ prior > 0 /\ ~loosening /\ s.fewest > 0
  BY <1>1, <1>2, <1>3
<1> QED
  BY <1>4 DEF HasBranch, s, prior, number

LEMMA IterateAdvances ==
    ASSUME SearchInv, PriorInv, part = "search", part' = part, Search!Iterate
    PROVE  /\ PriorInv'
           /\ \/ search' # "searching"
              \/ Phase' < Phase
              \/ Phase' = Phase /\ 0 < Ahead /\ Ahead' < Ahead
<1> DEFINE s == Search!set
           prior == Search!prior
           number == Search!number
           rest == Search!RemoveSmallestConcentricCircles(picture, Search!found)
<1>1. /\ picture \in Search!Pictures /\ loosening \in BOOLEAN /\ level \in Int
      /\ UNCHANGED <<picture, s>>
  BY SearchTypes DEF Search!Iterate, Search!set
<1>2. /\ s.inc \in Nat \ {0} /\ s.fewest \in Nat /\ s.most \in Nat /\ prior \in Nat
      /\ s.min \in Int /\ s.max \in Int
      /\ number = Search!Count(level) /\ number \in Nat
  BY <1>1, SetTypes, NumberIsCount DEF PriorInv
<1>3. Search!found \in SUBSET DOMAIN Kinds /\ number = Cardinality(Search!found)
  BY SearchCardinality DEF Search!found, Search!Seen, Search!number
<1>4. Len(rest) \in Nat /\ (number > 0 => Len(rest) > 0)
  <2>1. number > 0 => Search!found # {}
    BY <1>2, <1>3, FS_EmptySet
  <2> QED BY <1>1, <1>3, <2>1, KeptCount
<1>5. prior = Len(circles) /\ Search!prior' = Len(circles')
  BY DEF Search!prior
<1>6. circles' = rest \/ circles' = circles
  BY DEF Search!Iterate, Search!Suits, Search!Finish, Search!TooMany, Search!NoneYet, Search!TooFew,
     Search!NoneLeft, Search!Move
<1>7. PriorInv'
  BY <1>2, <1>4, <1>5, <1>6 DEF PriorInv
<1>8. Search!prior' \in Nat
  BY <1>2, <1>4, <1>5, <1>6
<1>9. CASE Search!TooMany
  <2>1. CASE level >= s.max
    BY <1>7, <1>9, <2>1 DEF Search!TooMany, Search!Finish
  <2>2. CASE ~(level >= s.max)
    <3>1. /\ number > 0 /\ level' = level + s.inc /\ loosening' = FALSE /\ circles' = rest
          /\ level < s.max
      BY <1>1, <1>2, <1>9, <2>2 DEF Search!TooMany
    <3>2. Search!prior' > 0
      BY <1>4, <1>5, <3>1
    <3>3. Phase' = 0 /\ Phase \in {0, 1, 2} /\ (Phase = 0 => ~loosening)
      BY <1>2, <1>8, <3>1, <3>2 DEF Phase
    <3>4. ~loosening => Ahead = s.max - level
      BY DEF Ahead
    <3>5. Ahead' = s.max - level'
      BY <1>1, <3>1 DEF Ahead
    <3> HIDE DEF s
    <3> QED BY <1>1, <1>2, <1>7, <3>1, <3>3, <3>4, <3>5
  <2> QED BY <1>7, <2>1, <2>2
<1>10. ASSUME Search!NoneYet \/ Search!TooFew, level > s.min
       PROVE  Phase' < Phase \/ (Phase' = Phase /\ 0 < Ahead /\ Ahead' < Ahead)
  <2>1. /\ level' = level + (-s.inc) /\ loosening' = TRUE
        /\ prior = 0 \/ loosening
    BY <1>1, <1>2, <1>10 DEF Search!NoneYet, Search!TooFew, Search!Move
  <2>2. Phase' = 1 /\ Phase \in {1, 2} /\ (Phase = 1 => loosening)
    BY <1>2, <2>1 DEF Phase
  <2>3. loosening => Ahead = level - s.min
    BY DEF Ahead
  <2>4. Ahead' = level' - s.min
    BY <1>1, <2>1 DEF Ahead
  <2> HIDE DEF s
  <2> QED BY <1>1, <1>2, <1>10, <2>1, <2>2, <2>3, <2>4
<1>11. CASE Search!NoneYet \/ Search!TooFew
  <2>1. CASE level <= s.min
    BY <1>7, <1>11, <2>1 DEF Search!NoneYet, Search!TooFew, Search!Finish
  <2>2. CASE ~(level <= s.min)
    BY <1>1, <1>2, <1>7, <1>10, <1>11, <2>2
  <2> QED BY <1>7, <2>1, <2>2
<1>12. CASE Search!Suits \/ Search!NoneLeft
  BY <1>7, <1>12 DEF Search!Suits, Search!Finish, Search!NoneLeft
<1> QED BY <1>9, <1>11, <1>12 DEF Search!Iterate

LEMMA PriorStep ==
    ASSUME SearchInv, PriorInv, [AnalysisNext]_allVars
    PROVE  /\ PriorInv'
           /\ part = "search" /\ search = "searching" =>
                \/ UNCHANGED allVars
                \/ search' # "searching"
                \/ Phase' < Phase
                \/ Phase' = Phase /\ 0 < Ahead /\ Ahead' < Ahead
<1>1. /\ part' = part
      /\ \/ UNCHANGED searchVars
         \/ part = "search" /\ Search!Next
  BY DEF AnalysisNext, ShotStep, SearchStep, SpinStep, FlightStep, allVars
<1>2. part = "search" => UNCHANGED allVars \/ Search!Next
  BY DEF AnalysisNext, ShotStep, SearchStep, SpinStep, FlightStep
<1>3. CASE UNCHANGED searchVars \/ Search!Reject \/ Search!NarrowRadii \/ Search!RankBalls
  <2>1. UNCHANGED circles
    BY <1>3 DEF searchVars, Search!Reject, Search!NarrowRadii, Search!RankBalls
  <2>2. PriorInv'
    BY <1>1, <2>1 DEF PriorInv, Search!prior
  <2>3. (Search!Reject \/ Search!NarrowRadii \/ Search!RankBalls) => search # "searching"
    BY DEF Search!Reject, Search!NarrowRadii, Search!RankBalls
  <2>4. UNCHANGED searchVars /\ part = "search" /\ search = "searching" => UNCHANGED allVars \/ search' # "searching" \/ Search!Iterate
    BY <1>2 DEF Search!Next, Search!Reject, Search!NarrowRadii, Search!RankBalls
  <2> QED
    BY <1>1, <1>3, <2>2, <2>3, <2>4, IterateAdvances
<1>4. CASE part = "search" /\ Search!Iterate
  BY <1>1, <1>4, IterateAdvances
<1> QED
  BY <1>1, <1>3, <1>4 DEF Search!Next

\* The loop over the Hough parameter has a branch for every picture without a jump from
\* too many circles to too few, and each brings it nearer to its end: what SearchEnds
\* needs besides being called, for all pictures and all parameters of the modes.
THEOREM SearchDraws == AnalysisSpec => []SearchGoesOn /\ SearchAdvances
<1>1. AnalysisInit => PriorInv
  <2>1. AnalysisInit => circles = <<>>
    BY DEF AnalysisInit, SearchAtRest, Search!Init
  <2> QED BY <2>1 DEF PriorInv, Search!prior
<1>2. SearchInv /\ PriorInv /\ [AnalysisNext]_allVars => PriorInv'
  BY PriorStep
<1>3. SearchInv /\ PriorInv /\ [AnalysisNext]_allVars =>
        [ part = "search" /\ search = "searching" =>
            \/ search' # "searching"
            \/ Phase' < Phase
            \/ Phase' = Phase /\ 0 < Ahead /\ Ahead' < Ahead ]_allVars
  BY PriorStep
<1> QED
  BY <1>1, <1>2, <1>3, BranchExists, SearchInit, SearchStepKeeps, PTL DEF AnalysisSpec, SearchAdvances

-----------------------------------------------------------------------------
(* The pauses of balls that are taken out.                                  *)

Timed(Balls) == [ball : Balls, before : Int]

\* The pause before each ball of a list is the time since the one before it, for a
\* time T of every ball.
AddsUp(list, T) ==
  \A i \in 2..Len(list) : list[i].before = T[list[i].ball] - T[list[i - 1].ball]

\* What WithoutUnclear does with the element in place k.
MergeOut(l, k) ==
  RemoveAt(IF k < Len(l) THEN [l EXCEPT ![k + 1].before = @ + l[k].before] ELSE l, k)

LEMMA RemoveAtElements ==
    ASSUME NEW S, NEW s \in Seq(S), NEW k \in 1..Len(s)
    PROVE  /\ RemoveAt(s, k) \in Seq(S)
           /\ Len(RemoveAt(s, k)) = Len(s) - 1
           /\ \A i \in 1..(Len(s) - 1) : RemoveAt(s, k)[i] = IF i < k THEN s[i] ELSE s[i + 1]
<1> DEFINE u == SubSeq(s, 1, k - 1)
           v == SubSeq(s, k + 1, Len(s))
<1>1. Len(s) \in Nat /\ k \in Nat
  OBVIOUS
<1>2. u \in Seq(S) /\ Len(u) = k - 1 /\ \A i \in 1..(k - 1) : u[i] = s[i]
  OBVIOUS
<1>3. v \in Seq(S) /\ Len(v) = Len(s) - k /\ \A i \in 1..(Len(s) - k) : v[i] = s[k + i]
  OBVIOUS
<1>4. RemoveAt(s, k) = u \o v
  BY DEF RemoveAt
<1> HIDE DEF u, v
<1>5. /\ u \o v \in Seq(S) /\ Len(u \o v) = Len(u) + Len(v)
      /\ \A i \in 1..(Len(u) + Len(v)) : (u \o v)[i] = IF i <= Len(u) THEN u[i] ELSE v[i - Len(u)]
  BY <1>2, <1>3, ConcatProperties
<1>6. Len(u) + Len(v) = Len(s) - 1
  BY <1>1, <1>2, <1>3
<1>7. ASSUME NEW i \in 1..(Len(s) - 1)
      PROVE  (u \o v)[i] = IF i < k THEN s[i] ELSE s[i + 1]
  <2>1. CASE i < k
    <3>1. i \in 1..(k - 1) /\ i <= Len(u) /\ i \in 1..(Len(u) + Len(v))
      BY <1>1, <1>2, <1>6, <2>1
    <3> QED BY <1>2, <1>5, <2>1, <3>1
  <2>2. CASE ~(i < k)
    <3>1. PICK j \in 1..(Len(s) - k) : j = i - (k - 1)
      BY <1>1, <2>2
    <3>2. i \in 1..(Len(u) + Len(v)) /\ ~(i <= Len(u)) /\ i - Len(u) = j /\ k + j = i + 1
      BY <1>1, <1>2, <1>6, <2>2, <3>1
    <3>3. (u \o v)[i] = v[i - Len(u)]
      BY <1>5, <3>2
    <3> QED BY <1>3, <2>2, <3>1, <3>2, <3>3
  <2> QED BY <2>1, <2>2
<1> QED
  BY <1>4, <1>5, <1>6, <1>7

LEMMA MergedAddsUp ==
    ASSUME NEW Balls, NEW T \in [Balls -> Int], NEW l \in Seq(Timed(Balls)), AddsUp(l, T),
           NEW k \in 1..Len(l)
    PROVE  /\ MergeOut(l, k) \in Seq(Timed(Balls))
           /\ Len(MergeOut(l, k)) = Len(l) - 1
           /\ AddsUp(MergeOut(l, k), T)
<1> DEFINE m == IF k < Len(l) THEN [l EXCEPT ![k + 1].before = @ + l[k].before] ELSE l
           r == RemoveAt(m, k)
<1>1. ASSUME NEW i \in 1..Len(l)
      PROVE  /\ l[i] \in Timed(Balls) /\ l[i].ball \in Balls
             /\ l[i].before \in Int /\ T[l[i].ball] \in Int
  <2>1. l[i] \in Timed(Balls)
    OBVIOUS
  <2> QED BY <2>1 DEF Timed
<1>2. /\ m \in Seq(Timed(Balls)) /\ Len(m) = Len(l)
      /\ \A i \in 1..Len(l) : m[i].ball = l[i].ball
      /\ \A i \in 1..Len(l) : i # k + 1 => m[i] = l[i]
      /\ k < Len(l) => m[k + 1].before = l[k + 1].before + l[k].before
  <2>1. CASE k < Len(l)
    <3>1. PICK n \in 1..Len(l) : n = k + 1
      BY <2>1
    <3>2. PICK e : e = [l[n] EXCEPT !.before = @ + l[k].before]
      OBVIOUS
    <3>3. m = [l EXCEPT ![n] = e]
      BY <2>1, <3>1, <3>2
    <3> HIDE DEF m
    <3>4. PICK a \in Int, b \in Int : a = l[n].before /\ b = l[k].before
      BY <1>1, <3>1
    <3>5. e \in Timed(Balls) /\ e.ball = l[n].ball /\ e.before = l[n].before + l[k].before
      <4>1. l[n] \in Timed(Balls)
        BY <1>1
      <4>2. e = [l[n] EXCEPT !.before = a + b]
        BY <3>2, <3>4
      <4>3. a + b \in Int
        OBVIOUS
      <4> QED BY <3>4, <4>1, <4>2, <4>3 DEF Timed
    <3>6. m \in Seq(Timed(Balls)) /\ Len(m) = Len(l)
      BY <3>3, <3>5
    <3>7. \A i \in 1..Len(l) : m[i] = IF i = n THEN e ELSE l[i]
      BY <3>3
    <3> QED BY <2>1, <3>1, <3>5, <3>6, <3>7
  <2>2. CASE ~(k < Len(l))
    BY <2>2
  <2> QED BY <2>1, <2>2
<1>3. MergeOut(l, k) = r
  BY DEF MergeOut
<1> HIDE DEF m
<1>4. /\ r \in Seq(Timed(Balls)) /\ Len(r) = Len(l) - 1
      /\ \A i \in 1..(Len(l) - 1) : r[i] = IF i < k THEN m[i] ELSE m[i + 1]
  BY <1>2, RemoveAtElements
<1> HIDE DEF r
<1>5. ASSUME NEW i \in 2..Len(r) PROVE r[i].before = T[r[i].ball] - T[r[i - 1].ball]
  <2>1. /\ i \in 1..(Len(l) - 1) /\ i - 1 \in 1..(Len(l) - 1) /\ i \in Int /\ k \in Int
        /\ i + 1 \in 1..Len(l) /\ (i - 1) + 1 = i /\ i \in 2..Len(l) /\ i + 1 \in 2..Len(l)
        /\ Len(l) \in Nat
    BY <1>4
  <2>2. /\ l[i].before = T[l[i].ball] - T[l[i - 1].ball]
        /\ l[i + 1].before = T[l[i + 1].ball] - T[l[i].ball]
    <3>1. (i + 1) - 1 = i
      BY <2>1
    <3> QED BY <2>1, <3>1 DEF AddsUp
  <2>3. /\ T[l[i - 1].ball] \in Int /\ T[l[i].ball] \in Int /\ T[l[i + 1].ball] \in Int
    BY <1>1, <2>1
  <2>4. CASE i < k
    <3>1. r[i] = m[i] /\ r[i - 1] = m[i - 1]
      BY <1>4, <2>1, <2>4
    <3>2. m[i] = l[i] /\ m[i - 1].ball = l[i - 1].ball
      <4>1. i \in 1..Len(l) /\ i - 1 \in 1..Len(l) /\ i # k + 1
        BY <2>1, <2>4
      <4> QED BY <1>2, <4>1
    <3> QED BY <2>2, <3>1, <3>2
  <2>5. CASE i = k
    <3>1. r[i] = m[i + 1] /\ r[i - 1] = m[i - 1]
      <4>1. ~(i < k) /\ i - 1 < k
        BY <2>1, <2>5
      <4> QED BY <1>4, <2>1, <4>1
    <3>2. /\ m[i + 1].ball = l[i + 1].ball /\ m[i - 1].ball = l[i - 1].ball
          /\ m[i + 1].before = l[i + 1].before + l[i].before
      <4>1. i + 1 \in 1..Len(l) /\ i - 1 \in 1..Len(l) /\ k < Len(l)
        BY <2>1, <2>5
      <4> QED BY <1>2, <2>5, <4>1
    <3>3. \A a, b, c \in Int : (c - b) + (b - a) = c - a
      OBVIOUS
    <3> QED BY <2>2, <2>3, <3>1, <3>2, <3>3
  <2>6. CASE i > k
    <3>1. r[i] = m[i + 1] /\ r[i - 1] = m[i]
      <4>1. ~(i < k) /\ ~(i - 1 < k)
        BY <2>1, <2>6
      <4> QED BY <1>4, <2>1, <4>1
    <3>2. m[i + 1] = l[i + 1] /\ m[i].ball = l[i].ball
      <4>1. i + 1 \in 1..Len(l) /\ i \in 1..Len(l) /\ i + 1 # k + 1
        BY <2>1, <2>6
      <4> QED BY <1>2, <4>1
    <3> QED BY <2>2, <3>1, <3>2
  <2> QED BY <2>1, <2>4, <2>5, <2>6
<1> QED
  BY <1>3, <1>4, <1>5 DEF AddsUp

\* What WithoutUnclear makes of the list l at its step i, and the first n + 1 of the
\* lists it goes through.
Cleared(list, good, l, i) ==
  LET k == Len(list) - i + 1
  IN IF \E b \in good : b.x = l[k].ball.x /\ b.y = l[k].ball.y THEN l ELSE MergeOut(l, k)

Clearing(list, good, h, n) ==
  h = [i \in 0..n |-> IF i = 0 THEN list ELSE Cleared(list, good, h[i - 1], i)]

LEMMA ClearingExists ==
    ASSUME NEW list, NEW good
    PROVE  \A n \in Nat : \E h : Clearing(list, good, h, n)
<1> DEFINE P == {n \in Nat : \E h : Clearing(list, good, h, n)}
<1>1. 0 \in P
  <2>1. Clearing(list, good, [i \in 0..0 |-> list], 0)
    BY DEF Clearing
  <2> QED BY <2>1
<1>2. ASSUME NEW n \in Nat, n \in P PROVE n + 1 \in P
  <2>1. PICK h : Clearing(list, good, h, n)
    BY <1>2
  <2> DEFINE g == [i \in 0..(n + 1) |-> IF i = n + 1 THEN Cleared(list, good, h[n], n + 1) ELSE h[i]]
             f == [i \in 0..(n + 1) |-> IF i = 0 THEN list ELSE Cleared(list, good, g[i - 1], i)]
  <2>2. ASSUME NEW i \in 0..(n + 1) PROVE g[i] = f[i]
    <3>1. CASE i = n + 1
      <4>1. i # 0 /\ i - 1 = n /\ n \in 0..(n + 1) /\ n # n + 1
        BY <3>1
      <4>2. g[i] = Cleared(list, good, h[n], n + 1) /\ g[n] = h[n]
        BY <3>1, <4>1
      <4> QED BY <3>1, <4>1, <4>2
    <3>2. CASE i = 0
      <4>1. i # n + 1 /\ i \in 0..n /\ h[i] = list
        BY <2>1, <3>2 DEF Clearing
      <4> QED BY <3>2, <4>1
    <3>3. CASE i # 0 /\ i # n + 1
      <4>1. i \in 0..n /\ i - 1 \in 0..(n + 1) /\ i - 1 # n + 1
        BY <3>3
      <4>2. g[i] = h[i] /\ g[i - 1] = h[i - 1] /\ f[i] = Cleared(list, good, g[i - 1], i)
        BY <3>3, <4>1
      <4>3. h[i] = Cleared(list, good, h[i - 1], i)
        BY <2>1, <3>3, <4>1 DEF Clearing
      <4> QED BY <4>2, <4>3
    <3> QED BY <3>1, <3>2, <3>3
  <2>3. g = [i \in 0..(n + 1) |-> g[i]] /\ f = [i \in 0..(n + 1) |-> f[i]]
    OBVIOUS
  <2>4. f = [i \in 0..(n + 1) |-> IF i = 0 THEN list ELSE Cleared(list, good, g[i - 1], i)]
    OBVIOUS
  <2> HIDE DEF f, g
  <2>5. g = f
    BY <2>2, <2>3
  <2>6. Clearing(list, good, g, n + 1)
    BY <2>4, <2>5 DEF Clearing
  <2> QED BY <2>6
<1> HIDE DEF P
<1>3. \A n \in Nat : n \in P
  BY <1>1, <1>2, SetInduction
<1> QED BY <1>3 DEF P

LEMMA ClearingIsUsed ==
    ASSUME NEW list, NEW good, Len(list) \in Nat
    PROVE  \E h : Clearing(list, good, h, Len(list)) /\ WithoutUnclear(list, good) = h[Len(list)]
<1>1. \E h : Clearing(list, good, h, Len(list))
  BY ClearingExists
<1> DEFINE c == CHOOSE h : Clearing(list, good, h, Len(list))
<1>2. Clearing(list, good, c, Len(list))
  BY <1>1
<1>3. WithoutUnclear(list, good) = c[Len(list)]
  BY DEF WithoutUnclear, Clearing, Cleared, MergeOut
<1> HIDE DEF c
<1> QED BY <1>2, <1>3

\* Taking balls out keeps each pause the time since the ball that is now before.
LEMMA ClearAddsUp ==
    ASSUME NEW Balls, NEW T \in [Balls -> Int], NEW list \in Seq(Timed(Balls)), AddsUp(list, T),
           NEW good
    PROVE  AddsUp(WithoutUnclear(list, good), T)
<1> DEFINE N == Len(list)
<1>1. N \in Nat
  OBVIOUS
<1>2. PICK h : Clearing(list, good, h, N) /\ WithoutUnclear(list, good) = h[N]
  BY <1>1, ClearingIsUsed
<1> DEFINE Holds(l, i) == /\ l \in Seq(Timed(Balls)) /\ Len(l) \in Nat /\ Len(l) >= N - i
                          /\ AddsUp(l, T)
           P == {i \in Nat : i <= N => Holds(h[i], i)}
<1> HIDE DEF N
<1>3. 0 \in P
  <2>1. h[0] = list
    BY <1>1, <1>2 DEF Clearing
  <2> QED BY <1>1, <2>1 DEF N
<1>4. ASSUME NEW j \in Nat, NEW i \in Nat, i = j + 1, j \in P, i <= N PROVE Holds(h[i], i)
  <2>1. i \in 0..N /\ i # 0 /\ i - 1 = j /\ j <= N
    BY <1>1, <1>4
  <2>2. h[i] = Cleared(list, good, h[j], i)
    BY <1>2, <2>1 DEF Clearing
  <2>3. Holds(h[j], j)
    BY <1>4, <2>1
  <2> DEFINE l == h[j]
             k == N - i + 1
  <2>4. k \in 1..Len(l) /\ N - i <= Len(l) - 1 /\ N - i <= Len(l) /\ Len(l) - 1 \in Nat
    BY <1>1, <1>4, <2>3
  <2> HIDE DEF l, k
  <2>5. h[i] = l \/ h[i] = MergeOut(l, k)
    BY <2>2 DEF Cleared, l, k, N
  <2>6. CASE h[i] = l
    BY <2>3, <2>4, <2>6 DEF l
  <2>7. CASE h[i] = MergeOut(l, k)
    <3>1. l \in Seq(Timed(Balls)) /\ AddsUp(l, T)
      BY <2>3 DEF l
    <3>2. /\ MergeOut(l, k) \in Seq(Timed(Balls))
          /\ Len(MergeOut(l, k)) = Len(l) - 1
          /\ AddsUp(MergeOut(l, k), T)
      BY <2>4, <3>1, MergedAddsUp
    <3> QED BY <2>4, <2>7, <3>2
  <2> QED BY <2>5, <2>6, <2>7
<1>5. ASSUME NEW j \in Nat, j \in P PROVE j + 1 \in P
  <2>1. PICK i \in Nat : i = j + 1
    BY <1>5
  <2>2. i \in P
    BY <1>4, <1>5, <2>1
  <2> QED BY <2>1, <2>2
<1> HIDE DEF P
<1>6. \A i \in Nat : i \in P
  BY <1>3, <1>5, SetInduction
<1>7. Holds(h[N], N)
  BY <1>1, <1>6 DEF P
<1> QED BY <1>2, <1>7

\* The clear balls are what WithoutUnclear leaves of the timed ones.
ClearInv == Analyzed => \E good : clear = WithoutUnclear(timings, good)

LEMMA ClearStep ==
    ASSUME ClearInv, [AnalysisNext]_allVars
    PROVE  ClearInv'
<1>1. UNCHANGED vars \/ Next
  BY DEF AnalysisNext, ShotStep, SearchStep, SpinStep, FlightStep, allVars
<1>2. CASE UNCHANGED vars \/ ComputeFlight \/ ComputeSpin
  <2>1. UNCHANGED <<clear, timings>> /\ (Analyzed' => Analyzed)
    BY <1>2 DEF vars, ComputeFlight, ComputeSpin, Analyzed
  <2> QED BY <2>1 DEF ClearInv
<1>3. CASE KeepClearBalls
  <2>1. \E good : clear' = WithoutUnclear(timings, good)
    BY <1>3 DEF KeepClearBalls
  <2>2. timings' = timings
    BY <1>3 DEF KeepClearBalls
  <2> QED BY <2>1, <2>2 DEF ClearInv
<1>4. CASE \/ NoTeedBall \/ FindBalls \/ ChooseBestPair \/ FollowTrajectory
           \/ FirstOverlapPass \/ SecondOverlapPass \/ TimeBalls
  <2>1. ~ Analyzed'
    <3>1. CASE NoTeedBall
      BY <3>1 DEF NoTeedBall, Fail, Analyzed
    <3>2. CASE FindBalls
      BY <3>2 DEF FindBalls, Fail, Analyzed
    <3>3. CASE ChooseBestPair
      BY <3>3 DEF ChooseBestPair, Analyzed
    <3>4. CASE FollowTrajectory
      BY <3>4 DEF FollowTrajectory, Fail, Analyzed
    <3>5. CASE FirstOverlapPass
      BY <3>5 DEF FirstOverlapPass, Analyzed
    <3>6. CASE SecondOverlapPass
      BY <3>6 DEF SecondOverlapPass, Fail, Analyzed
    <3>7. CASE TimeBalls
      BY <3>7 DEF TimeBalls, Analyzed
    <3> QED BY <1>4, <3>1, <3>2, <3>3, <3>4, <3>5, <3>6, <3>7
  <2> QED BY <2>1 DEF ClearInv
<1> QED BY <1>1, <1>2, <1>3, <1>4 DEF Next

\* The pauses since the ball before survive that overlapping balls are taken out: if
\* those of the timed balls are the differences of some time of each ball, those of
\* the clear ones are so too.  It leads from IntervalsAreFlown, for a list in the order
\* of exposure, to the second part of UsedTimesAreFlown.
THEOREM PausesAddUp ==
    ASSUME NEW Balls, NEW T \in [Balls -> Int]
    PROVE  AnalysisSpec =>
             [](Analyzed => (timings \in Seq(Timed(Balls)) /\ AddsUp(timings, T)
                               => AddsUp(clear, T)))
<1>1. AnalysisInit => ClearInv
  BY DEF AnalysisInit, Init, ShotAtRest, ClearInv, Analyzed
<1>2. ClearInv /\ [AnalysisNext]_allVars => ClearInv'
  BY ClearStep
<1>3. ClearInv => (Analyzed => (timings \in Seq(Timed(Balls)) /\ AddsUp(timings, T)
                                  => AddsUp(clear, T)))
  BY ClearAddsUp DEF ClearInv
<1> QED
  BY <1>1, <1>2, <1>3, PTL DEF AnalysisSpec

=============================================================================
