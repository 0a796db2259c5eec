----------------------------- MODULE BallSearch -----------------------------
(***************************************************************************)
(* BallImageProc::GetBall: the search of a picture for golf balls.  A      *)
(* picture is what the Hough transform can tell of it, a set of circles    *)
(* with the strictest parameter (param2) at which each is still found.     *)
(* The search loosens or tightens the parameter until the number of        *)
(* circles suits, one iteration of the loop to a step.                     *)
(***************************************************************************)
EXTENDS Integers, Sequences, SequencesExt, FiniteSets

CONSTANTS Kinds,            \* the circles there may be, a sequence of [x, r, colour]
          Strengths,        \* strictest parameter of a circle, 0 is not there
          Settings,         \* the parameters of each mode, see MC_Search
          NarrowingLevel,   \* param2 of the narrowing pass
          RadiiToAverage,   \* kNumberRadiiToAverageForDynamicAdjustment
          MinRatio,         \* kStrobedNarrowingRadiiMinRatio, in per cent
          MaxRatio,         \* kStrobedNarrowingRadiiMaxRatio, in per cent
          MinCandidateRadius, \* MIN_BALL_CANDIDATE_RADIUS
          IndexWeight       \* weight of the rank in the colour difference

VARIABLES picture,    \* mode, whether it can be searched, narrowing, circles
          stage,      \* where GetBall has got to
          level,      \* currentParam2
          circles,    \* circles
          loosening,  \* currentlyLooseningSearch
          final,      \* finalNumberOfFoundCircles
          radii,      \* the radii searched for, <<least, greatest>>
          balls       \* return_balls

vars == <<picture, stage, level, circles, loosening, final, radii, balls>>

set == Settings[picture.mode]

\* The circles of picture p with radii in rs that HoughCircles finds at level l,
\* by their places in Kinds.
Seen(p, rs, l) ==
  {i \in DOMAIN Kinds : p.strength[i] >= l /\ rs[1] <= Kinds[i].r /\ Kinds[i].r <= rs[2]}

\* It lists the strongest first.
Stronger(p, i, j) == p.strength[i] > p.strength[j] \/ (p.strength[i] = p.strength[j] /\ i < j)

HoughCircles(p, seen) ==
  [k \in 1..Cardinality(seen) |->
     CHOOSE i \in seen : Cardinality({j \in seen : Stronger(p, j, i)}) = k - 1]

Concentric(i, j) == Kinds[i].x = Kinds[j].x

\* Circle i removes circle j: it is larger, or of the same size and before it.
Removes(p, i, j) ==
  /\ Concentric(i, j)
  /\ \/ Kinds[i].r > Kinds[j].r
     \/ Kinds[i].r = Kinds[j].r /\ Stronger(p, i, j)

\* Of the circles about one centre in a list the largest is kept, the first of
\* those, in whatever order the loop over all pairs erases the others.
RemoveSmallestConcentricCircles(p, seen) ==
  HoughCircles(p, {i \in seen : \A j \in seen : ~Removes(p, j, i)})

\* CvUtils::RoundAndMakeEven of n hundredths.
RoundAndMakeEven(n) == LET rounded == (n + 50) \div 100 IN rounded + (rounded % 2)

\* The average of the first radii, in hundredths.
AverageRadius(seq) ==
  LET n == IF Len(seq) < RadiiToAverage THEN Len(seq) ELSE RadiiToAverage
  IN (100 * FoldLeft(LAMBDA sum, c : sum + Kinds[c].r, 0, SubSeq(seq, 1, n))) \div n

\* Pictures: what callers ask for.  Only a placed ball may have a known colour,
\* and only strobed pictures may have their radii narrowed.
Pictures ==
  LET Of(mode, coloured, dynamic, strengths) ==
        [mode : {mode}, coloured : coloured, dynamic : dynamic, strength : strengths]
      All == [DOMAIN Kinds -> Strengths]
  IN Of("placed", BOOLEAN, {FALSE}, All) \cup Of("putting", {FALSE}, {FALSE}, All)
     \cup Of("strobed", {FALSE}, BOOLEAN, All) \cup Of("external", {FALSE}, BOOLEAN, All)

Init ==
  /\ picture \in Pictures
  /\ stage = "called"
  /\ level = set.start
  /\ circles = <<>> /\ loosening = FALSE /\ final = 0
  /\ radii = set.radii
  /\ balls = <<>>

\* An empty or grey picture, an unknown mode, or a failed preparation.
Reject ==
  /\ stage = "called"
  /\ stage' = "failed"
  /\ UNCHANGED <<picture, level, circles, loosening, final, radii, balls>>

\* The radii are narrowed about the average of the best circles of a first,
\* wide pass, where the configuration says so.
NarrowRadii ==
  /\ stage = "called"
  /\ LET wide == <<RoundAndMakeEven(100 * radii[1]), RoundAndMakeEven(100 * radii[2])>>
         first == RemoveSmallestConcentricCircles(picture, Seen(picture, wide, NarrowingLevel))
         average == AverageRadius(first)
     IN IF ~picture.dynamic THEN stage' = "searching" /\ radii' = wide
        ELSE IF first = <<>> THEN stage' = "failed" /\ UNCHANGED radii
        ELSE /\ radii' = <<RoundAndMakeEven((average * MinRatio) \div 100),
                           RoundAndMakeEven((average * MaxRatio) \div 100)>>
             /\ stage' = "searching"
  /\ UNCHANGED <<picture, level, circles, loosening, final, balls>>

-----------------------------------------------------------------------------
(***************************************************************************)
(* One iteration of the loop.  The circles are counted before concentric   *)
(* ones are removed; prior is the number saved by an earlier iteration.    *)
(***************************************************************************)
found == Seen(picture, radii, level)
number == Cardinality(found)
prior == Len(circles)

\* The circles of this iteration are saved, and are the result.
Finish ==
  /\ circles' = RemoveSmallestConcentricCircles(picture, found)
  /\ final' = number
  /\ stage' = "chosen"
  /\ UNCHANGED <<level, loosening>>

\* The circles are saved and the parameter moves on.
Move(step, loosen) ==
  /\ circles' = RemoveSmallestConcentricCircles(picture, found)
  /\ level' = level + step
  /\ loosening' = loosen
  /\ UNCHANGED <<stage, final>>

Suits == set.fewest <= number /\ number <= set.most /\ Finish

\* A mutant: the search goes on as the loosening one it was.
TooManyStillLoosening ==
  /\ number > set.most
  /\ IF level >= set.max THEN Finish ELSE Move(set.inc, loosening)

\* Too many.  That the level before gave none sets the result, and the
\* assignments after it take it back unless the strictest level is reached.
TooMany ==
  /\ number > set.most
  /\ IF level >= set.max THEN Finish
     ELSE /\ circles' = RemoveSmallestConcentricCircles(picture, found)
          /\ final' = IF prior = 0 /\ level # set.start THEN number ELSE final
          /\ level' = level + set.inc
          /\ loosening' = FALSE
          /\ UNCHANGED stage

NoneYet ==
  /\ number = 0 /\ prior = 0 /\ set.fewest > 0
  /\ IF level <= set.min
     THEN stage' = "chosen" /\ UNCHANGED <<level, circles, loosening, final>>
     ELSE Move(-set.inc, TRUE)

\* A mutant: the loosest level is not tried.
TooFewStoppingEarly ==
  /\ number < set.fewest /\ ~(number = 0 /\ prior = 0)
  /\ prior = 0 \/ loosening
  /\ IF level - set.inc <= set.min THEN Finish ELSE Move(-set.inc, TRUE)

TooFew ==
  /\ number < set.fewest /\ ~(number = 0 /\ prior = 0)
  /\ prior = 0 \/ loosening
  /\ IF level <= set.min THEN Finish ELSE Move(-set.inc, TRUE)

\* Tightened too far: the circles saved before stay where they are, and the
\* number of them becomes 0.
NoneLeft ==
  /\ number = 0 /\ prior > 0 /\ ~loosening /\ set.fewest > 0
  /\ final' = number
  /\ stage' = "chosen"
  /\ UNCHANGED <<level, circles, loosening>>

\* Some, too few, after too many: no branch applies, and the loop goes round
\* with the same parameter for ever.
Iterate ==
  /\ stage = "searching"
  /\ Suits \/ TooMany \/ NoneYet \/ TooFew \/ NoneLeft
  /\ UNCHANGED <<picture, radii, balls>>

-----------------------------------------------------------------------------
\* The circles large enough, each with how far its colour and rank are off.
Candidates ==
  SelectSeq([i \in 1..Len(circles) |->
               [circle |-> circles[i],
                difference |-> Kinds[circles[i]].colour + IndexWeight * i * i * i]],
            LAMBDA c : Kinds[c.circle].r >= MinCandidateRadius)

ByColour(seq) == SortSeq(seq, LAMBDA a, b : a.difference < b.difference)

\* The candidates become balls, ranked by colour where one is known.
RankBalls ==
  /\ stage = "chosen"
  /\ LET ranked == IF picture.coloured THEN ByColour(Candidates) ELSE Candidates
     IN IF final = 0 \/ ranked = <<>> THEN stage' = "failed" /\ UNCHANGED balls
        ELSE /\ balls' = [i \in 1..Len(ranked) |-> ranked[i].circle]
             /\ stage' = "found"
  /\ UNCHANGED <<picture, level, circles, loosening, final, radii>>

Next == Reject \/ NarrowRadii \/ Iterate \/ RankBalls

Spec == Init /\ [][Next]_vars /\ WF_vars(Next)

-----------------------------------------------------------------------------
(***************************************************************************)
(* What must hold.                                                         *)
(***************************************************************************)
Finished == stage \in {"found", "failed"}

Count(l) == Cardinality(Seen(picture, radii, l))

\* The levels the search may come to from its start.
Grid == {l \in {set.start + (k * set.inc) : k \in -10..10} :
           /\ l < set.start => l + set.inc > set.min
           /\ l > set.start => l - set.inc < set.max}

\* No step of the parameter leads from too many circles to too few but some.
Smooth == \A l \in Grid : Count(l) > set.most /\ l + set.inc \in Grid =>
                            Count(l + set.inc) \notin 1..set.fewest - 1

\* The loop ends on every picture without such a jump, whatever way it turns.
SearchEnds == (stage = "searching" /\ Smooth) ~> Finished

\* When some level in reach gives a number of circles that suits, the search
\* ends with such a number.
AcceptableLevelIsUsed ==
  stage = "chosen" /\ (\E l \in Grid : Count(l) \in set.fewest..set.most) =>
    final \in set.fewest..set.most

=============================================================================
