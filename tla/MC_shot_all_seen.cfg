SPECIFICATION Spec
CONSTANTS
  SlowdownPerMille = 5
  NoInterval = NoInterval
  NoBall = NoBall
  Pauses <- MCPauses
  Circles <- MCCircles
  MaxFound = 6
  ManyBalls = 4
  MinBallRadius = 15
  EdgeBackoff = 200
  MaxColorDifferenceRelaxed = 350
  MaxColorDifferenceStrict = 150
  MaxDistanceFromTrajectory = 20
  MaxOffTrajectoryDistance = 8
  ProximityMarginRelaxed = 50
  ProximityMarginStrict = 5
  MaxRadiusDifferenceFromBest = 20
  MaxRadiusChange = 10
  MaxOverlappedRadiusChangeRatio = 13
  MaxFallTangent = 87
  MaxLaunchTangent = 1000
  MaxBallsToRetain = 18
  ResolutionX = 1456
  ResolutionY = 1088
INVARIANT NoPatternIsNeeded
CHECK_DEADLOCK FALSE
