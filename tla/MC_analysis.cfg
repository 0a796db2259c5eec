SPECIFICATION AnalysisSpec
CONSTANTS
  SlowdownPerMille = 5
  NoInterval = NoInterval
  NoBall = NoBall
  Pauses <- MCPauses
  Circles <- MCCircles
  MaxFound = 5
  ManyBalls = 4
  MinBallRadius = 15
  EdgeBackoff = 200
  MaxColorDifferenceRelaxed = 350
  MaxColorDifferenceStrict = 150
  MaxDistanceFromTrajectory = 20
  MaxOffTrajectoryDistance = 8
  ProximityMarginRelaxed = 50
  ProximityMarginStrict = 5
  MaxRadiusDifferenceFromBest = 20
  MaxRadiusChange = 10
  MaxOverlappedRadiusChangeRatio = 13
  MaxFallTangent = 87
  MaxLaunchTangent = 1000
  MaxBallsToRetain = 18
  ResolutionX = 1456
  ResolutionY = 1088
  Kinds <- MCKinds
  Strengths = {0, 1, 2, 3}
  Settings <- MCSettings
  NarrowingLevel = 3
  RadiiToAverage = 2
  MinRatio = 70
  MaxRatio = 160
  MinCandidateRadius = 10
  IndexWeight = 20
  Pairs <- MCPairs
  StartThreshold = 22
  kGaborMinWhitePercent = 39
  kGaborMaxWhitePercent = 45
  CoarseStart <- MCStart
  CoarseEnd <- MCEnd
  CoarseIncrement <- MCIncrement
  Flights <- MCFlights
  Rotations <- MCRotations
  FocalPixels = 1720
  BallRadius = 213
  CameraAngles <- MCCameraAngles
  Camera2Offset <- MCOffset
  Tee <- MCTee
  AngleError = 20
  SpeedError = 9
INVARIANTS
  IntervalsAreFlown
  UsedTimesAreFlown
  AcceptableLevelIsUsed
  EndsInBand
  ImagesAreComparable
  FlightIsRecovered
PROPERTY SearchEnds
CHECK_DEADLOCK FALSE
