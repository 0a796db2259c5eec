SPECIFICATION DevicesSpec
CONSTANTS
  None = None
  Requests = {r1, r2}
  Results <- MCResults
  Buttons = {"Putter"}
  MaxSent = 2
  MaxGets = 2
  MaxReset = 1
  Balls <- MCBalls
  Resolution <- MCResolution
  VideoResolution <- MCVideoResolution
  MaxCrop <- MCMaxCrop
  Skew <- MCSkew
  NoBall = NoBall
  Torn = Torn
  Attempts = 2
  MaxCalibrations = 3
  Streams = {"MAIN", "HQ"}
  MaxFrames = 3
  MaxBuffer = 2
  MaxSlots = 2
  Settings <- MCSettings
  BufferBits = 800
INVARIANTS
  SettledPageIsRight
  WatchesOnlyTheBall
  CalibrationsSurvive
  FramesInOrder
  PulsesAreAsConfigured
  FlashRunsAtItsRate
PROPERTIES
  BlockedOnlyByStaleCache
  CaptureLosesNoBuffer
CHECK_DEADLOCK FALSE
