----------------------------- MODULE MC_Devices -----------------------------
(***************************************************************************)
(* Five devices and drivers that share no state: the page of the results,  *)
(* the watch of camera 1's sensor, the calibration of the cameras, the     *)
(* stream of the new camera driver and the strobe.  A behaviour is one of  *)
(* any of them; the other four stay as they start.                         *)
(***************************************************************************)
EXTENDS WebMonitor, Integers

CONSTANTS
  Balls, Resolution, VideoResolution, MaxCrop, Skew, NoBall,  \* CameraWatch
  Attempts, MaxCalibrations, Torn,                            \* CameraCalibration
  Streams, MaxFrames, MaxBuffer, MaxSlots,                    \* CameraStream
  Settings, BufferBits                                        \* PulseTrain

VARIABLES
  part,  \* the component of this behaviour
  watch, located, sensor, crop, app, still, picture, ball, roi,
  calibration, camera, number, tree, samples, triggers, onTheWay, received,
  file, backup, calibrated, complete,
  caller, flag, slots, stream, mode, buffers, callback, calls, stored, twice,
  frames, latest, ready, buffer, captured,
  setting, gpio, trains, spi, club, priming, primed, flash

\* Results that are shots, that replace a shot and that do not, of two clubs; of one the
\* measurements only can be unpacked.
Message(shot, c, type) == [shot |-> shot, club |-> c, type |-> type, fields |-> 3]
MCResults ==
  {Message(1, "Driver", "Hit"), Message(0, "Putter", "WaitingForBallToAppear"),
   [Message(2, "Putter", "Hit") EXCEPT !.fields = 1]}

\* The sizes of the code, and balls in the middle, off it, and in a corner, where
\* the window would leave the sensor; and a ball of another size where one was before.
PerAxis(x, y) == [a \in {"x", "y"} |-> IF a = "x" THEN x ELSE y]
MCResolution == PerAxis(1456, 1088)
MCVideoResolution == PerAxis(1456, 1080)
MCMaxCrop == PerAxis(96, 88)
MCSkew == PerAxis(0, -3)
BallAt(x, y, r) == [at |-> PerAxis(x, y), radius |-> r]
MCBalls ==
  {BallAt(728, 544, 87), BallAt(700, 800, 57), BallAt(712, 530, 60), BallAt(712, 530, 52), BallAt(400, 990, 57)}

\* Pauses of every remainder of a byte, pulses within one byte and across two, a
\* still picture, a train that is too long, and a pre-image.
Train(pauses, on, baud) == [pauses |-> pauses, on |-> on, baud |-> baud]
Setting(fast, slow, on) ==
  [single |-> FALSE, preImage |-> FALSE, fast |-> Train(fast, on, 115200), slow |-> Train(slow, 8, 57600)]
MCSettings ==
  {Setting(<<p, q, 20, 0>>, <<q, p, 0>>, on) : p \in 16..24, q \in {17, 81}, on \in {1, 3, 9}}
  \cup {[Setting(<<80, 0>>, <<80, 0>>, on) EXCEPT !.single = TRUE] : on \in {3, 8}}
  \cup {Setting(<<80, 1000, 0>>, <<80, 0>>, 3),
        [Setting(<<80, 17, 0>>, <<24, 0>>, 3) EXCEPT !.preImage = TRUE]}

Watch == INSTANCE CameraWatch WITH stage <- watch
Calibration == INSTANCE CameraCalibration WITH stage <- calibration
Camera == INSTANCE CameraStream WITH request <- buffers
Pulse == INSTANCE PulseTrain

\* The window on a ball is smaller than the sensor, and balls lie on whole pixels.
ASSUME WatchAssumption ==
  /\ \A a \in Watch!Axes :
       /\ Resolution[a] \in Int /\ VideoResolution[a] \in Int /\ Skew[a] \in Int
       /\ MaxCrop[a] \in Nat /\ MaxCrop[a] + 1 < Resolution[a]
  /\ \A b \in Balls : b.radius \in Nat /\ \A a \in Watch!Axes : b.at[a] \in Int
  /\ NoBall \notin Balls

\* Balls of one window are not so unlike that the region of one leaves the other.
ASSUME SeenAgainAssumption ==
  \A b, c \in Balls : Watch!Window(b) = Watch!Window(c) =>
     \A a \in Watch!Axes : Watch!RegionOfInterest(c)[a].size <= 2 * b.radius

\* A torn file is not a configuration.
ASSUME FileAssumption ==
  Torn \notin [Calibration!Cameras -> [focal : Nat, angles : Nat]]

\* The frame buffer holds a frame at least.
ASSUME StreamAssumption == MaxBuffer \in Nat \ {0} /\ MaxFrames \in Nat

\* A pulse and the pad before it fit in two bytes, and no pause between two pulses is
\* shorter than that; the pulses of a still picture are not trains.
ASSUME TrainAssumption ==
  \A c \in Settings : \A v \in Pulse!Speeds :
    ~c.single =>
      /\ c[v].on \in 1..9 /\ c[v].pauses \in Seq(Nat)
      /\ \A k \in 1..(Len(c[v].pauses) - 1) : c[v].pauses[k] >= 16

\* What the launch monitor sends is a GsIPCResult, and what is clicked is a club.
ASSUME ResultsAssumption == Results \subseteq Messages /\ Buttons \subseteq GsClubType

\* None is no thread, no consumer, no stage of the priming and nothing primed.
ASSUME NoneAssumption ==
  /\ None \notin Requests /\ None \notin Consumers /\ None \notin GsClubType
  /\ None \notin {"woken", "pre-image sent"}
  /\ None \notin [caller : Pulse!Callers, club : Pulse!Clubs]

watchVars == <<watch, located, sensor, crop, app, still, picture, ball, roi>>
calibrationVars ==
  <<calibration, camera, number, tree, samples, triggers, onTheWay, received,
    file, backup, calibrated, complete>>
cameraVars ==
  <<caller, flag, stream, mode, buffers, callback, slots, calls, stored, twice,
    frames, latest, ready, buffer, captured>>
pulseVars == <<setting, gpio, trains, spi, club, priming, primed, flash>>
allVars == <<part, vars, watchVars, calibrationVars, cameraVars, pulseVars>>

DevicesInit ==
  /\ part \in {"page", "watch", "calibration", "camera", "pulse"}
  /\ Init /\ Watch!Init /\ Calibration!Init
  /\ part # "camera" => stream = "MAIN" /\ mode = "FREE_RUNNING"
  /\ Camera!Init
  /\ part # "pulse" => setting = (CHOOSE s \in Settings : TRUE)
  /\ Pulse!Init

WatchStep(A) ==
  part = "watch" /\ A
    /\ UNCHANGED <<part, vars, calibrationVars, cameraVars, pulseVars>>

DevicesNext ==
  \/ part = "page" /\ Next
     /\ UNCHANGED <<part, watchVars, calibrationVars, cameraVars, pulseVars>>
  \/ WatchStep(Watch!Next)
  \/ part = "calibration" /\ Calibration!Next
     /\ UNCHANGED <<part, vars, watchVars, cameraVars, pulseVars>>
  \/ part = "camera" /\ Camera!Next
     /\ UNCHANGED <<part, vars, watchVars, calibrationVars, pulseVars>>
  \/ part = "pulse" /\ Pulse!Next
     /\ UNCHANGED <<part, vars, watchVars, calibrationVars, cameraVars>>

\* The fairness of CameraWatch, and of nothing else.
DevicesSpec ==
  /\ DevicesInit /\ [][DevicesNext]_allVars
  /\ WF_allVars(WatchStep(Watch!Proceed))
  /\ SF_allVars(WatchStep(Watch!FullScreenSucceeds))
  /\ SF_allVars(WatchStep(Watch!StillSucceeds))
  /\ SF_allVars(WatchStep(Watch!PictureSucceeds))
  /\ SF_allVars(WatchStep(Watch!BallIsFound))

\* A ball that is watched was seen in a whole picture, and motion counts only inside it.
WatchesOnlyTheBall == Watch!WatchesOnlyTheBall

\* Once everything works again a ball is found again, unless the one watched is never hit
\* or a cache is wrong for good.
BlockedOnlyByStaleCache == part = "watch" => Watch!BlockedOnlyByStaleCache

\* No calibration undoes or mixes the other camera's, and a crash loses but the last.
CalibrationsSurvive == Calibration!CalibrationsSurvive

\* No frame is handed out after a later one, nor twice by a camera initialized once.
FramesInOrder == Camera!FramesInOrder

\* While isCapturing_ is set, no request is left behind.
CaptureLosesNoBuffer == Camera!CaptureLosesNoBuffer

\* The pulses of a train start their configured pauses apart and are lit throughout.
PulsesAreAsConfigured == Pulse!PulsesAreAsConfigured

\* A shot of the driver or the putter flashes at the rate its train was built for.
FlashRunsAtItsRate == Pulse!FlashRunsAtItsRate
=============================================================================
