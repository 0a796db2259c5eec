---------------------------- MODULE CameraWatch ----------------------------
(***************************************************************************)
(* How one process drives the sensor of camera 1: stills of the whole      *)
(* sensor until a ball is found (CheckForBall), then a small window on     *)
(* that ball watched for movement (WatchForHitAndTrigger), and over again. *)
(* The sensor is set by a shell command; to save time the code remembers   *)
(* in camera_crop_configuration_ what it last asked for, and in            *)
(* libcamera_app_ the application it last opened.                          *)
(***************************************************************************)
EXTENDS Integers

CONSTANTS
  Balls,             \* the balls that may lie there: [at |-> [x, y], radius]
  Resolution,        \* pixels of the sensor, per axis
  VideoResolution,   \* pixels the code believes a video has, per axis
  MaxCrop,           \* kMaxWatchingCropWidth and Height, per axis
  Skew,              \* kCroppedImagePixelOffsetLeft and Up, per axis
  NoBall

Axes == {"x", "y"}

VARIABLES
  stage,    \* where the calling thread is
  located,  \* the device camera_location_found_ remembers: none yet, camera 1's, the other's
  sensor,   \* the window the sensor really delivers, per axis [size, offset]
  crop,     \* camera_crop_configuration_ with current_watch_resolution_, _offset_
  app,      \* libcamera_app_[camera]: nullptr, configured, or left half-configured
  still,    \* libcamera_configuration_[camera] = kStillPicture
  picture,  \* the window the last picture was taken through
  ball,     \* the ball CheckForBall returned
  roi       \* MotionDetectStage::incoming_configuration, per axis [size, offset]

vars == <<stage, located, sensor, crop, app, still, picture, ball, roi>>

Whole == [a \in Axes |-> [size |-> Resolution[a], offset |-> 0]]

-----------------------------------------------------------------------------
(* The window on a ball, in pixels from the far corner of the picture. *)

\* The square inside the ball's circle, cut to whole pixels twice.
InscribedSquare(b) == ((((b.radius * 1414) \div 1000) * 9) \div 10)

Even(n) == n + (n % 2)

\* "The largest cropping area that will still allow for the maximum FPS", for any ball.
CropSize(a) == Even(MaxCrop[a])

\* A mutant: the offset is taken from the near corner.
CentredFromNearCorner(b, a) == Skew[a] + b.at[a] - (CropSize(a) \div 2)

Centred(b, a) == Skew[a] + Resolution[a] - (b.at[a] + (CropSize(a) \div 2))

\* "Correcting crop offset to avoid going outside the screen."
CropOffset(b, a) ==
  LET offset == Centred(b, a)
  IN  IF ((Resolution[a] - 1) - offset) + CropSize(a) >= Resolution[a]
        THEN (VideoResolution[a] - offset) - 1
        ELSE offset

Window(b) == [a \in Axes |-> [size |-> CropSize(a), offset |-> CropOffset(b, a)]]

\* The part of the window in which motion counts, from its near corner.
RegionOfInterest(b) ==
  [a \in Axes |->
     IF InscribedSquare(b) >= CropSize(a)
       THEN [size |-> CropSize(a), offset |-> 0]
       ELSE [size |-> InscribedSquare(b),
             offset |-> (CropSize(a) - InscribedSquare(b)) \div 2]]

-----------------------------------------------------------------------------
(***************************************************************************)
(* DiscoverCameraLocation: a script lists the media devices that answer as *)
(* an imx296, in the order of their numbers, and camera 1 is taken to be   *)
(* on the first line.  A list without it, or an empty one, is possible.    *)
(***************************************************************************)
Listed == SUBSET {"camera 1", "other"}

FirstLine(list) ==
  IF "camera 1" \in list THEN "camera 1" ELSE IF list = {} THEN "none" ELSE "other"

\* What was found once is not looked for again.
DiscoverCameraLocation ==
  located' \in IF located = "none" THEN {FirstLine(l) : l \in Listed} ELSE {located}

\* system("if media-ctl ...; then ...; fi") succeeds whether media-ctl does or not, and
\* so does the empty command that is left when the camera is not located: only a shell
\* that cannot be run is reported.
Command(window, succeeded) ==
  /\ DiscoverCameraLocation
  /\ \/ succeeded /\ located' = "camera 1" /\ sensor' = window
     \/ sensor' = sensor

Init ==
  /\ stage = "fullscreen"
  /\ located = "none"
  /\ sensor = Whole
  /\ crop = [kind |-> "Unknown", window |-> Whole]
  /\ app = "None" /\ still = FALSE
  /\ picture = Whole
  /\ ball = NoBall
  /\ roi = Whole

\* TakeRawPicture, first step; what it returns is not looked at.
ConfigCameraForFullScreenWatching ==
  /\ stage = "fullscreen"
  /\ stage' = "still"
  /\ \/ /\ crop.kind = "FullScreen"
        /\ UNCHANGED <<located, sensor, crop>>
     \/ /\ crop.kind # "FullScreen"
        /\ \/ Command(Whole, TRUE) /\ crop' = [crop EXCEPT !.kind = "FullScreen"]
           \/ Command(Whole, FALSE) /\ UNCHANGED crop
  /\ UNCHANGED <<app, still, picture, ball, roi>>

Retry == stage' = "fullscreen" /\ ball' = NoBall

\* A picture is asked of an application that is there, whatever its state.
ConfigureForLibcameraStill ==
  /\ stage = "still"
  /\ UNCHANGED <<located, sensor, crop, picture, roi>>
  /\ \/ /\ app # "None"
        /\ stage' = "take" /\ UNCHANGED <<app, still, ball>>
     \/ /\ app = "None" /\ still
        /\ Retry /\ UNCHANGED <<app, still>>
     \/ /\ app = "None" /\ ~still
        /\ \/ app' = "Configured" /\ still' = TRUE /\ stage' = "take" /\ UNCHANGED ball
           \/ app' = "Broken" /\ UNCHANGED still /\ Retry

\* A mutant: the application goes, but the camera still counts as configured.
DeConfigureApplicationOnly == app' = "None" /\ UNCHANGED still

DeConfigureForLibcameraStill == app' = "None" /\ still' = FALSE

\* An application that could not be configured has no camera to start.
TakeLibcameraStill ==
  /\ stage = "take"
  /\ \/ /\ app = "Configured"
        /\ picture' = sensor
        /\ \/ DeConfigureForLibcameraStill /\ stage' = "search" /\ UNCHANGED ball
           \/ app' = "Broken" /\ UNCHANGED still /\ Retry   \* it cannot be torn down
     \/ UNCHANGED <<app, still, picture>> /\ Retry            \* the event loop throws
  /\ UNCHANGED <<located, sensor, crop, roi>>

\* CheckForBall looks for a ball only in a picture of the right size.
FitsResolution == \A a \in Axes : picture[a].size = Resolution[a]

GetCalibratedBall ==
  /\ stage = "search"
  /\ \/ FitsResolution /\ \E b \in Balls : ball' = b /\ stage' = "crop"
     \/ Retry
  /\ UNCHANGED <<located, sensor, crop, app, still, picture, roi>>

Remembered(b) == [kind |-> "Cropped", window |-> Window(b)]

\* Neither step after the command undoes it when it fails.
ConfigCameraForCropping ==
  /\ stage = "crop"
  /\ \/ /\ crop = Remembered(ball)
        /\ stage' = "watching" /\ UNCHANGED <<located, sensor, crop, ball, roi>>
     \/ /\ crop # Remembered(ball)
        /\ \/ Command(Window(ball), FALSE) /\ Retry /\ UNCHANGED <<crop, roi>>
           \/ Command(Window(ball), TRUE) /\ Retry /\ UNCHANGED <<crop, roi>>
           \/ /\ Command(Window(ball), TRUE)
              /\ roi' = RegionOfInterest(ball)
              /\ crop' = Remembered(ball)
              /\ stage' = "watching" /\ UNCHANGED ball
  /\ UNCHANGED <<app, still, picture>>

\* ball_watcher_event_loop: ends on motion, on Quit, on an exception or when the
\* program stops; a timeout of the camera only restarts it.
BallWatcherEventLoop ==
  /\ stage = "watching"
  /\ Retry
  /\ UNCHANGED <<located, sensor, crop, app, still, picture, roi>>

\* A step of the program that waits for nobody.
Proceed ==
  \/ ConfigCameraForFullScreenWatching
  \/ ConfigureForLibcameraStill
  \/ TakeLibcameraStill
  \/ GetCalibratedBall
  \/ ConfigCameraForCropping

Next == Proceed \/ BallWatcherEventLoop

\* Each step, when what it asks for succeeds: none fails for ever.
FullScreenSucceeds ==
  /\ ConfigCameraForFullScreenWatching /\ crop'.kind = "FullScreen"
  /\ crop.kind # "FullScreen" => sensor' = Whole

StillSucceeds == ConfigureForLibcameraStill /\ stage' = "take"

PictureSucceeds == TakeLibcameraStill /\ stage' = "search"

BallIsFound == GetCalibratedBall /\ stage' = "crop"

\* A golfer who never hits keeps the ball watcher's loop for ever.
Fairness ==
  /\ WF_vars(Proceed)
  /\ SF_vars(FullScreenSucceeds) /\ SF_vars(StillSucceeds)
  /\ SF_vars(PictureSucceeds) /\ SF_vars(BallIsFound)

Spec == Init /\ [][Next]_vars /\ Fairness

-----------------------------------------------------------------------------
Chosen == ball # NoBall /\ stage \in {"crop", "watching"}

\* "We don't want to watch for movement anywhere but within the ball": a ball that is
\* going to be watched was found in a picture of the whole sensor, whatever commands
\* failed unseen before; and while it is watched through the window asked for it,
\* motion counts only inside it, unless its window was "corrected".  That holds although
\* the region is set only with a new window, and so may be that of an earlier ball.
LowEdge(w, r, a) == Resolution[a] - w[a].offset - w[a].size + r[a].offset + Skew[a]
WatchesTheBall ==
  \A a \in Axes :
     /\ LowEdge(sensor, roi, a) >= ball.at[a] - ball.radius
     /\ LowEdge(sensor, roi, a) + roi[a].size <= ball.at[a] + ball.radius
Corrected(b) == \E a \in Axes : CropOffset(b, a) # Centred(b, a)

WatchesOnlyTheBall ==
  /\ Chosen => picture = Whole
  /\ (stage = "watching" /\ sensor = Window(ball) /\ ~Corrected(ball)) => WatchesTheBall

\* Once everything works again a ball is found again and again, unless a ball is watched
\* that nobody ever hits, or one of the two caches is wrong for good: a crop that failed
\* half-way and is taken for the whole sensor, or an application left half-configured.
StaleForGood == (crop.kind = "FullScreen" /\ sensor # Whole) \/ app = "Broken"
BlockedOnlyByStaleCache ==
  []<>(stage = "crop") \/ <>[](stage = "watching") \/ <>[]StaleForGood
=============================================================================
