------------------------- MODULE CameraCalibration -------------------------
(***************************************************************************)
(* AutoCalibrateCamera, run by hand for one camera after the other: some   *)
(* pictures of a ball at a known place, a focal length from each, their    *)
(* average, the angles from the last picture, and then the configuration   *)
(* file written anew after a copy of it was made.  The pictures of camera  *)
(* 2 are taken by another process and come back through last_received_     *)
(* image_.  The program may be killed, or the power fail, at any step.     *)
(***************************************************************************)
EXTENDS Naturals, FiniteSets

CONSTANTS
  Attempts,        \* kNumberPicturesForFocalLengthAverage
  MaxCalibrations, \* bound on the calibrations of a behaviour
  Torn             \* a file that was opened for writing and not written

Cameras == {1, 2}

VARIABLES
  stage,      \* where AutoCalibrateCamera is; "off" when the program is not running
  camera,     \* the camera calibrated
  number,     \* the calibrations started so far
  tree,       \* configuration_root_: the calibration each camera's values are from
  samples,    \* the pictures measured: [asked, seen], numbered by trigger
  triggers,   \* the triggers camera 2 was sent
  onTheWay,   \* pictures of camera 2 not received yet
  received,   \* last_received_image_; 0 while it is empty
  file,       \* the configuration file, or Torn
  backup,     \* the copy made last
  calibrated, \* per camera, the calibration that last ended well
  complete    \* the last contents the file held in full

vars == <<stage, camera, number, tree, samples, triggers, onTheWay, received,
          file, backup, calibrated, complete>>

camera2 == <<triggers, onTheWay, received>>
disk == <<file, backup, calibrated, complete>>

Installed == [c \in Cameras |-> [focal |-> 0, angles |-> 0]]

Init ==
  /\ stage = "off" /\ camera = 1 /\ number = 0 /\ tree = Installed /\ samples = {}
  /\ triggers = 0 /\ onTheWay = {} /\ received = 0
  /\ file = Installed /\ backup = Installed
  /\ calibrated = [c \in Cameras |-> 0] /\ complete = Installed

\* main and AutoCalibrateCamera up to its loop: the configuration is read once.
Start(c) ==
  /\ stage = "off" /\ number < MaxCalibrations
  /\ file # Torn                        \* Initialize fails on a file it cannot parse
  /\ stage' = "still" /\ camera' = c /\ number' = number + 1
  /\ tree' = file /\ samples' = {} /\ received' = 0
  /\ UNCHANGED <<triggers, onTheWay, disk>>

\* The program ends: an error of any step, the last step, or a crash.
End == stage' = "off"

Measured(asked, seen) == samples' = samples \cup {[asked |-> asked, seen |-> seen]}

\* The loop's condition, after a picture was measured.
Loop == stage' = IF Cardinality(samples') < Attempts THEN "still" ELSE "angles"

\* Camera 1: the process takes the picture itself, and measures it or fails.
TakeStillPicture1 ==
  /\ stage = "still" /\ camera = 1
  /\ LET picture == Cardinality(samples) + 1
     IN  (Measured(picture, picture) /\ Loop) \/ (End /\ UNCHANGED samples)
  /\ UNCHANGED <<camera, number, tree, camera2, disk>>

\* Camera 2: it is asked to be ready, primed and triggered; or the pulses fail.
\* The picture it takes may never come.
TriggerCamera2 ==
  /\ stage = "still" /\ camera = 2
  /\ \/ End /\ UNCHANGED <<triggers, onTheWay>>
     \/ /\ stage' = "wait" /\ triggers' = triggers + 1
        /\ onTheWay' \in {onTheWay, onTheWay \cup {triggers'}}
  /\ UNCHANGED <<camera, number, tree, samples, received, disk>>

\* The IPC thread stores a picture; a broker delivers them in order, to whichever
\* program is listening then.
ReceivePicture ==
  /\ onTheWay # {}
  /\ LET first == CHOOSE p \in onTheWay : \A q \in onTheWay : p <= q
     IN  /\ onTheWay' = onTheWay \ {first}
         /\ received' = IF stage = "off" THEN received ELSE first
  /\ UNCHANGED <<stage, camera, number, tree, samples, triggers, disk>>

\* After six seconds the last picture received is taken for the one asked for; only
\* an image that was never there is an error.
TakeStillPicture2 ==
  /\ stage = "wait"
  /\ \/ received # 0 /\ Measured(triggers, received) /\ Loop
     \/ End /\ UNCHANGED samples
  /\ UNCHANGED <<camera, number, tree, camera2, disk>>

Stored == [tree EXCEPT ![camera] = [focal |-> number, angles |-> number]]

\* The angles come from the last picture; only then both values go into the tree.
DetermineCameraAngles ==
  /\ stage = "angles"
  /\ \/ tree' = Stored /\ stage' = "backup"
     \/ End /\ UNCHANGED tree
  /\ UNCHANGED <<camera, number, samples, camera2, disk>>

\* A mutant: the result of cp is not looked at.
BackUpUnchecked ==
  /\ stage = "backup"
  /\ backup' \in {file, backup} /\ stage' = "open"
  /\ UNCHANGED <<camera, number, tree, samples, camera2, file, calibrated, complete>>

\* system("cp ...")
BackUp ==
  /\ stage = "backup"
  /\ \/ backup' = file /\ stage' = "open"
     \/ End /\ UNCHANGED backup
  /\ UNCHANGED <<camera, number, tree, samples, camera2, file, calibrated, complete>>

\* WriteTreeToFile: opening the stream empties the file.
OpenFile ==
  /\ stage = "open"
  /\ \/ file' = Torn /\ stage' = "write"
     \/ End /\ UNCHANGED file
  /\ UNCHANGED <<camera, number, tree, samples, camera2, backup, calibrated, complete>>

WriteTree ==
  /\ stage = "write"
  /\ file' = tree /\ complete' = tree
  /\ calibrated' = [calibrated EXCEPT ![camera] = number]
  /\ End
  /\ UNCHANGED <<camera, number, tree, samples, camera2, backup>>

Crash ==
  /\ stage # "off" /\ End
  /\ UNCHANGED <<camera, number, tree, samples, camera2, disk>>

\* The user, when the program no longer starts.
RestoreBackup ==
  /\ stage = "off" /\ file = Torn /\ file' = backup
  /\ UNCHANGED <<stage, camera, number, tree, samples, camera2, backup, calibrated, complete>>

Next ==
  \/ \E c \in Cameras : Start(c)
  \/ TakeStillPicture1 \/ TriggerCamera2 \/ ReceivePicture \/ TakeStillPicture2
  \/ DetermineCameraAngles \/ BackUp \/ OpenFile \/ WriteTree
  \/ Crash \/ RestoreBackup

Spec == Init /\ [][Next]_vars

-----------------------------------------------------------------------------
\* The calibrations survive.  The file holds, for each camera, focal length and angles
\* of its last good one: none undoes or mixes the other's, and a restored copy does
\* neither.  When the file is lost in a crash, the last copy is what it held: only the
\* calibration that was being written has to be repeated.
CalibrationsSurvive ==
  IF file = Torn
    THEN backup = complete
    ELSE \A c \in Cameras : file[c] = [focal |-> calibrated[c], angles |-> calibrated[c]]
=============================================================================
