--------------------------- MODULE Devices_proofs ---------------------------
(* Theorems about the devices of MC_Devices, for every size, ball, bound and *)
(* configuration.  The fairness of DevicesSpec is not used.                  *)
EXTENDS MC_Devices, SequenceTheorems, WellFoundedInduction, TLAPS

\* A step of a behaviour is a step of its component, and of no other.
LEMMA OneDevice ==
    ASSUME [DevicesNext]_allVars
    PROVE  /\ [Watch!Next]_watchVars
           /\ [Calibration!Next]_calibrationVars
           /\ [Camera!Next]_cameraVars
           /\ [Pulse!Next]_pulseVars
BY DEF DevicesNext, WatchStep, allVars

-----------------------------------------------------------------------------
(* The calibration of the cameras.                                          *)

\* The tree in memory is the last complete file until the new values go into it,
\* and then differs from it in the camera being calibrated only; what opening the
\* file empties has been copied just before.
Good(f) ==
  \A c \in Calibration!Cameras : f[c] = [focal |-> calibrated[c], angles |-> calibrated[c]]

Values == [focal : Nat, angles : Nat]
Files == [Calibration!Cameras -> Values]

CalibrationInv ==
  /\ camera \in Calibration!Cameras /\ number \in Nat
  /\ calibrated \in [Calibration!Cameras -> Nat]
  /\ complete \in Files /\ Good(complete)
  /\ IF file = Torn THEN backup = complete ELSE file = complete
  /\ calibration \in {"off", "still", "wait", "angles", "backup", "open", "write"}
  /\ calibration \in {"still", "wait", "angles"} => file # Torn /\ tree = complete
  /\ calibration \in {"backup", "open", "write"} =>
        tree = [complete EXCEPT ![camera] = [focal |-> number, angles |-> number]]
  /\ calibration \in {"backup", "open"} => file # Torn
  /\ calibration \in {"open", "write"} => backup = complete

LEMMA CalibrationInit == Calibration!Init => CalibrationInv
BY FileAssumption DEF Calibration!Init, Calibration!Installed, Calibration!Cameras,
   CalibrationInv, Good, Files, Values

LEMMA CalibrationStep ==
    CalibrationInv /\ [Calibration!Next]_calibrationVars => CalibrationInv'
<1> SUFFICES ASSUME CalibrationInv, [Calibration!Next]_calibrationVars
             PROVE  CalibrationInv'
  OBVIOUS
<1> USE FileAssumption DEF CalibrationInv, Good, Files, Values, Calibration!camera2,
        Calibration!disk, Calibration!End
<1>1. ASSUME NEW c \in Calibration!Cameras, Calibration!Start(c) PROVE CalibrationInv'
  BY <1>1 DEF Calibration!Start
<1>2. CASE Calibration!TakeStillPicture1
  BY <1>2 DEF Calibration!TakeStillPicture1, Calibration!Measured, Calibration!Loop
<1>3. CASE Calibration!TriggerCamera2
  BY <1>3 DEF Calibration!TriggerCamera2
<1>4. CASE Calibration!ReceivePicture
  BY <1>4 DEF Calibration!ReceivePicture
<1>5. CASE Calibration!TakeStillPicture2
  BY <1>5 DEF Calibration!TakeStillPicture2, Calibration!Measured, Calibration!Loop
<1>6. CASE Calibration!DetermineCameraAngles
  BY <1>6 DEF Calibration!DetermineCameraAngles, Calibration!Stored
<1>7. CASE Calibration!BackUp
  BY <1>7 DEF Calibration!BackUp
<1>8. CASE Calibration!OpenFile
  BY <1>8 DEF Calibration!OpenFile
<1>9. CASE Calibration!WriteTree
  <2>1. /\ tree = [complete EXCEPT ![camera] = [focal |-> number, angles |-> number]]
        /\ file' = tree /\ complete' = tree /\ calibration' = "off"
        /\ calibrated' = [calibrated EXCEPT ![camera] = number]
        /\ UNCHANGED <<camera, number, tree, backup>>
    BY <1>9 DEF Calibration!WriteTree
  <2>2. [focal |-> number, angles |-> number] \in Values
    OBVIOUS
  <2>3. tree \in Files
    BY <2>1, <2>2
  <2>4. Good(complete)'
    BY <2>1
  <2> QED
    BY <2>1, <2>3, <2>4
<1>10. CASE Calibration!Crash
  BY <1>10 DEF Calibration!Crash
<1>11. CASE Calibration!RestoreBackup
  BY <1>11 DEF Calibration!RestoreBackup
<1>12. CASE UNCHANGED calibrationVars
  BY <1>12 DEF calibrationVars
<1> QED
  BY <1>1, <1>2, <1>3, <1>4, <1>5, <1>6, <1>7, <1>8, <1>9, <1>10, <1>11, <1>12 DEF Calibration!Next

\* The calibrations survive any crash, loss of pictures and restored copy, for
\* every number of calibrations and of pictures in each.
THEOREM CalibrationsAreKept == DevicesSpec => []CalibrationsSurvive
<1>1. DevicesInit => CalibrationInv
  BY CalibrationInit DEF DevicesInit
<1>2. CalibrationInv /\ [DevicesNext]_allVars => CalibrationInv'
  BY OneDevice, CalibrationStep
<1>3. CalibrationInv => CalibrationsSurvive
  BY DEF CalibrationInv, Good, CalibrationsSurvive, Calibration!CalibrationsSurvive
<1> QED
  BY <1>1, <1>2, <1>3, PTL DEF DevicesSpec

-----------------------------------------------------------------------------
(* The strobe.                                                              *)

\* What is open after the priming has the rate of what it was for; an SPI device that
\* could not be opened lights nothing.
SpiRecord(device) ==
  \E h, o, b : h \in BOOLEAN /\ o \in BOOLEAN /\ device = [handle |-> h, baud |-> b, open |-> o]

StrobeInv ==
  /\ club \in Pulse!Clubs /\ SpiRecord(spi)
  /\ spi.handle \/ priming # None => primed \in [caller : Pulse!Callers, club : Pulse!Clubs]
  /\ spi.handle /\ priming = None =>
        spi.baud = setting[Pulse!RateOf(primed.caller, primed.club)].baud
  /\ FlashRunsAtItsRate

LEMMA StrobeInit == Pulse!Init => StrobeInv
<1> SUFFICES ASSUME Pulse!Init PROVE StrobeInv
  OBVIOUS
<1>1. SpiRecord(spi)
  BY DEF Pulse!Init, Pulse!Closed, SpiRecord
<1> QED
  BY <1>1 DEF Pulse!Init, Pulse!Closed, Pulse!Clubs, StrobeInv, FlashRunsAtItsRate,
     Pulse!FlashRunsAtItsRate

LEMMA StrobeStep == StrobeInv /\ [Pulse!Next]_pulseVars => StrobeInv'
<1> SUFFICES ASSUME StrobeInv, [Pulse!Next]_pulseVars PROVE StrobeInv'
  OBVIOUS
<1> USE NoneAssumption DEF StrobeInv, FlashRunsAtItsRate, Pulse!FlashRunsAtItsRate
<1>1. CASE Pulse!InitGPIOSystem
  BY <1>1 DEF Pulse!InitGPIOSystem
<1>2. CASE Pulse!DeinitGPIOSystem
  <2>1. UNCHANGED <<setting, club, priming, primed, flash>>
    BY <1>2 DEF Pulse!DeinitGPIOSystem
  <2>2. CASE spi.open
    <3>1. spi' = [spi EXCEPT !.handle = FALSE, !.open = FALSE]
      BY <1>2, <2>2 DEF Pulse!DeinitGPIOSystem
    <3>2. PICK h, o, b :
           h \in BOOLEAN /\ o \in BOOLEAN /\ spi = [handle |-> h, baud |-> b, open |-> o]
      BY DEF SpiRecord
    <3>3. spi' = [handle |-> FALSE, baud |-> b, open |-> FALSE]
      BY <3>1, <3>2
    <3>4. SpiRecord(spi') /\ ~spi'.handle
      BY <3>3 DEF SpiRecord
    <3> QED
      BY <2>1, <3>4
  <2>3. CASE ~spi.open
    BY <1>2, <2>1, <2>3 DEF Pulse!DeinitGPIOSystem
  <2> QED
    BY <2>2, <2>3
<1>3. ASSUME NEW caller_ \in Pulse!Callers, Pulse!SendCameraPrimingPulses(caller_) PROVE StrobeInv'
  <2>1. /\ primed' = [caller |-> caller_, club |-> club] /\ UNCHANGED <<setting, club, flash>>
        /\ priming' = IF spi'.handle THEN "woken" ELSE None
    BY <1>3 DEF Pulse!SendCameraPrimingPulses
  <2>2. SpiRecord(spi')
    BY <1>3 DEF Pulse!SendCameraPrimingPulses, Pulse!OpenSpi, SpiRecord
  <2>3. spi'.handle \/ priming' # None => primed' \in [caller : Pulse!Callers, club : Pulse!Clubs]
    BY <2>1
  <2> QED
    BY <2>1, <2>2, <2>3
<1>4. CASE Pulse!ReopenSpi
  <2> DEFINE rate == Pulse!RateOf(primed.caller, primed.club)
  <2>1. /\ priming # None /\ priming' = None /\ UNCHANGED <<setting, club, primed, flash>>
        /\ Pulse!OpenSpi(setting[rate].baud)
    BY <1>4 DEF Pulse!ReopenSpi
  <2>2. PICK h \in BOOLEAN : spi' = [handle |-> h, baud |-> setting[rate].baud, open |-> TRUE]
    BY <2>1 DEF Pulse!OpenSpi
  <2>3. spi'.baud = setting'[rate'].baud
    BY <2>1, <2>2
  <2>4. SpiRecord(spi')
    BY <2>2 DEF SpiRecord
  <2>5. primed' \in [caller : Pulse!Callers, club : Pulse!Clubs]
    BY <2>1
  <2> QED
    BY <2>1, <2>3, <2>4, <2>5
<1>5. CASE Pulse!SendExternalTrigger
  <2>1. priming = None /\ Pulse!Strobe(TRUE) /\ UNCHANGED <<setting, spi, club, priming, primed>>
    BY <1>5 DEF Pulse!SendExternalTrigger
  <2>2. CASE spi.handle
    <3> DEFINE lit == [shot |-> TRUE, club |-> club, primed |-> primed, baud |-> spi.baud]
    <3>1. flash' = lit
      BY <2>1, <2>2 DEF Pulse!Strobe
    <3>2. /\ flash'.club = club /\ flash'.primed = primed /\ flash'.baud = spi.baud
      BY <3>1
    <3> HIDE DEF lit
    <3>3. ASSUME club \in {"Driver", "Putter"}, primed = [caller |-> "FSM", club |-> club]
          PROVE  spi.baud = setting[Pulse!TrainOf(club)].baud
      <4>1. spi.baud = setting[Pulse!RateOf("FSM", club)].baud
        BY <2>1, <2>2, <3>3
      <4>2. Pulse!RateOf("FSM", club) = Pulse!TrainOf(club)
        BY <3>3 DEF Pulse!RateOf, Pulse!TrainOf
      <4> QED
        BY <4>1, <4>2
    <3>4. FlashRunsAtItsRate'
      BY <2>1, <3>2, <3>3 DEF Pulse!TrainOf
    <3> QED
      BY <2>1, <3>4
  <2>3. CASE ~spi.handle
    BY <2>1, <2>3 DEF Pulse!Strobe
  <2> QED
    BY <2>2, <2>3
<1>8. CASE Pulse!SendPreImageTrigger
  <2>1. /\ priming # None /\ priming' # None /\ Pulse!Strobe(FALSE)
        /\ UNCHANGED <<setting, spi, club, primed>>
    BY <1>8 DEF Pulse!SendPreImageTrigger
  <2>2. flash' = None \/ flash'.shot = FALSE
    BY <2>1 DEF Pulse!Strobe
  <2> QED
    BY <2>1, <2>2
<1>6. ASSUME NEW c \in Pulse!Clubs, Pulse!SetCurrentClubType(c) PROVE StrobeInv'
  BY <1>6 DEF Pulse!SetCurrentClubType
<1>7. CASE UNCHANGED pulseVars
  BY <1>7 DEF pulseVars
<1> QED
  BY <1>1, <1>2, <1>3, <1>4, <1>5, <1>6, <1>7, <1>8 DEF Pulse!Next

\* A shot of the driver or the putter that the FSM primed for flashes at the rate its
\* train was built for, for every configuration and whichever step of an earlier or this
\* priming failed.
THEOREM FlashIsOfItsTrain == DevicesSpec => []FlashRunsAtItsRate
<1>1. DevicesInit => StrobeInv
  BY StrobeInit DEF DevicesInit
<1>2. StrobeInv /\ [DevicesNext]_allVars => StrobeInv'
  BY OneDevice, StrobeStep
<1>3. StrobeInv => FlashRunsAtItsRate
  BY DEF StrobeInv
<1> QED
  BY <1>1, <1>2, <1>3, PTL DEF DevicesSpec

-----------------------------------------------------------------------------
(* The stream of the new camera driver.                                     *)

Statuses == {"None", "Pending", "Queued", "Complete", "Cancelled"}

\* A call that stops the camera has ended the capture before.
StopInv ==
  /\ buffers \in [Requests -> Statuses]
  /\ caller \in {"stop", "close", "switch", "switch and restart"} => ~flag.capturing
  /\ flag \in [open : BOOLEAN, configured : BOOLEAN, started : BOOLEAN, capturing : BOOLEAN,
               known : BOOLEAN]

LEMMA StopInit == Camera!Init => StopInv
BY DEF Camera!Init, Camera!All, StopInv, Statuses

LEMMA StopStep == StopInv /\ [Camera!Next]_cameraVars => StopInv'
<1> SUFFICES ASSUME StopInv, [Camera!Next]_cameraVars PROVE StopInv'
  OBVIOUS
<1> USE DEF StopInv, Statuses
<1>a. /\ Camera!Queued \in [Requests -> Statuses] /\ Camera!Cancelled \in [Requests -> Statuses]
      /\ Camera!All("None") \in [Requests -> Statuses]
      /\ Camera!All("Pending") \in [Requests -> Statuses]
      /\ Camera!All("Queued") \in [Requests -> Statuses]
  BY DEF Camera!Queued, Camera!Cancelled, Camera!All
<1>b. ASSUME UNCHANGED <<flag, buffers>>, caller' \in {caller, "idle", "capture"} PROVE StopInv'
  BY <1>b
<1>1. CASE Camera!OpenCamera
  BY <1>1 DEF Camera!OpenCamera
<1>2. CASE Camera!InitializeCamera
  <2>1. buffers' \in [Requests -> Statuses]
    BY <1>2, <1>a DEF Camera!InitializeCamera, Camera!Reconfigure, Camera!Allocated
  <2>2. caller = "idle" /\ caller' = caller
    BY <1>2 DEF Camera!InitializeCamera
  <2>3. \/ flag' = [flag EXCEPT !.configured = TRUE, !.known = TRUE]
        \/ flag' = [flag EXCEPT !.known = TRUE] \/ flag' = [flag EXCEPT !.known = FALSE]
    BY <1>2 DEF Camera!InitializeCamera, Camera!Reconfigure
  <2> QED
    BY <2>1, <2>2, <2>3
<1>3. CASE Camera!CaptureFrame
  <2>1. CASE flag.started
    <3>1. UNCHANGED <<flag, buffers>> /\ caller' = "capture"
      BY <1>3, <2>1 DEF Camera!CaptureFrame
    <3> QED
      BY <1>b, <3>1
  <2>2. CASE ~flag.started
    <3>1. flag' = [flag EXCEPT !.started = TRUE] /\ caller' = "capture"
      BY <1>3, <2>2 DEF Camera!CaptureFrame
    <3>2. buffers' \in [Requests -> Statuses]
      BY <1>3, <1>a, <2>2 DEF Camera!CaptureFrame
    <3> QED
      BY <3>1, <3>2
  <2> QED
    BY <2>1, <2>2
<1>4. CASE Camera!FrameCaptured \/ Camera!GetLatestFrame \/ Camera!ClearFrameBuffer
  <2>1. UNCHANGED <<flag, buffers>> /\ caller' \in {caller, "idle"}
    BY <1>4 DEF Camera!FrameCaptured, Camera!GetLatestFrame, Camera!ClearFrameBuffer
  <2> QED
    BY <1>b, <2>1
<1>5. CASE Camera!QueueInitialRequests \/ Camera!StartContinuousCapture
  <2>1. CASE Camera!QueueInitialRequests
    BY <1>a, <2>1 DEF Camera!QueueInitialRequests
  <2>2. CASE Camera!StartContinuousCapture
    BY <2>2 DEF Camera!StartContinuousCapture
  <2> QED
    BY <1>5, <2>1, <2>2
<1>6. CASE Camera!SwitchStream
  BY <1>6 DEF Camera!SwitchStream
<1>7. CASE Camera!CannotStop
  BY <1>7 DEF Camera!CannotStop
<1>8. ASSUME NEW call, Camera!Stopping(call) PROVE StopInv'
  BY <1>8 DEF Camera!Stopping
<1>9. CASE Camera!StopContinuousCapture \/ Camera!CloseCamera
  <2>1. CASE Camera!StopContinuousCapture
    BY <1>a, <2>1 DEF Camera!StopContinuousCapture
  <2>2. CASE Camera!CloseCamera
    BY <1>a, <2>2 DEF Camera!CloseCamera
  <2> QED
    BY <1>9, <2>1, <2>2
<1>10. ASSUME NEW m \in Camera!Modes, Camera!SetTriggerMode(m) PROVE StopInv'
  BY <1>10 DEF Camera!SetTriggerMode
<1>11. ASSUME NEW s \in Streams, Camera!StreamSwitched(s) PROVE StopInv'
  <2>1. caller' \in {"idle", "start"}
    BY <1>11 DEF Camera!StreamSwitched
  <2>2. buffers' \in [Requests -> Statuses]
    BY <1>11, <1>a DEF Camera!StreamSwitched, Camera!Allocated
  <2>3. \/ \E known \in BOOLEAN : flag' = [flag EXCEPT !.started = FALSE, !.known = known]
        \/ flag' = [flag EXCEPT !.started = FALSE, !.configured = TRUE, !.known = TRUE]
        \/ flag' = [flag EXCEPT !.started = TRUE, !.configured = TRUE, !.known = TRUE]
    BY <1>11 DEF Camera!StreamSwitched
  <2> QED
    BY <2>1, <2>2, <2>3
<1>12. ASSUME NEW r \in Requests, Camera!TakeFrame(r) \/ Camera!Reuse(r)
                               \/ Camera!LeaveComplete(r) \/ Camera!StoreAgain(r)
       PROVE  StopInv'
  <2>1. UNCHANGED <<caller, flag>>
    BY <1>12 DEF Camera!TakeFrame, Camera!Reuse, Camera!LeaveComplete, Camera!StoreAgain
  <2>2. buffers' \in [Requests -> Statuses]
    BY <1>12 DEF Camera!TakeFrame, Camera!Reuse, Camera!LeaveComplete, Camera!StoreAgain
  <2> QED
    BY <2>1, <2>2
<1>13. CASE UNCHANGED cameraVars
  BY <1>13 DEF cameraVars
<1> QED
  BY <1>1, <1>2, <1>3, <1>4, <1>5, <1>6, <1>7, <1>8, <1>9, <1>10, <1>11, <1>12, <1>13
     DEF Camera!Next

\* While it captures, the driver spends no request: what a callback took is queued
\* again, and only calls that have ended the capture cancel or free anything.
LEMMA CaptureKeepsRequests ==
    ASSUME StopInv, Camera!Next, flag.capturing, flag'.capturing
    PROVE  Camera!Spent' \subseteq Camera!Spent
<1> DEFINE Goal == Camera!Spent' \subseteq Camera!Spent
<1> SUFFICES Goal
  OBVIOUS
<1>0. caller \notin {"stop", "close", "switch", "switch and restart"}
  BY DEF StopInv
<1>a. ASSUME UNCHANGED <<buffers, callback>> PROVE Goal
  BY <1>a DEF Camera!Spent
<1>b. ASSUME buffers' = Camera!Queued, UNCHANGED callback PROVE Goal
  BY <1>b DEF Camera!Spent, Camera!Queued
<1>1. CASE Camera!OpenCamera
  BY <1>1, <1>a DEF Camera!OpenCamera
<1>2. CASE Camera!InitializeCamera
  <2>1. UNCHANGED callback
    BY <1>2 DEF Camera!InitializeCamera
  <2>2. UNCHANGED buffers \/ buffers' = Camera!All("Pending") \/ buffers' = Camera!All("None")
    BY <1>2 DEF Camera!InitializeCamera, Camera!Reconfigure, Camera!Allocated
  <2> QED
    BY <1>a, <2>1, <2>2 DEF Camera!All, Camera!Spent
<1>3. CASE Camera!CaptureFrame
  BY <1>3, <1>a, <1>b DEF Camera!CaptureFrame
<1>4. CASE Camera!FrameCaptured \/ Camera!GetLatestFrame \/ Camera!ClearFrameBuffer
  BY <1>4, <1>a DEF Camera!FrameCaptured, Camera!GetLatestFrame, Camera!ClearFrameBuffer
<1>5. CASE Camera!QueueInitialRequests \/ Camera!StartContinuousCapture
  BY <1>5, <1>a, <1>b DEF Camera!QueueInitialRequests, Camera!StartContinuousCapture
<1>6. CASE Camera!SwitchStream \/ \E call \in {"stop", "close"} : Camera!Stopping(call)
  BY <1>6, <1>a DEF Camera!SwitchStream, Camera!Stopping
<1>7. CASE \/ Camera!CannotStop \/ Camera!StopContinuousCapture \/ Camera!CloseCamera
           \/ \E s \in Streams : Camera!StreamSwitched(s)
  BY <1>0, <1>7 DEF Camera!CannotStop, Camera!StopContinuousCapture, Camera!CloseCamera,
                    Camera!StreamSwitched, Camera!Switch
<1>8. ASSUME NEW m \in Camera!Modes, Camera!SetTriggerMode(m) PROVE Goal
  BY <1>8, <1>a DEF Camera!SetTriggerMode
<1>9. ASSUME NEW r \in Requests, Camera!TakeFrame(r) PROVE Goal
  <2>1. callback' = r /\ \A q \in Requests \ {r} : buffers'[q] = buffers[q]
    BY <1>9 DEF Camera!TakeFrame, StopInv
  <2>2. callback = None
    BY <1>9 DEF Camera!TakeFrame
  <2> QED
    BY <2>1, <2>2, NoneAssumption DEF Camera!Spent
<1>10. ASSUME NEW r \in Requests, Camera!Reuse(r) PROVE Goal
  <2>1. callback = r /\ callback' = None /\ buffers' = [buffers EXCEPT ![r] = "Queued"]
    BY <1>10 DEF Camera!Reuse
  <2>2. ASSUME NEW q \in Camera!Spent' PROVE q \in Camera!Spent
    <3>1. q \in Requests /\ buffers'[q] \in {"Complete", "Cancelled"}
      BY <2>2 DEF Camera!Spent
    <3>2. q # r => buffers'[q] = buffers[q]
      BY <2>1, <3>1
    <3>3. q # r
      <4>1. SUFFICES ASSUME q = r PROVE buffers'[q] \notin {"Complete", "Cancelled"}
        BY <3>1
      <4> QED
        BY <2>1, <4>1 DEF StopInv
    <3> QED
      BY <2>1, <3>1, <3>2, <3>3 DEF Camera!Spent
  <2> QED
    BY <2>2
<1>11. ASSUME NEW r \in Requests, Camera!LeaveComplete(r) PROVE Goal
  BY <1>11 DEF Camera!LeaveComplete, Camera!Spent
<1>12. ASSUME NEW r \in Requests, Camera!StoreAgain(r) PROVE Goal
  BY <1>12, <1>a DEF Camera!StoreAgain
<1> QED
  BY <1>1, <1>2, <1>3, <1>4, <1>5, <1>6, <1>7, <1>8, <1>9, <1>10, <1>11, <1>12 DEF Camera!Next

\* While isCapturing_ is set no request is left behind, for any number of requests,
\* streams, frames and connections of the callback: also one whose callback, a second
\* initializeCamera, a switch or a stop overlaps that.  A request that comes back before
\* the flag is set is not among them.
THEOREM CaptureKeepsItsBuffers == DevicesSpec => CaptureLosesNoBuffer
<1>1. DevicesInit => StopInv
  BY StopInit DEF DevicesInit
<1>2. StopInv /\ [DevicesNext]_allVars => StopInv'
  BY OneDevice, StopStep
<1>3. StopInv /\ [DevicesNext]_allVars =>
         [(flag.capturing /\ flag'.capturing) => Camera!Spent' \subseteq Camera!Spent]_Camera!vars
  BY OneDevice, CaptureKeepsRequests DEF Camera!vars, Camera!connection, cameraVars
<1> QED
  BY <1>1, <1>2, <1>3, PTL DEF DevicesSpec, CaptureLosesNoBuffer, Camera!CaptureLosesNoBuffer

-----------------------------------------------------------------------------
(* The frames of that stream.                                               *)

\* The frames of a sequence are in the order they were taken in, after frame low and
\* up to frame top; with dup, a frame may be there twice.
InOrder(b, low, top, dup) ==
  /\ b \in Seq(Nat) /\ Len(b) <= MaxBuffer
  /\ \A i \in 1..Len(b) : (low < b[i] \/ (dup /\ low = b[i])) /\ b[i] <= top
  /\ \A i, j \in 1..Len(b) : i < j => b[i] < b[j] \/ (dup /\ b[i] = b[j])

LEMMA EmptyInOrder == ASSUME NEW low, NEW top, NEW dup PROVE InOrder(<<>>, low, top, dup)
BY StreamAssumption DEF InOrder

\* The newest frame keeps the order, also when the oldest makes room for it.
LEMMA AddedInOrder ==
    ASSUME NEW low \in Nat, NEW top \in Nat, NEW n \in Nat, NEW dup \in BOOLEAN,
           low <= top, n = top + 1 \/ (dup /\ n = top), InOrder(buffer, low, top, dup)
    PROVE  InOrder(Camera!Added(n), low, n, dup)
<1> USE StreamAssumption
<1>1. buffer \in Seq(Nat) /\ Len(buffer) \in Nat
  BY LenProperties DEF InOrder
<1>2. ASSUME NEW s \in Seq(Nat), Len(s) < MaxBuffer,
             \A i \in 1..Len(s) : (low < s[i] \/ (dup /\ low = s[i])) /\ s[i] <= top,
             \A i, j \in 1..Len(s) : i < j => s[i] < s[j] \/ (dup /\ s[i] = s[j])
      PROVE  InOrder(Append(s, n), low, n, dup)
  <2> DEFINE t == Append(s, n)
  <2>1. /\ t \in Seq(Nat) /\ Len(t) = Len(s) + 1 /\ t[Len(s) + 1] = n
        /\ \A i \in 1..Len(s) : t[i] = s[i]
    BY <1>1, <1>2, AppendProperties
  <2>2. Len(s) \in Nat /\ \A i \in 1..Len(s) : s[i] \in Nat
    BY LenProperties, ElementOfSeq
  <2> HIDE DEF t
  <2>3. \A i \in 1..Len(t) : i = Len(s) + 1 \/ i \in 1..Len(s)
    BY <2>1, <2>2
  <2>4. ASSUME NEW i \in 1..Len(t) PROVE (low < t[i] \/ (dup /\ low = t[i])) /\ t[i] <= n
    <3>1. CASE i = Len(s) + 1
      BY <2>1, <3>1
    <3>2. CASE i \in 1..Len(s)
      <4>1. t[i] = s[i] /\ s[i] \in Nat /\ (low < s[i] \/ (dup /\ low = s[i])) /\ s[i] <= top
        BY <1>2, <2>1, <2>2, <3>2
      <4> QED
        BY <4>1
    <3> QED
      BY <2>3, <3>1, <3>2
  <2>5. \A i, j \in 1..Len(t) : i < j => t[i] < t[j] \/ (dup /\ t[i] = t[j])
    <3> SUFFICES ASSUME NEW i \in 1..Len(t), NEW j \in 1..Len(t), i < j
                 PROVE  t[i] < t[j] \/ (dup /\ t[i] = t[j])
      OBVIOUS
    <3>1. i \in 1..Len(s) /\ t[i] = s[i] /\ s[i] <= top /\ s[i] \in Nat
      BY <1>2, <2>1, <2>2
    <3>2. CASE j = Len(s) + 1
      <4>1. t[j] = n
        BY <2>1, <3>2
      <4> QED
        BY <3>1, <4>1
    <3>3. CASE j \in 1..Len(s)
      BY <1>2, <2>1, <3>1, <3>3
    <3> QED
      BY <2>3, <3>2, <3>3
  <2>6. Len(t) <= MaxBuffer
    BY <1>2, <2>1, <2>2
  <2>7. InOrder(t, low, n, dup)
    BY <2>1, <2>4, <2>5, <2>6 DEF InOrder
  <2> QED
    BY <2>7 DEF t
<1>3. CASE Len(buffer) < MaxBuffer
  BY <1>1, <1>2, <1>3 DEF InOrder, Camera!Added
<1>4. CASE ~(Len(buffer) < MaxBuffer)
  <2>1. buffer # <<>>
    BY <1>1, <1>4, EmptySeq
  <2> DEFINE s == Tail(buffer)
  <2>2. s \in Seq(Nat) /\ Len(s) = Len(buffer) - 1 /\ \A i \in 1..Len(s) : s[i] = buffer[i + 1]
    BY <1>1, <2>1, HeadTailProperties
  <2> HIDE DEF s
  <2>3. Len(s) < MaxBuffer
    BY <1>1, <2>2 DEF InOrder
  <2>4. \A i \in 1..Len(s) : i + 1 \in 1..Len(buffer)
    BY <1>1, <2>2
  <2>5. \A i \in 1..Len(s) : (low < s[i] \/ (dup /\ low = s[i])) /\ s[i] <= top
    BY <2>2, <2>4 DEF InOrder
  <2>6. \A i, j \in 1..Len(s) : i < j => s[i] < s[j] \/ (dup /\ s[i] = s[j])
    <3> SUFFICES ASSUME NEW i \in 1..Len(s), NEW j \in 1..Len(s), i < j
                 PROVE  s[i] < s[j] \/ (dup /\ s[i] = s[j])
      OBVIOUS
    <3>1. i + 1 < j + 1 /\ i + 1 \in 1..Len(buffer) /\ j + 1 \in 1..Len(buffer)
      BY <2>4
    <3> QED
      BY <2>2, <3>1 DEF InOrder
  <2>7. InOrder(Append(s, n), low, n, dup)
    BY <1>2, <2>2, <2>3, <2>5, <2>6
  <2> QED
    BY <1>4, <2>7 DEF s, Camera!Added
<1> QED
  BY <1>3, <1>4

\* What was in order still is when duplicates are allowed.
LEMMA InOrderWithTwice ==
    ASSUME NEW low, NEW top, InOrder(buffer, low, top, twice), twice => twice', twice \in BOOLEAN
    PROVE  InOrder(buffer, low, top, twice')
BY DEF InOrder

\* Only a call in free-running mode waits for a frame, and whatever waits was taken
\* after what was handed out in its mode.
FrameInv ==
  /\ caller = "capture" => mode = "FREE_RUNNING"
  /\ mode \in Camera!Modes
  /\ frames \in Nat /\ latest \in 0..frames
  /\ captured \in [Camera!Modes -> 0..frames]
  /\ slots \in Nat /\ calls \in Int /\ twice \in BOOLEAN /\ stored \in BOOLEAN
  /\ ~twice => slots <= 1 /\ calls <= 1 /\ (callback = None \/ stored)
  /\ ready => captured["FREE_RUNNING"] < latest \/ (twice /\ captured["FREE_RUNNING"] = latest)
  /\ InOrder(buffer, captured["EXTERNAL_TRIGGER"], frames, twice)

LEMMA FrameInit == Camera!Init => FrameInv
<1> SUFFICES ASSUME Camera!Init PROVE FrameInv
  OBVIOUS
<1>1. InOrder(buffer, captured["EXTERNAL_TRIGGER"], frames, twice)
  BY EmptyInOrder DEF Camera!Init
<1>2. captured \in [Camera!Modes -> 0..frames] /\ frames = 0 /\ latest = 0 /\ ready = FALSE
  BY DEF Camera!Init
<1>3. slots = 0 /\ calls = 0 /\ stored = FALSE /\ twice = FALSE /\ callback = None
  BY DEF Camera!Init
<1>4. caller = "idle" /\ mode \in Camera!Modes
  BY DEF Camera!Init
<1>5. frames \in Nat /\ latest \in 0..frames
  BY <1>2
<1>6. slots \in Nat /\ calls \in Int
  BY <1>3
<1>10. twice \in BOOLEAN /\ stored \in BOOLEAN
  BY <1>3, Zenon
<1>7. ~twice => slots <= 1 /\ calls <= 1 /\ (callback = None \/ stored)
  BY <1>3
<1>8. ready => captured["FREE_RUNNING"] < latest \/ (twice /\ captured["FREE_RUNNING"] = latest)
  BY <1>2
<1>9. caller = "capture" => mode = "FREE_RUNNING"
  BY <1>4
<1> QED
  BY <1>1, <1>2, <1>4, <1>5, <1>6, <1>7, <1>8, <1>9, <1>10 DEF FrameInv

\* Storing the newest frame, for the first time or again, keeps all that.
LEMMA StoreInOrder ==
    ASSUME FrameInv, NEW n \in Nat, n = frames + 1 \/ (twice /\ n = frames), Camera!Store(n)
    PROVE  /\ latest' \in 0..n
           /\ ready' => \/ captured["FREE_RUNNING"] < latest'
                        \/ twice /\ captured["FREE_RUNNING"] = latest'
           /\ InOrder(buffer', captured["EXTERNAL_TRIGGER"], n, twice)
<1> USE DEF FrameInv
<1>1. captured["EXTERNAL_TRIGGER"] \in 0..frames /\ captured["FREE_RUNNING"] \in 0..frames
  BY DEF Camera!Modes
<1>2. \A i \in 1..Len(buffer) : buffer[i] \in Nat /\ buffer[i] <= n
  BY ElementOfSeq DEF InOrder
<1>3. InOrder(buffer, captured["EXTERNAL_TRIGGER"], n, twice)
  BY <1>2 DEF InOrder
<1>4. CASE UNCHANGED <<latest, ready, buffer>>
  BY <1>3, <1>4
<1>5. CASE buffer' = Camera!Added(n) /\ UNCHANGED <<latest, ready>>
  <2>1. InOrder(buffer', captured["EXTERNAL_TRIGGER"], n, twice)
    BY <1>1, <1>5, AddedInOrder
  <2> QED
    BY <1>5, <2>1
<1>6. CASE latest' = n /\ ready' = TRUE /\ UNCHANGED buffer
  <2>1. captured["FREE_RUNNING"] < n \/ (twice /\ captured["FREE_RUNNING"] = n)
    BY <1>1
  <2> QED
    BY <1>3, <1>6, <2>1
<1> QED
  BY <1>4, <1>5, <1>6 DEF Camera!Store

LEMMA FrameStep == FrameInv /\ [Camera!Next]_cameraVars => FrameInv'
<1> SUFFICES ASSUME FrameInv, [Camera!Next]_cameraVars PROVE FrameInv'
  OBVIOUS
<1> USE DEF FrameInv
<1>a. ASSUME UNCHANGED Camera!frame, UNCHANGED mode, caller' \in {caller, "idle", "start"},
             UNCHANGED <<callback, calls, stored, twice>>, slots' \in Nat, slots' <= slots \/ slots' <= 1
      PROVE  FrameInv'
  BY <1>a DEF Camera!frame
<1>1. CASE \/ Camera!OpenCamera \/ Camera!QueueInitialRequests \/ Camera!StartContinuousCapture
           \/ Camera!CannotStop \/ Camera!StopContinuousCapture \/ Camera!CloseCamera
  <2>1. UNCHANGED Camera!frame /\ UNCHANGED mode /\ caller' \in {caller, "idle", "start"}
    BY <1>1 DEF Camera!OpenCamera, Camera!QueueInitialRequests, Camera!StartContinuousCapture,
       Camera!CannotStop, Camera!StopContinuousCapture, Camera!CloseCamera
  <2>2. UNCHANGED <<callback, calls, stored, twice>> /\ slots' \in {slots, 0}
    BY <1>1 DEF Camera!OpenCamera, Camera!QueueInitialRequests, Camera!StartContinuousCapture,
       Camera!CannotStop, Camera!StopContinuousCapture, Camera!CloseCamera, Camera!connection
  <2> QED
    BY <1>a, <2>1, <2>2
<1>2. ASSUME NEW s \in Streams, Camera!StreamSwitched(s) PROVE FrameInv'
  <2>1. UNCHANGED Camera!frame /\ UNCHANGED mode /\ caller' \in {caller, "idle", "start"}
    BY <1>2 DEF Camera!StreamSwitched
  <2>2. UNCHANGED <<callback, calls, stored, twice>> /\ slots' \in {0, 1}
    BY <1>2 DEF Camera!StreamSwitched
  <2> QED
    BY <1>a, <2>1, <2>2
<1>3. CASE Camera!InitializeCamera
  <2>1. UNCHANGED Camera!frame /\ UNCHANGED <<caller, mode, callback, calls, stored>>
    BY <1>3 DEF Camera!InitializeCamera
  <2>2. slots' \in {slots, slots + 1} /\ twice' = (twice \/ slots' > 1)
    BY <1>3 DEF Camera!InitializeCamera, Camera!Reconfigure
  <2>3. InOrder(buffer, captured["EXTERNAL_TRIGGER"], frames, twice')
    BY <2>2, InOrderWithTwice
  <2>4. UNCHANGED <<frames, latest, ready, buffer, captured>>
    BY <2>1 DEF Camera!frame
  <2>5. slots' \in Nat /\ twice' \in BOOLEAN /\ (twice => twice') /\ (~twice' => slots' <= 1)
    <3>1. CASE twice \/ slots' > 1
      <4>1. twice' = TRUE
        BY <2>2, <3>1
      <4> QED
        BY <2>2, <4>1
    <3>2. CASE ~twice /\ ~(slots' > 1)
      <4>1. twice' = FALSE
        BY <2>2, <3>2
      <4> QED
        BY <2>2, <3>2, <4>1
    <3> QED
      BY <3>1, <3>2
  <2> QED
    BY <2>1, <2>3, <2>4, <2>5
<1>4. ASSUME NEW call \in {"stop", "close"}, Camera!Stopping(call) PROVE FrameInv'
  BY <1>4 DEF Camera!Stopping, Camera!frame, Camera!connection
<1>5. CASE Camera!CaptureFrame \/ Camera!SwitchStream
  <2>1. CASE Camera!CaptureFrame
    BY <2>1 DEF Camera!CaptureFrame, Camera!frame, Camera!connection
  <2>2. CASE Camera!SwitchStream
    BY <2>2 DEF Camera!SwitchStream, Camera!frame, Camera!connection
  <2> QED
    BY <1>5, <2>1, <2>2
<1>6. CASE Camera!FrameCaptured
  <2>1. mode = "FREE_RUNNING" /\ mode' = mode /\ caller' = "idle" /\ ready' = FALSE
    BY <1>6 DEF Camera!FrameCaptured
  <2>2. UNCHANGED <<frames, latest, buffer, callback, slots, calls, stored, twice>>
    BY <1>6 DEF Camera!FrameCaptured, Camera!connection
  <2>3. /\ captured' \in [Camera!Modes -> 0..frames]
        /\ captured'["EXTERNAL_TRIGGER"] = captured["EXTERNAL_TRIGGER"]
    BY <1>6, <2>1 DEF Camera!FrameCaptured, Camera!Modes
  <2> QED
    BY <2>1, <2>2, <2>3
<1>7. CASE Camera!GetLatestFrame
  <2>1. /\ mode = "EXTERNAL_TRIGGER" /\ buffer # <<>> /\ buffer' = <<>>
        /\ captured' = [captured EXCEPT ![mode] = buffer[Len(buffer)]]
        /\ UNCHANGED <<caller, mode, frames, latest, ready>>
    BY <1>7 DEF Camera!GetLatestFrame
  <2>0. UNCHANGED <<callback, slots, calls, stored, twice>>
    BY <1>7 DEF Camera!GetLatestFrame, Camera!connection
  <2>2. Len(buffer) \in 1..Len(buffer)
    BY <2>1, EmptySeq DEF InOrder
  <2>3. buffer[Len(buffer)] \in 0..frames
    BY <2>2, ElementOfSeq DEF InOrder
  <2>4. /\ captured' \in [Camera!Modes -> 0..frames]
        /\ captured'["FREE_RUNNING"] = captured["FREE_RUNNING"]
    BY <2>1, <2>3 DEF Camera!Modes
  <2>5. InOrder(buffer', captured'["EXTERNAL_TRIGGER"], frames', twice')
    BY <2>1, EmptyInOrder
  <2> QED
    BY <2>0, <2>1, <2>4, <2>5
<1>8. CASE Camera!ClearFrameBuffer
  <2>1. buffer' = <<>> /\ UNCHANGED <<caller, mode, frames, latest, ready, captured>>
    BY <1>8 DEF Camera!ClearFrameBuffer
  <2>2. InOrder(buffer', captured'["EXTERNAL_TRIGGER"], frames', twice')
    BY <2>1, EmptyInOrder
  <2>3. UNCHANGED <<callback, slots, calls, stored, twice>>
    BY <1>8 DEF Camera!ClearFrameBuffer, Camera!connection
  <2> QED
    BY <2>1, <2>2, <2>3
<1>9. ASSUME NEW m \in Camera!Modes, Camera!SetTriggerMode(m) PROVE FrameInv'
  BY <1>9 DEF Camera!SetTriggerMode, Camera!frame, Camera!connection
<1>10. ASSUME NEW r \in Requests, Camera!TakeFrame(r) PROVE FrameInv'
  <2>1. frames' = frames + 1 /\ UNCHANGED <<caller, mode, captured, slots, twice>>
    BY <1>10 DEF Camera!TakeFrame
  <2>2. captured' \in [Camera!Modes -> 0..frames']
    BY <2>1 DEF Camera!Modes
  <2>3. calls' = slots /\ stored' = TRUE
    BY <1>10 DEF Camera!TakeFrame
  <2>4. Camera!Store(frames + 1) /\ frames + 1 \in Nat
    BY <1>10, <2>1 DEF Camera!TakeFrame
  <2>5. /\ latest' \in 0..frames'
        /\ ready' => \/ captured["FREE_RUNNING"] < latest'
                     \/ twice /\ captured["FREE_RUNNING"] = latest'
        /\ InOrder(buffer', captured["EXTERNAL_TRIGGER"], frames', twice)
    BY <2>1, <2>4, StoreInOrder
  <2> QED
    BY <2>1, <2>2, <2>3, <2>5
<1>11. ASSUME NEW r \in Requests, Camera!Reuse(r) \/ Camera!LeaveComplete(r) PROVE FrameInv'
  <2>1. UNCHANGED <<caller, mode, frames, latest, ready, buffer, captured, slots, twice>>
    BY <1>11 DEF Camera!Reuse, Camera!LeaveComplete, Camera!frame
  <2>2. /\ calls' = 0 \/ calls' = calls - 1
        /\ stored' = FALSE
        /\ callback' = None \/ calls > 1
    BY <1>11 DEF Camera!Reuse, Camera!LeaveComplete
  <2>3. calls' \in Int /\ (~twice => calls' <= 1 /\ callback' = None)
    BY <2>2
  <2>4. stored' \in BOOLEAN
    BY <2>2
  <2> QED
    BY <2>1, <2>3, <2>4
<1>12. ASSUME NEW r \in Requests, Camera!StoreAgain(r) PROVE FrameInv'
  <2>1. UNCHANGED <<caller, mode, callback, frames, captured, slots, calls, twice>> /\ stored' = TRUE
    BY <1>12 DEF Camera!StoreAgain
  <2>2. twice /\ Camera!Store(frames)
    BY <1>12, NoneAssumption DEF Camera!StoreAgain
  <2>3. /\ latest' \in 0..frames
        /\ ready' => \/ captured["FREE_RUNNING"] < latest'
                     \/ twice /\ captured["FREE_RUNNING"] = latest'
        /\ InOrder(buffer', captured["EXTERNAL_TRIGGER"], frames, twice)
    BY <2>2, StoreInOrder
  <2> QED
    BY <2>1, <2>3
<1>13. CASE UNCHANGED cameraVars
  BY <1>13, <1>a DEF cameraVars, Camera!frame
<1> QED
  BY <1>1, <1>2, <1>3, <1>4, <1>5, <1>6, <1>7, <1>8, <1>9, <1>10, <1>11, <1>12, <1>13 DEF Camera!Next

\* No frame is handed out after a later one, nor twice by a camera whose callback was
\* never connected twice, for every size of the buffer, number of requests and frames.
THEOREM FramesStayInOrder == DevicesSpec => []FramesInOrder
<1>1. DevicesInit => FrameInv
  BY FrameInit DEF DevicesInit
<1>2. FrameInv /\ [DevicesNext]_allVars => FrameInv'
  BY OneDevice, FrameStep
<1>3. FrameInv => FramesInOrder
  <2> SUFFICES ASSUME FrameInv PROVE FramesInOrder
    OBVIOUS
  <2>1. ready => Camera!Follows(captured["FREE_RUNNING"], latest)
    BY DEF FrameInv, Camera!Follows
  <2>2. ASSUME NEW i \in 1..Len(buffer)
        PROVE  Camera!Follows(IF i = 1 THEN captured["EXTERNAL_TRIGGER"] ELSE buffer[i - 1], buffer[i])
    <3>1. buffer \in Seq(Nat) /\ Len(buffer) \in Nat /\ buffer[i] \in Nat
      BY ElementOfSeq, LenProperties DEF FrameInv, InOrder
    <3>2. CASE i = 1
      BY <3>1, <3>2 DEF FrameInv, InOrder, Camera!Modes, Camera!Follows
    <3>3. CASE i # 1
      <4>1. i - 1 \in 1..Len(buffer) /\ i - 1 < i
        BY <3>1, <3>3
      <4>2. buffer[i - 1] < buffer[i] \/ (twice /\ buffer[i - 1] = buffer[i])
        BY <4>1 DEF FrameInv, InOrder
      <4> QED
        BY <3>3, <4>2 DEF Camera!Follows
    <3> QED
      BY <3>2, <3>3
  <2> QED
    BY <2>1, <2>2 DEF FramesInOrder, Camera!FramesInOrder
<1> QED
  BY <1>1, <1>2, <1>3, PTL DEF DevicesSpec

-----------------------------------------------------------------------------
(* The watch of camera 1's sensor.                                          *)

\* Even rounds up to an even number.
LEMMA EvenIsNext ==
    ASSUME NEW n \in Nat
    PROVE  /\ Watch!Even(n) \in Nat /\ Watch!Even(n) % 2 = 0
           /\ Watch!Even(n) <= n + 1
           /\ n % 2 = 0 => Watch!Even(n) = n
BY DEF Watch!Even

\* The window on a ball is even and smaller than the sensor.
LEMMA WindowSize ==
    ASSUME NEW a \in Watch!Axes
    PROVE  /\ Watch!CropSize(a) \in Nat /\ Watch!CropSize(a) % 2 = 0
           /\ Watch!CropSize(a) < Resolution[a]
<1>1. MaxCrop[a] \in Nat /\ MaxCrop[a] + 1 < Resolution[a] /\ Resolution[a] \in Int
  BY WatchAssumption
<1>2. Watch!CropSize(a) = Watch!Even(MaxCrop[a])
  BY DEF Watch!CropSize
<1> DEFINE m == Watch!Even(MaxCrop[a])
<1>3. m \in Nat /\ m % 2 = 0 /\ m <= MaxCrop[a] + 1
  BY <1>1, EvenIsNext
<1> HIDE DEF m
<1>4. m < Resolution[a]
  BY <1>1, <1>3
<1> QED
  BY <1>2, <1>3, <1>4 DEF m

\* The region of a ball lies in the middle of its window, to a pixel.
LEMMA RegionIsCentred ==
    ASSUME NEW b \in Balls, NEW a \in Watch!Axes
    PROVE  /\ Watch!RegionOfInterest(b)[a].offset \in Nat
           /\ Watch!RegionOfInterest(b)[a].size \in Nat
           /\ 2 * Watch!RegionOfInterest(b)[a].offset + Watch!RegionOfInterest(b)[a].size
                \in (Watch!CropSize(a) - 1)..Watch!CropSize(a)
<1> DEFINE square == Watch!InscribedSquare(b)
           n == Watch!CropSize(a)
<1>1. n \in Nat
  BY WindowSize
<1>2. square \in Nat
  BY WatchAssumption DEF Watch!InscribedSquare
<1>3. Watch!RegionOfInterest(b)[a] = IF square >= n
         THEN [size |-> n, offset |-> 0] ELSE [size |-> square, offset |-> (n - square) \div 2]
  BY DEF Watch!RegionOfInterest
<1> HIDE DEF square, n
<1>4. CASE square >= n
  <2>1. Watch!RegionOfInterest(b)[a].size = n /\ Watch!RegionOfInterest(b)[a].offset = 0
    BY <1>3, <1>4
  <2> QED
    BY <1>1, <2>1 DEF n
<1>5. CASE ~(square >= n)
  <2>1. /\ Watch!RegionOfInterest(b)[a].size = square
        /\ Watch!RegionOfInterest(b)[a].offset = (n - square) \div 2
    BY <1>3, <1>5
  <2> DEFINE half == (n - square) \div 2
  <2>2. half \in Nat /\ 2 * half + square \in (n - 1)..n
    BY <1>1, <1>2, <1>5
  <2> HIDE DEF half
  <2> QED
    BY <1>2, <2>1, <2>2 DEF half, n
<1> QED
  BY <1>4, <1>5

\* Through the window asked for it, motion that counts is motion inside the ball, also
\* when the region is that of an earlier ball of the same window.
LEMMA MotionIsInsideTheBall ==
    ASSUME NEW b \in Balls, ~Watch!Corrected(b), NEW c \in Balls,
           Watch!Window(b) = Watch!Window(c), NEW a \in Watch!Axes
    PROVE  LET r == Watch!RegionOfInterest(c)
           IN  /\ Watch!LowEdge(Watch!Window(b), r, a) >= b.at[a] - b.radius
               /\ Watch!LowEdge(Watch!Window(b), r, a) + r[a].size <= b.at[a] + b.radius
<1> DEFINE n == Watch!CropSize(a)
           half == n \div 2
           size == Watch!RegionOfInterest(c)[a].size
           offset == Watch!RegionOfInterest(c)[a].offset
<1>1. n \in Nat /\ n % 2 = 0
  BY WindowSize
<1>2. /\ b.at[a] \in Int /\ b.radius \in Nat /\ Resolution[a] \in Int /\ Skew[a] \in Int
  BY WatchAssumption
<1>3. /\ Watch!Window(b)[a].size = n
      /\ Watch!Window(b)[a].offset = Skew[a] + Resolution[a] - (b.at[a] + half)
  BY DEF Watch!Window, Watch!Corrected, Watch!Centred
<1>4. offset \in Nat /\ size \in Nat /\ 2 * offset + size \in (n - 1)..n
  BY RegionIsCentred
<1>5. size <= 2 * b.radius
  BY SeenAgainAssumption
<1>6. Watch!LowEdge(Watch!Window(b), Watch!RegionOfInterest(c), a)
        = Resolution[a] - Watch!Window(b)[a].offset - Watch!Window(b)[a].size + offset + Skew[a]
  BY DEF Watch!LowEdge
<1> HIDE DEF n, size, offset
<1>7. half \in Nat /\ n = half + half
  BY <1>1
<1> HIDE DEF half
<1>8. Watch!LowEdge(Watch!Window(b), Watch!RegionOfInterest(c), a) = b.at[a] - half + offset
  BY <1>2, <1>3, <1>4, <1>6, <1>7
<1>9. /\ b.at[a] - half + offset >= b.at[a] - b.radius
      /\ b.at[a] - half + offset + size <= b.at[a] + b.radius
  BY <1>2, <1>4, <1>5, <1>7
<1> QED
  BY <1>8, <1>9 DEF size

Windows == {Watch!Whole} \cup {Watch!Window(b) : b \in Balls}

\* Whatever commands failed unseen, the sensor has the whole picture or a window of
\* a ball; and the region the detector was given is that of some ball of the window
\* that is remembered.
WatchInv ==
  /\ sensor \in Windows /\ picture \in Windows
  /\ crop \in [kind : {"Unknown", "FullScreen", "Cropped"}, window : Windows]
  /\ watch \in {"crop", "watching"} => picture = Watch!Whole /\ ball \in Balls
  /\ crop.kind = "Cropped" =>
       \E c \in Balls : crop.window = Watch!Window(c) /\ roi = Watch!RegionOfInterest(c)
  /\ watch = "watching" => crop = Watch!Remembered(ball)

LEMMA WatchInit == Watch!Init => WatchInv
BY DEF Watch!Init, WatchInv, Windows

\* Only a picture of the whole sensor has the size in which a ball is looked for.
LEMMA OnlyTheWholeFits ==
    ASSUME picture \in Windows, Watch!FitsResolution PROVE picture = Watch!Whole
<1>1. SUFFICES ASSUME NEW b \in Balls, picture = Watch!Window(b) PROVE FALSE
  BY DEF Windows
<1>2. picture["x"].size = Watch!CropSize("x") /\ "x" \in Watch!Axes
  BY <1>1 DEF Watch!Window, Watch!Axes
<1>3. Watch!CropSize("x") < Resolution["x"] /\ Watch!CropSize("x") \in Nat
  BY <1>2, WindowSize
<1>4. Watch!CropSize("x") = Resolution["x"]
  BY <1>2 DEF Watch!FitsResolution
<1> QED
  BY <1>3, <1>4

LEMMA WatchStepInv == WatchInv /\ [Watch!Next]_watchVars => WatchInv'
<1> SUFFICES ASSUME WatchInv, [Watch!Next]_watchVars PROVE WatchInv'
  OBVIOUS
<1> USE DEF WatchInv
<1>1. CASE Watch!ConfigCameraForFullScreenWatching
  <2>1. watch' = "still" /\ UNCHANGED <<picture, ball, roi>>
    BY <1>1 DEF Watch!ConfigCameraForFullScreenWatching
  <2>2. sensor' \in Windows
    BY <1>1 DEF Watch!ConfigCameraForFullScreenWatching, Watch!Command, Windows
  <2>3. UNCHANGED crop \/ crop' = [crop EXCEPT !.kind = "FullScreen"]
    BY <1>1 DEF Watch!ConfigCameraForFullScreenWatching
  <2>4. CASE UNCHANGED crop
    BY <2>1, <2>2, <2>4
  <2>5. CASE crop' = [crop EXCEPT !.kind = "FullScreen"]
    BY <2>1, <2>2, <2>5
  <2> QED
    BY <2>3, <2>4, <2>5
<1>2. CASE Watch!ConfigureForLibcameraStill
  <2>1. watch' \in {"take", "fullscreen"} /\ UNCHANGED <<sensor, crop, picture, roi>>
    BY <1>2 DEF Watch!ConfigureForLibcameraStill, Watch!Retry
  <2> QED
    BY <2>1
<1>3. CASE Watch!TakeLibcameraStill
  <2>1. watch' \in {"search", "fullscreen"} /\ UNCHANGED <<sensor, crop, roi>>
    BY <1>3 DEF Watch!TakeLibcameraStill, Watch!Retry
  <2>2. picture' \in {sensor, picture}
    BY <1>3 DEF Watch!TakeLibcameraStill
  <2> QED
    BY <2>1, <2>2
<1>4. CASE Watch!GetCalibratedBall
  <2>1. UNCHANGED <<sensor, crop, picture, roi>>
    BY <1>4 DEF Watch!GetCalibratedBall
  <2>2. \/ watch' = "fullscreen"
        \/ watch' = "crop" /\ ball' \in Balls /\ Watch!FitsResolution
    BY <1>4 DEF Watch!GetCalibratedBall, Watch!Retry
  <2>3. watch' = "crop" => picture = Watch!Whole
    BY <2>2, OnlyTheWholeFits
  <2> QED
    BY <2>1, <2>2, <2>3
<1>5. CASE Watch!ConfigCameraForCropping
  <2>1. watch = "crop" /\ ball \in Balls /\ UNCHANGED picture
    BY <1>5 DEF Watch!ConfigCameraForCropping
  <2>2. sensor' \in Windows
    BY <1>5, <2>1 DEF Watch!ConfigCameraForCropping, Watch!Command, Windows
  <2>3. \/ watch' = "fullscreen" /\ UNCHANGED <<crop, roi>>
        \/ crop = Watch!Remembered(ball) /\ watch' = "watching" /\ UNCHANGED <<crop, ball, roi>>
        \/ /\ crop' = Watch!Remembered(ball) /\ roi' = Watch!RegionOfInterest(ball)
           /\ watch' = "watching" /\ UNCHANGED ball
    BY <1>5 DEF Watch!ConfigCameraForCropping, Watch!Retry
  <2>4. /\ Watch!Remembered(ball).kind = "Cropped"
        /\ Watch!Remembered(ball).window = Watch!Window(ball)
        /\ Watch!Remembered(ball) \in
             [kind : {"Unknown", "FullScreen", "Cropped"}, window : Windows]
    BY <2>1 DEF Watch!Remembered, Windows
  <2> QED
    BY <2>1, <2>2, <2>3, <2>4
<1>6. CASE Watch!BallWatcherEventLoop
  BY <1>6 DEF Watch!BallWatcherEventLoop, Watch!Retry
<1>7. CASE UNCHANGED watchVars
  BY <1>7 DEF watchVars
<1> QED
  BY <1>1, <1>2, <1>3, <1>4, <1>5, <1>6, <1>7 DEF Watch!Next, Watch!Proceed

\* A ball that is watched was seen in a whole picture, and motion counts only inside
\* it, for every sensor, crop limit, position and size of a ball, and although the region
\* may be that of a ball watched before.
THEOREM TheBallIsWatched == DevicesSpec => []WatchesOnlyTheBall
<1>1. DevicesInit => WatchInv
  BY WatchInit DEF DevicesInit
<1>2. WatchInv /\ [DevicesNext]_allVars => WatchInv'
  BY OneDevice, WatchStepInv
<1>3. WatchInv => WatchesOnlyTheBall
  <2>1. ASSUME WatchInv, watch = "watching", sensor = Watch!Window(ball), ~Watch!Corrected(ball)
        PROVE  Watch!WatchesTheBall
    <3>1. ball \in Balls /\ crop.kind = "Cropped" /\ crop.window = Watch!Window(ball)
      BY <2>1 DEF WatchInv, Watch!Remembered
    <3>2. PICK c \in Balls : Watch!Window(ball) = Watch!Window(c) /\ roi = Watch!RegionOfInterest(c)
      BY <2>1, <3>1 DEF WatchInv
    <3>3. ASSUME NEW a \in Watch!Axes
          PROVE  /\ Watch!LowEdge(sensor, roi, a) >= ball.at[a] - ball.radius
                 /\ Watch!LowEdge(sensor, roi, a) + roi[a].size <= ball.at[a] + ball.radius
      BY <2>1, <3>1, <3>2, MotionIsInsideTheBall
    <3> QED
      BY <3>3 DEF Watch!WatchesTheBall
  <2> QED
    BY <2>1 DEF WatchInv, WatchesOnlyTheBall, Watch!WatchesOnlyTheBall, Watch!Chosen
<1> QED
  BY <1>1, <1>2, <1>3, PTL DEF DevicesSpec
-----------------------------------------------------------------------------
(* Folds.  The page of the results and the pulses of a train are folds over *)
(* sequences; what they amount to is shown by induction over the length.    *)

\* What a fold does with an element: a page (w < 0) takes in a result, a train another
\* pulse of w bits.
Combine(w, x, y) == IF w < 0 THEN Shown(x, y) ELSE Pulse!NextPulse(x, y, w)

\* Induction over the natural numbers, with a set for the predicate.
LEMMA LeastNumber ==
    ASSUME NEW T \in SUBSET Nat, T # {}
    PROVE  \E m \in T : \A n \in T : m <= n
<1> DEFINE R == OpToRel(<, Nat)
<1>1. IsWellFoundedOn(R, Nat)
  BY NatLessThanWellFounded
<1>2. \A m, n \in Nat : m < n => <<m, n>> \in R
  BY DEF OpToRel
<1> HIDE DEF R
<1>3. PICK m \in T : \A n \in T : ~ (<<n, m>> \in R)
  BY <1>1, WFMin
<1>4. ASSUME NEW n \in T PROVE m <= n
  <2>1. m \in Nat /\ n \in Nat
    OBVIOUS
  <2>2. ~ (n < m)
    BY <1>2, <1>3, <2>1
  <2> QED BY <2>1, <2>2
<1> QED BY <1>4

LEMMA SetInduction ==
    ASSUME NEW P, 0 \in P, \A n \in Nat : n \in P => n + 1 \in P
    PROVE  \A n \in Nat : n \in P
<1> DEFINE T == Nat \ P
<1>1. SUFFICES ASSUME T # {} PROVE FALSE
  OBVIOUS
<1>2. PICK m \in T : \A n \in T : m <= n
  BY <1>1, LeastNumber
<1>3. m # 0 /\ m \in Nat /\ m \notin P
  OBVIOUS
<1>4. m - 1 \in Nat /\ m - 1 \in P
  BY <1>2, <1>3
<1>5. (m - 1) + 1 = m
  BY <1>3
<1> QED BY <1>3, <1>4, <1>5

\* What a fold over the first k elements of a sequence is computed by: a function of
\* the sets of indices.
FoldsUpTo(w, base, q, h, k) ==
  h = [t \in SUBSET (1..k) |->
         IF t = {} THEN base ELSE Combine(w, h[t \ {Max(t)}], q[Max(t)])]

LEMMA MaxOfUpTo ==
    ASSUME NEW k \in Nat, NEW t \in SUBSET (1..(k + 1)), k + 1 \in t
    PROVE  Max(t) = k + 1
<1>1. \A y \in t : k + 1 >= y
  OBVIOUS
<1>2. \A x \in t : (\A y \in t : x >= y) => x = k + 1
  OBVIOUS
<1> QED BY <1>1, <1>2 DEF Max

LEMMA FoldExists ==
    ASSUME NEW w, NEW base, NEW q
    PROVE  \A k \in Nat : \E h : FoldsUpTo(w, base, q, h, k)
<1> DEFINE P == {k \in Nat : \E h : FoldsUpTo(w, base, q, h, k)}
<1>1. 0 \in P
  <2>1. FoldsUpTo(w, base, q, [t \in SUBSET (1..0) |-> base], 0)
    BY DEF FoldsUpTo
  <2> QED BY <2>1
<1>2. ASSUME NEW k \in Nat, k \in P PROVE k + 1 \in P
  <2>1. PICK h : FoldsUpTo(w, base, q, h, k)
    BY <1>2
  <2> DEFINE A == SUBSET (1..k)
             B == SUBSET (1..(k + 1))
             g == [t \in B |-> IF k + 1 \in t THEN Combine(w, h[t \ {k + 1}], q[k + 1]) ELSE h[t]]
  <2>2. ASSUME NEW t \in B
        PROVE  g[t] = IF t = {} THEN base ELSE Combine(w, g[t \ {Max(t)}], q[Max(t)])
    <3>1. CASE k + 1 \in t
      <4>1. Max(t) = k + 1 /\ t # {}
        BY <3>1, MaxOfUpTo
      <4>2. t \ {k + 1} \in B /\ k + 1 \notin t \ {k + 1}
        OBVIOUS
      <4>3. g[t \ {k + 1}] = h[t \ {k + 1}]
        BY <4>2
      <4> QED BY <3>1, <4>1, <4>3
    <3>2. CASE k + 1 \notin t
      <4>1. t \in A /\ g[t] = h[t]
        BY <3>2
      <4>2. t \ {Max(t)} \in B /\ k + 1 \notin t \ {Max(t)}
        BY <3>2
      <4>3. g[t \ {Max(t)}] = h[t \ {Max(t)}]
        BY <4>2
      <4>4. h[t] = IF t = {} THEN base ELSE Combine(w, h[t \ {Max(t)}], q[Max(t)])
        BY <2>1, <4>1 DEF FoldsUpTo
      <4> QED BY <4>1, <4>3, <4>4
    <3> QED BY <3>1, <3>2
  <2>3. FoldsUpTo(w, base, q, g, k + 1)
    <3> DEFINE f == [t \in B |-> IF t = {} THEN base ELSE Combine(w, g[t \ {Max(t)}], q[Max(t)])]
    <3>1. \A t \in B : g[t] = f[t]
      BY <2>2
    <3>2. g = [t \in B |-> g[t]] /\ f = [t \in B |-> f[t]]
      OBVIOUS
    <3> HIDE DEF f, g
    <3>3. g = f
      BY <3>1, <3>2
    <3> QED BY <3>3 DEF FoldsUpTo, f
  <2> HIDE DEF g
  <2> QED BY <2>3
<1> HIDE DEF P
<1>3. \A k \in Nat : k \in P
  BY <1>1, <1>2, SetInduction
<1> QED BY <1>3 DEF P

\* Two such functions agree on a common beginning of their sequences.
LEMMA FoldAgrees ==
    ASSUME NEW w, NEW base, NEW q, NEW r, NEW h, NEW g, NEW m \in Nat, NEW n \in Nat,
           FoldsUpTo(w, base, q, h, m), FoldsUpTo(w, base, r, g, n), m <= n,
           \A i \in 1..m : q[i] = r[i]
    PROVE  /\ \A j \in 0..m : h[1..j] = g[1..j]
           /\ h[1..0] = base
           /\ \A j \in 0..m : j # 0 => h[1..j] = Combine(w, h[1..(j - 1)], q[j])
<1>1. ASSUME NEW k \in Nat, NEW f, NEW p, FoldsUpTo(w, base, p, f, k)
      PROVE  /\ f[1..0] = base
             /\ \A j \in 0..k : j # 0 => f[1..j] = Combine(w, f[1..(j - 1)], p[j])
  <2>1. 1..0 = {} /\ {} \in SUBSET (1..k)
    OBVIOUS
  <2>2. f[{}] = base
    BY <1>1, <2>1 DEF FoldsUpTo
  <2>3. ASSUME NEW j \in 0..k, j # 0 PROVE f[1..j] = Combine(w, f[1..(j - 1)], p[j])
    <3>1. 1..j \in SUBSET (1..k) /\ 1..j # {}
      BY <2>3
    <3>2. j - 1 \in Nat /\ (j - 1) + 1 = j
      BY <2>3
    <3>3. Max(1..j) = j
      <4>1. 1..j \in SUBSET (1..((j - 1) + 1)) /\ (j - 1) + 1 \in 1..j
        BY <2>3, <3>2
      <4> QED BY <3>2, <4>1, MaxOfUpTo
    <3>4. (1..j) \ {j} = 1..(j - 1)
      BY <2>3
    <3>5. f[1..j] = Combine(w, f[(1..j) \ {Max(1..j)}], p[Max(1..j)])
      BY <1>1, <3>1 DEF FoldsUpTo
    <3> QED BY <3>3, <3>4, <3>5
  <2> QED BY <2>1, <2>2, <2>3
<1> DEFINE P == {j \in Nat : j <= m => h[1..j] = g[1..j]}
<1>2. 0 \in P
  BY <1>1
<1>3. ASSUME NEW j \in Nat, j \in P PROVE j + 1 \in P
  <2> SUFFICES ASSUME j + 1 <= m PROVE h[1..(j + 1)] = g[1..(j + 1)]
    OBVIOUS
  <2>1. /\ j + 1 \in 0..m /\ j + 1 \in 0..n /\ j + 1 # 0 /\ (j + 1) - 1 = j
        /\ h[1..j] = g[1..j] /\ q[j + 1] = r[j + 1]
    BY <1>3
  <2>2. h[1..(j + 1)] = Combine(w, h[1..j], q[j + 1])
    BY <1>1, <2>1
  <2>3. g[1..(j + 1)] = Combine(w, g[1..j], r[j + 1])
    BY <1>1, <2>1
  <2> QED BY <2>1, <2>2, <2>3
<1> HIDE DEF P
<1>4. \A j \in Nat : j \in P
  BY <1>2, <1>3, SetInduction
<1>5. \A j \in 0..m : h[1..j] = g[1..j]
  BY <1>4 DEF P
<1>6. /\ h[1..0] = base
      /\ \A j \in 0..m : j # 0 => h[1..j] = Combine(w, h[1..(j - 1)], q[j])
  BY <1>1
<1> QED BY <1>5, <1>6

\* The fold of a sequence.
FoldOf(w, base, q) == (CHOOSE h : FoldsUpTo(w, base, q, h, Len(q)))[1..Len(q)]

LEMMA FoldSteps ==
    ASSUME NEW w, NEW base, NEW S, NEW q \in Seq(S)
    PROVE  /\ FoldOf(w, base, <<>>) = base
           /\ \A x \in S : FoldOf(w, base, Append(q, x)) = Combine(w, FoldOf(w, base, q), x)
<1>1. ASSUME NEW T, NEW p \in Seq(T)
      PROVE  FoldsUpTo(w, base, p, CHOOSE h : FoldsUpTo(w, base, p, h, Len(p)), Len(p))
  <2>1. Len(p) \in Nat
    OBVIOUS
  <2>2. \E h : FoldsUpTo(w, base, p, h, Len(p))
    BY <2>1, FoldExists
  <2> QED BY <2>2
<1>2. FoldOf(w, base, <<>>) = base
  <2> DEFINE g == CHOOSE h : FoldsUpTo(w, base, <<>>, h, 0)
  <2>1. <<>> \in Seq(S) /\ Len(<<>>) = 0
    OBVIOUS
  <2>2. FoldsUpTo(w, base, <<>>, g, 0)
    BY <1>1, <2>1
  <2>3. FoldOf(w, base, <<>>) = g[1..0]
    BY <2>1 DEF FoldOf
  <2> HIDE DEF g
  <2> QED BY <2>2, <2>3, FoldAgrees
<1>3. ASSUME NEW x \in S PROVE FoldOf(w, base, Append(q, x)) = Combine(w, FoldOf(w, base, q), x)
  <2> DEFINE a == Append(q, x)
             n == Len(q)
             g == CHOOSE h : FoldsUpTo(w, base, q, h, Len(q))
             f == CHOOSE h : FoldsUpTo(w, base, a, h, Len(a))
  <2>1. a \in Seq(S) /\ Len(a) = n + 1 /\ n \in Nat /\ a[n + 1] = x /\ \A i \in 1..n : q[i] = a[i]
    OBVIOUS
  <2>2. FoldsUpTo(w, base, q, g, n) /\ FoldsUpTo(w, base, a, f, n + 1)
    BY <1>1, <2>1
  <2>3. FoldOf(w, base, q) = g[1..n] /\ FoldOf(w, base, a) = f[1..(n + 1)]
    BY <2>1 DEF FoldOf
  <2> HIDE DEF a, n, g, f
  <2>4. n \in 0..n /\ n <= n + 1 /\ n + 1 \in Nat /\ n + 1 \in 0..(n + 1) /\ n + 1 # 0
        /\ (n + 1) - 1 = n
    BY <2>1
  <2>5. g[1..n] = f[1..n]
    BY <2>1, <2>2, <2>4, FoldAgrees
  <2>6. f[1..(n + 1)] = Combine(w, f[1..n], a[n + 1])
    BY <2>2, <2>4, FoldAgrees
  <2> QED BY <2>1, <2>3, <2>5, <2>6 DEF a
<1> QED BY <1>2, <1>3

\* The page's fold and the pulses' are such folds.
LEMMA PageFold ==
    ASSUME NEW q \in Seq(Results), NEW base
    PROVE  FoldLeft(Shown, base, q) = FoldOf(-1, base, q)
<1> DEFINE n == Len(q)
           PageFolds(h) == h = [t \in SUBSET (1..n) |->
                                  IF t = {} THEN base ELSE Shown(h[t \ {Max(t)}], q[Max(t)])]
           p == CHOOSE h : PageFolds(h)
           g == CHOOSE h : FoldsUpTo(-1, base, q, h, n)
<1>1. FoldLeft(Shown, base, q) = p[1..n]
  <2>1. DOMAIN q = 1..Len(q)
    OBVIOUS
  <2> QED BY <2>1 DEF FoldLeft, MapThenFoldSet
<1>2. \A h : PageFolds(h) <=> FoldsUpTo(-1, base, q, h, n)
  BY DEF FoldsUpTo, Combine
<1>3. n \in Nat /\ \E h : FoldsUpTo(-1, base, q, h, n)
  BY FoldExists
<1>4. FoldsUpTo(-1, base, q, g, n)
  BY <1>3
<1>5. FoldsUpTo(-1, base, q, p, n)
  <2>1. PageFolds(p)
    BY <1>2, <1>3
  <2> HIDE DEF p
  <2> QED BY <1>2, <2>1
<1>6. FoldOf(-1, base, q) = g[1..n]
  BY DEF FoldOf
<1> HIDE DEF p, g, n
<1> QED BY <1>1, <1>3, <1>4, <1>5, <1>6, FoldAgrees

LEMMA PulseFold ==
    ASSUME NEW q \in Seq(Nat), NEW on \in Nat
    PROVE  Pulse!PulsesBefore(q, on) = FoldOf(on, Pulse!Empty, q)
<1> DEFINE n == Len(q)
           base == Pulse!Empty
           PulseFolds(h) ==
             h = [t \in SUBSET (1..n) |->
                    IF t = {} THEN base ELSE Pulse!NextPulse(h[t \ {Max(t)}], q[Max(t)], on)]
           p == CHOOSE h : PulseFolds(h)
           g == CHOOSE h : FoldsUpTo(on, base, q, h, n)
<1>1. Pulse!PulsesBefore(q, on) = p[1..n]
  <2>1. DOMAIN q = 1..Len(q)
    OBVIOUS
  <2> QED BY <2>1 DEF Pulse!PulsesBefore, Pulse!FoldLeft, Pulse!MapThenFoldSet, Pulse!Max, Max
<1>2. \A h : PulseFolds(h) <=> FoldsUpTo(on, base, q, h, n)
  <2>1. \A x, y : Combine(on, x, y) = Pulse!NextPulse(x, y, on)
    BY DEF Combine
  <2> HIDE DEF base, n
  <2> QED BY <2>1 DEF FoldsUpTo
<1>3. FoldOf(on, base, q) = g[1..n]
  BY DEF FoldOf
<1> HIDE DEF base
<1>4. n \in Nat /\ \E h : FoldsUpTo(on, base, q, h, n)
  <2>1. n \in Nat
    OBVIOUS
  <2> HIDE DEF n, p, g
  <2> QED BY <2>1, FoldExists
<1>5. FoldsUpTo(on, base, q, g, n)
  BY <1>4
<1>6. FoldsUpTo(on, base, q, p, n)
  <2>1. PulseFolds(p)
    BY <1>2, <1>4
  <2> HIDE DEF p
  <2> QED BY <1>2, <2>1
<1> HIDE DEF p, g, n
<1> QED BY <1>1, <1>3, <1>4, <1>5, <1>6, FoldAgrees DEF base

-----------------------------------------------------------------------------
(* The pulses of the strobe.                                                *)

\* One pulse more, where pulse and pad fit in two bytes.
LEMMA OnePulseMore ==
    ASSUME NEW on \in 1..9, NEW t, NEW pause \in Nat, t.pad \in 0..7, t.length \in Nat
    PROVE  LET n == Pulse!NextPulse(t, pause, on)
           IN  /\ n.pulses = Append(t.pulses, [start |-> t.length + t.pad, length |-> on])
               /\ n.length \in Nat /\ n.pad \in 0..7
               /\ pause >= 16 => n.length + n.pad = t.length + t.pad + pause
<1> DEFINE bytes == Pulse!GetNextTwoPulseBytes(t.pad, on)
           off == Pulse!Max0((pause - bytes.remainder) - on)
           n == Pulse!NextPulse(t, pause, on)
<1>1. bytes.length = on /\ bytes.remainder = 16 - (t.pad + on)
  BY DEF Pulse!GetNextTwoPulseBytes, Pulse!Least
<1>2. off \in Nat /\ (pause >= 16 => off = pause - 16 + t.pad)
  BY <1>1 DEF Pulse!Max0
<1>3. /\ n.pulses = Append(t.pulses, [start |-> t.length + t.pad, length |-> bytes.length])
      /\ n.length = t.length + 16 + 8 * (off \div 8) /\ n.pad = off % 8
  BY DEF Pulse!NextPulse
<1> HIDE DEF bytes, off, n
<1>4. off \div 8 \in Nat /\ off % 8 \in 0..7 /\ off = 8 * (off \div 8) + (off % 8)
  BY <1>2
<1>5. n.length \in Nat /\ n.pad \in 0..7
  BY <1>3, <1>4
<1>6. pause >= 16 => n.length + n.pad = t.length + t.pad + pause
  <2>1. ASSUME NEW d \in Nat, NEW e \in Nat, NEW o \in Nat, o = 8 * d + e
        PROVE  (t.length + 16 + 8 * d) + e = t.length + 16 + o
    BY <2>1
  <2>2. off \div 8 \in Nat /\ off % 8 \in Nat /\ off \in Nat
    BY <1>2, <1>4
  <2>3. n.length + n.pad = t.length + 16 + off
    BY <1>3, <1>4, <2>1, <2>2
  <2> HIDE DEF n
  <2> QED BY <1>2, <2>2, <2>3
<1> QED BY <1>1, <1>3, <1>5, <1>6 DEF n

\* After k pauses: the pulses so far stand where they were configured, and so will
\* the next one.
PulsesSoFar(q, on, k) ==
  LET t == FoldOf(on, Pulse!Empty, SubSeq(q, 1, k))
      p == t.pulses
  IN  /\ p \in Seq([start : Nat, length : Nat]) /\ Len(p) = k
      /\ t.length \in Nat /\ t.pad \in 0..7
      /\ \A i \in 1..k : p[i].length = on /\ p[i].start = IF i = 1 THEN 0 ELSE p[i - 1].start + q[i - 1]
      /\ k < Len(q) => t.length + t.pad = IF k = 0 THEN 0 ELSE p[k].start + q[k]

LEMMA PulsesStandAsConfigured ==
    ASSUME NEW q \in Seq(Nat), NEW on \in 1..9, \A i \in 1..(Len(q) - 1) : q[i] >= 16
    PROVE  \A k \in 0..Len(q) : PulsesSoFar(q, on, k)
<1> DEFINE P == {k \in Nat : k <= Len(q) => PulsesSoFar(q, on, k)}
<1>1. 0 \in P
  <2>1. SubSeq(q, 1, 0) = <<>>
    OBVIOUS
  <2>2. FoldOf(on, Pulse!Empty, <<>>) = Pulse!Empty
    BY FoldSteps
  <2>3. Pulse!Empty.pulses = <<>> /\ Pulse!Empty.length = 0 /\ Pulse!Empty.pad = 0
    BY DEF Pulse!Empty
  <2>4. <<>> \in Seq([start : Nat, length : Nat]) /\ Len(<<>>) = 0 /\ 1..0 = {}
    OBVIOUS
  <2>5. PulsesSoFar(q, on, 0)
    <3> DEFINE t == FoldOf(on, Pulse!Empty, SubSeq(q, 1, 0))
    <3>1. t.pulses = <<>> /\ t.length = 0 /\ t.pad = 0
      BY <2>1, <2>2, <2>3
    <3> HIDE DEF t
    <3>2. t.pulses \in Seq([start : Nat, length : Nat]) /\ Len(t.pulses) = 0
      BY <2>4, <3>1
    <3> QED BY <2>4, <3>1, <3>2 DEF PulsesSoFar, t
  <2> QED BY <2>5
<1>2. ASSUME NEW k \in Nat, k \in P PROVE k + 1 \in P
  <2> SUFFICES ASSUME k + 1 <= Len(q) PROVE PulsesSoFar(q, on, k + 1)
    OBVIOUS
  <2> DEFINE t == FoldOf(on, Pulse!Empty, SubSeq(q, 1, k))
             n == FoldOf(on, Pulse!Empty, SubSeq(q, 1, k + 1))
             new == [start |-> t.length + t.pad, length |-> on]
  <2>1. PulsesSoFar(q, on, k) /\ q[k + 1] \in Nat /\ Len(q) \in Nat
    BY <1>2
  <2>2. SubSeq(q, 1, k + 1) = Append(SubSeq(q, 1, k), q[k + 1]) /\ SubSeq(q, 1, k) \in Seq(Nat)
    OBVIOUS
  <2>3. n = Pulse!NextPulse(t, q[k + 1], on)
    <3> DEFINE r == SubSeq(q, 1, k)
    <3>2. r \in Seq(Nat)
      BY <2>2
    <3> HIDE DEF r
    <3>3. \A x \in Nat : FoldOf(on, Pulse!Empty, Append(r, x)) = Combine(on, FoldOf(on, Pulse!Empty, r), x)
      BY <3>2, FoldSteps
    <3>1. FoldOf(on, Pulse!Empty, Append(SubSeq(q, 1, k), q[k + 1])) = Combine(on, t, q[k + 1])
      BY <2>1, <3>3 DEF r
    <3>4. \A x, y : Combine(on, x, y) = Pulse!NextPulse(x, y, on)
      BY DEF Combine
    <3> HIDE DEF t
    <3> QED BY <2>2, <3>1, <3>4
  <2>10. k < Len(q) /\ k + 1 # 0
    BY <2>1
  <2>4. /\ t.pulses \in Seq([start : Nat, length : Nat]) /\ Len(t.pulses) = k
        /\ t.length \in Nat /\ t.pad \in 0..7
        /\ \A i \in 1..k : /\ t.pulses[i].length = on
                           /\ t.pulses[i].start =
                                IF i = 1 THEN 0 ELSE t.pulses[i - 1].start + q[i - 1]
        /\ t.length + t.pad = IF k = 0 THEN 0 ELSE t.pulses[k].start + q[k]
    <3>1. PulsesSoFar(q, on, k) <=>
            /\ t.pulses \in Seq([start : Nat, length : Nat]) /\ Len(t.pulses) = k
            /\ t.length \in Nat /\ t.pad \in 0..7
            /\ \A i \in 1..k : /\ t.pulses[i].length = on
                               /\ t.pulses[i].start =
                                    IF i = 1 THEN 0 ELSE t.pulses[i - 1].start + q[i - 1]
            /\ k < Len(q) => t.length + t.pad = IF k = 0 THEN 0 ELSE t.pulses[k].start + q[k]
      BY Zenon DEF PulsesSoFar
    <3> HIDE DEF t, n
    <3> QED
      BY <2>1, <2>10, <3>1
  <2> HIDE DEF t, n
  <2>5. /\ n.pulses = Append(t.pulses, new) /\ n.length \in Nat /\ n.pad \in 0..7
        /\ q[k + 1] >= 16 => n.length + n.pad = t.length + t.pad + q[k + 1]
    <3>1. t.pad \in 0..7 /\ t.length \in Nat /\ q[k + 1] \in Nat
      BY <2>1, <2>4
    <3> QED BY <2>3, <3>1, OnePulseMore
  <2>6. new \in [start : Nat, length : Nat]
    <3>1. t.pad \in Nat /\ t.length \in Nat
      BY <2>4
    <3>2. t.length + t.pad \in Nat /\ on \in Nat
      BY <3>1
    <3> QED BY <3>2
  <2>7. /\ n.pulses \in Seq([start : Nat, length : Nat]) /\ Len(n.pulses) = k + 1
        /\ n.pulses[k + 1] = new /\ \A i \in 1..k : n.pulses[i] = t.pulses[i]
    <3> HIDE DEF new
    <3>1. /\ t.pulses \in Seq([start : Nat, length : Nat]) /\ Len(t.pulses) = k
          /\ n.pulses = Append(t.pulses, new)
      BY <2>4, <2>5
    <3> QED BY <2>6, <3>1
  <2>8. ASSUME NEW i \in 1..(k + 1)
        PROVE  /\ n.pulses[i].length = on
               /\ n.pulses[i].start = IF i = 1 THEN 0 ELSE n.pulses[i - 1].start + q[i - 1]
    <3>1. CASE i \in 1..k
      <4>1. i # 1 => i - 1 \in 1..k
        BY <3>1
      <4>2. n.pulses[i] = t.pulses[i] /\ (i # 1 => n.pulses[i - 1] = t.pulses[i - 1])
        BY <2>7, <3>1, <4>1
      <4> QED BY <2>4, <3>1, <4>2
    <3>2. CASE i = k + 1
      <4>1. i # 1 => k \in 1..k /\ i - 1 = k /\ k # 0
        BY <3>2
      <4>2. i = 1 => k = 0
        BY <3>2
      <4>3. n.pulses[i] = new /\ (i # 1 => n.pulses[i - 1] = t.pulses[k])
        BY <2>7, <3>2, <4>1
      <4>4. new.length = on /\ new.start = t.length + t.pad
        OBVIOUS
      <4>5. t.length + t.pad = IF i = 1 THEN 0 ELSE t.pulses[k].start + q[i - 1]
        BY <2>4, <3>2, <4>1, <4>2
      <4> HIDE DEF new
      <4> QED BY <4>3, <4>4, <4>5
    <3> QED BY <3>1, <3>2
  <2>9. k + 1 < Len(q) => n.length + n.pad = n.pulses[k + 1].start + q[k + 1]
    <3>1. k + 1 < Len(q) => k + 1 \in 1..(Len(q) - 1)
      BY <2>1
    <3> QED BY <2>5, <2>7, <3>1
  <2> QED BY <2>5, <2>7, <2>8, <2>9, <2>10 DEF PulsesSoFar, n
<1> HIDE DEF P
<1>3. \A k \in Nat : k \in P
  BY <1>1, <1>2, SetInduction
<1> QED BY <1>3 DEF P

\* A train is the one that is built from the configuration, which stays.
TrainInv ==
  /\ setting \in Settings
  /\ \A s \in Pulse!Speeds : trains[s] # None => trains[s] = Pulse!BuildPulseTrain(s)

LEMMA TrainStep == TrainInv /\ [Pulse!Next]_pulseVars => TrainInv'
<1> SUFFICES ASSUME TrainInv, [Pulse!Next]_pulseVars PROVE TrainInv'
  OBVIOUS
<1>1. setting' = setting
  BY DEF Pulse!Next, Pulse!InitGPIOSystem, Pulse!DeinitGPIOSystem, Pulse!SendCameraPrimingPulses,
     Pulse!SendPreImageTrigger, Pulse!ReopenSpi, Pulse!SendExternalTrigger, Pulse!SetCurrentClubType, pulseVars
<1>2. \A s \in Pulse!Speeds : Pulse!BuildPulseTrain(s)' = Pulse!BuildPulseTrain(s)
  BY <1>1 DEF Pulse!BuildPulseTrain
<1>3. UNCHANGED trains \/ trains' = [s \in Pulse!Speeds |-> Pulse!BuildPulseTrain(s)]
  <2>1. CASE Pulse!InitGPIOSystem
    <3>1. trains' = [s \in Pulse!Speeds |-> Pulse!BuildPulseTrain(s)]
      BY <2>1 DEF Pulse!InitGPIOSystem
    <3> QED BY <3>1
  <2>2. CASE ~ Pulse!InitGPIOSystem
    BY <2>2 DEF Pulse!Next, Pulse!DeinitGPIOSystem, Pulse!SendCameraPrimingPulses,
       Pulse!SendPreImageTrigger, Pulse!ReopenSpi, Pulse!SendExternalTrigger, Pulse!SetCurrentClubType, pulseVars
  <2> QED BY <2>1, <2>2
<1> QED BY <1>1, <1>2, <1>3 DEF TrainInv

LEMMA TrainsArePlaced == TrainInv => PulsesAreAsConfigured
<1> SUFFICES ASSUME TrainInv, NEW s \in Pulse!Speeds, trains[s] # None, ~setting.single
             PROVE  LET q == setting[s].pauses
                    IN  /\ Len(trains[s]) = Len(q)
                        /\ \A k \in 1..Len(q) :
                             /\ trains[s][k].length = setting[s].on
                             /\ trains[s][k].start =
                                  IF k = 1 THEN 0 ELSE trains[s][k - 1].start + q[k - 1]
  BY DEF PulsesAreAsConfigured, Pulse!PulsesAreAsConfigured
<1> DEFINE q == setting[s].pauses
           on == setting[s].on
           t == FoldOf(on, Pulse!Empty, q)
<1>1. q \in Seq(Nat) /\ on \in 1..9 /\ \A i \in 1..(Len(q) - 1) : q[i] >= 16
  BY TrainAssumption DEF TrainInv
<1>2. trains[s] = Pulse!PulsesBefore(q, on).pulses
  BY DEF TrainInv, Pulse!BuildPulseTrain
<1> HIDE DEF q, on
<1>3. trains[s] = t.pulses
  BY <1>1, <1>2, PulseFold
<1>4. SubSeq(q, 1, Len(q)) = q /\ Len(q) \in Nat /\ Len(q) \in 0..Len(q)
  BY <1>1
<1>5. PulsesSoFar(q, on, Len(q))
  BY <1>1, <1>4, PulsesStandAsConfigured
<1>6. /\ Len(t.pulses) = Len(q)
      /\ \A i \in 1..Len(q) : /\ t.pulses[i].length = on
                              /\ t.pulses[i].start = IF i = 1 THEN 0 ELSE t.pulses[i - 1].start + q[i - 1]
  BY <1>4, <1>5 DEF PulsesSoFar
<1> QED BY <1>3, <1>6 DEF q, on

\* Each pulse of a train starts its configured pause after the one before and is lit
\* for all its bits, for any number of pulses: nothing that is rounded adds up.
THEOREM TrainsAreAsConfigured == DevicesSpec => []PulsesAreAsConfigured
<1>1. DevicesInit => TrainInv
  BY DEF DevicesInit, Pulse!Init, TrainInv
<1>2. TrainInv /\ [DevicesNext]_allVars => TrainInv'
  BY OneDevice, TrainStep
<1>3. TrainInv => PulsesAreAsConfigured
  BY TrainsArePlaced
<1> QED
  BY <1>1, <1>2, <1>3, PTL DEF DevicesSpec

-----------------------------------------------------------------------------
(* The page of the results.                                                 *)

\* A consumer that works on a message has one.
HasMessage(c) == c.stage \notin {"receive", "dead"} => c.new \in Messages

PageTypes ==
  /\ sent \in Seq(Results)
  /\ result \in Seq(Shots) /\ current \in Nat \ {0} /\ current = Len(result)
  /\ clicked \in GsClubType \cup {None}
  /\ request \in [Requests -> {"idle", "create", "flag", "count", "reset"}]
  /\ consumers \in [Requests -> {None} \cup Consumers]
  /\ \A r \in Requests :
       consumers[r] # None =>
         /\ consumers[r].next <= Len(sent) + 1 /\ consumers[r].object <= current
         /\ HasMessage(consumers[r])

\* What the messages after the k-th and up to the n-th amount to.
Amount(messages, k, n) == ShownAfter(SubSeq(messages, k + 1, n))

\* The consumer c has brought the page, but for a click, to what the messages after the
\* k-th amount to, or is about to; the object it unpacks into may have been replaced.
Showing(c, k, messages, shown, object) ==
  LET p == c.next - 1
  IN  /\ object = 1 => k = 0
      /\ k <= p
      /\ c.stage \in {"receive", "dead"} => shown = Amount(messages, k, p)
      /\ c.stage \in {"club", "decide", "unpack"} => k < p /\ c.new = messages[p]
      /\ c.stage = "club" => shown = Amount(messages, k, p - 1)
      /\ c.stage = "decide" =>
           Amount(messages, k, p) =
             IF Replaces(NewResult(c.new), shown) THEN Unpacked(shown, c.new) ELSE shown
      /\ c.stage = "unpack" => Amount(messages, k, p) = Unpacked(shown, c.new)
      /\ c.stage = "type" =>
           IF c.object = object
             THEN Amount(messages, k, p) = Unpacked(shown, c.new) /\ Unpacked(shown, c.new).shot = shown.shot
             ELSE shown = Fresh

\* The page with a click on a club.
Face(shown, club_) ==
  [shot |-> shown.shot, type |-> shown.type, club |-> IF club_ = None THEN shown.club ELSE club_]

Protocol ==
  \A r \in Requests :
    /\ consumers[r] # None => created \/ request[r] = "flag"
    /\ request[r] = "create" => consumers[r] = None

\* Nothing is shown before somebody listens.
Unheard ==
  (\A r \in Requests : consumers[r] = None) =>
    sent = <<>> /\ result[current] = Face(Fresh, clicked)

Shows(r) ==
  \E k \in 0..Len(sent), shown \in Shots :
    /\ result[current] = Face(shown, clicked)
    /\ Showing(consumers[r], k, sent, shown, current)

PageInv ==
  /\ PageTypes /\ Protocol /\ Unheard
  /\ \A r \in Requests : (consumers[r] # None /\ Alone) => Shows(r)

\* The fields of what unpack makes of an object.
LEMMA UnpackedFields ==
    ASSUME NEW s \in Shots, NEW m \in Messages
    PROVE  /\ Unpacked(s, m) \in Shots
           /\ Unpacked(s, m).shot = IF m.fields > 0 THEN m.shot ELSE s.shot
           /\ Unpacked(s, m).club = IF m.fields > 1 THEN m.club ELSE s.club
           /\ Unpacked(s, m).type = IF m.fields > 2 THEN m.type ELSE s.type
BY DEF Unpacked, Shots, Messages

\* Two results are one when their fields are.
LEMMA SameShot ==
    ASSUME NEW s \in Shots, NEW t \in Shots, s.shot = t.shot, s.type = t.type, s.club = t.club
    PROVE  s = t
BY DEF Shots

LEMMA FreshIsShot == Fresh \in Shots
BY DEF Fresh, Shots, GsIPCResultType, GsClubType

LEMMA FaceFields ==
    ASSUME NEW s \in Shots, NEW club_ \in GsClubType \cup {None}
    PROVE  /\ Face(s, club_) \in Shots
           /\ Face(s, club_).shot = s.shot /\ Face(s, club_).type = s.type
           /\ Face(s, club_).club = IF club_ = None THEN s.club ELSE club_
           /\ Face(s, club_) = [s EXCEPT !.club = IF club_ = None THEN @ ELSE club_]
BY DEF Face, Shots

\* The messages amount to a fold, one message after another.
LEMMA AmountSteps ==
    ASSUME NEW s \in Seq(Results), NEW k \in Nat
    PROVE  /\ k <= Len(s) => Amount(s, k, k) = Fresh
           /\ \A n \in Nat : k <= n /\ n < Len(s) =>
                Amount(s, k, n + 1) = Shown(Amount(s, k, n), s[n + 1])
<1>1. ASSUME k <= Len(s) PROVE Amount(s, k, k) = Fresh
  <2>1. SubSeq(s, k + 1, k) = <<>> /\ <<>> \in Seq(Results)
    BY <1>1
  <2>2. ShownAfter(<<>>) = FoldOf(-1, Fresh, <<>>)
    BY <2>1, PageFold DEF ShownAfter
  <2>3. FoldOf(-1, Fresh, <<>>) = Fresh
    BY <2>1, FoldSteps
  <2> QED BY <2>1, <2>2, <2>3 DEF Amount
<1>2. ASSUME NEW n \in Nat, k <= n, n < Len(s)
      PROVE  Amount(s, k, n + 1) = Shown(Amount(s, k, n), s[n + 1])
  <2> DEFINE q == SubSeq(s, k + 1, n)
             x == s[n + 1]
  <2>1. /\ q \in Seq(Results) /\ x \in Results /\ Append(q, x) \in Seq(Results)
        /\ SubSeq(s, k + 1, n + 1) = Append(q, x)
    BY <1>2
  <2>2. Amount(s, k, n) = ShownAfter(q) /\ Amount(s, k, n + 1) = ShownAfter(Append(q, x))
    BY <2>1 DEF Amount
  <2> HIDE DEF q, x
  <2>3. ShownAfter(q) = FoldOf(-1, Fresh, q) /\ ShownAfter(Append(q, x)) = FoldOf(-1, Fresh, Append(q, x))
    BY <2>1, PageFold DEF ShownAfter
  <2>4. FoldOf(-1, Fresh, Append(q, x)) = Combine(-1, FoldOf(-1, Fresh, q), x)
    BY <2>1, FoldSteps
  <2>5. \A a, b : Combine(-1, a, b) = Shown(a, b)
    BY DEF Combine
  <2> QED BY <2>2, <2>3, <2>4, <2>5 DEF x
<1> QED BY <1>1, <1>2

LEMMA NoMessages == Amount(<<>>, 0, 0) = Fresh
<1>1. <<>> \in Seq(Results) /\ Len(<<>>) = 0
  OBVIOUS
<1>2. \A k \in Nat : k <= Len(<<>>) => Amount(<<>>, k, k) = Fresh
  BY <1>1, AmountSteps
<1> QED
  BY <1>1, <1>2

\* Messages that come later change nothing of what the earlier ones amount to.
LEMMA AmountStays ==
    ASSUME NEW s \in Seq(Results), NEW m \in Results, NEW k \in Nat, NEW n \in Nat, n <= Len(s)
    PROVE  Amount(Append(s, m), k, n) = Amount(s, k, n)
<1>1. SubSeq(Append(s, m), k + 1, n) = SubSeq(s, k + 1, n)
  OBVIOUS
<1> QED BY <1>1 DEF Amount

\* Every result replaces a fresh page.
LEMMA FreshIsReplaced ==
    ASSUME NEW m \in Messages
    PROVE  Replaces(NewResult(m), Fresh) /\ Shown(Fresh, m) = Unpacked(Fresh, m)
<1> DEFINE withClub == [Fresh EXCEPT !.club = NewResult(m).club]
<1>1. /\ Fresh \in Shots /\ NewResult(m) \in Shots /\ NewResult(m) = Unpacked(Fresh, m)
      /\ NewResult(m).club = IF m.fields > 1 THEN m.club ELSE Fresh.club
  BY FreshIsShot, UnpackedFields DEF NewResult
<1>2. /\ withClub \in Shots /\ withClub.shot = Fresh.shot /\ withClub.type = Fresh.type
      /\ withClub.club = NewResult(m).club
  BY <1>1 DEF Shots
<1>3. \A s \in Shots : s.shot = Fresh.shot /\ s.type = Fresh.type => Replaces(NewResult(m), s)
  BY DEF Replaces, Fresh
<1> HIDE DEF withClub
<1>4. Unpacked(withClub, m) = Unpacked(Fresh, m)
  <2>1. Unpacked(withClub, m) \in Shots /\ Unpacked(Fresh, m) \in Shots
    BY <1>1, <1>2, UnpackedFields
  <2>2. Unpacked(withClub, m).shot = Unpacked(Fresh, m).shot
    BY <1>1, <1>2, UnpackedFields
  <2>3. Unpacked(withClub, m).type = Unpacked(Fresh, m).type
    BY <1>1, <1>2, UnpackedFields
  <2>4. Unpacked(withClub, m).club = Unpacked(Fresh, m).club
    BY <1>1, <1>2, UnpackedFields
  <2> QED BY <2>1, <2>2, <2>3, <2>4, SameShot
<1>5. Shown(Fresh, m) = IF Replaces(NewResult(m), withClub) THEN Unpacked(withClub, m) ELSE withClub
  BY DEF Shown, withClub
<1> QED BY <1>1, <1>2, <1>3, <1>4, <1>5

(* What the consumer shows, through its steps and those of others.          *)

LEMMA ShowingAfterSend ==
    ASSUME NEW c \in Consumers, NEW s \in Seq(Results), NEW m \in Results, NEW shown, NEW object,
           NEW k \in 0..Len(s), c.next <= Len(s) + 1, Showing(c, k, s, shown, object)
    PROVE  Showing(c, k, Append(s, m), shown, object)
<1> DEFINE p == c.next - 1
<1>1. p \in 0..Len(s) /\ Len(s) \in Nat /\ k \in Nat
  BY DEF Consumers
<1>2. Amount(Append(s, m), k, p) = Amount(s, k, p)
  BY <1>1, AmountStays
<1>3. k < p => /\ p \in 1..Len(s) /\ Append(s, m)[p] = s[p]
               /\ Amount(Append(s, m), k, p - 1) = Amount(s, k, p - 1)
  <2>1. k < p => p \in 1..Len(s) /\ p - 1 \in Nat /\ p - 1 <= Len(s)
    BY <1>1
  <2> QED BY <2>1, <1>1, AmountStays
<1> QED BY <1>2, <1>3 DEF Showing

LEMMA ShowingAfterReceive ==
    ASSUME NEW c \in Consumers, NEW s \in Seq(Results), NEW shown, NEW object,
           NEW k \in 0..Len(s), c.next <= Len(s), c.stage = "receive",
           Showing(c, k, s, shown, object)
    PROVE  Showing([c EXCEPT !.stage = "club", !.next = @ + 1, !.new = s[c.next]],
                   k, s, shown, object)
<1> DEFINE d == [c EXCEPT !.stage = "club", !.next = @ + 1, !.new = s[c.next]]
           p == c.next - 1
<1>1. d.stage = "club" /\ d.next = c.next + 1 /\ d.new = s[c.next]
  BY DEF Consumers
<1>2. /\ c.next \in Nat /\ p \in Nat /\ d.next - 1 = c.next /\ (d.next - 1) - 1 = p
  BY <1>1 DEF Consumers
<1>3. (object = 1 => k = 0) /\ k <= p /\ shown = Amount(s, k, p)
  BY DEF Showing
<1>4. k <= c.next /\ k < c.next
  BY <1>2, <1>3
<1> HIDE DEF d, p
<1>5. Showing(d, k, s, shown, object)
  BY <1>1, <1>2, <1>3, <1>4 DEF Showing
<1> QED BY <1>5 DEF d

LEMMA ShowingAfterClub ==
    ASSUME NEW c \in Consumers, NEW s \in Seq(Results), NEW shown \in Shots, NEW object,
           NEW k \in 0..Len(s), c.next <= Len(s) + 1, c.stage = "club",
           Showing(c, k, s, shown, object)
    PROVE  Showing([c EXCEPT !.stage = "decide"], k, s,
                   [shown EXCEPT !.club = NewResult(c.new).club], object)
<1> DEFINE d == [c EXCEPT !.stage = "decide"]
           p == c.next - 1
           withClub == [shown EXCEPT !.club = NewResult(c.new).club]
<1>1. d.stage = "decide" /\ d.next = c.next /\ d.new = c.new
  BY DEF Consumers
<1>2. /\ (object = 1 => k = 0) /\ k <= p /\ k < p
      /\ c.new = s[p] /\ shown = Amount(s, k, p - 1)
  BY DEF Showing
<1>3. p - 1 \in Nat /\ k <= p - 1 /\ p - 1 < Len(s) /\ (p - 1) + 1 = p /\ k \in Nat
  BY <1>2 DEF Consumers
<1> HIDE DEF p
<1>4. Amount(s, k, (p - 1) + 1) = Shown(Amount(s, k, p - 1), s[(p - 1) + 1])
  BY <1>3, AmountSteps
<1>5. Amount(s, k, p) = Shown(shown, c.new)
  BY <1>2, <1>3, <1>4
<1>6. Amount(s, k, p) = IF Replaces(NewResult(d.new), withClub) THEN Unpacked(withClub, d.new) ELSE withClub
  BY <1>1, <1>5 DEF Shown
<1> HIDE DEF d, withClub
<1>7. Showing(d, k, s, withClub, object)
  BY <1>1, <1>2, <1>6 DEF Showing, p
<1> QED BY <1>7 DEF d, withClub

\* A message that is not shown is done with.
LEMMA ShowingAfterDecide ==
    ASSUME NEW c \in Consumers, NEW s, NEW shown, NEW object, NEW k,
           c.stage = "decide", Showing(c, k, s, shown, object)
    PROVE  IF Replaces(NewResult(c.new), shown)
             THEN Showing([c EXCEPT !.stage = "unpack"], k, s, shown, object)
             ELSE Showing(Waiting(c.next), k, s, shown, object)
<1>1. /\ (object = 1 => k = 0) /\ k <= c.next - 1 /\ k < c.next - 1 /\ c.new = s[c.next - 1]
      /\ Amount(s, k, c.next - 1) =
           IF Replaces(NewResult(c.new), shown) THEN Unpacked(shown, c.new) ELSE shown
  BY DEF Showing
<1>2. CASE Replaces(NewResult(c.new), shown)
  <2> DEFINE d == [c EXCEPT !.stage = "unpack"]
  <2>1. d.stage = "unpack" /\ d.next = c.next /\ d.new = c.new
    BY DEF Consumers
  <2> HIDE DEF d
  <2>2. Showing(d, k, s, shown, object)
    BY <1>1, <1>2, <2>1 DEF Showing
  <2> QED BY <1>2, <2>2 DEF d
<1>3. CASE ~Replaces(NewResult(c.new), shown)
  <2>1. Waiting(c.next).stage = "receive" /\ Waiting(c.next).next = c.next
    BY DEF Waiting
  <2>2. Showing(Waiting(c.next), k, s, shown, object)
    BY <1>1, <1>3, <2>1 DEF Showing
  <2> QED BY <1>3, <2>2
<1> QED BY <1>2, <1>3

LEMMA ShowingAfterUnpack ==
    ASSUME NEW c \in Consumers, c.new \in Messages, NEW s, NEW shown \in Shots, NEW object, NEW k,
           c.stage = "unpack", Showing(c, k, s, shown, object)
    PROVE  Showing([c EXCEPT !.stage = "type", !.object = object], k, s,
                   [shown EXCEPT !.shot = Unpacked(shown, c.new).shot], object)
<1> DEFINE d == [c EXCEPT !.stage = "type", !.object = object]
           m == c.new
           new == [shown EXCEPT !.shot = Unpacked(shown, m).shot]
<1>1. d.stage = "type" /\ d.next = c.next /\ d.new = m /\ d.object = object
  BY DEF Consumers
<1>2. (object = 1 => k = 0) /\ k <= c.next - 1 /\ Amount(s, k, c.next - 1) = Unpacked(shown, m)
  BY DEF Showing
<1>3. Unpacked(shown, m) \in Shots /\ m \in Messages
  BY UnpackedFields
<1>4. /\ new \in Shots /\ new.shot = Unpacked(shown, m).shot
      /\ new.club = shown.club /\ new.type = shown.type
  BY <1>3 DEF Shots
<1> HIDE DEF d, m, new
<1>5. Unpacked(new, m) = Unpacked(shown, m)
  <2>1. Unpacked(new, m).shot = Unpacked(shown, m).shot
    BY <1>3, <1>4, UnpackedFields
  <2>2. Unpacked(new, m).type = Unpacked(shown, m).type
    BY <1>3, <1>4, UnpackedFields
  <2>3. Unpacked(new, m).club = Unpacked(shown, m).club
    BY <1>3, <1>4, UnpackedFields
  <2>4. Unpacked(new, m) \in Shots
    BY <1>3, <1>4, UnpackedFields
  <2> QED BY <1>3, <2>1, <2>2, <2>3, <2>4, SameShot
<1>6. Showing(d, k, s, new, object)
  BY <1>1, <1>2, <1>4, <1>5 DEF Showing
<1> QED BY <1>6 DEF d, m, new

\* The rest of the result goes into the object the measurements went into: the page's,
\* or one that a reset has replaced, where nobody sees it.
LEMMA ShowingAfterType ==
    ASSUME NEW c \in Consumers, c.new \in Messages, NEW s \in Seq(Results), NEW shown \in Shots,
           NEW object \in Nat \ {0}, c.object <= object, c.next <= Len(s) + 1,
           NEW k \in 0..Len(s), c.stage = "type", Showing(c, k, s, shown, object)
    PROVE  LET now == IF c.object = object THEN Unpacked(shown, c.new) ELSE shown
           IN  \E j \in 0..Len(s) : Showing(Waiting(c.next), j, s, now, object)
<1> DEFINE d == Waiting(c.next)
           p == c.next - 1
<1>1. d.stage = "receive" /\ d.next = c.next
  BY DEF Waiting
<1>2. (object = 1 => k = 0) /\ k <= p
  BY DEF Showing
<1>3. CASE c.object = object
  <2>1. Amount(s, k, p) = Unpacked(shown, c.new)
    BY <1>3 DEF Showing
  <2> HIDE DEF d
  <2>2. Showing(d, k, s, Unpacked(shown, c.new), object)
    BY <1>1, <1>2, <2>1 DEF Showing
  <2> QED BY <1>3, <2>2 DEF d
<1>4. CASE c.object # object
  <2>1. shown = Fresh
    BY <1>4 DEF Showing
  <2>2. object # 1 /\ p \in 0..Len(s) /\ p \in Nat /\ p <= Len(s)
    BY <1>4 DEF Consumers
  <2>3. Amount(s, p, p) = Fresh
    BY <2>2, AmountSteps
  <2> HIDE DEF d
  <2>4. Showing(d, p, s, shown, object)
    BY <1>1, <2>1, <2>2, <2>3 DEF Showing
  <2> QED BY <1>4, <2>2, <2>4 DEF d
<1> QED BY <1>3, <1>4

\* A reset leaves out the messages before it; one that is being worked off still counts.
LEMMA ShowingAfterReset ==
    ASSUME NEW c \in Consumers, HasMessage(c), NEW s \in Seq(Results), NEW shown,
           NEW object \in Nat \ {0}, c.object <= object, c.next <= Len(s) + 1,
           NEW k \in 0..Len(s), Showing(c, k, s, shown, object)
    PROVE  \E j \in 0..Len(s) : Showing(c, j, s, Fresh, object + 1)
<1> DEFINE p == c.next - 1
<1>1. /\ p \in 0..Len(s) /\ p \in Nat /\ p <= Len(s) /\ k <= p /\ object + 1 # 1
      /\ c.stage \in Stages /\ c.object # object + 1 /\ Len(s) \in Nat
  BY DEF Consumers, Showing
<1>2. CASE c.stage \in {"receive", "dead"}
  <2>1. Amount(s, p, p) = Fresh
    BY <1>1, AmountSteps
  <2>2. Showing(c, p, s, Fresh, object + 1)
    BY <1>1, <1>2, <2>1 DEF Showing
  <2> QED BY <1>1, <2>2
<1>3. CASE c.stage \in {"club", "decide", "unpack"}
  <2>1. k < p /\ c.new = s[p] /\ c.new \in Messages
    BY <1>3 DEF Showing, HasMessage
  <2> DEFINE j == p - 1
  <2>2. j \in Nat /\ j \in 0..Len(s) /\ j < Len(s) /\ j <= Len(s) /\ j < p /\ j <= p /\ j + 1 = p
    BY <1>1, <2>1
  <2> HIDE DEF j
  <2>3. Amount(s, j, j) = Fresh /\ Amount(s, j, j + 1) = Shown(Amount(s, j, j), s[j + 1])
    BY <2>2, AmountSteps
  <2>4. Amount(s, j, p) = Unpacked(Fresh, c.new) /\ Replaces(NewResult(c.new), Fresh)
    BY <2>1, <2>2, <2>3, FreshIsReplaced
  <2>5. Showing(c, j, s, Fresh, object + 1)
    BY <1>1, <1>3, <2>1, <2>2, <2>3, <2>4 DEF Showing, j
  <2> QED BY <2>2, <2>5
<1>4. CASE c.stage = "type"
  <2>1. Showing(c, k, s, Fresh, object + 1)
    BY <1>1, <1>4 DEF Showing
  <2> QED BY <2>1
<1> QED BY <1>1, <1>2, <1>3, <1>4 DEF Stages

(* The steps of the servlet.                                                *)

LEMMA PageTypesInit == Init => PageInv
<1> SUFFICES ASSUME Init PROVE PageInv
  OBVIOUS
<1>1. PageTypes
  BY FreshIsShot DEF Init, PageTypes
<1>2. result[current] = Face(Fresh, clicked)
  BY FreshIsShot DEF Init, Face, Fresh
<1> QED
  BY <1>1, <1>2 DEF Init, PageInv, Protocol, Unheard

\* The consumer of a thread that takes a step.
LEMMA ConsumerAt ==
    ASSUME PageTypes, NEW r \in Requests, NEW stage, At(r, stage)
    PROVE  /\ consumers[r] \in Consumers /\ consumers[r] # None /\ consumers[r].stage = stage
           /\ HasMessage(consumers[r])
BY DEF PageTypes, At

LEMMA WaitingIsConsumer ==
    ASSUME NEW n \in Nat \ {0}
    PROVE  /\ Waiting(n) \in Consumers /\ Waiting(n).stage = "receive"
           /\ Waiting(n).next = n /\ Waiting(n).object = 1 /\ HasMessage(Waiting(n))
BY DEF Waiting, Consumers, Stages, HasMessage

\* A step of a consumer leaves a consumer of its thread, and the servlet alone.
ConsumerStep(r) ==
  Receive(r) \/ UpdateClub(r) \/ Decide(r) \/ UnpackShot(r) \/ UnpackType(r) \/ ConsumerFails(r)

LEMMA ConsumerMoves ==
    ASSUME PageTypes, NEW r \in Requests, ConsumerStep(r)
    PROVE  /\ consumers[r] \in Consumers /\ consumers[r] # None
           /\ consumers'[r] \in Consumers /\ consumers'[r] # None
           /\ consumers'[r].next <= Len(sent) + 1 /\ consumers'[r].object <= current
           /\ HasMessage(consumers'[r])
           /\ \A q \in Requests \ {r} : consumers'[q] = consumers[q]
           /\ consumers' \in [Requests -> {None} \cup Consumers]
           /\ UNCHANGED <<sent, current, servlet>>
<1> DEFINE c == consumers[r]
           Moved == \E d \in Consumers : /\ consumers' = [consumers EXCEPT ![r] = d]
                                         /\ d.next <= Len(sent) + 1 /\ d.object <= current
                                         /\ HasMessage(d)
<1>1. /\ c \in Consumers /\ c # None /\ c.next <= Len(sent) + 1 /\ c.object <= current
      /\ HasMessage(c) /\ current \in Nat \ {0} /\ Len(sent) \in Nat
  BY ConsumerAt DEF ConsumerStep, Receive, UpdateClub, Decide, UnpackShot, UnpackType, ConsumerFails,
     PageTypes
<1>2. UNCHANGED <<sent, current, servlet>>
  BY DEF ConsumerStep, Receive, UpdateClub, Decide, UnpackShot, UnpackType, ConsumerFails
<1>3. Moved
  <2>1. ASSUME NEW stage \in Stages, Goto(r, stage), c.stage \notin {"receive", "dead"} \/ stage = "dead"
        PROVE  Moved
    <3> DEFINE d == [c EXCEPT !.stage = stage]
    <3>1. consumers' = [consumers EXCEPT ![r] = d]
      BY <2>1 DEF Goto
    <3>2. d \in Consumers /\ d.next = c.next /\ d.object = c.object /\ d.new = c.new /\ d.stage = stage
      BY <1>1 DEF Consumers
    <3> HIDE DEF c, d
    <3>3. HasMessage(d)
      BY <1>1, <2>1, <3>2 DEF HasMessage
    <3> QED
      BY <1>1, <3>1, <3>2, <3>3
  <2>2. ASSUME Await(r) PROVE Moved
    <3>1. consumers' = [consumers EXCEPT ![r] = Waiting(c.next)] /\ c.next \in Nat \ {0}
      BY <1>1, <2>2 DEF Await, Consumers
    <3> DEFINE d == Waiting(c.next)
    <3>2. d \in Consumers /\ d.next = c.next /\ d.object = 1 /\ HasMessage(d)
      BY <3>1, WaitingIsConsumer
    <3>3. consumers' = [consumers EXCEPT ![r] = d]
      BY <3>1
    <3> HIDE DEF c, d
    <3>4. d.next <= Len(sent) + 1 /\ d.object <= current
      BY <1>1, <3>2
    <3> QED
      BY <3>2, <3>3, <3>4
  <2>3. CASE Receive(r)
    <3> DEFINE x == sent[c.next]
               d == [c EXCEPT !.stage = "club", !.next = @ + 1, !.new = x]
    <3>1. c.next <= Len(sent) /\ consumers' = [consumers EXCEPT ![r] = d]
      BY <2>3 DEF Receive
    <3>2. x \in Messages
      BY <1>1, <3>1, ResultsAssumption DEF PageTypes, Consumers
    <3> HIDE DEF c, x
    <3>3. d.next = c.next + 1 /\ d.object = c.object /\ d.new = x /\ d \in Consumers
      <4>1. ASSUME NEW n \in Nat \ {0}
            PROVE  [c EXCEPT !.stage = "club", !.next = n, !.new = x] \in Consumers
        BY <1>1, <3>2 DEF Consumers, Stages
      <4>2. c.next + 1 \in Nat \ {0} /\ d.next = c.next + 1 /\ d.object = c.object /\ d.new = x
        BY <1>1 DEF Consumers
      <4>3. d = [c EXCEPT !.stage = "club", !.next = c.next + 1, !.new = x]
        BY <1>1 DEF Consumers
      <4> HIDE DEF d
      <4> QED
        BY <4>1, <4>2, <4>3
    <3>4. d.next <= Len(sent) + 1 /\ d.object <= current
      BY <1>1, <3>1, <3>3 DEF Consumers
    <3> HIDE DEF d
    <3>5. HasMessage(d)
      BY <3>2, <3>3 DEF HasMessage
    <3> QED
      BY <3>1, <3>3, <3>4, <3>5
  <2>4. CASE UnpackShot(r)
    <3> DEFINE d == [c EXCEPT !.stage = "type", !.object = current]
    <3>1. consumers' = [consumers EXCEPT ![r] = d] /\ c.stage = "unpack"
      BY <2>4 DEF UnpackShot, At
    <3> HIDE DEF c
    <3>2. d.next = c.next /\ d.object = current /\ d.new = c.new /\ d \in Consumers
      BY <1>1 DEF Consumers, Stages
    <3>3. d.next <= Len(sent) + 1 /\ d.object <= current
      BY <1>1, <3>2
    <3> HIDE DEF d
    <3>4. HasMessage(d)
      BY <1>1, <3>1, <3>2 DEF HasMessage
    <3> QED
      BY <3>1, <3>2, <3>3, <3>4
  <2>5. CASE UpdateClub(r)
    BY <2>1, <2>5 DEF UpdateClub, At, Stages
  <2>6. CASE ConsumerFails(r)
    BY <2>1, <2>6 DEF ConsumerFails, Stages
  <2>7. CASE Decide(r)
    <3>1. c.stage = "decide" /\ (Goto(r, "unpack") \/ Await(r))
      BY <2>7 DEF Decide, At
    <3> HIDE DEF Moved, c
    <3> QED
      BY <2>1, <2>2, <3>1 DEF Stages
  <2>8. CASE UnpackType(r)
    BY <2>2, <2>8 DEF UnpackType
  <2> QED
    BY <2>3, <2>4, <2>5, <2>6, <2>7, <2>8 DEF ConsumerStep
<1>4. PICK d \in Consumers : /\ consumers' = [consumers EXCEPT ![r] = d]
                            /\ d.next <= Len(sent) + 1 /\ d.object <= current
                            /\ HasMessage(d)
  BY <1>3
<1>5. d # None
  BY <1>4, NoneAssumption
<1> QED
  BY <1>1, <1>2, <1>4, <1>5 DEF PageTypes

LEMMA PageTypesStep == PageTypes /\ [Next]_vars => PageTypes'
<1> SUFFICES ASSUME PageTypes, [Next]_vars PROVE PageTypes'
  OBVIOUS
<1>1. ASSUME NEW m \in Results, Send(m) PROVE PageTypes'
  <2>1. sent' = Append(sent, m) /\ UNCHANGED <<request, consumers, result, current, clicked>>
    BY <1>1 DEF Send, servlet
  <2>2. sent' \in Seq(Results) /\ Len(sent') = Len(sent) + 1 /\ Len(sent) \in Nat
    BY <2>1 DEF PageTypes
  <2>3. \A r \in Requests : consumers[r] # None =>
          /\ consumers[r].next <= Len(sent') + 1 /\ consumers[r].object <= current
          /\ HasMessage(consumers[r])
    BY <2>2 DEF PageTypes, Consumers
  <2> QED
    BY <2>1, <2>2, <2>3 DEF PageTypes
<1>2. ASSUME NEW r \in Requests, Get(r) \/ SetCreated(r) \/ Count(r) PROVE PageTypes'
  BY <1>2 DEF PageTypes, Step, Get, SetCreated, Count
<1>3. ASSUME NEW r \in Requests, CreateConsumer(r) PROVE PageTypes'
  <2> DEFINE c == Waiting(Len(sent) + 1)
  <2>1. consumers' = [consumers EXCEPT ![r] = c] /\ UNCHANGED <<sent, result, current, clicked>>
        /\ request' = [request EXCEPT ![r] = "flag"]
    BY <1>3 DEF CreateConsumer, Step
  <2>0. Len(sent) \in Nat /\ Len(sent) + 1 \in Nat \ {0}
    BY DEF PageTypes
  <2>2. c \in Consumers /\ c.next <= Len(sent) + 1 /\ c.object <= current /\ HasMessage(c)
    BY <2>0, WaitingIsConsumer DEF PageTypes
  <2> HIDE DEF c
  <2> QED
    BY <2>1, <2>2 DEF PageTypes
<1>4. ASSUME NEW r \in Requests, Reset(r) PROVE PageTypes'
  <2>1. result' = Append(result, Fresh) /\ current' = Len(result') /\ UNCHANGED <<sent, consumers>>
        /\ request' = [request EXCEPT ![r] = "idle"] /\ clicked' = None
    BY <1>4 DEF Reset, Step
  <2>3. result' \in Seq(Shots) /\ current' = current + 1 /\ current' \in Nat \ {0} /\ current' = Len(result')
    BY <2>1, FreshIsShot DEF PageTypes
  <2>4. \A q \in Requests : consumers[q] # None =>
          /\ consumers[q].next <= Len(sent) + 1 /\ consumers[q].object <= current'
          /\ HasMessage(consumers[q])
    BY <2>3 DEF PageTypes, Consumers
  <2> QED
    BY <2>1, <2>3, <2>4 DEF PageTypes
<1>5. ASSUME NEW r \in Requests, ConsumerStep(r), result' \in Seq(Shots), Len(result') = Len(result),
             clicked' \in {clicked, None}
      PROVE  PageTypes'
  <2>1. /\ consumers' \in [Requests -> {None} \cup Consumers] /\ UNCHANGED <<sent, current, servlet>>
        /\ \A q \in Requests : consumers'[q] # None =>
             /\ consumers'[q].next <= Len(sent) + 1 /\ consumers'[q].object <= current
             /\ HasMessage(consumers'[q])
    BY <1>5, ConsumerMoves DEF PageTypes
  <2> QED
    BY <1>5, <2>1 DEF PageTypes, servlet
<1>6. ASSUME NEW k \in 1..current, NEW new \in Shots, result' = [result EXCEPT ![k] = new]
      PROVE  result' \in Seq(Shots) /\ Len(result') = Len(result)
  BY <1>6 DEF PageTypes
<1>7. ASSUME NEW r \in Requests, UpdateClub(r) PROVE PageTypes'
  <2> DEFINE new == [result[current] EXCEPT !.club = NewResult(consumers[r].new).club]
  <2>1. ConsumerStep(r) /\ result' = [result EXCEPT ![current] = new] /\ clicked' = None
    BY <1>7 DEF ConsumerStep, UpdateClub
  <2>2. consumers[r].new \in Messages /\ current \in 1..current /\ result[current] \in Shots
    BY <1>7, ConsumerAt DEF PageTypes, UpdateClub, HasMessage
  <2>3. NewResult(consumers[r].new) \in Shots
    BY <2>2, FreshIsShot, UnpackedFields DEF NewResult
  <2>4. new \in Shots
    BY <2>2, <2>3 DEF Shots
  <2> HIDE DEF new
  <2> QED
    BY <1>5, <1>6, <2>1, <2>2, <2>4
<1>8. ASSUME NEW r \in Requests, Receive(r) \/ Decide(r) \/ ConsumerFails(r) PROVE PageTypes'
  BY <1>5, <1>8 DEF ConsumerStep, Receive, Decide, ConsumerFails, PageTypes
<1>9. ASSUME NEW r \in Requests, UnpackShot(r) PROVE PageTypes'
  <2> DEFINE new == [result[current] EXCEPT !.shot = Unpacked(result[current], consumers[r].new).shot]
  <2>1. ConsumerStep(r) /\ result' = [result EXCEPT ![current] = new] /\ UNCHANGED clicked
    BY <1>9 DEF ConsumerStep, UnpackShot
  <2>2. consumers[r].new \in Messages /\ current \in 1..current /\ result[current] \in Shots
    BY <1>9, ConsumerAt DEF PageTypes, UnpackShot, HasMessage
  <2>3. Unpacked(result[current], consumers[r].new) \in Shots
    BY <2>2, UnpackedFields
  <2>4. new \in Shots
    BY <2>2, <2>3 DEF Shots
  <2> HIDE DEF new
  <2> QED
    BY <1>5, <1>6, <2>1, <2>2, <2>4
<1>10. ASSUME NEW r \in Requests, UnpackType(r) PROVE PageTypes'
  <2> DEFINE k == consumers[r].object
             new == [Unpacked(result[k], consumers[r].new) EXCEPT !.shot = result[k].shot]
  <2>1. ConsumerStep(r) /\ result' = [result EXCEPT ![k] = new] /\ clicked' \in {clicked, None}
    BY <1>10 DEF ConsumerStep, UnpackType
  <2>2. consumers[r].new \in Messages /\ k \in 1..current
    BY <1>10, ConsumerAt DEF PageTypes, UnpackType, HasMessage, Consumers
  <2>3. result[k] \in Shots
    BY <2>2 DEF PageTypes
  <2>4. Unpacked(result[k], consumers[r].new) \in Shots
    BY <2>2, <2>3, UnpackedFields
  <2>5. new \in Shots
    BY <2>3, <2>4 DEF Shots
  <2> HIDE DEF new, k
  <2> QED
    BY <1>5, <1>6, <2>1, <2>2, <2>5
<1>11. ASSUME NEW c \in Buttons, SetCurrentClubType(c) PROVE PageTypes'
  <2> DEFINE new == [result[current] EXCEPT !.club = c]
  <2>1. /\ result' = [result EXCEPT ![current] = new] /\ clicked' = c
        /\ UNCHANGED <<sent, request, consumers, current>>
    BY <1>11 DEF SetCurrentClubType, servlet
  <2>2. c \in GsClubType /\ current \in 1..current /\ result[current] \in Shots
    BY ResultsAssumption DEF PageTypes
  <2>3. new \in Shots
    BY <2>2 DEF Shots
  <2> HIDE DEF new
  <2>4. result' \in Seq(Shots) /\ Len(result') = Len(result)
    BY <1>6, <2>1, <2>2, <2>3
  <2> QED
    BY <2>1, <2>2, <2>4 DEF PageTypes
<1>12. CASE UNCHANGED vars
  BY <1>12 DEF vars, servlet, PageTypes
<1> QED
  BY <1>1, <1>2, <1>3, <1>4, <1>7, <1>8, <1>9, <1>10, <1>11, <1>12 DEF Next

\* A click changes what the page shows by the club that is clicked.
LEMMA ClickShows ==
    ASSUME PageTypes, NEW shown \in Shots, result[current] = Face(shown, clicked),
           NEW c \in Buttons, SetCurrentClubType(c)
    PROVE  result'[current] = Face(shown, clicked')
<1>1. result' = [result EXCEPT ![current] = [@ EXCEPT !.club = c]] /\ clicked' = c
  BY DEF SetCurrentClubType
<1>2. result'[current] = [Face(shown, clicked) EXCEPT !.club = c]
  BY <1>1 DEF PageTypes
<1>3. c \in GsClubType /\ c # None
  BY ResultsAssumption, NoneAssumption
<1>4. [Face(shown, clicked) EXCEPT !.club = c] = Face(shown, c)
  BY <1>3 DEF Face
<1> QED BY <1>1, <1>2, <1>4

\* Who starts a consumer has none; the first to start one shows a fresh page, or a
\* club that was clicked.
LEMMA ProtocolStep == PageTypes /\ Protocol /\ Unheard /\ [Next]_vars => Protocol' /\ Unheard'
<1> SUFFICES ASSUME PageTypes, Protocol, Unheard, [Next]_vars PROVE Protocol' /\ Unheard'
  OBVIOUS
<1>1. ASSUME NEW m \in Results, Send(m) PROVE Protocol' /\ Unheard'
  BY <1>1 DEF Send, servlet, Protocol, Unheard
<1>2. ASSUME NEW r \in Requests, Get(r) \/ SetCreated(r) \/ Count(r)
      PROVE  Protocol' /\ Unheard'
  <2>1. Unheard'
    BY <1>2 DEF Get, SetCreated, Count, Unheard
  <2>2. UNCHANGED consumers
    BY <1>2 DEF Get, SetCreated, Count
  <2>3. \A q \in Requests \ {r} : request'[q] = request[q]
    BY <1>2 DEF Get, SetCreated, Count, Step, PageTypes
  <2>4. created => created'
    BY <1>2 DEF Get, SetCreated, Count
  <2>5. /\ consumers[r] # None => created' \/ request'[r] = "flag"
        /\ request'[r] = "create" => consumers[r] = None
    BY <1>2 DEF Get, SetCreated, Count, Step, Protocol, PageTypes
  <2> QED
    BY <2>1, <2>2, <2>3, <2>4, <2>5 DEF Protocol
<1>3. ASSUME NEW r \in Requests, CreateConsumer(r) PROVE Protocol' /\ Unheard'
  <2>1. /\ consumers'[r] # None /\ \A q \in Requests \ {r} : consumers'[q] = consumers[q]
        /\ request'[r] = "flag" /\ \A q \in Requests \ {r} : request'[q] = request[q]
        /\ UNCHANGED created
    <3>1. Len(sent) + 1 \in Nat \ {0}
      BY DEF PageTypes
    <3>2. Waiting(Len(sent) + 1) \in Consumers
      BY <3>1, WaitingIsConsumer
    <3> QED
      BY <1>3, <3>2, NoneAssumption DEF CreateConsumer, PageTypes, Step
  <2> QED
    BY <2>1 DEF Protocol, Unheard
<1>4. ASSUME NEW r \in Requests, Reset(r) PROVE Protocol' /\ Unheard'
  <2>1. UNCHANGED <<sent, created, consumers>>
    BY <1>4 DEF Reset
  <2>2. request'[r] = "idle" /\ \A q \in Requests \ {r} : request'[q] = request[q]
    BY <1>4 DEF Reset, Step, PageTypes
  <2>3. result'[current'] = Face(Fresh, clicked')
    BY <1>4 DEF Reset, PageTypes, Face, Fresh
  <2>4. request[r] = "reset"
    BY <1>4 DEF Reset, Step
  <2> QED
    BY <2>1, <2>2, <2>3, <2>4 DEF Protocol, Unheard
<1>5. ASSUME NEW r \in Requests, ConsumerStep(r) PROVE Protocol' /\ Unheard'
  <2>1. /\ consumers[r] # None /\ consumers'[r] # None /\ UNCHANGED <<created, request>>
        /\ \A q \in Requests \ {r} : consumers'[q] = consumers[q]
    BY <1>5, ConsumerMoves DEF servlet
  <2> QED
    BY <2>1 DEF Protocol, Unheard
<1>6. ASSUME NEW c \in Buttons, SetCurrentClubType(c) PROVE Protocol' /\ Unheard'
  <2>1. /\ result' = [result EXCEPT ![current].club = c] /\ clicked' = c
        /\ UNCHANGED <<sent, consumers, current, created, request>>
    BY <1>6 DEF SetCurrentClubType, servlet
  <2>2. ASSUME result[current] = Face(Fresh, clicked) PROVE result'[current] = Face(Fresh, clicked')
    <3> HIDE DEF Fresh
    <3> QED
      BY <1>6, <2>2, ClickShows, FreshIsShot
  <2> QED
    BY <2>1, <2>2 DEF Protocol, Unheard
<1>7. CASE UNCHANGED vars
  BY <1>7 DEF vars, servlet, Protocol, Unheard
<1> QED
  BY <1>1, <1>2, <1>3, <1>4, <1>5, <1>6, <1>7 DEF Next, ConsumerStep

\* A consumer that was alone stays alone until another thread starts one.
LEMMA ShowsStep ==
    ASSUME PageInv, [Next]_vars, PageTypes', NEW r \in Requests, consumers'[r] # None, Alone'
    PROVE  Shows(r)'
<1> DEFINE c == consumers[r]
           page == result[current]
<1>1. ASSUME NEW q \in Requests, CreateConsumer(q) PROVE Shows(r)'
  <2> DEFINE d == Waiting(Len(sent) + 1)
  <2>0. Len(sent) \in Nat /\ Len(sent) + 1 \in Nat \ {0}
    BY DEF PageInv, PageTypes
  <2>1. d \in Consumers /\ d # None /\ d.stage = "receive" /\ d.next = Len(sent) + 1
    BY <2>0, WaitingIsConsumer, NoneAssumption
  <2>2. /\ consumers'[q] = d /\ \A o \in Requests \ {q} : consumers'[o] = consumers[o]
        /\ consumers[q] = None /\ UNCHANGED <<sent, result, current, clicked>>
    BY <1>1 DEF CreateConsumer, Step, PageInv, PageTypes, Protocol
  <2> HIDE DEF d
  <2>3. r = q /\ \A o \in Requests \ {q} : consumers[o] = None
    BY <2>1, <2>2 DEF Alone
  <2>4. sent = <<>> /\ page = Face(Fresh, clicked)
    BY <2>2, <2>3 DEF PageInv, Unheard
  <2>5. d.next = 1 /\ Len(sent) = 0 /\ 0 \in 0..Len(sent)
    BY <2>1, <2>4
  <2>6. Amount(sent, 0, 0) = Fresh
    BY <2>4, NoMessages
  <2>7. Showing(d, 0, sent, Fresh, current)
    BY <2>1, <2>5, <2>6 DEF Showing
  <2> QED
    BY <2>2, <2>3, <2>4, <2>5, <2>7, FreshIsShot DEF Shows
<1>2. ASSUME NEW q \in Requests, ConsumerStep(q) PROVE Shows(r)'
  <2>1. /\ consumers[q] # None /\ consumers'[q] # None /\ UNCHANGED <<sent, current>>
        /\ \A o \in Requests \ {q} : consumers'[o] = consumers[o]
    BY <1>2, ConsumerMoves DEF PageInv
  <2>2. q = r /\ Alone
    BY <2>1 DEF Alone
  <2>3. PICK k \in 0..Len(sent), shown \in Shots :
           page = Face(shown, clicked) /\ Showing(c, k, sent, shown, current)
    BY <2>1, <2>2 DEF PageInv, Shows
  <2>4. /\ c \in Consumers /\ sent \in Seq(Results) /\ current \in Nat \ {0}
        /\ page \in Shots /\ current \in DOMAIN result /\ HasMessage(c)
        /\ c.next <= Len(sent) + 1 /\ c.object <= current
        /\ clicked \in GsClubType \cup {None}
    BY <1>2, <2>1, <2>2, ConsumerMoves DEF PageInv, PageTypes
  <2> DEFINE e == consumers'[r]
             now == result'[current]
             m == c.new
  <2>5. SUFFICES \E j \in 0..Len(sent), then \in Shots :
                   now = Face(then, clicked') /\ Showing(e, j, sent, then, current)
    BY <2>1 DEF Shows
  <2>6. CASE Receive(r)
    <3>1. /\ c.stage = "receive" /\ c.next <= Len(sent) /\ now = page /\ clicked' = clicked
          /\ e = [c EXCEPT !.stage = "club", !.next = @ + 1, !.new = sent[c.next]]
      BY <2>6 DEF Receive, At, PageInv, PageTypes
    <3> HIDE DEF c, e, page, now
    <3>2. Showing([c EXCEPT !.stage = "club", !.next = @ + 1, !.new = sent[c.next]],
                  k, sent, shown, current)
      BY <2>3, <2>4, <3>1, ShowingAfterReceive
    <3> QED
      BY <2>3, <3>1, <3>2
  <2>7. CASE UpdateClub(r)
    <3> DEFINE club_ == NewResult(m).club
               then == [shown EXCEPT !.club = club_]
    <3>1. /\ c.stage = "club" /\ e = [c EXCEPT !.stage = "decide"] /\ clicked' = None
          /\ now = [page EXCEPT !.club = club_]
      BY <2>4, <2>7 DEF UpdateClub, At, Goto, PageInv, PageTypes
    <3>2. m \in Messages
      BY <2>4, <3>1 DEF HasMessage
    <3>3. NewResult(m) \in Shots
      BY <3>2, FreshIsShot, UnpackedFields DEF NewResult
    <3>4. then \in Shots /\ now = Face(then, None)
      BY <2>3, <2>4, <3>1, <3>3 DEF Shots, Face
    <3>5. Showing([c EXCEPT !.stage = "decide"], k, sent, then, current)
      BY <2>3, <2>4, <3>1, ShowingAfterClub
    <3> HIDE DEF c, e, page, now, then
    <3> QED
      BY <3>1, <3>4, <3>5
  <2>8. CASE Decide(r)
    <3>1. /\ c.stage = "decide" /\ now = page /\ clicked' = clicked
          /\ e = IF Replaces(NewResult(m), page) THEN [c EXCEPT !.stage = "unpack"]
                                                  ELSE Waiting(c.next)
      BY <2>8 DEF Decide, At, Goto, Await, PageInv, PageTypes
    <3>2. Replaces(NewResult(m), page) <=> Replaces(NewResult(m), shown)
      <4>1. page.shot = shown.shot /\ page.type = shown.type
        BY <2>3, <2>4, FaceFields
      <4> HIDE DEF page
      <4> QED BY <4>1 DEF Replaces
    <3>3. IF Replaces(NewResult(m), shown)
            THEN Showing([c EXCEPT !.stage = "unpack"], k, sent, shown, current)
            ELSE Showing(Waiting(c.next), k, sent, shown, current)
      BY <2>3, <2>4, <3>1, ShowingAfterDecide
    <3> HIDE DEF c, e, page, now, m
    <3>4. Showing(e, k, sent, shown, current)
      BY <3>1, <3>2, <3>3
    <3> QED
      BY <2>3, <3>1, <3>4
  <2>9. CASE UnpackShot(r)
    <3> DEFINE then == [shown EXCEPT !.shot = Unpacked(shown, m).shot]
    <3>1. /\ c.stage = "unpack" /\ e = [c EXCEPT !.stage = "type", !.object = current]
          /\ now = [page EXCEPT !.shot = Unpacked(page, m).shot] /\ clicked' = clicked
      BY <2>4, <2>9 DEF UnpackShot, At, PageInv, PageTypes
    <3>2. m \in Messages
      BY <2>4, <3>1 DEF HasMessage
    <3>3. Unpacked(page, m).shot = Unpacked(shown, m).shot /\ Unpacked(shown, m) \in Shots
      <4>1. page.shot = shown.shot
        BY <2>3, <2>4, FaceFields
      <4> HIDE DEF page, m
      <4> QED BY <2>3, <2>4, <3>2, <4>1, UnpackedFields
    <3>4. then \in Shots /\ now = Face(then, clicked')
      BY <2>3, <2>4, <3>1, <3>3 DEF Shots, Face
    <3>5. Showing([c EXCEPT !.stage = "type", !.object = current], k, sent, then, current)
      BY <2>3, <2>4, <3>1, <3>2, ShowingAfterUnpack
    <3> HIDE DEF c, e, page, now, then
    <3> QED
      BY <3>1, <3>4, <3>5
  <2>10. CASE UnpackType(r)
    <3>1. /\ c.stage = "type" /\ e = Waiting(c.next)
          /\ c.object = current =>
               /\ now = [Unpacked(page, m) EXCEPT !.shot = page.shot]
               /\ clicked' = IF m.fields > 1 THEN None ELSE clicked
          /\ c.object # current => now = page /\ clicked' = clicked
      BY <2>4, <2>10 DEF UnpackType, At, Await, PageInv, PageTypes
    <3>2. m \in Messages
      BY <2>4, <3>1 DEF HasMessage
    <3> DEFINE then == IF c.object = current THEN Unpacked(shown, m) ELSE shown
    <3>3. \E j \in 0..Len(sent) : Showing(Waiting(c.next), j, sent, then, current)
      BY <2>3, <2>4, <3>1, <3>2, ShowingAfterType
    <3>4. then \in Shots /\ now = Face(then, clicked')
      <4>1. CASE c.object # current
        BY <2>3, <3>1, <4>1
      <4>2. CASE c.object = current
        <5> DEFINE x == Unpacked(shown, m)
                   y == Unpacked(page, m)
        <5>0. /\ page.shot = shown.shot /\ page.type = shown.type
              /\ page.club = IF clicked = None THEN shown.club ELSE clicked
          BY <2>3, <2>4, FaceFields
        <5>1. x.shot = shown.shot
          BY <2>3, <3>1, <4>2 DEF Showing
        <5>2. /\ x \in Shots
              /\ x.club = IF m.fields > 1 THEN m.club ELSE shown.club
              /\ x.type = IF m.fields > 2 THEN m.type ELSE shown.type
          BY <2>3, <3>2, UnpackedFields
        <5>3. /\ y \in Shots
              /\ y.club = IF m.fields > 1 THEN m.club ELSE page.club
              /\ y.type = IF m.fields > 2 THEN m.type ELSE page.type
          BY <2>4, <3>2, UnpackedFields
        <5>4. now = [y EXCEPT !.shot = page.shot] /\ clicked' = IF m.fields > 1 THEN None ELSE clicked
          BY <3>1, <4>2
        <5>5. then = x
          BY <4>2
        <5> HIDE DEF x, y, now, then, page, m, c
        <5>6. now \in Shots /\ now.shot = page.shot /\ now.club = y.club /\ now.type = y.type
          BY <2>4, <5>3, <5>4 DEF Shots
        <5>7. now.shot = x.shot /\ now.type = x.type
          BY <5>0, <5>1, <5>2, <5>3, <5>6
        <5>8. now.club = IF clicked' = None THEN x.club ELSE clicked'
          BY <5>0, <5>2, <5>3, <5>4, <5>6
        <5>9. Face(x, clicked') \in Shots /\ now = Face(x, clicked')
          BY <2>4, <5>2, <5>4, <5>6, <5>7, <5>8 DEF Face, Shots
        <5> QED BY <5>2, <5>5, <5>9
      <4> QED BY <4>1, <4>2
    <3> HIDE DEF c, e, page, now, then
    <3> QED
      BY <3>1, <3>3, <3>4
  <2>11. CASE ConsumerFails(r)
    <3>1. c.stage = "receive" /\ now = page /\ e = [c EXCEPT !.stage = "dead"] /\ clicked' = clicked
      BY <2>11 DEF ConsumerFails, At, Goto, PageInv, PageTypes
    <3>2. e.stage = "dead" /\ e.next = c.next
      BY <2>4, <3>1 DEF Consumers
    <3> HIDE DEF c, e, page, now
    <3>3. Showing(e, k, sent, shown, current)
      BY <2>3, <3>1, <3>2 DEF Showing
    <3> QED
      BY <2>3, <3>1, <3>3
  <2> QED
    BY <1>2, <2>2, <2>6, <2>7, <2>8, <2>9, <2>10, <2>11 DEF ConsumerStep
<1>3. ASSUME UNCHANGED consumers
      PROVE  /\ c # None /\ c \in Consumers /\ c.next <= Len(sent) + 1 /\ c.object <= current
             /\ HasMessage(c)
             /\ sent \in Seq(Results) /\ current \in Nat \ {0} /\ current = Len(result)
             /\ result \in Seq(Shots)
             /\ \E k \in 0..Len(sent), shown \in Shots :
                  page = Face(shown, clicked) /\ Showing(c, k, sent, shown, current)
  BY <1>3 DEF Alone, PageInv, PageTypes, Shows
<1>4. ASSUME NEW m \in Results, Send(m) PROVE Shows(r)'
  <2>1. sent' = Append(sent, m) /\ UNCHANGED <<consumers, result, current, clicked>>
    BY <1>4 DEF Send
  <2>2. PICK k \in 0..Len(sent), shown \in Shots :
          page = Face(shown, clicked) /\ Showing(c, k, sent, shown, current)
    BY <1>3, <2>1
  <2>3. Showing(c, k, Append(sent, m), shown, current)
    BY <1>3, <2>1, <2>2, ShowingAfterSend
  <2>4. k \in 0..Len(sent')
    BY <1>3, <2>1
  <2> QED
    BY <2>1, <2>2, <2>3, <2>4 DEF Shows
<1>5. ASSUME NEW q \in Requests, Reset(q) PROVE Shows(r)'
  <2>1. /\ result' = Append(result, Fresh) /\ current' = Len(result') /\ clicked' = None
        /\ UNCHANGED <<sent, consumers>>
    BY <1>5 DEF Reset
  <2>2. current' = current + 1 /\ result'[current'] = Face(Fresh, clicked')
    BY <1>3, <2>1 DEF Face, Fresh
  <2>3. PICK k \in 0..Len(sent), shown \in Shots : Showing(c, k, sent, shown, current)
    BY <1>3, <2>1
  <2>4. \E j \in 0..Len(sent) : Showing(c, j, sent, Fresh, current + 1)
    BY <1>3, <2>1, <2>3, ShowingAfterReset
  <2> QED
    BY <2>1, <2>2, <2>4, FreshIsShot DEF Shows
<1>6. ASSUME UNCHANGED <<sent, consumers, result, current, clicked>> PROVE Shows(r)'
  <2>1. \E k \in 0..Len(sent), shown \in Shots :
          page = Face(shown, clicked) /\ Showing(c, k, sent, shown, current)
    BY <1>3, <1>6
  <2> QED
    BY <1>6, <2>1 DEF Shows
<1>7. ASSUME NEW club_ \in Buttons, SetCurrentClubType(club_) PROVE Shows(r)'
  <2>1. UNCHANGED <<sent, consumers, current>>
    BY <1>7 DEF SetCurrentClubType
  <2>2. PICK k \in 0..Len(sent), shown \in Shots :
          page = Face(shown, clicked) /\ Showing(c, k, sent, shown, current)
    BY <1>3, <2>1
  <2>3. result'[current] = Face(shown, clicked')
    BY <1>7, <2>2, ClickShows DEF PageInv
  <2> QED
    BY <2>1, <2>2, <2>3 DEF Shows
<1>8. ASSUME NEW q \in Requests, Get(q) \/ SetCreated(q) \/ Count(q)
      PROVE  UNCHANGED <<sent, consumers, result, current, clicked>>
  BY <1>8 DEF Get, SetCreated, Count
<1>9. CASE UNCHANGED vars
  BY <1>6, <1>9 DEF vars
<1> QED
  BY <1>1, <1>2, <1>4, <1>5, <1>6, <1>7, <1>8, <1>9 DEF Next, ConsumerStep

\* Once every message is worked off the page shows what they amount to since some
\* reset and the last club reported or clicked, for any number of requests, clicks,
\* resets and messages, also messages that cannot be unpacked to their end, unless two
\* first requests at once have each started a consumer.
THEOREM PageSettlesRight == DevicesSpec => []SettledPageIsRight
<1>1. DevicesInit => PageInv
  BY PageTypesInit DEF DevicesInit
<1>2. PageInv /\ [DevicesNext]_allVars => PageInv'
  <2> SUFFICES ASSUME PageInv, [Next]_vars PROVE PageInv'
    BY DEF DevicesNext, WatchStep, allVars
  <2>1. PageTypes' /\ Protocol' /\ Unheard'
    BY PageTypesStep, ProtocolStep DEF PageInv
  <2>2. \A r \in Requests : (consumers'[r] # None /\ Alone') => Shows(r)'
    BY <2>1, ShowsStep
  <2> QED
    BY <2>1, <2>2 DEF PageInv
<1>3. PageInv => SettledPageIsRight
  <2> DEFINE Right == \E k \in 0..Len(sent) :
                        /\ current = 1 => k = 0
                        /\ result[current] = [ShownAfter(SubSeq(sent, k + 1, Len(sent))) EXCEPT
                                                !.club = IF clicked = None THEN @ ELSE clicked]
  <2> SUFFICES ASSUME PageInv, Quiet, Alone PROVE Right
    BY DEF SettledPageIsRight
  <2>0. clicked \in GsClubType \cup {None}
    BY DEF PageInv, PageTypes
  <2>1. CASE \A r \in Requests : consumers[r] = None
    <3>1. sent = <<>> /\ result[current] = Face(Fresh, clicked)
      BY <2>1 DEF PageInv, Unheard
    <3>2. Len(sent) = 0 /\ sent \in Seq(Results)
      BY <3>1
    <3>3. ShownAfter(SubSeq(sent, 0 + 1, Len(sent))) = Fresh
      BY <3>1, <3>2, NoMessages DEF Amount
    <3>4. Face(Fresh, clicked) = [Fresh EXCEPT !.club = IF clicked = None THEN @ ELSE clicked]
      BY <2>0, FreshIsShot, FaceFields
    <3> QED
      BY <3>1, <3>2, <3>3, <3>4
  <2>2. ASSUME NEW r \in Requests, consumers[r] # None PROVE Right
    <3>1. consumers[r].stage = "receive" /\ consumers[r].next = Len(sent) + 1 /\ Len(sent) \in Nat
      BY <2>2 DEF Quiet, At, PageInv, PageTypes
    <3>2. PICK k \in 0..Len(sent), shown \in Shots :
            result[current] = Face(shown, clicked) /\ Showing(consumers[r], k, sent, shown, current)
      BY <2>2 DEF PageInv, Shows
    <3>3. (current = 1 => k = 0) /\ shown = Amount(sent, k, (Len(sent) + 1) - 1)
      BY <3>1, <3>2 DEF Showing
    <3>4. (Len(sent) + 1) - 1 = Len(sent)
      BY <3>1
    <3>5. Face(shown, clicked) = [shown EXCEPT !.club = IF clicked = None THEN @ ELSE clicked]
      BY <2>0, FaceFields
    <3> QED
      BY <3>2, <3>3, <3>4, <3>5 DEF Amount
  <2> HIDE DEF Right
  <2> QED
    BY <2>1, <2>2
<1> QED
  BY <1>1, <1>2, <1>3, PTL DEF DevicesSpec
=============================================================================
