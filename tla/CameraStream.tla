---------------------------- MODULE CameraStream ----------------------------
(***************************************************************************)
(* GSCameraBase and IMX296Camera, the new camera driver: one caller opens, *)
(* configures, switches, starts and stops the camera and fetches frames,   *)
(* while libcamera's thread completes the requests queued to it and calls  *)
(* requestComplete.  libcamera stops a camera on that same thread, so      *)
(* stop() waits for a callback; plain flags and frameMutex_ are all the    *)
(* two share.                                                              *)
(***************************************************************************)
EXTENDS Naturals, Sequences, FiniteSets

CONSTANTS
  Requests,    \* the requests a configured stream has buffers for
  Streams,     \* StreamType
  MaxFrames,   \* bound on the frames taken
  MaxBuffer,   \* maxFrameBuffer_
  MaxSlots,    \* bound on the connections of requestComplete
  None

Modes == {"FREE_RUNNING", "EXTERNAL_TRIGGER"}

VARIABLES
  caller,   \* the call the caller is inside
  flag,     \* isCameraOpen_, isConfigured_, cameraStarted_, isCapturing_, and whether
            \* config_ is what the camera was configured with
  slots,    \* how often requestComplete is connected
  stream,   \* activeStream_
  mode,     \* triggerMode_
  request,  \* per request its status; "None" for one that is not allocated
  callback, \* the request whose callback is running
  calls,    \* the calls of requestComplete for it that have not ended
  stored,   \* the first of these has stored its frame
  twice,    \* requestComplete was connected twice at some time
  frames,   \* the frames taken so far: a frame is its number
  latest,   \* latestFrame_
  ready,    \* frameReady_
  buffer,   \* frameBuffer_
  captured  \* per trigger mode, the frame captureFrame returned last

connection == <<slots, calls, stored, twice>>
vars == <<caller, flag, stream, mode, request, callback, connection,
          frames, latest, ready, buffer, captured>>

frame == <<frames, latest, ready, buffer, captured>>

All(status) == [r \in Requests |-> status]

Init ==
  /\ caller = "idle"
  /\ flag = [open |-> FALSE, configured |-> FALSE, started |-> FALSE, capturing |-> FALSE,
             known |-> FALSE]
  /\ slots = 0 /\ calls = 0 /\ stored = FALSE /\ twice = FALSE
  /\ stream \in Streams /\ mode \in Modes
  /\ request = All("None") /\ callback = None
  /\ frames = 0 /\ latest = 0 /\ ready = FALSE /\ buffer = <<>>
  /\ captured = [m \in Modes |-> 0]

-----------------------------------------------------------------------------
(* libcamera *)

\* queueRequest refuses a request that was completed or cancelled and not reused.
Queued == [r \in Requests |-> IF request[r] = "Pending" THEN "Queued" ELSE request[r]]

\* stop() completes what is queued as cancelled; the callback only logs that.
Cancelled == [r \in Requests |-> IF request[r] = "Queued" THEN "Cancelled" ELSE request[r]]

\* addFrameToBuffer: of a full buffer the oldest frame goes.
Added(n) ==
  IF Len(buffer) < MaxBuffer THEN Append(buffer, n) ELSE Append(Tail(buffer), n)

\* Where requestComplete puts frame n.  In a configuration that the camera was not given
\* the request's buffer is not found.
Store(n) ==
  CASE ~flag.known -> UNCHANGED <<latest, ready, buffer>>
    [] flag.known /\ mode = "EXTERNAL_TRIGGER" /\ flag.capturing ->
         buffer' = Added(n) /\ UNCHANGED <<latest, ready>>
    [] OTHER -> latest' = n /\ ready' = TRUE /\ UNCHANGED buffer

\* A frame is taken into a queued request, and requestComplete is called for it.
TakeFrame(r) ==
  /\ flag.started /\ request[r] = "Queued" /\ callback = None /\ frames < MaxFrames
  /\ frames' = frames + 1
  /\ request' = [request EXCEPT ![r] = "Complete"]
  /\ callback' = r /\ calls' = slots /\ stored' = TRUE
  /\ Store(frames')
  /\ UNCHANGED <<caller, flag, stream, mode, captured, slots, twice>>

\* A mutant: frames of an external trigger do not give their buffer back.
ReuseFreeRunning(r) ==
  /\ callback = r /\ stored /\ flag.capturing
  /\ request' = [request EXCEPT ![r] = IF mode = "FREE_RUNNING" THEN "Queued" ELSE @]
  /\ callback' = None /\ calls' = 0 /\ stored' = FALSE
  /\ UNCHANGED <<caller, flag, stream, mode, frame, slots, twice>>

\* The call ends.  While capturing, the request is reused and queued again, and a further
\* call for it finds nothing completed.
Reuse(r) ==
  /\ callback = r /\ stored /\ flag.capturing
  /\ request' = [request EXCEPT ![r] = "Queued"]
  /\ callback' = None /\ calls' = 0 /\ stored' = FALSE
  /\ UNCHANGED <<caller, flag, stream, mode, frame, slots, twice>>

\* A request that is not reused goes through requestComplete for each connection.
LeaveComplete(r) ==
  /\ callback = r /\ stored /\ ~flag.capturing
  /\ callback' = IF calls > 1 THEN r ELSE None
  /\ calls' = calls - 1 /\ stored' = FALSE
  /\ UNCHANGED <<caller, flag, stream, mode, request, frame, slots, twice>>

StoreAgain(r) ==
  /\ callback = r /\ ~stored /\ stored' = TRUE
  /\ Store(frames)
  /\ UNCHANGED <<caller, flag, stream, mode, request, callback, frames, captured, slots, calls, twice>>

-----------------------------------------------------------------------------
(* The caller. *)

OpenCamera ==
  /\ caller = "idle" /\ ~flag.open
  /\ flag' = [flag EXCEPT !.open = TRUE]
  /\ UNCHANGED <<caller, stream, mode, request, callback, connection, frame>>

\* allocateBuffersForStream makes new buffers, and a request for each.
Allocated == All("Pending")

\* reconfigureForActiveStream, from so many connections: it may be refused before the
\* old requests go, or find no buffers; isConfigured_ then stays as it was.
Reconfigure(connections) ==
  \/ /\ request' = Allocated /\ slots' = connections + 1
     /\ flag' = [flag EXCEPT !.configured = TRUE, !.known = TRUE]
  \/ /\ request' = All("None") /\ slots' = connections
     /\ flag' = [flag EXCEPT !.known = TRUE]
  \/ /\ UNCHANGED request /\ slots' = connections
     /\ flag' = [flag EXCEPT !.known = FALSE]

\* A camera that runs is not configured; nothing is disconnected before.
InitializeCamera ==
  /\ caller = "idle" /\ flag.open /\ slots < MaxSlots
  /\ IF flag.started
       THEN flag' = [flag EXCEPT !.known = FALSE] /\ UNCHANGED <<request, slots>>
       ELSE Reconfigure(slots)
  /\ twice' = (twice \/ slots' > 1)
  /\ UNCHANGED <<caller, stream, mode, callback, calls, stored, frame>>

\* captureFrame, free running: the camera is started for it if need be, and then
\* only is every request queued.
CaptureFrame ==
  /\ caller = "idle" /\ mode = "FREE_RUNNING" /\ flag.open /\ flag.configured
  /\ caller' = "capture"
  /\ IF flag.started THEN UNCHANGED <<flag, request>>
     ELSE flag' = [flag EXCEPT !.started = TRUE] /\ request' = Queued
  /\ UNCHANGED <<stream, mode, callback, connection, frame>>

\* A mutant: frameReady_ stays set.
FrameCapturedStillReady ==
  /\ caller = "capture" /\ caller' = "idle"
  /\ captured' = IF ready THEN [captured EXCEPT ![mode] = latest] ELSE captured
  /\ UNCHANGED <<flag, stream, mode, request, callback, connection, frames, latest, ready, buffer>>

\* wait_for returns: with a frame, or after a second without one.
FrameCaptured ==
  /\ caller = "capture" /\ caller' = "idle"
  /\ captured' = IF ready THEN [captured EXCEPT ![mode] = latest] ELSE captured
  /\ ready' = FALSE
  /\ UNCHANGED <<flag, stream, mode, request, callback, connection, frames, latest, buffer>>

\* captureFrame with an external trigger: getLatestFrame empties the buffer.
GetLatestFrame ==
  /\ caller = "idle" /\ mode = "EXTERNAL_TRIGGER" /\ buffer # <<>>
  /\ captured' = [captured EXCEPT ![mode] = buffer[Len(buffer)]]
  /\ buffer' = <<>>
  /\ UNCHANGED <<caller, flag, stream, mode, request, callback, connection, frames, latest, ready>>

\* getAllAvailableFrames and clearFrameBuffer
ClearFrameBuffer ==
  /\ caller = "idle" /\ buffer # <<>> /\ buffer' = <<>>
  /\ UNCHANGED <<caller, flag, stream, mode, request, callback, connection, frames, latest, ready, captured>>

\* The controls are merged into all requests, and the mode is changed; the frames
\* of the old mode stay where they are.
SetTriggerMode(m) ==
  /\ caller = "idle" /\ ~flag.capturing /\ flag.configured /\ mode' = m
  /\ UNCHANGED <<caller, flag, stream, request, callback, connection, frame>>

\* The camera is started and all requests are queued; isCapturing_ is set after that, so
\* that a request which comes back before is not queued again, and what it holds is no
\* frame of the capture.
QueueInitialRequests ==
  /\ caller = "idle" /\ flag.open /\ flag.configured /\ ~flag.capturing
  /\ caller' = "start"
  /\ flag' = [flag EXCEPT !.started = TRUE] /\ request' = Queued
  /\ UNCHANGED <<stream, mode, callback, connection, frame>>

StartContinuousCapture ==
  /\ caller = "start" /\ caller' = "idle"
  /\ flag' = [flag EXCEPT !.capturing = TRUE]
  /\ UNCHANGED <<stream, mode, request, callback, connection, frame>>

\* stopContinuousCapture, switchStream and closeCamera all clear isCapturing_ first,
\* and stop the camera after that.
Stopping(call) ==
  /\ caller = "idle" /\ flag.open /\ caller' = call
  /\ flag' = [flag EXCEPT !.capturing = FALSE]
  /\ UNCHANGED <<stream, mode, request, callback, connection, frame>>

StopContinuousCapture ==
  /\ caller = "stop" /\ caller' = "idle"
  /\ flag.started => callback = None
  /\ flag' = [flag EXCEPT !.started = FALSE] /\ request' = Cancelled
  /\ UNCHANGED <<stream, mode, callback, connection, frame>>

CloseCamera ==
  /\ caller = "close" /\ caller' = "idle"
  /\ flag.started => callback = None
  /\ flag' = [open |-> FALSE, configured |-> FALSE, started |-> FALSE, capturing |-> FALSE,
              known |-> FALSE]
  /\ request' = All("None") /\ slots' = 0
  /\ UNCHANGED <<stream, mode, callback, calls, stored, twice, frame>>

\* "switch" of a stream that was being captured goes on to start again.
Switch == {"switch", "switch and restart"}

SwitchStream ==
  /\ caller = "idle" /\ flag.open
  /\ caller' = IF flag.capturing THEN "switch and restart" ELSE "switch"
  /\ flag' = [flag EXCEPT !.capturing = FALSE]
  /\ UNCHANGED <<stream, mode, request, callback, connection, frame>>

\* The camera cannot be stopped: it goes on, and is not capturing any more.
CannotStop ==
  /\ caller \in Switch /\ flag.started /\ caller' = "idle"
  /\ UNCHANGED <<flag, stream, mode, request, callback, connection, frame>>

\* The callback is disconnected, old requests and buffers are freed, and the camera is
\* configured anew; a stream that was captured is started again, if that succeeds.
StreamSwitched(s) ==
  /\ caller \in Switch /\ s # stream /\ stream' = s
  /\ flag.started => callback = None
  /\ \/ /\ caller' = "idle" /\ request' = All("None") /\ slots' = 0
        /\ \E known \in BOOLEAN : flag' = [flag EXCEPT !.started = FALSE, !.known = known]
     \/ /\ caller' = "idle" /\ request' = Allocated /\ slots' = 1
        /\ flag' = [flag EXCEPT !.started = FALSE, !.configured = TRUE, !.known = TRUE]
     \/ /\ caller = "switch and restart" /\ caller' = "start"
        /\ request' = All("Queued") /\ slots' = 1
        /\ flag' = [flag EXCEPT !.started = TRUE, !.configured = TRUE, !.known = TRUE]
  /\ UNCHANGED <<mode, callback, calls, stored, twice, frame>>

Next ==
  \/ OpenCamera \/ InitializeCamera \/ CaptureFrame \/ FrameCaptured \/ GetLatestFrame
  \/ ClearFrameBuffer \/ QueueInitialRequests \/ StartContinuousCapture
  \/ SwitchStream \/ CannotStop
  \/ Stopping("stop") \/ Stopping("close") \/ StopContinuousCapture \/ CloseCamera
  \/ \E m \in Modes : SetTriggerMode(m)
  \/ \E s \in Streams : StreamSwitched(s)
  \/ \E r \in Requests : TakeFrame(r) \/ Reuse(r) \/ LeaveComplete(r) \/ StoreAgain(r)

Spec == Init /\ [][Next]_vars

-----------------------------------------------------------------------------
\* Every frame that waits to be handed out is newer than all that were handed out in
\* that trigger mode, so none is seen out of order: across timeouts, stops, stream
\* switches, full buffers and a camera closed and opened again.  Nor is one seen twice,
\* unless a camera that was initialized twice has two connections of its callback.
Follows(m, n) == m < n \/ (twice /\ m = n)
FramesInOrder ==
  /\ ready => Follows(captured["FREE_RUNNING"], latest)
  /\ \A i \in 1..Len(buffer) :
       Follows(IF i = 1 THEN captured["EXTERNAL_TRIGGER"] ELSE buffer[i - 1], buffer[i])

\* From when isCapturing_ is set until it is cleared, no buffer is lost: a request that is
\* not reused is never seen again, and with the last of them the camera falls silent.
\* What completed after it was queued and before the flag was set is lost already.
Spent == {r \in Requests : request[r] \in {"Complete", "Cancelled"} /\ r # callback}
CaptureLosesNoBuffer ==
  [][(flag.capturing /\ flag'.capturing) => Spent' \subseteq Spent]_vars
=============================================================================
