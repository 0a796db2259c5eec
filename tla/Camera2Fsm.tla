----------------------------- MODULE Camera2Fsm ------------------------------
(***************************************************************************)
(* The camera-2 process: the same event loop as LaunchMonitorFsm, started   *)
(* in InitializingCamera2System, and ball_flight_camera_event_loop, which   *)
(* its one long handler runs.  Camera 2 is told by a message that a shot    *)
(* is about to be played; it opens its camera, and from then on counts the  *)
(* triggers that camera 1 sends over a wire until one is the picture.       *)
(*                                                                         *)
(* pc:  "push"      queueing a Restart, then returning InitializingCamera2  *)
(*      "loop", "dequeue"  as in LaunchMonitorFsm                           *)
(*      "opening"   in WaitForCam2Trigger, the camera not yet started       *)
(*      "exposing"  in app.Wait(), until the next trigger                   *)
(*      "sending"   WaitForCam2Trigger has returned                         *)
(*      "camera1"   running the handlers of the camera-1 system             *)
(*      "stopped"   RunGolfSimFsm has returned                              *)
(***************************************************************************)
EXTENDS Integers, Sequences

CONSTANTS
    kMaxQueueSize,             \* capacity of the event queue
    MaxShots,                  \* bound on the shots camera 1 arms
    kUsePreImageSubtraction,   \* the configuration constants of these names
    kCameraRequiresFlushPulse,
    CameraFaults               \* camera calls may fail or throw

ASSUME SizesAssumption == kMaxQueueSize \in Nat \ {0} /\ MaxShots \in Nat
ASSUME FlagsAssumption ==
    /\ kUsePreImageSubtraction \in BOOLEAN
    /\ kCameraRequiresFlushPulse \in BOOLEAN
    /\ CameraFaults \in BOOLEAN

VARIABLES
    state,         \* GolfSimStateMachine::state_
    pc,            \* where the FSM thread is
    queue,         \* GolfSimEventQueue::queue_
    running,       \* PiTrac_running_ of this process
    serving,       \* the shot whose arm message is being handled, or 0
    flight,        \* FlightCameraState of ball_flight_camera_event_loop
    firstTrigger,  \* the trigger that set timeOfFirstTrigger
    lastTrigger,   \* the trigger before the one that arrives
    image,         \* the trigger whose exposure return_image shows
    sent           \* the pictures sent to camera 1

fsmVars == <<state, pc, queue, running>>
cameraVars == <<flight, firstTrigger, lastTrigger, image>>
vars == <<fsmVars, serving, cameraVars, sent>>

Shots == 1..MaxShots

\* What camera 1 puts on the wire: priming pulses, the pre-image with its
\* flush, and the strobed picture with its flush.
Triggers == [kind : {"initial", "last", "preImage", "preFlush", "strobe", "flush"},
             shot : Shots]
NoTrigger == [kind |-> "none", shot |-> 0]

Arm(s) == [type |-> "ArmCamera2MessageReceived", shot |-> s]
Restart == [type |-> "Restart", shot |-> 0]
Exit == [type |-> "Exit", shot |-> 0]
Events == {Restart, Exit} \cup {Arm(s) : s \in Shots}

Take(e) ==
    /\ pc = "dequeue"
    /\ queue # <<>>
    /\ Head(queue) = e
    /\ queue' = Tail(queue)

Enqueue(e) ==
    /\ Len(queue) < kMaxQueueSize
    /\ queue' = Append(queue, e)

----------------------------------------------------------------------------
(* The event loop.                                                         *)

CheckRunning ==
    /\ pc = "loop"
    /\ pc' = IF ~running THEN "stopped"
             ELSE IF state = "WaitingForBall" THEN "camera1" ELSE "dequeue"
    /\ UNCHANGED <<state, queue, running, serving, cameraVars, sent>>

DequeueTimesOut ==
    /\ pc = "dequeue"
    /\ queue = <<>>
    /\ pc' = "loop"
    /\ UNCHANGED <<state, queue, running, serving, cameraVars, sent>>

Push ==
    /\ pc = "push"
    /\ Enqueue(Restart)
    /\ state' = "InitializingCamera2System"
    /\ pc' = "loop"
    /\ serving' = 0
    /\ UNCHANGED <<running, cameraVars, sent>>

ExitReceived ==
    /\ Take(Exit)
    /\ running' = FALSE
    /\ pc' = "loop"
    /\ UNCHANGED <<state, serving, cameraVars, sent>>

InitializingRestart ==
    /\ state = "InitializingCamera2System"
    /\ Take(Restart)
    /\ state' = "WaitingForCameraArmMessage"
    /\ pc' = "loop"
    /\ UNCHANGED <<running, serving, cameraVars, sent>>

\* The Restart of the camera-1 system: from here on this process looks for a
\* teed-up ball.  Its further life is not followed.
RestartAsCamera1 ==
    /\ state = "InitializingCamera1System"
    /\ Take(Restart)
    /\ state' = "WaitingForBall"
    /\ pc' = "loop"
    /\ UNCHANGED <<running, serving, cameraVars, sent>>

\* The locals of ball_flight_camera_event_loop are gone.
CameraOff ==
    /\ flight' = "kUninitialized"
    /\ firstTrigger' = NoTrigger
    /\ lastTrigger' = NoTrigger
    /\ image' = NoTrigger

\* The catch clause of the loop installs the initial state of camera 1,
\* whichever camera the process works for.
Throws ==
    /\ state' = "InitializingCamera1System"
    /\ pc' = "loop"
    /\ serving' = 0
    /\ CameraOff

Supported ==
    { <<"InitializingCamera2System", "Restart">>,
      <<"WaitingForCameraArmMessage", "ArmCamera2MessageReceived">>,
      <<"InitializingCamera1System", "Restart">> }

UnsupportedTransition ==
    /\ \E e \in Events \ {Exit} : <<state, e.type>> \notin Supported /\ Take(e)
    /\ Throws
    /\ UNCHANGED <<running, sent>>

----------------------------------------------------------------------------
(* WaitForCam2Trigger.                                                     *)

ArmReceived ==
    /\ state = "WaitingForCameraArmMessage"
    /\ \E s \in Shots : Take(Arm(s)) /\ serving' = s
    /\ pc' = "opening"
    /\ UNCHANGED <<state, running, cameraVars, sent>>

\* A mutant: the loop tests the flag only when it has been triggered.
WaitForAnyFrame == pc' = "exposing"

\* The loop looks at the flag before it waits for the next frame, and gives up
\* without a picture when it is down.
WaitForFrame == pc' = IF running THEN "exposing" ELSE "sending"

CameraStarted ==
    /\ pc = "opening"
    /\ flight' = "kWaitingForFirstPrimingPulseGroup"
    /\ WaitForFrame
    /\ UNCHANGED <<state, queue, running, serving, firstTrigger, lastTrigger, image, sent>>

\* A mutant: the camera is ready for the picture without a quiet period.
QuietAtOnce(p) == {TRUE}

\* Whether kQuiesceTimeMs may have passed between the first trigger and p.
\* Initial pulses are 50 ms apart, and the last one is sent at least 1500 ms
\* after them; the golfer decides how long it then takes until the hit.
Quiet(p) ==
    IF firstTrigger.shot # p.shot THEN {TRUE}
    ELSE CASE firstTrigger.kind = "initial" -> {p.kind # "initial"}
           [] OTHER -> BOOLEAN

AfterPriming ==
    IF kUsePreImageSubtraction THEN "kWaitingForPreImageTrigger"
    ELSE IF kCameraRequiresFlushPulse THEN "kWaitingForFinalImageTrigger"
    ELSE "kWaitingForFinalImageFlush"

\* The state of the loop after a trigger that is not the picture.
NextFlight(quiet) ==
    CASE flight = "kWaitingForFirstPrimingPulseGroup" -> "kWaitingForFirstPrimingTimeEnd"
      [] flight = "kWaitingForFirstPrimingTimeEnd" ->
            IF quiet THEN AfterPriming ELSE flight
      [] flight = "kWaitingForPreImageTrigger" -> "kWaitingForPreImageFlush"
      [] flight = "kWaitingForPreImageFlush" -> "kWaitingForFinalImageTrigger"
      [] flight = "kWaitingForFinalImageTrigger" -> "kWaitingForFinalImageFlush"

\* The camera is triggered and delivers a frame: the exposure just made, or
\* the one before it where the camera needs a flush to let go of it.
Frame(p) == IF kCameraRequiresFlushPulse THEN lastTrigger ELSE p

\* A trigger p arrives.  It is lost on a camera that has not been started.
Trigger(p) ==
    IF pc # "exposing" THEN UNCHANGED vars
    ELSE
    /\ lastTrigger' = IF kCameraRequiresFlushPulse THEN p ELSE NoTrigger
    /\ \/ /\ flight = "kWaitingForFinalImageFlush"
          /\ flight' = "kFinalImageReceived"
          /\ image' = Frame(p)
          /\ pc' = "sending"
          /\ UNCHANGED firstTrigger
       \/ /\ flight # "kWaitingForFinalImageFlush"
          /\ \E quiet \in Quiet(p) : flight' = NextFlight(quiet)
          /\ firstTrigger' = IF flight = "kWaitingForFirstPrimingPulseGroup" THEN p
                             ELSE firstTrigger
          /\ WaitForFrame
          /\ UNCHANGED image
    /\ UNCHANGED <<state, queue, running, serving, sent>>

\* The loop ends without a picture: an exception, or a frame it cannot read.
CameraFails ==
    /\ CameraFaults
    /\ pc \in {"opening", "exposing"}
    /\ pc' = "sending"
    /\ UNCHANGED <<state, queue, running, serving, cameraVars, sent>>

\* undistort_camera_image throws on a picture that is not there.
UndistortThrows ==
    /\ pc = "sending"
    /\ image = NoTrigger
    /\ Throws
    /\ UNCHANGED <<queue, running, sent>>

\* A mutant: the handler goes back to the initial state without a Restart.
SendPictureOnly ==
    /\ pc = "sending"
    /\ sent' = sent \cup {[shot |-> serving, image |-> image]}
    /\ state' = "InitializingCamera2System"
    /\ pc' = "loop"
    /\ serving' = 0
    /\ CameraOff
    /\ UNCHANGED <<queue, running>>

\* The picture is sent, even if it is not there.
SendPicture ==
    /\ pc = "sending"
    /\ sent' = sent \cup {[shot |-> serving, image |-> image]}
    /\ pc' = "push"
    /\ CameraOff
    /\ UNCHANGED <<state, queue, running, serving>>

----------------------------------------------------------------------------
(* The other threads, and the operator.                                    *)

\* The IPC consumer thread dispatches kRequestForCamera2Image.
ArmMessage(s) ==
    /\ Enqueue(Arm(s))
    /\ UNCHANGED <<state, pc, running, serving, cameraVars, sent>>

\* It dispatches kShutdown.  One such message at a time.
ShutdownMessage ==
    /\ \A i \in DOMAIN queue : queue[i] # Exit
    /\ Enqueue(Exit)
    /\ UNCHANGED <<state, pc, running, serving, cameraVars, sent>>

Signal ==
    /\ running
    /\ running' = FALSE
    /\ UNCHANGED <<state, pc, queue, serving, cameraVars, sent>>

\* A process that has stopped, or is killed, is started again.
StartProcess ==
    /\ state' = "InitializingCamera2System"
    /\ pc' = "push"
    /\ queue' = <<>>
    /\ running' = TRUE
    /\ serving' = 0
    /\ CameraOff
    /\ UNCHANGED sent

Init ==
    /\ state = "InitializingCamera2System"
    /\ pc = "push"
    /\ queue = <<>>
    /\ running = TRUE
    /\ serving = 0
    /\ flight = "kUninitialized"
    /\ firstTrigger = NoTrigger
    /\ lastTrigger = NoTrigger
    /\ image = NoTrigger
    /\ sent = {}

\* The steps the FSM thread takes on its own.
FsmStep ==
    \/ CheckRunning \/ DequeueTimesOut \/ Push \/ ExitReceived
    \/ InitializingRestart \/ RestartAsCamera1 \/ UnsupportedTransition
    \/ ArmReceived \/ CameraStarted \/ UndistortThrows \/ SendPicture

\* The process on its own, in an environment that may do anything: triggers of
\* two kinds, and one undispatched arm message at a time, bound the model.
EnvironmentStep ==
    \/ \E k \in {"initial", "strobe"}, s \in Shots : Trigger([kind |-> k, shot |-> s])
    \/ /\ \A i \in DOMAIN queue : queue[i].type # "ArmCamera2MessageReceived"
       /\ \E s \in Shots : ArmMessage(s)
    \/ ShutdownMessage \/ Signal \/ StartProcess \/ CameraFails

Next == FsmStep \/ EnvironmentStep

Spec == Init /\ [][Next]_vars

\* The FSM thread runs; nobody has to trigger the camera.
FairSpec == Spec /\ WF_vars(FsmStep)

----------------------------------------------------------------------------
(* Properties.                                                             *)

TypeOK ==
    /\ state \in {"InitializingCamera2System", "WaitingForCameraArmMessage",
                  "InitializingCamera1System", "WaitingForBall"}
    /\ pc \in {"push", "loop", "dequeue", "opening", "exposing", "sending",
               "camera1", "stopped"}
    /\ queue \in Seq(Events)
    /\ Len(queue) <= kMaxQueueSize
    /\ running \in BOOLEAN
    /\ serving \in 0..MaxShots
    /\ flight \in {"kUninitialized", "kWaitingForFirstPrimingPulseGroup",
                   "kWaitingForFirstPrimingTimeEnd", "kWaitingForPreImageTrigger",
                   "kWaitingForPreImageFlush", "kWaitingForFinalImageTrigger",
                   "kWaitingForFinalImageFlush", "kFinalImageReceived"}
    /\ {firstTrigger, lastTrigger, image} \subseteq Triggers \cup {NoTrigger}
    /\ sent \subseteq [shot : Shots, image : Triggers \cup {NoTrigger}]

\* The loop is driven by exactly one Restart: it is queued whenever the initial
\* state has yet to be left, and never while arm messages are awaited, where it
\* would throw the process out of its role.
Restarts == {i \in DOMAIN queue : queue[i] = Restart}

OneRestart ==
    /\ \A i, j \in Restarts : i = j
    /\ state = "InitializingCamera2System" /\ pc # "push" => Restarts # {}
    /\ state = "WaitingForCameraArmMessage" => Restarts = {}

\* A cleared flag stops the process, unless it already waits for a trigger (or
\* has taken up the work of camera 1).
StopsUnlessArmed ==
    (~running /\ pc \notin {"exposing", "camera1"}) ~> (pc = "stopped" \/ running)
=============================================================================
