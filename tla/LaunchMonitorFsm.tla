-------------------------- MODULE LaunchMonitorFsm --------------------------
(***************************************************************************)
(* The camera-1 process of the launch monitor: RunGolfSimFsm, its event     *)
(* handlers, the event queue it drains, the two timer threads it creates,   *)
(* and the threads that feed it (the IPC consumer and a signal handler).    *)
(*                                                                         *)
(* One thread, the FSM thread, pops events and runs their handlers.  Every  *)
(* other thread only pushes events, or clears PiTrac_running_.  A handler   *)
(* that blocks (joining a timer thread, watching for the hit, pushing to a  *)
(* full queue) is split at the point where it blocks; `pc' says where the   *)
(* FSM thread is.                                                          *)
(*                                                                         *)
(*   "loop"      at the top of the event loop, about to test the flag      *)
(*   "dequeue"   past the test, waiting for an event                       *)
(*   "push"      in QueueEvent(pushing), then returning the state `next'    *)
(*   "joining"   in ExitThread of the stabilization timer                  *)
(*   "watching"  in WatchForHitAndTrigger                                  *)
(*   "shutdown"  in PerformSystemShutdownTasks                             *)
(*   "stopped"   RunGolfSimFsm has returned                                *)
(***************************************************************************)
EXTENDS Integers, Sequences

CONSTANTS
    kMaxQueueSize,            \* capacity of the event queue (20 in the code)
    MaxShots,                 \* bound on the shot counter
    MaxIpcMessages,           \* bound on the control and shutdown messages
    kUsePreImageSubtraction,  \* the configuration constant of that name
    Camera2SendsPreImage,     \* FALSE in the code: SendCamera2PreImage is a stub
    CameraFaults              \* camera or vision calls may throw

ASSUME QueueAssumption == kMaxQueueSize \in Nat \ {0}
ASSUME BoundsAssumption == MaxShots \in Nat /\ MaxIpcMessages \in Nat
ASSUME ModeAssumption ==
    /\ kUsePreImageSubtraction \in BOOLEAN
    /\ Camera2SendsPreImage \in BOOLEAN
    /\ CameraFaults \in BOOLEAN

VARIABLES
    state,        \* GolfSimStateMachine::state_
    pc,           \* where the FSM thread is
    pushing,      \* the event the FSM thread is pushing
    next,         \* the state its handler will return
    queue,        \* GolfSimEventQueue::queue_
    running,      \* GolfSimGlobals::PiTrac_running_
    timer,        \* the two timer threads and the pointers to them
    alreadySent,  \* already_sent_waiting_ipc_message of WaitingForBall
    uiStatus,     \* the last status message published to the GUI
    shot,         \* GsSimInterface::shot_counter_
    club,         \* the current club type
    strobed,      \* the club whose pulse sequence the last trigger sent
    requests,     \* what camera 2 has been asked for and not yet answered
    hits,         \* shots whose ball was seen to move
    results,      \* the results sent to the simulators, in order
    ipcSent       \* number of control and shutdown messages so far

fsmVars == <<state, pc, pushing, next>>
shotVars == <<shot, strobed, hits, results>>
vars == <<fsmVars, queue, running, timer, alreadySent, uiStatus, club,
          requests, shotVars, ipcSent>>

States == {"InitializingCamera1System", "WaitingForSimulatorArmed",
           "WaitingForBall", "WaitingForBallStabilization",
           "WaitingForCamera2PreImage", "WaitingForBallHit",
           "BallHitNowWaitingForCam2Image"}

\* The events that carry the FSM from one handler to the next.
DriverTypes == {"Restart", "BeginWaitingForSimulatorArmed",
                "BeginWaitingForBallPlaced", "CheckForBallStable",
                "BeginWatchingForBallHit"}

ControlTypes == {"ControlMessage.Putter", "ControlMessage.Driver",
                 "ControlMessage.Unknown"}

ImageTypes == {"Camera2ImageReceived", "Camera2PreImageReceived"}

EventTypes == DriverTypes \cup ControlTypes \cup ImageTypes
                  \cup {"CheckForCam2ImageReceived", "Exit"}

Clubs == {"kPutter", "kDriver"}

Statuses == {"kInitializing", "kWaitingForSimulatorArmed",
             "kWaitingForBallToAppear", "kPausingForBallStabilization",
             "kBallPlacedAndReadyForHit", "kHit", "kError"}

Shots == 1..MaxShots

\* An image event names the shot whose request armed camera 2 for it.
Events == [type : EventTypes, shot : 0..MaxShots]
Results == [shot : 0..MaxShots, image : 0..MaxShots, strobed : Clubs, intervals : Clubs]
Plain(t) == [type |-> t, shot |-> 0]

Stabilization == "BallStabilizationCheckTimerThread"
Watchdog == "ReceivedCam2ImageCheckTimerThread"
Timers == {Stabilization, Watchdog}

\* The event each timer thread's callback queues.
Callback(t) ==
    IF t = Stabilization THEN "CheckForBallStable" ELSE "CheckForCam2ImageReceived"

----------------------------------------------------------------------------
(* The event queue: push waits for room, pop takes the head.               *)

HasRoom == Len(queue) < kMaxQueueSize

\* The FSM thread has popped an event of type t.
Take(t) ==
    /\ pc = "dequeue"
    /\ queue # <<>>
    /\ Head(queue).type = t
    /\ queue' = Tail(queue)

\* The handler returns s without queueing anything.
Return(s) ==
    /\ pc' = "loop"
    /\ state' = s
    /\ next' = s
    /\ UNCHANGED pushing

\* The handler queues e, which may block, and then returns s.
QueueAndReturn(e, s) ==
    /\ pc' = "push"
    /\ pushing' = e
    /\ next' = s
    /\ UNCHANGED state

----------------------------------------------------------------------------
(* Timer threads.  A thread sleeps, then runs its callback: the callback    *)
(* reads PiTrac_running_ ("sleeping" -> "calling" or "done") and pushes.    *)
(* "null" is a null pointer; "done" a finished thread still pointed to.     *)

SetupTimer(t) ==
    timer' = IF timer[t] = "null" THEN [timer EXCEPT ![t] = "sleeping"] ELSE timer

\* A mutant: the thread is joined and deleted, the pointer is not cleared.
ExitThreadKeepingPointer(t) ==
    /\ timer[t] \in {"null", "done"}
    /\ UNCHANGED timer

\* ExitThread, delete, nullptr: waits until the thread has run its callback.
ExitThread(t) ==
    /\ timer[t] \in {"null", "done"}
    /\ timer' = [timer EXCEPT ![t] = "null"]

TimerExpires(t) ==
    /\ timer[t] = "sleeping"
    /\ timer' = [timer EXCEPT ![t] = IF running THEN "calling" ELSE "done"]
    /\ UNCHANGED <<fsmVars, queue, running, alreadySent, uiStatus, club,
                   requests, shotVars, ipcSent>>

TimerCallback(t) ==
    /\ timer[t] = "calling"
    /\ HasRoom
    /\ queue' = Append(queue, Plain(Callback(t)))
    /\ timer' = [timer EXCEPT ![t] = "done"]
    /\ UNCHANGED <<fsmVars, running, alreadySent, uiStatus, club, requests,
                   shotVars, ipcSent>>

----------------------------------------------------------------------------
(* The event loop.                                                         *)

\* A mutant: the loop tests the flag only when it finds the queue empty.
CheckRunningWhenIdle ==
    /\ pc = "loop"
    /\ pc' = IF running \/ queue # <<>> THEN "dequeue" ELSE "shutdown"
    /\ UNCHANGED <<state, pushing, next, queue, running, timer, alreadySent,
                   uiStatus, club, requests, shotVars, ipcSent>>

CheckRunning ==
    /\ pc = "loop"
    /\ pc' = IF running THEN "dequeue" ELSE "shutdown"
    /\ UNCHANGED <<state, pushing, next, queue, running, timer, alreadySent,
                   uiStatus, club, requests, shotVars, ipcSent>>

\* No event within kEventLoopPauseMs.
DequeueTimesOut ==
    /\ pc = "dequeue"
    /\ queue = <<>>
    /\ pc' = "loop"
    /\ UNCHANGED <<state, pushing, next, queue, running, timer, alreadySent,
                   uiStatus, club, requests, shotVars, ipcSent>>

\* The push at the end of a handler.
Push ==
    /\ pc = "push"
    /\ HasRoom
    /\ queue' = Append(queue, Plain(pushing))
    /\ Return(next)
    /\ UNCHANGED <<running, timer, alreadySent, uiStatus, club, requests,
                   shotVars, ipcSent>>

ExitReceived ==
    /\ Take("Exit")
    /\ running' = FALSE
    /\ Return(state)
    /\ UNCHANGED <<timer, alreadySent, uiStatus, club, requests, shotVars, ipcSent>>

\* ProcessControlMessageEvent: handled in every state, outside the FSM.
ControlMessageReceived ==
    /\ \/ Take("ControlMessage.Putter") /\ club' = "kPutter"
       \/ Take("ControlMessage.Driver") /\ club' = "kDriver"
       \/ Take("ControlMessage.Unknown") /\ UNCHANGED club
    /\ Return(state)
    /\ UNCHANGED <<running, timer, alreadySent, uiStatus, requests, shotVars, ipcSent>>

\* PerformSystemShutdownTasks joins both timer threads, then stops the rest.
Shutdown ==
    /\ pc = "shutdown"
    /\ \A t \in Timers : timer[t] \in {"null", "done"}
    /\ timer' = [t \in Timers |-> "null"]
    /\ running' = FALSE
    /\ pc' = "stopped"
    /\ UNCHANGED <<state, pushing, next, queue, alreadySent, uiStatus, club,
                   requests, shotVars, ipcSent>>

----------------------------------------------------------------------------
(* Event handlers.                                                         *)

InitializingRestart ==
    /\ state = "InitializingCamera1System"
    /\ Take("Restart")
    /\ uiStatus' = "kInitializing"
    /\ \/ /\ QueueAndReturn("BeginWaitingForBallPlaced", "WaitingForBall")
          /\ alreadySent' = FALSE
       \/ /\ QueueAndReturn("BeginWaitingForSimulatorArmed", "WaitingForSimulatorArmed")
          /\ UNCHANGED alreadySent
    /\ UNCHANGED <<running, timer, club, requests, shotVars, ipcSent>>

PollSimulatorArmed ==
    /\ state = "WaitingForSimulatorArmed"
    /\ Take("BeginWaitingForSimulatorArmed")
    /\ uiStatus' = "kWaitingForSimulatorArmed"
    /\ \/ /\ QueueAndReturn("BeginWaitingForBallPlaced", "WaitingForBall")
          /\ alreadySent' = FALSE
       \/ /\ QueueAndReturn("BeginWaitingForSimulatorArmed", "WaitingForSimulatorArmed")
          /\ UNCHANGED alreadySent
    /\ UNCHANGED <<running, timer, club, requests, shotVars, ipcSent>>

\* The status the WaitingForBall handler publishes before it looks.
WaitingStatus == IF alreadySent THEN uiStatus ELSE "kWaitingForBallToAppear"

\* A mutant: the handler keeps its state but forgets to queue its event.
BallNotFoundQuietly ==
    /\ state = "WaitingForBall"
    /\ Take("BeginWaitingForBallPlaced")
    /\ uiStatus' = WaitingStatus
    /\ alreadySent' = TRUE
    /\ Return("WaitingForBall")
    /\ UNCHANGED <<running, timer, club, requests, shotVars, ipcSent>>

BallNotFound ==
    /\ state = "WaitingForBall"
    /\ Take("BeginWaitingForBallPlaced")
    /\ uiStatus' = WaitingStatus
    /\ alreadySent' = TRUE
    /\ QueueAndReturn("BeginWaitingForBallPlaced", "WaitingForBall")
    /\ UNCHANGED <<running, timer, club, requests, shotVars, ipcSent>>

\* The branch for kCamera1Calibrate inside this handler is never taken: that mode
\* loops over CheckForBall and does not start RunGolfSimFsm.
BallFound ==
    /\ state = "WaitingForBall"
    /\ Take("BeginWaitingForBallPlaced")
    /\ Return("WaitingForBallStabilization")
    /\ uiStatus' = "kPausingForBallStabilization"
    /\ SetupTimer(Stabilization)
    /\ UNCHANGED <<running, alreadySent, club, requests, shotVars, ipcSent>>

\* A mutant: the ignored reminder restarts the search for the ball.
IgnoreLateReminderAndSearch ==
    /\ state = "WaitingForBall"
    /\ Take("CheckForCam2ImageReceived")
    /\ alreadySent' = FALSE
    /\ QueueAndReturn("BeginWaitingForBallPlaced", "WaitingForBall")
    /\ UNCHANGED <<running, timer, uiStatus, club, requests, shotVars, ipcSent>>

IgnoreLateReminder ==
    /\ state = "WaitingForBall"
    /\ Take("CheckForCam2ImageReceived")
    /\ alreadySent' = FALSE
    /\ Return("WaitingForBall")
    /\ UNCHANGED <<running, timer, uiStatus, club, requests, shotVars, ipcSent>>

\* CheckForBallStable looks for the ball again, then joins the timer thread.
CheckForBallStable ==
    /\ state = "WaitingForBallStabilization"
    /\ Take("CheckForBallStable")
    /\ pc' = "joining"
    /\ UNCHANGED <<state, pushing, next, running, timer, alreadySent, uiStatus,
                   club, requests, shotVars, ipcSent>>

BallMoved ==
    /\ pc = "joining"
    /\ ExitThread(Stabilization)
    /\ alreadySent' = FALSE
    /\ QueueAndReturn("BeginWaitingForBallPlaced", "WaitingForBall")
    /\ UNCHANGED <<queue, running, uiStatus, club, requests, shotVars, ipcSent>>

\* What camera 2 is asked for when shot s is armed.
CameraRequest(s) ==
    {"Camera2ImageReceived"} \X {s} \cup
        (IF kUsePreImageSubtraction /\ Camera2SendsPreImage
         THEN {"Camera2PreImageReceived"} \X {s} ELSE {})

AfterStable ==
    IF kUsePreImageSubtraction
    THEN Return("WaitingForCamera2PreImage")
    ELSE QueueAndReturn("BeginWatchingForBallHit", "WaitingForBallHit")

\* A mutant: the new shot keeps the number of the last one.
BallStabilizedUncounted ==
    /\ pc = "joining"
    /\ ExitThread(Stabilization)
    /\ requests' = requests \cup CameraRequest(1)
    /\ AfterStable
    /\ UNCHANGED <<queue, running, alreadySent, uiStatus, club, shotVars, ipcSent>>

\* Bounded by MaxShots.
BallStabilized ==
    /\ pc = "joining"
    /\ shot < MaxShots
    /\ ExitThread(Stabilization)
    /\ shot' = shot + 1
    /\ requests' = requests \cup CameraRequest(shot + 1)
    /\ AfterStable
    /\ UNCHANGED <<queue, running, alreadySent, uiStatus, club, strobed, hits,
                   results, ipcSent>>

PreImageReceived ==
    /\ state = "WaitingForCamera2PreImage"
    /\ Take("Camera2PreImageReceived")
    /\ QueueAndReturn("BeginWatchingForBallHit", "WaitingForBallHit")
    /\ UNCHANGED <<running, timer, alreadySent, uiStatus, club, requests,
                   shotVars, ipcSent>>

BeginWatching ==
    /\ state = "WaitingForBallHit"
    /\ Take("BeginWatchingForBallHit")
    /\ uiStatus' = "kBallPlacedAndReadyForHit"
    /\ pc' = "watching"
    /\ UNCHANGED <<state, pushing, next, running, timer, alreadySent, club,
                   requests, shotVars, ipcSent>>

\* The motion stage sees the ball move and strobes with the current club's pulses.
HitDetected ==
    /\ pc = "watching"
    /\ hits' = hits \cup {shot}
    /\ strobed' = club
    /\ SetupTimer(Watchdog)
    /\ Return("BallHitNowWaitingForCam2Image")
    /\ UNCHANGED <<queue, running, alreadySent, uiStatus, club, requests, shot,
                   results, ipcSent>>

\* A mutant: the watcher goes back to waiting for frames.
WatchContinues ==
    /\ pc = "watching"
    /\ ~running
    /\ UNCHANGED vars

\* ball_watcher_event_loop gives up when the system stops; WatchForBallMovement
\* still returns true, and the handler does not look at ball_hit.
WatchAborted ==
    /\ pc = "watching"
    /\ ~running
    /\ SetupTimer(Watchdog)
    /\ Return("BallHitNowWaitingForCam2Image")
    /\ UNCHANGED <<queue, running, alreadySent, uiStatus, club, requests,
                   shotVars, ipcSent>>

WatchFails ==
    /\ pc = "watching"
    /\ QueueAndReturn("Restart", "InitializingCamera1System")
    /\ UNCHANGED <<queue, running, timer, alreadySent, uiStatus, club, requests,
                   shotVars, ipcSent>>

Result(image) ==
    [shot |-> shot, image |-> image, strobed |-> strobed, intervals |-> club]

ProcessImage ==
    /\ state = "BallHitNowWaitingForCam2Image"
    /\ Take("Camera2ImageReceived")
    /\ results' = Append(results, Result(Head(queue).shot))
    /\ uiStatus' = "kHit"
    /\ alreadySent' = FALSE
    /\ QueueAndReturn("BeginWaitingForBallPlaced", "WaitingForBall")
    /\ UNCHANGED <<running, timer, club, requests, shot, strobed, hits, ipcSent>>

\* A mutant: a picture that cannot be analysed is only logged.
ProcessImageFailsQuietly ==
    /\ state = "BallHitNowWaitingForCam2Image"
    /\ Take("Camera2ImageReceived")
    /\ alreadySent' = FALSE
    /\ QueueAndReturn("BeginWaitingForBallPlaced", "WaitingForBall")
    /\ UNCHANGED <<running, timer, uiStatus, club, requests, shotVars, ipcSent>>

ProcessImageFails ==
    /\ state = "BallHitNowWaitingForCam2Image"
    /\ Take("Camera2ImageReceived")
    /\ uiStatus' = "kError"
    /\ alreadySent' = FALSE
    /\ QueueAndReturn("BeginWaitingForBallPlaced", "WaitingForBall")
    /\ UNCHANGED <<running, timer, club, requests, shotVars, ipcSent>>

\* A mutant: the reminder is only logged.
ImageTimedOutQuietly ==
    /\ state = "BallHitNowWaitingForCam2Image"
    /\ Take("CheckForCam2ImageReceived")
    /\ Return("BallHitNowWaitingForCam2Image")
    /\ UNCHANGED <<running, timer, alreadySent, uiStatus, club, requests,
                   shotVars, ipcSent>>

ImageTimedOut ==
    /\ state = "BallHitNowWaitingForCam2Image"
    /\ Take("CheckForCam2ImageReceived")
    /\ QueueAndReturn("Restart", "InitializingCamera1System")
    /\ UNCHANGED <<running, timer, alreadySent, uiStatus, club, requests,
                   shotVars, ipcSent>>

----------------------------------------------------------------------------
(* Exceptions: the loop catches them and installs the initial state, but    *)
(* queues no Restart.                                                      *)

Supported ==
    { <<"InitializingCamera1System", "Restart">>,
      <<"WaitingForSimulatorArmed", "BeginWaitingForSimulatorArmed">>,
      <<"WaitingForBall", "BeginWaitingForBallPlaced">>,
      <<"WaitingForBall", "CheckForCam2ImageReceived">>,
      <<"WaitingForBallStabilization", "CheckForBallStable">>,
      <<"WaitingForCamera2PreImage", "Camera2PreImageReceived">>,
      <<"WaitingForBallHit", "BeginWatchingForBallHit">>,
      <<"BallHitNowWaitingForCam2Image", "Camera2ImageReceived">>,
      <<"BallHitNowWaitingForCam2Image", "CheckForCam2ImageReceived">> }

\* Pairs whose handler runs camera or vision code that can throw.
UsesCamera ==
    { <<"WaitingForBall", "BeginWaitingForBallPlaced">>,
      <<"WaitingForBallStabilization", "CheckForBallStable">>,
      <<"BallHitNowWaitingForCam2Image", "Camera2ImageReceived">> }

UnsupportedTransition ==
    /\ \E t \in EventTypes \ (ControlTypes \cup {"Exit"}) :
          <<state, t>> \notin Supported /\ Take(t)
    /\ Return("InitializingCamera1System")
    /\ UNCHANGED <<running, timer, alreadySent, uiStatus, club, requests,
                   shotVars, ipcSent>>

HandlerThrows ==
    /\ CameraFaults
    /\ \E t \in EventTypes : <<state, t>> \in UsesCamera /\ Take(t)
    /\ uiStatus' = IF state = "WaitingForBall" THEN WaitingStatus ELSE uiStatus
    /\ Return("InitializingCamera1System")
    /\ UNCHANGED <<running, timer, alreadySent, club, requests, shotVars, ipcSent>>

WatchThrows ==
    /\ CameraFaults
    /\ pc = "watching"
    /\ Return("InitializingCamera1System")
    /\ UNCHANGED <<queue, running, timer, alreadySent, uiStatus, club, requests,
                   shotVars, ipcSent>>

----------------------------------------------------------------------------
(* The other threads.                                                      *)

\* A mutant: camera 2's answer is delivered again later.
Camera2AnswersTwice(r) ==
    /\ r \in requests
    /\ r[1] = "Camera2ImageReceived" =>
          <<"Camera2PreImageReceived", r[2]>> \notin requests
    /\ HasRoom
    /\ queue' = Append(queue, [type |-> r[1], shot |-> r[2]])
    /\ UNCHANGED <<fsmVars, running, timer, alreadySent, uiStatus, club,
                   requests, shotVars, ipcSent>>

\* The IPC consumer thread dispatches an answer of camera 2.  There is at most
\* one per request, after any pre-image; there may be none.
Camera2Answers(r) ==
    /\ r \in requests
    /\ r[1] = "Camera2ImageReceived" =>
          <<"Camera2PreImageReceived", r[2]>> \notin requests
    /\ HasRoom
    /\ queue' = Append(queue, [type |-> r[1], shot |-> r[2]])
    /\ requests' = requests \ {r}
    /\ UNCHANGED <<fsmVars, running, timer, alreadySent, uiStatus, club,
                   shotVars, ipcSent>>

\* A control message (from the GUI or GSPro) or a shutdown message arrives.
\* Bounded by MaxIpcMessages.
IpcMessage(t) ==
    /\ ipcSent < MaxIpcMessages
    /\ HasRoom
    /\ queue' = Append(queue, Plain(t))
    /\ ipcSent' = ipcSent + 1
    /\ UNCHANGED <<fsmVars, running, timer, alreadySent, uiStatus, club,
                   requests, shotVars>>

\* default_signal_handler.
Signal ==
    /\ running
    /\ running' = FALSE
    /\ UNCHANGED <<fsmVars, queue, timer, alreadySent, uiStatus, club, requests,
                   shotVars, ipcSent>>

----------------------------------------------------------------------------
\* The system has been started; the FSM thread is queueing the first Restart.
Init ==
    /\ state = "InitializingCamera1System"
    /\ pc = "push"
    /\ pushing = "Restart"
    /\ next = "InitializingCamera1System"
    /\ queue = <<>>
    /\ running = TRUE
    /\ timer = [t \in Timers |-> "null"]
    /\ alreadySent = FALSE
    /\ uiStatus = "kInitializing"
    /\ shot = 0
    /\ club \in Clubs
    /\ strobed = club
    /\ requests = {}
    /\ hits = {}
    /\ results = <<>>
    /\ ipcSent = 0

\* The steps the FSM thread takes on its own.
FsmStep ==
    \/ CheckRunning \/ DequeueTimesOut \/ Push \/ ExitReceived
    \/ ControlMessageReceived \/ Shutdown
    \/ InitializingRestart \/ PollSimulatorArmed
    \/ BallNotFound \/ BallFound \/ IgnoreLateReminder
    \/ CheckForBallStable \/ BallMoved \/ BallStabilized \/ PreImageReceived
    \/ BeginWatching \/ WatchAborted
    \/ ProcessImage \/ ProcessImageFails \/ ImageTimedOut
    \/ UnsupportedTransition \/ HandlerThrows

\* What the golfer and the camera decide while the FSM thread watches.
WatchStep == HitDetected \/ WatchFails \/ WatchThrows

TimerStep(t) == TimerExpires(t) \/ TimerCallback(t)

EnvironmentStep ==
    \/ \E r \in requests : Camera2Answers(r)
    \/ \E t \in ControlTypes \cup {"Exit"} : IpcMessage(t)
    \/ Signal

\* RunGolfSimFsm has returned.
Stopped ==
    /\ pc = "stopped"
    /\ UNCHANGED vars

Next ==
    \/ FsmStep
    \/ WatchStep
    \/ \E t \in Timers : TimerStep(t)
    \/ EnvironmentStep
    \/ Stopped

Spec == Init /\ [][Next]_vars

\* The FSM thread and the timer threads keep running; nothing is assumed of
\* the golfer, of camera 2, or of the senders of messages.
Fairness ==
    /\ WF_vars(FsmStep)
    /\ \A t \in Timers : WF_vars(TimerStep(t))

FairSpec == Spec /\ Fairness

----------------------------------------------------------------------------
(* Properties.                                                             *)

TypeOK ==
    /\ state \in States
    /\ pc \in {"loop", "dequeue", "push", "joining", "watching", "shutdown", "stopped"}
    /\ pushing \in DriverTypes
    /\ next \in States
    /\ queue \in Seq(Events)
    /\ Len(queue) <= kMaxQueueSize
    /\ running \in BOOLEAN
    /\ timer \in [Timers -> {"null", "sleeping", "calling", "done"}]
    /\ alreadySent \in BOOLEAN
    /\ uiStatus \in Statuses
    /\ shot \in 0..MaxShots
    /\ club \in Clubs
    /\ strobed \in Clubs
    /\ requests \subseteq ImageTypes \X Shots
    /\ hits \subseteq 0..MaxShots
    /\ results \in Seq(Results)
    /\ ipcSent \in 0..MaxIpcMessages

\* The event that the handler of each state is driven by.  The states in which
\* the FSM waits for camera 2 have no driver of their own.
Driver == [s \in States |->
    CASE s = "InitializingCamera1System" -> "Restart"
      [] s = "WaitingForSimulatorArmed" -> "BeginWaitingForSimulatorArmed"
      [] s = "WaitingForBall" -> "BeginWaitingForBallPlaced"
      [] s = "WaitingForBallStabilization" -> "CheckForBallStable"
      [] s = "WaitingForBallHit" -> "BeginWatchingForBallHit"
      [] OTHER -> "none"]

IsDriver(e) == e.type \in DriverTypes
QueuedDrivers == {i \in DOMAIN queue : IsDriver(queue[i])}

\* The FSM thread is inside a handler, which will decide on the next driver.
InHandler == pc \in {"push", "joining", "watching"}
TimerPending(t) == timer[t] \in {"sleeping", "calling"}

\* While the system runs there is never more than one thing that drives the
\* FSM on: one driving event in the queue, or the stabilization timer about to
\* queue one, or a handler about to.  A second chain of self-requeueing events
\* would search for the ball and count shots twice.
AtMostOneDriver ==
    running =>
        /\ \A i, j \in QueuedDrivers : i = j
        /\ InHandler => QueuedDrivers = {} /\ ~TimerPending(Stabilization)
        /\ TimerPending(Stabilization) => QueuedDrivers = {}

\* No lost wake-up: outside its handlers the FSM is never in a state that
\* acts without the event, or the pending timer, that will make it act.
\* InitializingCamera1System is excluded: the exception path reaches it with
\* nothing queued.
DriverPresent ==
    running /\ ~InHandler /\ state # "InitializingCamera1System" =>
        \/ \E i \in DOMAIN queue : queue[i].type = Driver[state]
        \/ state = "WaitingForBallStabilization" /\ TimerPending(Stabilization)
        \/ state \in {"WaitingForCamera2PreImage", "BallHitNowWaitingForCam2Image"}

\* A Restart is in the queue, or the FSM thread is about to queue one.
RestartUnderWay ==
    \/ pc = "push" /\ pushing = "Restart"
    \/ \E i \in DOMAIN queue : queue[i].type = "Restart"

\* What the golfer reads is true: the ball is being watched, or was hit and its
\* picture is waited for, or the FSM is on its way to the handler that withdraws
\* the message.
HonestStatus ==
    uiStatus = "kBallPlacedAndReadyForHit" =>
        \/ pc = "watching"
        \/ state = "BallHitNowWaitingForCam2Image"
        \/ RestartUnderWay

\* The steps at which the event loop catches an exception.
CaughtException == UnsupportedTransition \/ HandlerThrows \/ WatchThrows

\* "Ready to be hit" never turns into a lie on the way from one handler to the
\* next, whatever fails, is lost or is cut short: the only step that can leave it
\* on the screen with nobody watching and no Restart queued is an exception that
\* reaches the event loop (see ExceptionsRestart for what it does then).
ReadyIsHonest ==
    [][HonestStatus /\ ~CaughtException => HonestStatus']_vars

\* No two results carry the same shot number, and numbers only grow: the
\* counter moves between any two results however the FSM gets there.
ResultsNumberedOnce ==
    \A i, j \in DOMAIN results : i < j => results[i].shot < results[j].shot

\* A picture from camera 2 is never analysed for two results, and never for
\* a shot earlier than the one it was asked for.
PicturesUsedOnce ==
    /\ \A i, j \in DOMAIN results : results[i].image = results[j].image => i = j
    /\ \A i \in DOMAIN results : results[i].image <= results[i].shot

\* Every result is of a shot whose ball was seen to move, although the FSM
\* enters BallHitNowWaitingForCam2Image without looking at ball_hit when the
\* watch is cut short by a shutdown.
HitBeforeResult ==
    \A i \in DOMAIN results : results[i].shot \in hits

----------------------------------------------------------------------------
(* Liveness, under FairSpec.                                               *)

\* The one-second wait for the ball to settle always ends.
StabilizationEnds ==
    state = "WaitingForBallStabilization" ~>
        (state # "WaitingForBallStabilization" \/ ~running)

\* A hit that finds the watchdog pending is not waited on for ever.
WatchdogRescues ==
    (state = "BallHitNowWaitingForCam2Image" /\ TimerPending(Watchdog)) ~>
        (state # "BallHitNowWaitingForCam2Image" \/ ~running)

\* Clearing the flag stops the process.
ShutdownCompletes == ~running ~> pc = "stopped"

----------------------------------------------------------------------------
(* What comments in the code say and the code does not do.                 *)

\* "Make sure we do something sensible if we don't receive an image from the
\* camera 2 system in a reasonable amount of time": every hit is answered.
EveryHitAnswered ==
    state = "BallHitNowWaitingForCam2Image" ~>
        (state # "BallHitNowWaitingForCam2Image" \/ ~running)

\* "Exception! - ...  Restarting...", says the log when an event or a handler
\* throws: the FSM gets out of its initial state again.
ExceptionsRestart ==
    state = "InitializingCamera1System" ~>
        (state # "InitializingCamera1System" \/ ~running)
=============================================================================
