----------------------- MODULE LaunchMonitorFsm_proofs -----------------------
(* Theorems about LaunchMonitorFsm, for every value of its constants.      *)
EXTENDS LaunchMonitorFsm, FiniteSets, FiniteSetTheorems, TLAPS

USE QueueAssumption, BoundsAssumption, ModeAssumption

\* Popping the head of the queue leaves a shorter queue of events.
LEMMA PopType ==
    ASSUME TypeOK, queue # <<>>
    PROVE  /\ Tail(queue) \in Seq(Events)
           /\ Len(Tail(queue)) = Len(queue) - 1
           /\ Head(queue) \in Events
           /\ Head(queue).shot \in 0..MaxShots
<1>1. queue \in Seq(Events)
  BY DEF TypeOK
<1>2. Head(queue) \in Events /\ Tail(queue) \in Seq(Events) /\ Len(Tail(queue)) = Len(queue) - 1
  BY <1>1
<1> QED
  BY <1>2 DEF Events

\* The names the actions assign belong to their sets.
LEMMA Names ==
    /\ {"InitializingCamera1System", "WaitingForSimulatorArmed", "WaitingForBall",
        "WaitingForBallStabilization", "WaitingForCamera2PreImage",
        "WaitingForBallHit", "BallHitNowWaitingForCam2Image"} \subseteq States
    /\ {"Restart", "BeginWaitingForSimulatorArmed", "BeginWaitingForBallPlaced",
        "BeginWatchingForBallHit"} \subseteq DriverTypes
    /\ {"kInitializing", "kWaitingForSimulatorArmed", "kWaitingForBallToAppear",
        "kPausingForBallStabilization", "kBallPlacedAndReadyForHit", "kHit",
        "kError"} \subseteq Statuses
    /\ {"kPutter", "kDriver"} \subseteq Clubs
BY DEF States, DriverTypes, Statuses, Clubs

LEMMA PlainType == \A t \in EventTypes : Plain(t) \in Events
BY DEF Plain, Events

LEMMA TypeInit == Init => TypeOK
<1> SUFFICES ASSUME Init PROVE TypeOK
  OBVIOUS
<1>1. state \in States /\ next \in States /\ pushing \in DriverTypes /\ uiStatus \in Statuses
  BY Names DEF Init
<1>2. /\ queue \in Seq(Events) /\ Len(queue) <= kMaxQueueSize
      /\ results \in Seq(Results)
      /\ timer \in [Timers -> {"null", "sleeping", "calling", "done"}]
  BY DEF Init
<1>3. /\ shot \in 0..MaxShots /\ ipcSent \in 0..MaxIpcMessages
      /\ hits \subseteq 0..MaxShots /\ requests \subseteq ImageTypes \X Shots
  BY DEF Init
<1> QED BY <1>1, <1>2, <1>3 DEF Init, TypeOK

\* Each step of the process keeps every type.
LEMMA TypeStep == TypeOK /\ [Next]_vars => TypeOK'
<1> SUFFICES ASSUME TypeOK, [Next]_vars PROVE TypeOK'
  OBVIOUS
<1> USE DEF TypeOK
<1>1. CASE CheckRunning
  BY <1>1 DEF CheckRunning, shotVars
<1>2. CASE DequeueTimesOut
  BY <1>2 DEF DequeueTimesOut, shotVars
<1>3. CASE Push
  <2>1. Plain(pushing) \in Events
    BY PlainType DEF EventTypes
  <2>2. queue' \in Seq(Events) /\ Len(queue') <= kMaxQueueSize
    BY <1>3, <2>1 DEF Push, HasRoom
  <2>3. running' \in BOOLEAN /\ uiStatus' \in Statuses
    BY <1>3, Names DEF Push
  <2>4. timer' \in [Timers -> {"null", "sleeping", "calling", "done"}]
    BY <1>3 DEF Push, SetupTimer
  <2> QED BY <1>3, <2>2, <2>3, <2>4 DEF Push, Return, shotVars
<1>4. CASE ExitReceived
  <2>1. queue' \in Seq(Events) /\ Len(queue') <= kMaxQueueSize
    BY <1>4, PopType DEF Take, ExitReceived
  <2> QED BY <1>4, Names, <2>1 DEF ExitReceived, Return, shotVars
<1>5. CASE ControlMessageReceived
  <2>1. queue # <<>> /\ queue' = Tail(queue)
    BY <1>5 DEF Take, ControlMessageReceived
  <2>2. queue' \in Seq(Events) /\ Len(queue') <= kMaxQueueSize
    BY <2>1, PopType
  <2>3. club' \in Clubs
    BY <1>5, Names DEF ControlMessageReceived
  <2> QED BY <1>5, <2>2, <2>3 DEF ControlMessageReceived, Return, shotVars
<1>6. CASE Shutdown
  BY <1>6 DEF Shutdown, shotVars
<1>7. CASE InitializingRestart
  <2>1. queue' \in Seq(Events) /\ Len(queue') <= kMaxQueueSize
    BY <1>7, PopType DEF Take, InitializingRestart
  <2> QED BY <1>7, Names, <2>1 DEF InitializingRestart, QueueAndReturn, shotVars
<1>8. CASE PollSimulatorArmed
  <2>1. queue' \in Seq(Events) /\ Len(queue') <= kMaxQueueSize
    BY <1>8, PopType DEF Take, PollSimulatorArmed
  <2> QED BY <1>8, Names, <2>1 DEF PollSimulatorArmed, QueueAndReturn, shotVars
<1>9. CASE BallNotFound
  <2>1. queue' \in Seq(Events) /\ Len(queue') <= kMaxQueueSize
    BY <1>9, PopType DEF Take, BallNotFound
  <2> QED BY <1>9, Names, <2>1 DEF BallNotFound, QueueAndReturn, WaitingStatus, shotVars
<1>10. CASE BallFound
  <2>1. queue' \in Seq(Events) /\ Len(queue') <= kMaxQueueSize
    BY <1>10, PopType DEF Take, BallFound
  <2> QED BY <1>10, Names, <2>1 DEF BallFound, QueueAndReturn, Return, SetupTimer, WaitingStatus, shotVars
<1>11. CASE IgnoreLateReminder
  <2>1. queue' \in Seq(Events) /\ Len(queue') <= kMaxQueueSize
    BY <1>11, PopType DEF Take, IgnoreLateReminder
  <2> QED BY <1>11, Names, <2>1 DEF IgnoreLateReminder, Return, shotVars
<1>12. CASE CheckForBallStable
  <2>1. queue' \in Seq(Events) /\ Len(queue') <= kMaxQueueSize
    BY <1>12, PopType DEF Take, CheckForBallStable
  <2> QED BY <1>12, <2>1 DEF CheckForBallStable, shotVars
<1>13. CASE BallMoved
  BY <1>13, Names DEF BallMoved, ExitThread, QueueAndReturn, shotVars
<1>14. CASE BallStabilized
  <2>1. shot' \in Shots
    BY <1>14 DEF BallStabilized, Shots
  <2>2. CameraRequest(shot + 1) \subseteq ImageTypes \X Shots
    BY <2>1, <1>14 DEF CameraRequest, ImageTypes, BallStabilized
  <2>3. shot' \in 0..MaxShots /\ requests' \subseteq ImageTypes \X Shots
    BY <1>14, <2>1, <2>2 DEF BallStabilized, Shots
  <2>4. timer' \in [Timers -> {"null", "sleeping", "calling", "done"}]
    BY <1>14 DEF BallStabilized, ExitThread
  <2>5. /\ state' \in States /\ next' \in States /\ pushing' \in DriverTypes
        /\ pc' \in {"loop", "dequeue", "push", "joining", "watching", "shutdown", "stopped"}
    BY <1>14, Names DEF BallStabilized, AfterStable, QueueAndReturn, Return
  <2> QED BY <1>14, <2>3, <2>4, <2>5 DEF BallStabilized
<1>15. CASE PreImageReceived
  <2>1. queue' \in Seq(Events) /\ Len(queue') <= kMaxQueueSize
    BY <1>15, PopType DEF Take, PreImageReceived
  <2> QED BY <1>15, Names, <2>1 DEF PreImageReceived, QueueAndReturn, shotVars
<1>16. CASE BeginWatching
  <2>1. queue' \in Seq(Events) /\ Len(queue') <= kMaxQueueSize
    BY <1>16, PopType DEF Take, BeginWatching
  <2> QED BY <1>16, Names, <2>1 DEF BeginWatching, shotVars
<1>17. CASE WatchAborted
  BY <1>17, Names DEF WatchAborted, SetupTimer, Return, shotVars
<1>18. CASE ProcessImage
  <2>1. Head(queue).shot \in 0..MaxShots
    BY <1>18, PopType DEF Take, ProcessImage, Events
  <2>2. Result(Head(queue).shot) \in Results
    BY <2>1 DEF Result, Results
  <2>3. queue' \in Seq(Events) /\ Len(queue') <= kMaxQueueSize
    BY <1>18, PopType DEF Take, ProcessImage
  <2>4. results' \in Seq(Results)
    BY <1>18, <2>2 DEF ProcessImage
  <2> QED BY <1>18, Names, <2>3, <2>4 DEF ProcessImage, QueueAndReturn
<1>19. CASE ProcessImageFails
  <2>1. queue' \in Seq(Events) /\ Len(queue') <= kMaxQueueSize
    BY <1>19, PopType DEF Take, ProcessImageFails
  <2> QED BY <1>19, Names, <2>1 DEF ProcessImageFails, QueueAndReturn, shotVars
<1>20. CASE ImageTimedOut
  <2>1. queue' \in Seq(Events) /\ Len(queue') <= kMaxQueueSize
    BY <1>20, PopType DEF Take, ImageTimedOut
  <2> QED BY <1>20, Names, <2>1 DEF ImageTimedOut, QueueAndReturn, shotVars
<1>21. CASE UnsupportedTransition
  <2>1. queue' \in Seq(Events) /\ Len(queue') <= kMaxQueueSize
    BY <1>21, PopType DEF Take, UnsupportedTransition
  <2> QED BY <1>21, Names, <2>1 DEF UnsupportedTransition, Return, shotVars
<1>22. CASE HandlerThrows
  <2>1. queue' \in Seq(Events) /\ Len(queue') <= kMaxQueueSize
    BY <1>22, PopType DEF Take, HandlerThrows
  <2> QED BY <1>22, Names, <2>1 DEF HandlerThrows, Return, WaitingStatus, shotVars
<1>23. CASE HitDetected
  BY <1>23, Names DEF HitDetected, Watchdog, Stabilization, SetupTimer, Return
<1>24. CASE WatchFails
  BY <1>24, Names DEF WatchFails, QueueAndReturn, shotVars
<1>25. CASE WatchThrows
  BY <1>25, Names DEF WatchThrows, Return, shotVars
<1>26. ASSUME NEW t \in Timers, TimerStep(t) PROVE TypeOK'
  <2>1. Plain(Callback(t)) \in Events
    BY PlainType DEF Callback, EventTypes, DriverTypes
  <2>2. CASE TimerExpires(t)
    BY <2>2 DEF TimerExpires, fsmVars, shotVars
  <2>3. CASE TimerCallback(t)
    BY <2>1, <2>3 DEF TimerCallback, HasRoom, fsmVars, shotVars
  <2> QED BY <1>26, <2>2, <2>3 DEF TimerStep
<1>27. ASSUME NEW r \in requests, Camera2Answers(r) PROVE TypeOK'
  <2>1. [type |-> r[1], shot |-> r[2]] \in Events
    BY DEF Events, EventTypes, Shots
  <2> QED BY <1>27, <2>1 DEF Camera2Answers, HasRoom, fsmVars, shotVars
<1>28. ASSUME NEW t \in ControlTypes \cup {"Exit"}, IpcMessage(t) PROVE TypeOK'
  <2>1. Plain(t) \in Events
    BY PlainType DEF EventTypes
  <2> QED BY <1>28, <2>1 DEF IpcMessage, HasRoom, fsmVars, shotVars
<1>29. CASE Signal
  BY <1>29 DEF Signal, fsmVars, shotVars
<1>30. CASE UNCHANGED vars
  BY <1>30 DEF vars, fsmVars, shotVars
<1> QED
  BY <1>1, <1>2, <1>3, <1>4, <1>5, <1>6, <1>7, <1>8, <1>9, <1>10, <1>11,
     <1>12, <1>13, <1>14, <1>15, <1>16, <1>17, <1>18, <1>19, <1>20, <1>21,
     <1>22, <1>23, <1>24, <1>25, <1>26, <1>27, <1>28, <1>29, <1>30
  DEF Next, FsmStep, WatchStep, EnvironmentStep, Stopped

\* Every variable keeps its type and the queue never exceeds its capacity,
\* whatever the bounds, the mode and the capacity are.
THEOREM TypeCorrect == Spec => []TypeOK
<1>1. Init => TypeOK
  BY TypeInit
<1>2. TypeOK /\ [Next]_vars => TypeOK'
  BY TypeStep
<1> QED
  BY <1>1, <1>2, PTL DEF Spec

----------------------------------------------------------------------------
(* One event at a time drives the FSM.                                     *)

Drives(q, i) == q[i].type \in DriverTypes
NoDriver(q) == \A i \in DOMAIN q : ~Drives(q, i)
SingleDriver(q) == \A i, j \in DOMAIN q : Drives(q, i) /\ Drives(q, j) => i = j
Has(q, t) == \E i \in DOMAIN q : q[i].type = t

LEMMA PopDriver ==
    ASSUME NEW q \in Seq(Events), q # <<>>, SingleDriver(q)
    PROVE  /\ SingleDriver(Tail(q))
           /\ NoDriver(q) => NoDriver(Tail(q)) /\ Head(q).type \notin DriverTypes
           /\ Head(q).type \in DriverTypes => NoDriver(Tail(q))
           /\ \A t : Has(q, t) /\ Head(q).type # t => Has(Tail(q), t)
           /\ \A t : Has(Tail(q), t) => Has(q, t)
<1>1. /\ Head(q) = q[1] /\ 1 \in DOMAIN q
      /\ \A i \in DOMAIN Tail(q) : i \in Nat /\ i >= 1 /\ i + 1 \in DOMAIN q /\ Tail(q)[i] = q[i + 1]
  OBVIOUS
<1>2. \A i \in DOMAIN q : i # 1 => i \in Nat /\ i - 1 \in DOMAIN Tail(q) /\ Tail(q)[i - 1] = q[i]
  OBVIOUS
<1>3. SingleDriver(Tail(q))
  BY <1>1 DEF SingleDriver, Drives
<1>4. NoDriver(q) => NoDriver(Tail(q)) /\ Head(q).type \notin DriverTypes
  BY <1>1 DEF NoDriver, Drives
<1>5. Head(q).type \in DriverTypes => NoDriver(Tail(q))
  BY <1>1 DEF NoDriver, SingleDriver, Drives
<1>6. \A t : Has(q, t) /\ Head(q).type # t => Has(Tail(q), t)
  BY <1>1, <1>2 DEF Has
<1>7. \A t : Has(Tail(q), t) => Has(q, t)
  BY <1>1 DEF Has
<1> QED
  BY <1>3, <1>4, <1>5, <1>6, <1>7

LEMMA PushDriver ==
    ASSUME NEW q \in Seq(Events), NEW e \in Events
    PROVE  /\ e.type \notin DriverTypes /\ SingleDriver(q) => SingleDriver(Append(q, e))
           /\ e.type \notin DriverTypes /\ NoDriver(q) => NoDriver(Append(q, e))
           /\ NoDriver(q) => SingleDriver(Append(q, e))
           /\ Has(Append(q, e), e.type)
           /\ \A t : Has(q, t) => Has(Append(q, e), t)
           /\ \A t : Has(Append(q, e), t) => Has(q, t) \/ t = e.type
<1>1. /\ Len(Append(q, e)) = Len(q) + 1 /\ Len(q) \in Nat
      /\ DOMAIN Append(q, e) = 1..(Len(q) + 1) /\ DOMAIN q = 1..Len(q)
      /\ Append(q, e)[Len(q) + 1] = e
      /\ \A i \in 1..Len(q) : Append(q, e)[i] = q[i]
  OBVIOUS
<1>2. e.type \notin DriverTypes /\ SingleDriver(q) => SingleDriver(Append(q, e))
  BY <1>1 DEF SingleDriver, Drives
<1>3. e.type \notin DriverTypes /\ NoDriver(q) => NoDriver(Append(q, e))
  BY <1>1 DEF NoDriver, Drives
<1>4. NoDriver(q) => SingleDriver(Append(q, e))
  BY <1>1 DEF NoDriver, SingleDriver, Drives
<1>5. /\ Has(Append(q, e), e.type)
      /\ \A t : Has(q, t) => Has(Append(q, e), t)
      /\ \A t : Has(Append(q, e), t) => Has(q, t) \/ t = e.type
  BY <1>1 DEF Has
<1> QED
  BY <1>2, <1>3, <1>4, <1>5

\* An event stays queued while others are popped before it or pushed behind it.
LEMMA HasInTail ==
    ASSUME NEW q \in Seq(Events), NEW t, q # <<>>, Head(q).type # t, Has(q, t)
    PROVE  Has(Tail(q), t)
<1>1. PICK i \in DOMAIN q : q[i].type = t
  BY DEF Has
<1>2. i # 1 /\ i - 1 \in DOMAIN Tail(q) /\ Tail(q)[i - 1] = q[i]
  BY <1>1
<1> QED
  BY <1>1, <1>2 DEF Has

LEMMA HasInAppend ==
    ASSUME NEW q \in Seq(Events), NEW e \in Events, NEW t
    PROVE  /\ Has(q, t) => Has(Append(q, e), t)
           /\ e.type = t => Has(Append(q, e), t)
<1>1. /\ Len(Append(q, e)) = Len(q) + 1 /\ Len(q) \in Nat
      /\ DOMAIN Append(q, e) = 1..(Len(q) + 1) /\ DOMAIN q = 1..Len(q)
      /\ Append(q, e)[Len(q) + 1] = e
      /\ \A i \in 1..Len(q) : Append(q, e)[i] = q[i]
  OBVIOUS
<1> QED
  BY <1>1 DEF Has

CameraWaits == {"WaitingForCamera2PreImage", "BallHitNowWaitingForCam2Image"}

LEMMA DriverValues ==
    /\ Driver["WaitingForSimulatorArmed"] = "BeginWaitingForSimulatorArmed"
    /\ Driver["WaitingForBall"] = "BeginWaitingForBallPlaced"
    /\ Driver["WaitingForBallStabilization"] = "CheckForBallStable"
    /\ Driver["WaitingForBallHit"] = "BeginWatchingForBallHit"
    /\ Driver["InitializingCamera1System"] = "Restart"
BY DEF Driver, States

\* Where a blocked FSM thread can be, and what a handler pushes.
HandlerInv ==
    /\ pc = "joining" => state = "WaitingForBallStabilization"
    /\ pc = "watching" => state = "WaitingForBallHit"
    /\ pc = "push" => next \notin CameraWaits
    /\ pc = "push" => next # "WaitingForBallStabilization" /\ pushing = Driver[next]

\* The stabilization timer thread exists only in the stabilization state, and
\* in the state an exception leaves behind, where nothing restarts the FSM.
TimerInv ==
    timer[Stabilization] # "null" =>
        /\ pc # "push"
        /\ \/ state = "WaitingForBallStabilization"
           \/ state = "InitializingCamera1System" /\ ~Has(queue, "Restart")

\* One thing drives the FSM on ...
OneDriverInv ==
    /\ SingleDriver(queue)
    /\ InHandler \/ TimerPending(Stabilization) \/ state \in CameraWaits => NoDriver(queue)
    /\ InHandler \/ state \in CameraWaits => ~TimerPending(Stabilization)

\* ... and it is the one the state waits for.
PresentInv ==
    ~InHandler /\ state \notin CameraWaits \cup {"InitializingCamera1System"} =>
        \/ Has(queue, Driver[state])
        \/ state = "WaitingForBallStabilization" /\ TimerPending(Stabilization)

\* The inductive strengthening of AtMostOneDriver and DriverPresent.
DriverInv == HandlerInv /\ (running => TimerInv /\ OneDriverInv /\ PresentInv)

LEMMA DriverInit == Init => DriverInv
BY DriverValues DEF Init, DriverInv, HandlerInv, TimerInv, OneDriverInv, PresentInv,
    SingleDriver, NoDriver, Has, InHandler, TimerPending, Timers, CameraWaits

LEMMA DriverImplies == DriverInv => AtMostOneDriver /\ DriverPresent
BY DEF DriverInv, OneDriverInv, PresentInv, AtMostOneDriver, DriverPresent,
    QueuedDrivers, IsDriver, SingleDriver, NoDriver, Has, Drives, CameraWaits

\* Popping an event that does not drive the FSM, or appending one, keeps every
\* part of DriverInv that is about the queue.
LEMMA DriverStep ==
    ASSUME TypeOK, TypeOK', DriverInv, [Next]_vars
    PROVE  DriverInv'
<1> USE DEF DriverInv, HandlerInv, TimerInv, OneDriverInv, PresentInv,
        InHandler, TimerPending, CameraWaits
<1>0. /\ queue \in Seq(Events)
      /\ queue # <<>> /\ running =>
            /\ SingleDriver(Tail(queue))
            /\ NoDriver(queue) => NoDriver(Tail(queue)) /\ Head(queue).type \notin DriverTypes
            /\ Head(queue).type \in DriverTypes => NoDriver(Tail(queue))
            /\ \A t : Has(queue, t) /\ Head(queue).type # t => Has(Tail(queue), t)
            /\ \A t : Has(Tail(queue), t) => Has(queue, t)
  BY PopDriver DEF TypeOK
<1>a. queue # <<>> => Has(queue, Head(queue).type)
  BY <1>0 DEF Has
<1>b. /\ NoDriver(queue) => ~Has(queue, "Restart")
      /\ SingleDriver(queue) /\ Has(queue, "CheckForBallStable") => ~Has(queue, "Restart")
  BY DEF NoDriver, SingleDriver, Drives, Has, DriverTypes
<1>c. ASSUME running, timer[Stabilization] # "null", ~InHandler
      PROVE  ~Has(queue, "Restart")
  BY <1>b, <1>c, DriverValues
<1>1. CASE CheckRunning
  BY <1>0, <1>1, DriverValues DEF CheckRunning, DriverTypes, Timers, TypeOK, States
<1>2. CASE DequeueTimesOut
  BY <1>0, <1>2, DriverValues DEF DequeueTimesOut, DriverTypes, Timers, TypeOK, States
<1>3. CASE Push
  <2>1. Plain(pushing) \in Events /\ Plain(pushing).type = pushing
    BY PlainType DEF TypeOK, EventTypes, Plain
  <2>2. /\ NoDriver(queue) => SingleDriver(queue')
        /\ Has(queue', pushing)
        /\ \A t : Has(queue', t) => Has(queue, t) \/ t = pushing
    BY <1>0, <1>3, <2>1, PushDriver DEF Push
  <2> QED
    BY <1>3, <2>2, DriverValues DEF Push, Return, SetupTimer, Timers, TypeOK, States
<1>4. CASE ExitReceived
  BY <1>0, <1>4, DriverValues DEF ExitReceived, Return, Take, DriverTypes, Timers, TypeOK, States
<1>5. CASE ControlMessageReceived
  BY <1>0, <1>5, DriverValues DEF ControlMessageReceived, Take, Return, DriverTypes, Timers, TypeOK, States
<1>6. CASE Shutdown
  BY <1>0, <1>6, DriverValues DEF Shutdown, DriverTypes, Timers, TypeOK, States
<1>7. CASE InitializingRestart
  BY <1>0, <1>a, <1>7, DriverValues DEF InitializingRestart, Take, QueueAndReturn, DriverTypes, Timers, TypeOK, States
<1>8. CASE PollSimulatorArmed
  BY <1>0, <1>8, DriverValues DEF PollSimulatorArmed, Take, QueueAndReturn, DriverTypes, Timers, TypeOK, States
<1>9. CASE BallNotFound
  BY <1>0, <1>9, DriverValues DEF BallNotFound, Take, QueueAndReturn, DriverTypes, Timers, TypeOK, States
<1>10. CASE BallFound
  BY <1>0, <1>10, DriverValues DEF BallFound, Take, QueueAndReturn, Return, SetupTimer, DriverTypes, Timers, TypeOK, States
<1>11. CASE IgnoreLateReminder
  BY <1>0, <1>11, DriverValues DEF IgnoreLateReminder, Take, Return, DriverTypes, Timers, TypeOK, States
<1>12. CASE CheckForBallStable
  BY <1>0, <1>12, DriverValues DEF CheckForBallStable, Take, DriverTypes, Timers, TypeOK, States
<1>13. CASE BallMoved
  BY <1>0, <1>13, DriverValues DEF BallMoved, QueueAndReturn, ExitThread, DriverTypes, Timers, TypeOK, States
<1>14. CASE BallStabilized
  BY <1>0, <1>14, DriverValues DEF BallStabilized, QueueAndReturn, Return, ExitThread, AfterStable, DriverTypes, Timers, TypeOK, States
<1>15. CASE PreImageReceived
  BY <1>0, <1>15, DriverValues DEF PreImageReceived, Take, QueueAndReturn, DriverTypes, Timers, TypeOK, States
<1>16. CASE BeginWatching
  BY <1>0, <1>16, DriverValues DEF BeginWatching, Take, DriverTypes, Timers, TypeOK, States
<1>17. CASE WatchAborted
  BY <1>0, <1>17, DriverValues DEF WatchAborted, Return, SetupTimer, DriverTypes, Timers, TypeOK, States
<1>18. CASE ProcessImage
  BY <1>0, <1>18, DriverValues DEF ProcessImage, Take, QueueAndReturn, DriverTypes, Timers, TypeOK, States
<1>19. CASE ProcessImageFails
  BY <1>0, <1>19, DriverValues DEF ProcessImageFails, Take, QueueAndReturn, DriverTypes, Timers, TypeOK, States
<1>20. CASE ImageTimedOut
  BY <1>0, <1>20, DriverValues DEF ImageTimedOut, Take, QueueAndReturn, DriverTypes, Timers, TypeOK, States
<1>21. CASE UnsupportedTransition
  <2>1. /\ queue # <<>> /\ queue' = Tail(queue) /\ pc = "dequeue"
        /\ pc' = "loop" /\ state' = "InitializingCamera1System"
        /\ UNCHANGED <<running, timer>>
    BY <1>21 DEF UnsupportedTransition, Take, Return
  <2> QED
    BY <1>0, <1>c, <2>1
<1>22. CASE HandlerThrows
  <2>1. /\ queue # <<>> /\ queue' = Tail(queue) /\ pc = "dequeue"
        /\ pc' = "loop" /\ state' = "InitializingCamera1System"
        /\ UNCHANGED <<running, timer>>
    BY <1>22 DEF HandlerThrows, Take, Return
  <2> QED
    BY <1>0, <1>c, <2>1
<1>23. CASE HitDetected
  BY <1>0, <1>23, DriverValues DEF HitDetected, Watchdog, Stabilization, Return, SetupTimer, DriverTypes, Timers, TypeOK, States
<1>24. CASE WatchFails
  BY <1>0, <1>24, DriverValues DEF WatchFails, QueueAndReturn, DriverTypes, Timers, TypeOK, States
<1>25. CASE WatchThrows
  BY <1>0, <1>25, DriverValues DEF WatchThrows, Return, DriverTypes, Timers, TypeOK, States
<1>26. ASSUME NEW t \in Timers, TimerStep(t) PROVE DriverInv'
  <2>1. CASE TimerExpires(t)
    BY <1>26, <2>1 DEF TimerExpires, fsmVars, Timers, TypeOK
  <2>2. CASE TimerCallback(t)
    <3>1. Plain(Callback(t)) \in Events /\ Plain(Callback(t)).type = Callback(t)
      BY PlainType DEF Callback, EventTypes, DriverTypes, Plain
    <3>2. CASE t = Stabilization
      <4>1. Callback(t) = "CheckForBallStable"
        BY <3>2 DEF Callback
      <4>2. /\ NoDriver(queue) => SingleDriver(queue')
            /\ Has(queue', "CheckForBallStable")
            /\ Has(queue', "Restart") => Has(queue, "Restart")
        BY <1>0, <2>2, <3>1, <4>1, PushDriver DEF TimerCallback
      <4> QED
        BY <2>2, <3>2, <4>2, DriverValues DEF TimerCallback, fsmVars, Timers, TypeOK
    <3>3. CASE t = Watchdog
      <4>1. Callback(t) \notin DriverTypes /\ t # Stabilization /\ Callback(t) # "Restart"
        BY <3>3 DEF Callback, DriverTypes, Watchdog, Stabilization
      <4>2. /\ SingleDriver(queue) => SingleDriver(queue')
            /\ NoDriver(queue) => NoDriver(queue')
            /\ Has(queue', "Restart") => Has(queue, "Restart")
            /\ \A u : Has(queue, u) => Has(queue', u)
        BY <1>0, <2>2, <3>1, <4>1, PushDriver DEF TimerCallback
      <4> QED
        BY <2>2, <4>1, <4>2 DEF TimerCallback, fsmVars, Timers, TypeOK
    <3> QED BY <3>2, <3>3 DEF Timers
  <2> QED BY <1>26, <2>1, <2>2 DEF TimerStep
<1>27. ASSUME NEW r \in requests, Camera2Answers(r) PROVE DriverInv'
  <2>1. [type |-> r[1], shot |-> r[2]] \in Events /\ [type |-> r[1], shot |-> r[2]].type \notin DriverTypes
    BY <1>27 DEF TypeOK, Events, EventTypes, ImageTypes, DriverTypes, Shots
  <2>2. /\ SingleDriver(queue) => SingleDriver(queue')
        /\ NoDriver(queue) => NoDriver(queue')
        /\ Has(queue', "Restart") => Has(queue, "Restart")
        /\ \A u : Has(queue, u) => Has(queue', u)
    BY <1>0, <1>27, <2>1, PushDriver DEF Camera2Answers, DriverTypes
  <2> QED
    BY <1>27, <2>2 DEF Camera2Answers, fsmVars
<1>28. ASSUME NEW t \in ControlTypes \cup {"Exit"}, IpcMessage(t) PROVE DriverInv'
  <2>1. Plain(t) \in Events /\ Plain(t).type \notin DriverTypes
    BY <1>28, PlainType DEF EventTypes, ControlTypes, DriverTypes, Plain
  <2>2. /\ SingleDriver(queue) => SingleDriver(queue')
        /\ NoDriver(queue) => NoDriver(queue')
        /\ Has(queue', "Restart") => Has(queue, "Restart")
        /\ \A u : Has(queue, u) => Has(queue', u)
    BY <1>0, <1>28, <2>1, PushDriver DEF IpcMessage, DriverTypes
  <2> QED
    BY <1>28, <2>2 DEF IpcMessage, fsmVars
<1>29. CASE Signal
  BY <1>29 DEF Signal, fsmVars
<1>30. CASE UNCHANGED vars
  BY <1>30 DEF vars, fsmVars
<1> QED
  BY <1>1, <1>2, <1>3, <1>4, <1>5, <1>6, <1>7, <1>8, <1>9, <1>10, <1>11,
     <1>12, <1>13, <1>14, <1>15, <1>16, <1>17, <1>18, <1>19, <1>20, <1>21,
     <1>22, <1>23, <1>24, <1>25, <1>26, <1>27, <1>28, <1>29, <1>30
  DEF Next, FsmStep, WatchStep, EnvironmentStep, Stopped

\* While the system runs, one event, timer or handler drives the FSM on, and
\* never two: the self-requeueing handlers neither multiply nor die out.
THEOREM OneDriver == Spec => []AtMostOneDriver
<1>1. Init => DriverInv
  BY DriverInit
<1>2. TypeOK /\ TypeOK' /\ DriverInv /\ [Next]_vars => DriverInv'
  BY DriverStep
<1>3. DriverInv => AtMostOneDriver
  BY DriverImplies
<1> QED
  BY <1>1, <1>2, <1>3, TypeCorrect, PTL DEF Spec

\* Outside its handlers, a running FSM is always in reach of the event that its
\* state acts on, for every capacity of the queue and every interleaving.
THEOREM NoLostWakeUp == Spec => []DriverPresent
<1>1. Init => DriverInv
  BY DriverInit
<1>2. TypeOK /\ TypeOK' /\ DriverInv /\ [Next]_vars => DriverInv'
  BY DriverStep
<1>3. DriverInv => DriverPresent
  BY DriverImplies
<1> QED
  BY <1>1, <1>2, <1>3, TypeCorrect, PTL DEF Spec

----------------------------------------------------------------------------
(* Results: numbered once, and only for shots that were hit.               *)

\* The state the FSM is in, or will be in when its handler has pushed.
Reached == IF pc = "push" THEN next ELSE state

\* A shot has been armed and has not had its result.
Armed == Reached \in {"WaitingForCamera2PreImage", "WaitingForBallHit",
                      "BallHitNowWaitingForCam2Image"}

\* The inductive strengthening of ResultsNumberedOnce and HitBeforeResult: the
\* current number is unused while its shot is armed, and the FSM waits for the
\* picture of a ball that did not move only on its way to the shutdown.
ResultInv ==
    /\ ResultsNumberedOnce
    /\ HitBeforeResult
    /\ \A i \in DOMAIN results : results[i].shot <= shot
    /\ Armed => \A i \in DOMAIN results : results[i].shot < shot
    /\ Reached = "BallHitNowWaitingForCam2Image" =>
          shot \in hits \/ (~running /\ pc # "dequeue")
    /\ pc = "joining" => state = "WaitingForBallStabilization"
    /\ pc = "watching" => state = "WaitingForBallHit"

\* What the numbering is about changes only where a shot is armed, where its
\* ball is hit, and where its result is sent.
LEMMA ResultStep ==
    ASSUME TypeOK, TypeOK', ResultInv, [Next]_vars
    PROVE  ResultInv'
<1> USE DEF ResultInv, ResultsNumberedOnce, HitBeforeResult, Armed, Reached
<1>0. shot \in Nat /\ \A i \in DOMAIN results : results[i].shot \in Nat
  <2>1. shot \in Nat /\ \A i \in DOMAIN results : results[i] \in Results
    BY DEF TypeOK
  <2>2. \A r \in Results : r.shot \in Nat
    BY DEF Results
  <2> QED
    BY <2>1, <2>2
<1>1. CASE CheckRunning
  BY <1>1 DEF CheckRunning, shotVars, TypeOK
<1>2. CASE DequeueTimesOut
  BY <1>2 DEF DequeueTimesOut, shotVars, TypeOK
<1>3. CASE Push
  BY <1>3 DEF Push, Return, shotVars, TypeOK
<1>4. CASE ExitReceived
  BY <1>4 DEF ExitReceived, Take, Return, shotVars, TypeOK
<1>5. CASE ControlMessageReceived
  BY <1>5 DEF ControlMessageReceived, Take, Return, shotVars, TypeOK
<1>6. CASE Shutdown
  BY <1>6 DEF Shutdown, shotVars, TypeOK
<1>7. CASE InitializingRestart
  BY <1>7 DEF InitializingRestart, Take, QueueAndReturn, shotVars, TypeOK
<1>8. CASE PollSimulatorArmed
  BY <1>8 DEF PollSimulatorArmed, Take, QueueAndReturn, shotVars, TypeOK
<1>9. CASE BallNotFound
  BY <1>9 DEF BallNotFound, Take, QueueAndReturn, shotVars, TypeOK
<1>10. CASE BallFound
  BY <1>10 DEF BallFound, Take, QueueAndReturn, Return, SetupTimer, shotVars, TypeOK
<1>11. CASE IgnoreLateReminder
  BY <1>11 DEF IgnoreLateReminder, Take, Return, shotVars, TypeOK
<1>12. CASE CheckForBallStable
  BY <1>12 DEF CheckForBallStable, Take, shotVars, TypeOK
<1>13. CASE BallMoved
  BY <1>13 DEF BallMoved, QueueAndReturn, ExitThread, shotVars, TypeOK
<1>14. CASE BallStabilized
  <2>1. /\ shot' = shot + 1 /\ UNCHANGED <<results, hits, running>>
        /\ Reached' # "BallHitNowWaitingForCam2Image"
        /\ pc' \in {"push", "loop"}
    BY <1>14 DEF BallStabilized, AfterStable, QueueAndReturn, Return
  <2>2. \A i \in DOMAIN results' : results'[i].shot < shot'
    BY <1>0, <2>1
  <2> QED
    BY <1>0, <2>1, <2>2
<1>15. CASE PreImageReceived
  BY <1>15 DEF PreImageReceived, Take, QueueAndReturn, shotVars, TypeOK
<1>16. CASE BeginWatching
  BY <1>16 DEF BeginWatching, Take, shotVars, TypeOK
<1>17. CASE WatchAborted
  BY <1>17 DEF WatchAborted, Return, SetupTimer, shotVars, TypeOK
<1>18. CASE ProcessImage
  <2>1. /\ pc = "dequeue" /\ Reached = "BallHitNowWaitingForCam2Image"
        /\ pc' = "push" /\ Reached' = "WaitingForBall"
        /\ UNCHANGED <<shot, hits>>
        /\ results' = Append(results, Result(Head(queue).shot))
    BY <1>18 DEF ProcessImage, Take, QueueAndReturn
  <2>2. /\ \A i \in DOMAIN results : results[i].shot < shot
        /\ shot \in hits
    BY <2>1
  <2>3. Len(results) \in Nat /\ DOMAIN results = 1..Len(results)
    BY DEF TypeOK
  <2>4. /\ DOMAIN results' = 1..(Len(results) + 1)
        /\ results'[Len(results) + 1].shot = shot
        /\ \A i \in 1..Len(results) : results'[i] = results[i]
    BY <2>1, <2>3 DEF Result, TypeOK
  <2>5. \A i \in DOMAIN results' :
            \/ i \in DOMAIN results /\ i <= Len(results) /\ results'[i] = results[i]
            \/ i = Len(results) + 1
    BY <2>3, <2>4
  <2> QED
    BY <1>0, <2>1, <2>2, <2>3, <2>4, <2>5
<1>19. CASE ProcessImageFails
  BY <1>19 DEF ProcessImageFails, Take, QueueAndReturn, shotVars, TypeOK
<1>20. CASE ImageTimedOut
  BY <1>20 DEF ImageTimedOut, Take, QueueAndReturn, shotVars, TypeOK
<1>21. CASE UnsupportedTransition
  BY <1>21 DEF UnsupportedTransition, Take, Return, shotVars, TypeOK
<1>22. CASE HandlerThrows
  BY <1>22 DEF HandlerThrows, Take, Return, shotVars, TypeOK
<1>23. CASE HitDetected
  BY <1>23 DEF HitDetected, Return, SetupTimer, shotVars, TypeOK
<1>24. CASE WatchFails
  BY <1>24 DEF WatchFails, QueueAndReturn, shotVars, TypeOK
<1>25. CASE WatchThrows
  BY <1>25 DEF WatchThrows, Return, shotVars, TypeOK
<1>26. ASSUME NEW t \in Timers, TimerStep(t) PROVE ResultInv'
  BY <1>26 DEF TimerStep, TimerExpires, TimerCallback, fsmVars, shotVars
<1>27. ASSUME NEW r \in requests, Camera2Answers(r) PROVE ResultInv'
  BY <1>27 DEF Camera2Answers, fsmVars, shotVars
<1>28. ASSUME NEW t \in ControlTypes \cup {"Exit"}, IpcMessage(t) PROVE ResultInv'
  BY <1>28 DEF IpcMessage, fsmVars, shotVars
<1>29. CASE Signal
  BY <1>29 DEF Signal, fsmVars, shotVars
<1>30. CASE UNCHANGED vars
  BY <1>30 DEF vars, fsmVars, shotVars
<1> QED
  BY <1>1, <1>2, <1>3, <1>4, <1>5, <1>6, <1>7, <1>8, <1>9, <1>10, <1>11,
     <1>12, <1>13, <1>14, <1>15, <1>16, <1>17, <1>18, <1>19, <1>20, <1>21,
     <1>22, <1>23, <1>24, <1>25, <1>26, <1>27, <1>28, <1>29, <1>30
  DEF Next, FsmStep, WatchStep, EnvironmentStep, Stopped

\* However restarts, exceptions and lost pictures are interleaved, no number is
\* given to two results and the numbers grow.
THEOREM NumberedOnce == Spec => []ResultsNumberedOnce
<1>1. Init => ResultInv
  BY DEF Init, ResultInv, ResultsNumberedOnce, HitBeforeResult, Armed, Reached
<1>2. TypeOK /\ TypeOK' /\ ResultInv /\ [Next]_vars => ResultInv'
  BY ResultStep
<1>3. ResultInv => ResultsNumberedOnce
  BY DEF ResultInv
<1> QED
  BY <1>1, <1>2, <1>3, TypeCorrect, PTL DEF Spec

\* Every result is of a ball that was seen to move, although ball_hit is not
\* looked at.
THEOREM HitComesFirst == Spec => []HitBeforeResult
<1>1. Init => ResultInv
  BY DEF Init, ResultInv, ResultsNumberedOnce, HitBeforeResult, Armed, Reached
<1>2. TypeOK /\ TypeOK' /\ ResultInv /\ [Next]_vars => ResultInv'
  BY ResultStep
<1>3. ResultInv => HitBeforeResult
  BY DEF ResultInv
<1> QED
  BY <1>1, <1>2, <1>3, TypeCorrect, PTL DEF Spec

----------------------------------------------------------------------------
(* What the golfer is told.                                                *)

\* The states in which the GUI may still show the ball as ready to be hit.
MaySayReady == {"WaitingForBallHit", "BallHitNowWaitingForCam2Image",
                "InitializingCamera1System"}

\* What ReadyIsHonest needs of a state: "ready" is shown in few states, and a
\* handler that is pushing while it is shown pushes a Restart.
ReadyInv ==
    /\ pc = "joining" => state = "WaitingForBallStabilization"
    /\ pc = "watching" => state = "WaitingForBallHit"
    /\ uiStatus = "kBallPlacedAndReadyForHit" =>
          /\ state \in MaySayReady
          /\ pc = "push" => next \in MaySayReady /\ pushing = "Restart"

\* Every way out of the states that may say ready, other than those between
\* them, publishes another status first.
LEMMA ReadyStep ==
    ASSUME ReadyInv, [Next]_vars
    PROVE  ReadyInv'
<1> USE DEF ReadyInv, MaySayReady
<1>1. CASE CheckRunning
  BY <1>1 DEF CheckRunning
<1>2. CASE DequeueTimesOut
  BY <1>2 DEF DequeueTimesOut
<1>3. CASE Push
  BY <1>3 DEF Push, Return, SetupTimer
<1>4. CASE ExitReceived
  BY <1>4 DEF ExitReceived, Take, Return
<1>5. CASE ControlMessageReceived
  BY <1>5 DEF ControlMessageReceived, Take, Return
<1>6. CASE Shutdown
  BY <1>6 DEF Shutdown
<1>7. CASE InitializingRestart
  BY <1>7 DEF InitializingRestart, Take, QueueAndReturn
<1>8. CASE PollSimulatorArmed
  BY <1>8 DEF PollSimulatorArmed, Take, QueueAndReturn
<1>9. CASE BallNotFound
  BY <1>9 DEF BallNotFound, Take, QueueAndReturn, WaitingStatus
<1>10. CASE BallFound
  BY <1>10 DEF BallFound, Take, QueueAndReturn, Return, WaitingStatus
<1>11. CASE IgnoreLateReminder
  BY <1>11 DEF IgnoreLateReminder, Take, Return
<1>12. CASE CheckForBallStable
  BY <1>12 DEF CheckForBallStable, Take
<1>13. CASE BallMoved
  BY <1>13 DEF BallMoved, QueueAndReturn
<1>14. CASE BallStabilized
  BY <1>14 DEF BallStabilized, AfterStable, QueueAndReturn, Return
<1>15. CASE PreImageReceived
  BY <1>15 DEF PreImageReceived, Take, QueueAndReturn
<1>16. CASE BeginWatching
  BY <1>16 DEF BeginWatching, Take
<1>17. CASE WatchAborted
  BY <1>17 DEF WatchAborted, Return
<1>18. CASE ProcessImage
  BY <1>18 DEF ProcessImage, Take, QueueAndReturn
<1>19. CASE ProcessImageFails
  BY <1>19 DEF ProcessImageFails, Take, QueueAndReturn
<1>20. CASE ImageTimedOut
  BY <1>20 DEF ImageTimedOut, Take, QueueAndReturn
<1>21. CASE UnsupportedTransition
  BY <1>21 DEF UnsupportedTransition, Take, Return
<1>22. CASE HandlerThrows
  BY <1>22 DEF HandlerThrows, Take, Return, WaitingStatus, UsesCamera
<1>23. CASE HitDetected
  BY <1>23 DEF HitDetected, Return
<1>24. CASE WatchFails
  BY <1>24 DEF WatchFails, QueueAndReturn
<1>25. CASE WatchThrows
  BY <1>25 DEF WatchThrows, Return
<1>26. ASSUME NEW t \in Timers, TimerStep(t) PROVE ReadyInv'
  BY <1>26 DEF TimerStep, TimerExpires, TimerCallback, fsmVars
<1>27. ASSUME NEW r \in requests, Camera2Answers(r) PROVE ReadyInv'
  BY <1>27 DEF Camera2Answers, fsmVars
<1>28. ASSUME NEW t \in ControlTypes \cup {"Exit"}, IpcMessage(t) PROVE ReadyInv'
  BY <1>28 DEF IpcMessage, fsmVars
<1>29. CASE Signal
  BY <1>29 DEF Signal, fsmVars
<1>30. CASE UNCHANGED vars
  BY <1>30 DEF vars, fsmVars
<1> QED
  BY <1>1, <1>2, <1>3, <1>4, <1>5, <1>6, <1>7, <1>8, <1>9, <1>10, <1>11,
     <1>12, <1>13, <1>14, <1>15, <1>16, <1>17, <1>18, <1>19, <1>20, <1>21, <1>22,
     <1>23, <1>24, <1>25, <1>26, <1>27, <1>28, <1>29, <1>30
  DEF Next, FsmStep, WatchStep, EnvironmentStep, Stopped

\* An honest "ready" stays honest through every step but a caught exception: the
\* watch hands it to the wait for the picture or to a Restart, and nothing but the
\* handler that withdraws it takes the Restart from the queue.
LEMMA HonestStep ==
    ASSUME TypeOK, ReadyInv, HonestStatus, ~CaughtException, [Next]_vars,
           uiStatus' = "kBallPlacedAndReadyForHit"
    PROVE  pc' = "watching" \/ state' = "BallHitNowWaitingForCam2Image" \/ RestartUnderWay'
<1> DEFINE Queued == Has(queue, "Restart")
<1> USE DEF ReadyInv, MaySayReady, Take, Return, QueueAndReturn
<1>0. queue \in Seq(Events)
  BY DEF TypeOK
<1>a. /\ RestartUnderWay <=> (pc = "push" /\ pushing = "Restart") \/ Queued
      /\ RestartUnderWay' <=> (pc' = "push" /\ pushing' = "Restart") \/ Queued'
  BY DEF RestartUnderWay, Has
<1>b. queue # <<>> /\ Head(queue).type # "Restart" /\ Queued => Has(Tail(queue), "Restart")
  BY <1>0, HasInTail
<1>c. \A e \in Events : /\ Queued => Has(Append(queue, e), "Restart")
                        /\ e.type = "Restart" => Has(Append(queue, e), "Restart")
  BY <1>0, HasInAppend
<1>d. uiStatus = "kBallPlacedAndReadyForHit" =>
          pc = "watching" \/ state = "BallHitNowWaitingForCam2Image"
              \/ (pc = "push" /\ pushing = "Restart") \/ Queued
  BY <1>a DEF HonestStatus
<1> HIDE DEF Queued
<1>1. CASE CheckRunning \/ DequeueTimesOut \/ Shutdown
  <2>1. Queued' = Queued
    BY <1>1 DEF CheckRunning, DequeueTimesOut, Shutdown, Queued
  <2> QED
    BY <1>1, <1>a, <1>d, <2>1 DEF CheckRunning, DequeueTimesOut, Shutdown
<1>2. CASE Push
  <2>1. /\ uiStatus' = uiStatus /\ pc' = "loop" /\ pc = "push"
        /\ queue' = Append(queue, Plain(pushing))
    BY <1>2 DEF Push
  <2>2. Plain(pushing) \in Events /\ Plain(pushing).type = pushing
    BY PlainType DEF TypeOK, EventTypes, Plain
  <2>3. pushing = "Restart" => Queued'
    BY <1>c, <2>1, <2>2 DEF Queued
  <2> QED
    BY <1>a, <2>1, <2>3
<1>3. CASE ExitReceived \/ ControlMessageReceived
  <2>1. /\ uiStatus' = uiStatus /\ state' = state /\ pc = "dequeue"
        /\ queue # <<>> /\ queue' = Tail(queue) /\ Head(queue).type # "Restart"
    BY <1>3 DEF ExitReceived, ControlMessageReceived
  <2>2. Queued => Queued'
    BY <1>b, <2>1 DEF Queued
  <2> QED
    BY <1>a, <1>d, <2>1, <2>2
<1>4. CASE InitializingRestart \/ PollSimulatorArmed \/ ProcessImage \/ ProcessImageFails
  BY <1>4 DEF InitializingRestart, PollSimulatorArmed, ProcessImage, ProcessImageFails
<1>5. CASE BallNotFound \/ BallFound \/ IgnoreLateReminder
  BY <1>5 DEF BallNotFound, BallFound, IgnoreLateReminder, WaitingStatus
<1>6. CASE CheckForBallStable \/ BallMoved \/ BallStabilized \/ PreImageReceived
  BY <1>6 DEF CheckForBallStable, BallMoved, BallStabilized, PreImageReceived
<1>7. CASE BeginWatching
  BY <1>7 DEF BeginWatching
<1>8. CASE WatchAborted \/ HitDetected
  BY <1>8 DEF WatchAborted, HitDetected
<1>9. CASE WatchFails \/ ImageTimedOut
  BY <1>9, <1>a DEF WatchFails, ImageTimedOut
<1>10. CASE UnsupportedTransition \/ HandlerThrows \/ WatchThrows
  BY <1>10 DEF CaughtException
<1>11. ASSUME NEW t \in Timers, TimerStep(t)
       PROVE  pc' = "watching" \/ state' = "BallHitNowWaitingForCam2Image" \/ RestartUnderWay'
  <2>1. Plain(Callback(t)) \in Events
    BY PlainType DEF Callback, EventTypes, DriverTypes
  <2>2. /\ uiStatus' = uiStatus /\ state' = state /\ pc' = pc /\ pushing' = pushing
        /\ queue' = queue \/ queue' = Append(queue, Plain(Callback(t)))
    BY <1>11 DEF TimerStep, TimerExpires, TimerCallback, fsmVars
  <2>3. Queued => Queued'
    BY <1>c, <2>1, <2>2 DEF Queued
  <2> QED
    BY <1>a, <1>d, <2>2, <2>3
<1>12. ASSUME NEW r \in requests, Camera2Answers(r)
       PROVE  pc' = "watching" \/ state' = "BallHitNowWaitingForCam2Image" \/ RestartUnderWay'
  <2>1. [type |-> r[1], shot |-> r[2]] \in Events
    BY <1>12 DEF TypeOK, Events, EventTypes, Shots
  <2>2. /\ uiStatus' = uiStatus /\ state' = state /\ pc' = pc /\ pushing' = pushing
        /\ queue' = Append(queue, [type |-> r[1], shot |-> r[2]])
    BY <1>12 DEF Camera2Answers, fsmVars
  <2>3. Queued => Queued'
    BY <1>c, <2>1, <2>2 DEF Queued
  <2> QED
    BY <1>a, <1>d, <2>2, <2>3
<1>13. ASSUME NEW t \in ControlTypes \cup {"Exit"}, IpcMessage(t)
       PROVE  pc' = "watching" \/ state' = "BallHitNowWaitingForCam2Image" \/ RestartUnderWay'
  <2>1. Plain(t) \in Events
    BY <1>13, PlainType DEF EventTypes
  <2>2. /\ uiStatus' = uiStatus /\ state' = state /\ pc' = pc /\ pushing' = pushing
        /\ queue' = Append(queue, Plain(t))
    BY <1>13 DEF IpcMessage, fsmVars
  <2>3. Queued => Queued'
    BY <1>c, <2>1, <2>2 DEF Queued
  <2> QED
    BY <1>a, <1>d, <2>2, <2>3
<1>14. CASE Signal \/ UNCHANGED vars
  <2>1. /\ uiStatus' = uiStatus /\ state' = state /\ pc' = pc /\ pushing' = pushing
        /\ queue' = queue
    BY <1>14 DEF Signal, vars, fsmVars
  <2> QED
    BY <1>a, <1>d, <2>1 DEF Queued
<1> QED
  BY <1>1, <1>2, <1>3, <1>4, <1>5, <1>6, <1>7, <1>8, <1>9, <1>10, <1>11, <1>12, <1>13, <1>14
  DEF Next, FsmStep, WatchStep, EnvironmentStep, Stopped

\* An honest "ready" is made a lie by nothing but an exception that reaches the
\* event loop, whichever handler fails, times out or is cut short and whatever is
\* queued meanwhile.
THEOREM ReadyAlwaysHonest == Spec => ReadyIsHonest
<1>1. Init => ReadyInv
  BY DEF Init, ReadyInv
<1>2. ReadyInv /\ [Next]_vars => ReadyInv'
  BY ReadyStep
<1>3. TypeOK /\ ReadyInv /\ [Next]_vars =>
          (HonestStatus /\ ~CaughtException => HonestStatus')
  BY HonestStep DEF HonestStatus
<1> QED
  BY <1>1, <1>2, <1>3, TypeCorrect, PTL DEF Spec, ReadyIsHonest

----------------------------------------------------------------------------
(* Pictures: each is analysed for one result, and never for an earlier shot. *)

IsPicture(e) == e.type = "Camera2ImageReceived"

\* Where the picture of shot s can be: still asked for, in the queue q, or used.
Asked(s) == <<"Camera2ImageReceived", s>> \in requests
Delivered(q, s) == \E i \in DOMAIN q : IsPicture(q[i]) /\ q[i].shot = s
Used(s) == \E i \in DOMAIN results : results[i].image = s

OnePicture(q) ==
    \A i, j \in DOMAIN q :
        IsPicture(q[i]) /\ IsPicture(q[j]) /\ q[i].shot = q[j].shot => i = j

\* Popping the head takes its picture, and no other, out of the queue.
LEMMA PopPicture ==
    ASSUME NEW q \in Seq(Events), q # <<>>, OnePicture(q)
    PROVE  /\ OnePicture(Tail(q))
           /\ \A s : Delivered(Tail(q), s) => Delivered(q, s)
           /\ IsPicture(Head(q)) =>
                 Delivered(q, Head(q).shot) /\ ~Delivered(Tail(q), Head(q).shot)
<1>1. /\ Head(q) = q[1] /\ 1 \in DOMAIN q
      /\ \A i \in DOMAIN Tail(q) : i \in Nat /\ i >= 1 /\ i + 1 \in DOMAIN q /\ Tail(q)[i] = q[i + 1]
  OBVIOUS
<1>2. OnePicture(Tail(q))
  BY <1>1 DEF OnePicture
<1>3. \A s : Delivered(Tail(q), s) => Delivered(q, s)
  BY <1>1 DEF Delivered
<1>4. IsPicture(Head(q)) => Delivered(q, Head(q).shot) /\ ~Delivered(Tail(q), Head(q).shot)
  BY <1>1 DEF Delivered, OnePicture
<1> QED
  BY <1>2, <1>3, <1>4

\* Appending adds no picture but the one that is appended.
LEMMA PushPicture ==
    ASSUME NEW q \in Seq(Events), NEW e \in Events, OnePicture(q)
    PROVE  /\ \A s : Delivered(Append(q, e), s) <=> Delivered(q, s) \/ (IsPicture(e) /\ e.shot = s)
           /\ IsPicture(e) => (~Delivered(q, e.shot) => OnePicture(Append(q, e)))
           /\ ~IsPicture(e) => OnePicture(Append(q, e))
<1>1. /\ Len(q) \in Nat /\ DOMAIN q = 1..Len(q)
      /\ DOMAIN Append(q, e) = 1..(Len(q) + 1)
      /\ Append(q, e)[Len(q) + 1] = e
      /\ \A i \in 1..Len(q) : Append(q, e)[i] = q[i]
  OBVIOUS
<1>2. \A i \in DOMAIN Append(q, e) :
        \/ i \in DOMAIN q /\ Append(q, e)[i] = q[i]
        \/ i = Len(q) + 1 /\ Append(q, e)[i] = e
  BY <1>1
<1>3. \A s : Delivered(Append(q, e), s) <=> Delivered(q, s) \/ (IsPicture(e) /\ e.shot = s)
  BY <1>1, <1>2 DEF Delivered
<1>4. IsPicture(e) => (~Delivered(q, e.shot) => OnePicture(Append(q, e)))
  BY <1>1, <1>2 DEF OnePicture, Delivered
<1>5. ~IsPicture(e) => OnePicture(Append(q, e))
  BY <1>1, <1>2 DEF OnePicture
<1> QED
  BY <1>3, <1>4, <1>5

\* The inductive strengthening of PicturesUsedOnce: a picture is in one place
\* only, and only shots that have been counted have one.
PictureInv ==
    /\ PicturesUsedOnce
    /\ OnePicture(queue)
    /\ \A s : /\ ~(Asked(s) /\ Delivered(queue, s))
              /\ ~(Asked(s) /\ Used(s))
              /\ ~(Delivered(queue, s) /\ Used(s))
              /\ Asked(s) \/ Delivered(queue, s) \/ Used(s) => s <= shot

\* Steps that only take an event from the queue, or queue one that is not a
\* picture, move no picture into a second place.
LEMMA PictureFrame ==
    ASSUME TypeOK, PictureInv,
           UNCHANGED <<requests, results, shot>>,
           \/ UNCHANGED queue
           \/ queue # <<>> /\ queue' = Tail(queue)
           \/ \E e \in Events : ~IsPicture(e) /\ queue' = Append(queue, e)
    PROVE  PictureInv'
<1>1. queue \in Seq(Events) /\ OnePicture(queue)
  BY DEF TypeOK, PictureInv
<1>2. OnePicture(queue') /\ \A s : Delivered(queue', s) => Delivered(queue, s)
  <2>1. CASE UNCHANGED queue
    BY <1>1, <2>1
  <2>2. CASE queue # <<>> /\ queue' = Tail(queue)
    BY <1>1, <2>2, PopPicture
  <2>3. ASSUME NEW e \in Events, ~IsPicture(e), queue' = Append(queue, e)
        PROVE  OnePicture(queue') /\ \A s : Delivered(queue', s) => Delivered(queue, s)
    BY <1>1, <2>3, PushPicture
  <2> QED
    BY <2>1, <2>2, <2>3
<1> QED
  BY <1>2 DEF PictureInv, PicturesUsedOnce, Asked, Used

LEMMA PictureStep ==
    ASSUME TypeOK, ResultInv, PictureInv, [Next]_vars
    PROVE  PictureInv'
<1> USE DEF shotVars
<1>0. /\ queue \in Seq(Events) /\ shot \in Nat
      /\ pushing \in EventTypes /\ ~IsPicture(Plain(pushing))
      /\ \A t \in Timers : Callback(t) \in EventTypes /\ ~IsPicture(Plain(Callback(t)))
      /\ \A t \in ControlTypes \cup {"Exit"} : t \in EventTypes /\ ~IsPicture(Plain(t))
  BY DEF TypeOK, EventTypes, DriverTypes, ControlTypes, IsPicture, Plain, Callback
<1>1. CASE CheckRunning
  BY <1>1, PictureFrame DEF CheckRunning
<1>2. CASE DequeueTimesOut
  BY <1>2, PictureFrame DEF DequeueTimesOut
<1>3. CASE Push
  BY <1>3, <1>0, PlainType, PictureFrame DEF Push
<1>4. CASE ExitReceived
  BY <1>4, PictureFrame DEF ExitReceived, Take
<1>5. CASE ControlMessageReceived
  BY <1>5, PictureFrame DEF ControlMessageReceived, Take
<1>6. CASE Shutdown
  BY <1>6, PictureFrame DEF Shutdown
<1>7. CASE InitializingRestart
  BY <1>7, PictureFrame DEF InitializingRestart, Take
<1>8. CASE PollSimulatorArmed
  BY <1>8, PictureFrame DEF PollSimulatorArmed, Take
<1>9. CASE BallNotFound
  BY <1>9, PictureFrame DEF BallNotFound, Take
<1>10. CASE BallFound
  BY <1>10, PictureFrame DEF BallFound, Take
<1>11. CASE IgnoreLateReminder
  BY <1>11, PictureFrame DEF IgnoreLateReminder, Take
<1>12. CASE CheckForBallStable
  BY <1>12, PictureFrame DEF CheckForBallStable, Take
<1>13. CASE BallMoved
  BY <1>13, PictureFrame DEF BallMoved
<1>14. CASE BallStabilized
  <2>1. shot' = shot + 1 /\ requests' = requests \cup CameraRequest(shot + 1) /\ UNCHANGED <<queue, results>>
    BY <1>14 DEF BallStabilized
  <2>2. \A s : Asked(s)' <=> Asked(s) \/ s = shot + 1
    BY <2>1 DEF Asked, CameraRequest
  <2>3. ~Delivered(queue, shot + 1) /\ ~Used(shot + 1)
    BY <1>0 DEF PictureInv
  <2>4. \A s : Asked(s) \/ Delivered(queue, s) \/ Used(s) => s \in Int
    <3>1. \A s : Asked(s) => s \in Int
      BY DEF TypeOK, Asked, Shots
    <3>2. \A i \in DOMAIN queue : queue[i] \in Events
      BY DEF TypeOK
    <3>3. \A i \in DOMAIN results : results[i] \in Results
      BY DEF TypeOK
    <3>4. (\A e \in Events : e.shot \in Int) /\ (\A r \in Results : r.image \in Int)
      BY DEF Events, Results
    <3> QED
      BY <3>1, <3>2, <3>3, <3>4 DEF Delivered, Used
  <2>5. \A s : Asked(s)' \/ Delivered(queue, s) \/ Used(s) => s <= shot + 1
    BY <1>0, <2>2, <2>4 DEF PictureInv
  <2> QED
    BY <2>1, <2>2, <2>3, <2>5 DEF PictureInv, PicturesUsedOnce, Used
<1>15. CASE PreImageReceived
  BY <1>15, PictureFrame DEF PreImageReceived, Take
<1>16. CASE BeginWatching
  BY <1>16, PictureFrame DEF BeginWatching, Take
<1>17. CASE WatchAborted
  BY <1>17, PictureFrame DEF WatchAborted
<1>18. CASE ProcessImage
  <2> DEFINE h == Head(queue)
  <2>1. /\ queue # <<>> /\ queue' = Tail(queue) /\ IsPicture(h)
        /\ UNCHANGED <<requests, shot>>
        /\ results' = Append(results, Result(h.shot))
    BY <1>18 DEF ProcessImage, Take, IsPicture
  <2>2. /\ OnePicture(queue')
        /\ \A s : Delivered(queue', s) => Delivered(queue, s)
        /\ Delivered(queue, h.shot) /\ ~Delivered(queue', h.shot)
    BY <1>0, <2>1, PopPicture DEF PictureInv
  <2>3. ~Asked(h.shot) /\ ~Used(h.shot) /\ h.shot <= shot
    BY <2>2 DEF PictureInv
  <2>4. /\ Len(results) \in Nat /\ DOMAIN results = 1..Len(results)
        /\ DOMAIN results' = 1..(Len(results) + 1)
        /\ results'[Len(results) + 1] = Result(h.shot)
        /\ \A i \in 1..Len(results) : results'[i] = results[i]
    BY <2>1 DEF TypeOK
  <2>5. Result(h.shot).image = h.shot /\ Result(h.shot).shot = shot
    BY DEF Result
  <2>6. \A i \in DOMAIN results' :
            \/ i \in DOMAIN results /\ results'[i] = results[i]
            \/ i = Len(results) + 1 /\ results'[i] = Result(h.shot)
    BY <2>4
  <2>7. \A s : Used(s)' <=> Used(s) \/ s = h.shot
    BY <2>4, <2>5, <2>6 DEF Used
  <2>8. PicturesUsedOnce'
    <3>1. \A i \in DOMAIN results : results[i].image # h.shot
      BY <2>3 DEF Used
    <3> QED
      BY <2>3, <2>5, <2>6, <3>1 DEF PictureInv, PicturesUsedOnce
  <2>9. \A s : Asked(s)' <=> Asked(s)
    BY <2>1 DEF Asked
  <2> QED
    BY <2>1, <2>2, <2>3, <2>7, <2>8, <2>9 DEF PictureInv
<1>19. CASE ProcessImageFails
  BY <1>19, PictureFrame DEF ProcessImageFails, Take
<1>20. CASE ImageTimedOut
  BY <1>20, PictureFrame DEF ImageTimedOut, Take
<1>21. CASE UnsupportedTransition
  BY <1>21, PictureFrame DEF UnsupportedTransition, Take
<1>22. CASE HandlerThrows
  BY <1>22, PictureFrame DEF HandlerThrows, Take
<1>23. CASE HitDetected
  BY <1>23, PictureFrame DEF HitDetected
<1>24. CASE WatchFails
  BY <1>24, PictureFrame DEF WatchFails
<1>25. CASE WatchThrows
  BY <1>25, PictureFrame DEF WatchThrows
<1>26. ASSUME NEW t \in Timers, TimerStep(t) PROVE PictureInv'
  BY <1>26, <1>0, PlainType, PictureFrame DEF TimerStep, TimerExpires, TimerCallback
<1>27. ASSUME NEW r \in requests, Camera2Answers(r) PROVE PictureInv'
  <2> DEFINE e == [type |-> r[1], shot |-> r[2]]
  <2>1. e \in Events /\ queue' = Append(queue, e) /\ requests' = requests \ {r} /\ UNCHANGED <<results, shot>>
    BY <1>27 DEF Camera2Answers, TypeOK, Events, EventTypes, Shots
  <2>2. r = <<r[1], r[2]>>
    BY DEF TypeOK
  <2>3. CASE IsPicture(e)
    <3>1. r[1] = "Camera2ImageReceived" /\ Asked(e.shot)
      BY <2>2, <2>3 DEF IsPicture, Asked
    <3>2. /\ ~Delivered(queue, e.shot) /\ ~Used(e.shot)
          /\ \A s : Asked(s)' <=> Asked(s) /\ s # e.shot
      BY <2>1, <2>2, <3>1 DEF PictureInv, Asked
    <3>3. /\ OnePicture(queue')
          /\ \A s : Delivered(queue', s) <=> Delivered(queue, s) \/ e.shot = s
      BY <1>0, <2>1, <2>3, <3>2, PushPicture DEF PictureInv
    <3> QED
      BY <2>1, <3>1, <3>2, <3>3 DEF PictureInv, PicturesUsedOnce, Used
  <2>4. CASE ~IsPicture(e)
    <3>1. \A s : Asked(s)' => Asked(s)
      BY <2>1 DEF Asked
    <3>2. OnePicture(queue') /\ \A s : Delivered(queue', s) <=> Delivered(queue, s)
      BY <1>0, <2>1, <2>4, PushPicture DEF PictureInv
    <3> QED
      BY <2>1, <3>1, <3>2 DEF PictureInv, PicturesUsedOnce, Used
  <2> QED
    BY <2>3, <2>4
<1>28. ASSUME NEW t \in ControlTypes \cup {"Exit"}, IpcMessage(t) PROVE PictureInv'
  BY <1>28, <1>0, PlainType, PictureFrame DEF IpcMessage
<1>29. CASE Signal
  BY <1>29, PictureFrame DEF Signal
<1>30. CASE UNCHANGED vars
  BY <1>30, PictureFrame DEF vars, fsmVars
<1> QED
  BY <1>1, <1>2, <1>3, <1>4, <1>5, <1>6, <1>7, <1>8, <1>9, <1>10, <1>11,
     <1>12, <1>13, <1>14, <1>15, <1>16, <1>17, <1>18, <1>19, <1>20, <1>21, <1>22,
     <1>23, <1>24, <1>25, <1>26, <1>27, <1>28, <1>29, <1>30
  DEF Next, FsmStep, WatchStep, EnvironmentStep, Stopped

\* A picture of camera 2, however late it comes and whatever the FSM has
\* restarted in between, is analysed once and for its own shot or a later one.
THEOREM PicturesNeverReused == Spec => []PicturesUsedOnce
<1>1. Init => ResultInv /\ PictureInv
  BY DEF Init, ResultInv, ResultsNumberedOnce, HitBeforeResult, Armed, Reached,
     PictureInv, PicturesUsedOnce, OnePicture, Asked, Delivered, Used
<1>2. TypeOK /\ TypeOK' /\ ResultInv /\ PictureInv /\ [Next]_vars => ResultInv' /\ PictureInv'
  BY ResultStep, PictureStep
<1>3. PictureInv => PicturesUsedOnce
  BY DEF PictureInv
<1> QED
  BY <1>1, <1>2, <1>3, TypeCorrect, PTL DEF Spec

----------------------------------------------------------------------------
(* Who may wait for room in the queue.  A handler pushes from the thread    *)
(* that alone makes room, so a full queue may stop the process for good.    *)

Reminder == "CheckForCam2ImageReceived"

\* The queued events that come from outside: answers of camera 2, messages.
Messages == {i \in DOMAIN queue : queue[i].type \notin DriverTypes \cup {Reminder}}

\* The FSM's own events never fill the queue: a thread that waits for room in
\* it, the FSM thread or a timer's, waits behind messages from outside in all
\* places but one.
OnlyMessagesBlock ==
    ~HasRoom /\ (pc = "push" \/ \E t \in Timers : timer[t] = "calling") =>
        Cardinality(Messages) >= kMaxQueueSize - 1

\* The FSM thread never waits for a timer thread that waits for room: the
\* stabilization timer it joins has run its callback.
JoinNeverWaits == pc = "joining" => ~TimerPending(Stabilization)

SingleReminder(q) ==
    \A i, j \in DOMAIN q : q[i].type = Reminder /\ q[j].type = Reminder => i = j

\* The watchdog timer is created once, and reminds once.
ReminderInv ==
    /\ SingleReminder(queue)
    /\ timer[Watchdog] # "done" /\ pc # "stopped" => ~Has(queue, Reminder)
    /\ pc = "stopped" => timer[Watchdog] = "null"

\* What AtMostOneDriver says of a running system holds on its way out as well,
\* until the FSM thread is back in its loop.
TrafficInv ==
    /\ SingleDriver(queue)
    /\ running \/ pc = "dequeue" \/ InHandler => TimerInv /\ OneDriverInv
    /\ timer[Stabilization] = "calling" => NoDriver(queue)

LEMMA PopReminder ==
    ASSUME NEW q \in Seq(Events), q # <<>>, SingleReminder(q)
    PROVE  SingleReminder(Tail(q))
<1>1. \A i \in DOMAIN Tail(q) : i \in Nat /\ i + 1 \in DOMAIN q /\ Tail(q)[i] = q[i + 1]
  OBVIOUS
<1> QED
  BY <1>1 DEF SingleReminder

LEMMA PushReminder ==
    ASSUME NEW q \in Seq(Events), NEW e \in Events, SingleReminder(q),
           e.type = Reminder => ~Has(q, Reminder)
    PROVE  SingleReminder(Append(q, e))
<1>1. /\ Len(Append(q, e)) = Len(q) + 1 /\ Len(q) \in Nat
      /\ DOMAIN Append(q, e) = 1..(Len(q) + 1) /\ DOMAIN q = 1..Len(q)
      /\ Append(q, e)[Len(q) + 1] = e
      /\ \A i \in 1..Len(q) : Append(q, e)[i] = q[i]
  OBVIOUS
<1> QED
  BY <1>1 DEF SingleReminder, Has

\* What a step may do to the queue, as far as reminders go.
LEMMA ReminderKinds ==
    ASSUME TypeOK, [Next]_vars
    PROVE  \/ TimerCallback(Watchdog)
           \/ /\ timer'[Watchdog] # "done" /\ pc' # "stopped" =>
                    timer[Watchdog] # "done" /\ pc # "stopped"
              /\ pc' = "stopped" /\ (pc = "stopped" => timer[Watchdog] = "null") =>
                    timer'[Watchdog] = "null"
              /\ \/ queue' = queue
                 \/ queue # <<>> /\ queue' = Tail(queue)
                 \/ \E e \in Events : e.type # Reminder /\ queue' = Append(queue, e)
<1> USE DEF Take, Return, QueueAndReturn, SetupTimer, ExitThread, Timers, Watchdog, Stabilization
<1>0. timer \in [Timers -> {"null", "sleeping", "calling", "done"}]
  BY DEF TypeOK
<1>1. CASE CheckRunning \/ DequeueTimesOut \/ ExitReceived \/ ControlMessageReceived \/ Shutdown
  BY <1>0, <1>1 DEF CheckRunning, DequeueTimesOut, ExitReceived, ControlMessageReceived, Shutdown
<1>2. CASE Push
  <2>1. Plain(pushing) \in Events /\ Plain(pushing).type # Reminder
    BY PlainType DEF TypeOK, EventTypes, Plain, DriverTypes, Reminder
  <2> QED
    BY <1>0, <1>2, <2>1 DEF Push
<1>3. CASE InitializingRestart \/ PollSimulatorArmed \/ BallNotFound \/ BallFound \/ IgnoreLateReminder
  BY <1>0, <1>3 DEF InitializingRestart, PollSimulatorArmed, BallNotFound, BallFound, IgnoreLateReminder
<1>4. CASE CheckForBallStable \/ BallMoved \/ BallStabilized \/ PreImageReceived \/ BeginWatching \/ WatchAborted
  BY <1>0, <1>4 DEF CheckForBallStable, BallMoved, BallStabilized, AfterStable, PreImageReceived, BeginWatching, WatchAborted
<1>5. CASE ProcessImage \/ ProcessImageFails \/ ImageTimedOut
  BY <1>0, <1>5 DEF ProcessImage, ProcessImageFails, ImageTimedOut
<1>6. CASE UnsupportedTransition \/ HandlerThrows
  BY <1>0, <1>6 DEF UnsupportedTransition, HandlerThrows
<1>7. CASE WatchStep
  BY <1>0, <1>7 DEF WatchStep, HitDetected, WatchFails, WatchThrows
<1>8. ASSUME NEW t \in Timers, TimerStep(t), ~TimerCallback(Watchdog)
      PROVE  /\ timer'[Watchdog] # "done" /\ pc' # "stopped" =>
                   timer[Watchdog] # "done" /\ pc # "stopped"
             /\ pc' = "stopped" /\ (pc = "stopped" => timer[Watchdog] = "null") =>
                   timer'[Watchdog] = "null"
             /\ queue' = queue \/ \E e \in Events : e.type # Reminder /\ queue' = Append(queue, e)
  <2>1. CASE TimerExpires(t)
    BY <1>0, <1>8, <2>1 DEF TimerExpires, fsmVars
  <2>2. CASE TimerCallback(t)
    <3>1. t = Stabilization
      BY <1>8, <2>2
    <3>2. Plain(Callback(t)) \in Events /\ Plain(Callback(t)).type # Reminder
      BY <3>1, PlainType DEF Callback, EventTypes, DriverTypes, Plain, Reminder
    <3> QED
      BY <1>0, <2>2, <3>1, <3>2 DEF TimerCallback, fsmVars
  <2> QED
    BY <1>8, <2>1, <2>2 DEF TimerStep
<1>9. ASSUME NEW r \in requests, Camera2Answers(r)
      PROVE  \E e \in Events : e.type # Reminder /\ queue' = Append(queue, e)
  <2>1. [type |-> r[1], shot |-> r[2]] \in Events /\ [type |-> r[1], shot |-> r[2]].type # Reminder
    BY <1>9 DEF TypeOK, Events, EventTypes, ImageTypes, Shots, Reminder
  <2> QED
    BY <1>9, <2>1 DEF Camera2Answers
<1>10. ASSUME NEW t \in ControlTypes \cup {"Exit"}, IpcMessage(t)
       PROVE  \E e \in Events : e.type # Reminder /\ queue' = Append(queue, e)
  <2>1. Plain(t) \in Events /\ Plain(t).type # Reminder
    BY PlainType DEF EventTypes, ControlTypes, Plain, Reminder
  <2> QED
    BY <1>10, <2>1 DEF IpcMessage
<1>11. CASE \/ \E r \in requests : Camera2Answers(r)
            \/ \E t \in ControlTypes \cup {"Exit"} : IpcMessage(t)
  <2>1. UNCHANGED <<timer, pc>>
    BY <1>11 DEF Camera2Answers, IpcMessage, fsmVars
  <2> QED
    BY <1>9, <1>10, <1>11, <2>1
<1>12. CASE Signal \/ UNCHANGED vars
  BY <1>12 DEF Signal, vars, fsmVars
<1> QED
  BY <1>1, <1>2, <1>3, <1>4, <1>5, <1>6, <1>7, <1>8, <1>11, <1>12
  DEF Next, FsmStep, EnvironmentStep, Stopped

LEMMA ReminderStep == TypeOK /\ ReminderInv /\ [Next]_vars => ReminderInv'
<1> SUFFICES ASSUME TypeOK, ReminderInv, [Next]_vars PROVE ReminderInv'
  OBVIOUS
<1>0. queue \in Seq(Events)
  BY DEF TypeOK
<1>1. CASE TimerCallback(Watchdog)
  <2>1. /\ timer[Watchdog] = "calling" /\ timer'[Watchdog] = "done" /\ pc' = pc
        /\ queue' = Append(queue, Plain(Callback(Watchdog)))
    BY <1>1 DEF TimerCallback, fsmVars, TypeOK, Timers
  <2>2. Plain(Callback(Watchdog)) \in Events
    BY PlainType DEF Callback, EventTypes, Watchdog, Stabilization
  <2>3. pc # "stopped" => SingleReminder(queue')
    BY <1>0, <2>1, <2>2, PushReminder DEF ReminderInv
  <2>4. pc # "stopped"
    BY <2>1 DEF ReminderInv
  <2> QED
    BY <2>1, <2>3, <2>4 DEF ReminderInv
<1>2. CASE /\ timer'[Watchdog] # "done" /\ pc' # "stopped" =>
                timer[Watchdog] # "done" /\ pc # "stopped"
           /\ pc' = "stopped" /\ (pc = "stopped" => timer[Watchdog] = "null") =>
                timer'[Watchdog] = "null"
           /\ \/ queue' = queue
              \/ queue # <<>> /\ queue' = Tail(queue)
              \/ \E e \in Events : e.type # Reminder /\ queue' = Append(queue, e)
  <2>1. CASE queue' = queue
    BY <1>2, <2>1 DEF ReminderInv
  <2>2. CASE queue # <<>> /\ queue' = Tail(queue)
    <3>1. Has(queue', Reminder) => Has(queue, Reminder)
      <4>1. \A i \in DOMAIN Tail(queue) : i + 1 \in DOMAIN queue /\ Tail(queue)[i] = queue[i + 1]
        BY <1>0, <2>2
      <4> QED
        BY <2>2, <4>1 DEF Has
    <3> QED
      BY <1>0, <1>2, <2>2, <3>1, PopReminder DEF ReminderInv
  <2>3. CASE \E e \in Events : e.type # Reminder /\ queue' = Append(queue, e)
    <3>1. PICK e \in Events : e.type # Reminder /\ queue' = Append(queue, e)
      BY <2>3
    <3>2. SingleReminder(queue')
      BY <1>0, <3>1, PushReminder DEF ReminderInv
    <3>3. Has(queue', Reminder) => Has(queue, Reminder)
      BY <1>0, <3>1 DEF Has
    <3> QED
      BY <1>2, <3>2, <3>3 DEF ReminderInv
  <2> QED
    BY <1>2, <2>1, <2>2, <2>3
<1> QED
  BY <1>1, <1>2, ReminderKinds

LEMMA TrafficStep == TypeOK /\ DriverInv /\ TrafficInv /\ [Next]_vars => TrafficInv'
<1> SUFFICES ASSUME TypeOK, DriverInv, TrafficInv, [Next]_vars PROVE TrafficInv'
  OBVIOUS
<1>c. ASSUME running, pc = "dequeue", timer[Stabilization] # "null"
      PROVE  ~Has(queue, "Restart")
  <2>1. /\ NoDriver(queue) => ~Has(queue, "Restart")
        /\ SingleDriver(queue) /\ Has(queue, "CheckForBallStable") => ~Has(queue, "Restart")
    BY DEF NoDriver, SingleDriver, Drives, Has, DriverTypes
  <2> QED
    BY <1>c, <2>1, DriverValues
    DEF DriverInv, TimerInv, OneDriverInv, PresentInv, InHandler, TimerPending, CameraWaits
<1>d. HandlerInv
  BY DEF DriverInv
<1> USE <1>d DEF TrafficInv, HandlerInv, TimerInv, OneDriverInv, InHandler, TimerPending, CameraWaits
<1>0. /\ queue \in Seq(Events)
      /\ queue # <<>> =>
            /\ SingleDriver(Tail(queue))
            /\ NoDriver(queue) => NoDriver(Tail(queue)) /\ Head(queue).type \notin DriverTypes
            /\ Head(queue).type \in DriverTypes => NoDriver(Tail(queue))
            /\ \A t : Has(Tail(queue), t) => Has(queue, t)
      /\ timer \in [Timers -> {"null", "sleeping", "calling", "done"}]
      /\ {Stabilization, Watchdog} = Timers /\ Stabilization # Watchdog
  BY PopDriver DEF TypeOK, Timers, Stabilization, Watchdog
<1>a. queue # <<>> => Has(queue, Head(queue).type)
  BY <1>0 DEF Has
<1>1. CASE CheckRunning \/ DequeueTimesOut \/ Shutdown
  BY <1>0, <1>1 DEF CheckRunning, DequeueTimesOut, Shutdown
<1>2. CASE Push
  <2>1. Plain(pushing) \in Events /\ Plain(pushing).type = pushing
    BY PlainType DEF TypeOK, EventTypes, Plain
  <2>2. SingleDriver(queue')
    BY <1>0, <1>2, <2>1, PushDriver DEF Push
  <2> QED
    BY <1>0, <1>2, <2>2 DEF Push, Return, SetupTimer
<1>3. CASE ExitReceived \/ ControlMessageReceived
  BY <1>0, <1>3 DEF ExitReceived, ControlMessageReceived, Take, Return, DriverTypes, ControlTypes
<1>4. CASE InitializingRestart
  BY <1>0, <1>a, <1>4 DEF InitializingRestart, Take, QueueAndReturn, DriverTypes
<1>5. CASE PollSimulatorArmed \/ BallNotFound
  BY <1>0, <1>5 DEF PollSimulatorArmed, BallNotFound, Take, QueueAndReturn, DriverTypes
<1>6. CASE BallFound
  BY <1>0, <1>6 DEF BallFound, Take, QueueAndReturn, Return, SetupTimer, DriverTypes
<1>7. CASE IgnoreLateReminder
  BY <1>0, <1>7 DEF IgnoreLateReminder, Take, Return, DriverTypes
<1>8. CASE CheckForBallStable
  BY <1>0, <1>8 DEF CheckForBallStable, Take, DriverTypes
<1>9. CASE BallMoved \/ BallStabilized
  BY <1>0, <1>9 DEF BallMoved, BallStabilized, AfterStable, QueueAndReturn, Return, ExitThread
<1>10. CASE PreImageReceived
  BY <1>0, <1>10 DEF PreImageReceived, Take, QueueAndReturn, DriverTypes
<1>11. CASE BeginWatching
  BY <1>0, <1>11 DEF BeginWatching, Take, DriverTypes
<1>12. CASE WatchAborted \/ HitDetected
  BY <1>0, <1>12 DEF WatchAborted, HitDetected, Return, SetupTimer
<1>13. CASE ProcessImage \/ ProcessImageFails \/ ImageTimedOut
  BY <1>0, <1>13 DEF ProcessImage, ProcessImageFails, ImageTimedOut, Take, QueueAndReturn, DriverTypes
<1>14. CASE UnsupportedTransition \/ HandlerThrows
  <2>1. /\ queue # <<>> /\ queue' = Tail(queue) /\ pc = "dequeue"
        /\ pc' = "loop" /\ state' = "InitializingCamera1System"
        /\ UNCHANGED <<running, timer>>
    BY <1>14 DEF UnsupportedTransition, HandlerThrows, Take, Return
  <2>2. running /\ timer[Stabilization] # "null" => ~Has(queue, "Restart")
    BY <1>c, <2>1
  <2> QED
    BY <1>0, <2>1, <2>2
<1>15. CASE WatchFails \/ WatchThrows
  BY <1>0, <1>15 DEF WatchFails, WatchThrows, QueueAndReturn, Return
<1>16. ASSUME NEW t \in Timers, TimerStep(t) PROVE TrafficInv'
  <2>1. CASE TimerExpires(t)
    BY <1>0, <1>16, <2>1 DEF TimerExpires, fsmVars
  <2>2. CASE TimerCallback(t)
    <3>1. Plain(Callback(t)) \in Events /\ Plain(Callback(t)).type = Callback(t)
      BY PlainType DEF Callback, EventTypes, DriverTypes, Plain
    <3>2. CASE t = Stabilization
      <4>1. Callback(t) = "CheckForBallStable"
        BY <3>2 DEF Callback
      <4>2. /\ NoDriver(queue) => SingleDriver(queue')
            /\ Has(queue', "Restart") => Has(queue, "Restart")
        BY <1>0, <2>2, <3>1, <4>1, PushDriver DEF TimerCallback
      <4> QED
        BY <1>0, <2>2, <3>2, <4>2 DEF TimerCallback, fsmVars
    <3>3. CASE t = Watchdog
      <4>1. Callback(t) \notin DriverTypes /\ t # Stabilization /\ Callback(t) # "Restart"
        BY <3>3 DEF Callback, DriverTypes, Watchdog, Stabilization
      <4>2. /\ SingleDriver(queue) => SingleDriver(queue')
            /\ NoDriver(queue) => NoDriver(queue')
            /\ Has(queue', "Restart") => Has(queue, "Restart")
        BY <1>0, <2>2, <3>1, <4>1, PushDriver DEF TimerCallback
      <4> QED
        BY <1>0, <2>2, <4>1, <4>2 DEF TimerCallback, fsmVars
    <3> QED BY <3>2, <3>3 DEF Timers
  <2> QED BY <1>16, <2>1, <2>2 DEF TimerStep
<1>17. ASSUME NEW r \in requests, Camera2Answers(r) PROVE TrafficInv'
  <2>1. [type |-> r[1], shot |-> r[2]] \in Events /\ [type |-> r[1], shot |-> r[2]].type \notin DriverTypes
    BY <1>17 DEF TypeOK, Events, EventTypes, ImageTypes, DriverTypes, Shots
  <2>2. /\ SingleDriver(queue) => SingleDriver(queue')
        /\ NoDriver(queue) => NoDriver(queue')
        /\ Has(queue', "Restart") => Has(queue, "Restart")
    BY <1>0, <1>17, <2>1, PushDriver DEF Camera2Answers, DriverTypes
  <2> QED
    BY <1>17, <2>2 DEF Camera2Answers, fsmVars
<1>18. ASSUME NEW t \in ControlTypes \cup {"Exit"}, IpcMessage(t) PROVE TrafficInv'
  <2>1. Plain(t) \in Events /\ Plain(t).type \notin DriverTypes
    BY <1>18, PlainType DEF EventTypes, ControlTypes, DriverTypes, Plain
  <2>2. /\ SingleDriver(queue) => SingleDriver(queue')
        /\ NoDriver(queue) => NoDriver(queue')
        /\ Has(queue', "Restart") => Has(queue, "Restart")
    BY <1>0, <1>18, <2>1, PushDriver DEF IpcMessage, DriverTypes
  <2> QED
    BY <1>18, <2>2 DEF IpcMessage, fsmVars
<1>19. CASE Signal \/ UNCHANGED vars
  BY <1>19 DEF Signal, vars, fsmVars
<1> QED
  BY <1>1, <1>2, <1>3, <1>4, <1>5, <1>6, <1>7, <1>8, <1>9, <1>10, <1>11,
     <1>12, <1>13, <1>14, <1>15, <1>16, <1>17, <1>18, <1>19
  DEF Next, FsmStep, WatchStep, EnvironmentStep, Stopped

LEMMA OwnEventsAreFew ==
    ASSUME TypeOK, ReminderInv, TrafficInv, ~HasRoom,
           pc = "push" \/ \E t \in Timers : timer[t] = "calling"
    PROVE  Cardinality(Messages) >= kMaxQueueSize - 1
<1> DEFINE Own == DOMAIN queue \ Messages
<1>1. DOMAIN queue = 1..Len(queue) /\ Len(queue) = kMaxQueueSize
  BY DEF TypeOK, HasRoom
<1>2. IsFiniteSet(DOMAIN queue) /\ Cardinality(DOMAIN queue) = kMaxQueueSize
  BY <1>1, FS_Interval
<1>3. \A i, j \in Own : i = j
  <2>1. \A i \in Own : queue[i].type \in DriverTypes \cup {Reminder}
    BY DEF Messages
  <2>2. NoDriver(queue) \/ ~Has(queue, Reminder)
    <3>1. CASE pc = "push" \/ timer[Stabilization] = "calling"
      BY <3>1 DEF TrafficInv, OneDriverInv, InHandler
    <3>2. CASE pc # "stopped" /\ timer[Watchdog] = "calling"
      BY <3>2 DEF ReminderInv
    <3> QED
      BY <3>1, <3>2 DEF Timers, ReminderInv
  <2>3. SingleDriver(queue) /\ SingleReminder(queue)
    BY DEF TrafficInv, ReminderInv
  <2> QED
    BY <2>1, <2>2, <2>3 DEF NoDriver, SingleDriver, SingleReminder, Drives, Has, Messages
<1>4. IsFiniteSet(Own) /\ (Cardinality(Own) = 0 \/ Cardinality(Own) = 1)
  <2>1. CASE Own = {}
    <3>1. IsFiniteSet({}) /\ Cardinality({}) = 0
      BY FS_EmptySet
    <3> HIDE DEF Own
    <3> QED
      BY <2>1, <3>1
  <2>2. CASE Own # {}
    <3>1. PICK i \in Own : Own = {i}
      BY <1>3, <2>2
    <3>2. IsFiniteSet({i}) /\ Cardinality({i}) = 1
      BY FS_Singleton
    <3> HIDE DEF Own
    <3> QED
      BY <3>1, <3>2
  <2> QED
    BY <2>1, <2>2
<1>5. /\ Messages = DOMAIN queue \ Own
      /\ Cardinality(DOMAIN queue \ Own) = Cardinality(DOMAIN queue) - Cardinality(DOMAIN queue \cap Own)
      /\ DOMAIN queue \cap Own = Own
  BY <1>2, FS_Difference DEF Messages
<1>6. Cardinality(Own) \in Nat
  BY <1>4, FS_CardinalityType
<1> HIDE DEF Own
<1> QED
  BY <1>2, <1>4, <1>5, <1>6

\* Whatever the capacity, the process waits for room in its own queue only
\* behind events from outside, and never in a circle with its timer thread.
THEOREM BlockedByMessagesOnly == Spec => [](OnlyMessagesBlock /\ JoinNeverWaits)
<1>1. Init => ReminderInv /\ TrafficInv
  BY DEF Init, ReminderInv, TrafficInv, SingleReminder, SingleDriver, Has, TimerInv, OneDriverInv,
      NoDriver, InHandler, TimerPending, Timers, CameraWaits, Watchdog, Stabilization
<1>2. TypeOK /\ ReminderInv /\ TrafficInv => OnlyMessagesBlock /\ JoinNeverWaits
  <2>1. TypeOK /\ ReminderInv /\ TrafficInv => OnlyMessagesBlock
    BY OwnEventsAreFew DEF OnlyMessagesBlock
  <2>2. TrafficInv => JoinNeverWaits
    BY DEF TrafficInv, OneDriverInv, InHandler, JoinNeverWaits
  <2> QED
    BY <2>1, <2>2
<1>3. TypeOK /\ TypeOK' /\ DriverInv /\ [Next]_vars => DriverInv'
  BY DriverStep
<1> QED
  BY <1>1, <1>2, <1>3, DriverInit, ReminderStep, TrafficStep, TypeCorrect, PTL DEF Spec

----------------------------------------------------------------------------
(* The safety part of WatchdogRescues: the way out of the wait for camera 2 *)
(* is not lost.                                                             *)

\* The watchdog's reminder is still to come, or queued, or was taken and the
\* handler leaves the state.
ReminderOnTheWay == TimerPending(Watchdog) \/ Has(queue, Reminder) \/ pc = "push"

\* As long as the system runs, a wait for camera 2 under a pending watchdog
\* ends only with the wait itself.
RescueKept ==
    [][ state = "BallHitNowWaitingForCam2Image" /\ ReminderOnTheWay /\ running' =>
           state' # "BallHitNowWaitingForCam2Image" \/ ReminderOnTheWay' ]_vars

LEMMA RescueStep ==
    ASSUME TypeOK, HandlerInv, [Next]_vars, state = "BallHitNowWaitingForCam2Image",
           ReminderOnTheWay, running'
    PROVE  state' # "BallHitNowWaitingForCam2Image" \/ ReminderOnTheWay'
<1> USE DEF ReminderOnTheWay, TimerPending, Take, Return, QueueAndReturn, SetupTimer, ExitThread
<1>0. /\ timer \in [Timers -> {"null", "sleeping", "calling", "done"}]
      /\ queue \in Seq(Events)
      /\ Watchdog \in Timers /\ Stabilization \in Timers /\ Watchdog # Stabilization
      /\ pc \notin {"joining", "watching"}
      /\ pc = "push" => next # "BallHitNowWaitingForCam2Image"
  BY DEF TypeOK, Timers, Watchdog, Stabilization, HandlerInv, CameraWaits
<1>a. queue # <<>> /\ Head(queue).type # Reminder /\ Has(queue, Reminder) => Has(Tail(queue), Reminder)
  BY <1>0, HasInTail
<1>b. queue = <<>> => ~Has(queue, Reminder)
  BY DEF Has
<1>1. CASE CheckRunning \/ DequeueTimesOut \/ Shutdown \/ ExitReceived
  BY <1>0, <1>1 DEF CheckRunning, DequeueTimesOut, ExitReceived, Shutdown
<1>2. CASE ControlMessageReceived
  BY <1>0, <1>a, <1>2 DEF ControlMessageReceived, Reminder
<1>3. CASE Push
  BY <1>0, <1>3 DEF Push
<1>4. CASE InitializingRestart \/ PollSimulatorArmed \/ BallNotFound \/ BallFound \/ IgnoreLateReminder
  BY <1>4 DEF InitializingRestart, PollSimulatorArmed, BallNotFound, BallFound, IgnoreLateReminder
<1>5. CASE CheckForBallStable \/ BallMoved \/ BallStabilized \/ PreImageReceived \/ BeginWatching \/ WatchAborted \/ WatchStep
  BY <1>0, <1>5 DEF CheckForBallStable, BallMoved, BallStabilized, AfterStable, PreImageReceived, BeginWatching,
     WatchAborted, WatchStep, HitDetected, WatchFails, WatchThrows
<1>6. CASE ProcessImage \/ ProcessImageFails \/ ImageTimedOut
  BY <1>6 DEF ProcessImage, ProcessImageFails, ImageTimedOut
<1>7. CASE UnsupportedTransition \/ HandlerThrows
  BY <1>7 DEF UnsupportedTransition, HandlerThrows
<1>8. ASSUME NEW t \in Timers, TimerStep(t)
      PROVE  ReminderOnTheWay'
  <2>1. CASE TimerExpires(t)
    <3>1. running
      BY <1>8, <2>1 DEF TimerExpires
    <3> QED
      BY <1>0, <2>1, <3>1 DEF TimerExpires, fsmVars
  <2>2. CASE TimerCallback(t)
    <3>1. Plain(Callback(t)) \in Events /\ Plain(Callback(t)).type = Callback(t)
      BY PlainType DEF Callback, EventTypes, DriverTypes, Plain
    <3>2. t = Watchdog => Callback(t) = Reminder
      BY <1>0 DEF Callback, Reminder
    <3>3. /\ Has(queue, Reminder) => Has(queue', Reminder)
          /\ t = Watchdog => Has(queue', Reminder)
      BY <1>0, <2>2, <3>1, <3>2, HasInAppend DEF TimerCallback
    <3> QED
      BY <1>0, <2>2, <3>3 DEF TimerCallback, fsmVars
  <2> QED
    BY <1>8, <2>1, <2>2 DEF TimerStep
<1>9. ASSUME NEW r \in requests, Camera2Answers(r)
      PROVE  ReminderOnTheWay'
  <2>1. [type |-> r[1], shot |-> r[2]] \in Events
    BY <1>9 DEF TypeOK, Events, EventTypes, Shots
  <2>2. Has(queue, Reminder) => Has(queue', Reminder)
    BY <1>0, <1>9, <2>1, HasInAppend DEF Camera2Answers
  <2> QED
    BY <1>9, <2>2 DEF Camera2Answers, fsmVars
<1>10. ASSUME NEW t \in ControlTypes \cup {"Exit"}, IpcMessage(t)
       PROVE  ReminderOnTheWay'
  <2>1. Plain(t) \in Events
    BY <1>10, PlainType DEF EventTypes
  <2>2. Has(queue, Reminder) => Has(queue', Reminder)
    BY <1>0, <1>10, <2>1, HasInAppend DEF IpcMessage
  <2> QED
    BY <1>10, <2>2 DEF IpcMessage, fsmVars
<1>11. CASE Signal \/ UNCHANGED vars
  BY <1>11 DEF Signal, vars, fsmVars
<1> QED
  BY <1>1, <1>2, <1>3, <1>4, <1>5, <1>6, <1>7, <1>8, <1>9, <1>10, <1>11
  DEF Next, FsmStep, EnvironmentStep, Stopped

\* No step loses the reminder that ends a wait for camera 2: no exception,
\* message or other timer does, nor the picture that arrives with it.
THEOREM RescueIsKept == Spec => RescueKept
<1>1. TypeOK /\ DriverInv /\ [Next]_vars =>
          (state = "BallHitNowWaitingForCam2Image" /\ ReminderOnTheWay /\ running' =>
              state' # "BallHitNowWaitingForCam2Image" \/ ReminderOnTheWay')
  BY RescueStep DEF DriverInv
<1>2. TypeOK /\ TypeOK' /\ DriverInv /\ [Next]_vars => DriverInv'
  BY DriverStep
<1> QED
  BY <1>1, <1>2, DriverInit, TypeCorrect, PTL DEF Spec, RescueKept
=============================================================================
