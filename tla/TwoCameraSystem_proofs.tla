----------------------- MODULE TwoCameraSystem_proofs ------------------------
(* The composition of the two processes implements the camera-1 process:    *)
(* whatever is proved of LaunchMonitorFsm holds with the real camera 2.     *)
(* And camera 2, which only counts triggers, takes the picture of the hit.   *)
EXTENDS TwoCameraSystem, LaunchMonitorFsm_proofs, SequenceTheorems, TLAPS

USE QueueAssumption, BoundsAssumption, ModeAssumption, PulsesAssumption, SystemAssumption

C2Events == [type : {"ArmCamera2MessageReceived", "Restart", "Exit"}, shot : Nat]

\* What the refinement needs to know: whoever holds the number of a shot, be it
\* the broker, camera 2's queue, its handler, a picture or an answer, got it from a
\* request of camera 1, so that no picture can answer a shot not yet armed.
OfArmedShots ==
    /\ shot \in Nat
    /\ \A r \in requests : r[2] \in 1..shot
    /\ c2queue \in Seq(C2Events)
    /\ \A i \in DOMAIN c2queue : c2queue[i].shot \in 0..shot
    /\ \A p \in sent : p.shot \in 1..shot
    /\ serving \in 0..shot
    /\ c2pc \in {"opening", "exposing", "sending"} => serving \in 1..shot
    /\ answered \subseteq 1..shot

\* The requests that camera 1 takes to be unanswered.
Unanswered == {"Camera2ImageReceived"} \X (1..shot \ answered)

----------------------------------------------------------------------------
\* Arming a shot adds the one request that is answered by its picture.
LEMMA ArmingAddsRequest ==
    ASSUME OfArmedShots, shot' = shot + 1, UNCHANGED answered
    PROVE  Unanswered' = Unanswered \cup LM!CameraRequest(shot + 1)
<1>1. 1..(shot + 1) \ answered = (1..shot \ answered) \cup {shot + 1}
  BY DEF OfArmedShots
<1> QED BY <1>1 DEF Unanswered, LM!CameraRequest

\* A step of camera 1's FSM thread that arms no shot is the same step of
\* LaunchMonitorFsm.
LEMMA Camera1StepRefines ==
    ASSUME OfArmedShots, FsmStep \/ WatchStep, UNCHANGED answered
    PROVE  LM!FsmStep \/ LM!WatchStep
<1>1. ASSUME CheckRunning PROVE LM!CheckRunning
  BY <1>1 DEF CheckRunning, shotVars, LM!CheckRunning, LM!shotVars
<1>2. ASSUME DequeueTimesOut PROVE LM!DequeueTimesOut
  BY <1>2 DEF DequeueTimesOut, shotVars, LM!DequeueTimesOut, LM!shotVars
<1>3. ASSUME Push PROVE LM!Push
  BY <1>3 DEF Push, HasRoom, Plain, Return, SetupTimer, shotVars, LM!Push, LM!HasRoom,
      LM!Plain, LM!Return, LM!SetupTimer, Stabilization, Watchdog,
      LM!Stabilization, LM!Watchdog, LM!shotVars
<1>4. ASSUME ExitReceived PROVE LM!ExitReceived
  BY <1>4 DEF ExitReceived, Take, Return, shotVars, LM!ExitReceived, LM!Take, LM!Return,
      LM!shotVars
<1>5. ASSUME ControlMessageReceived PROVE LM!ControlMessageReceived
  BY <1>5 DEF ControlMessageReceived, Take, Return, shotVars, LM!ControlMessageReceived,
      LM!Take, LM!Return, LM!shotVars
<1>6. ASSUME Shutdown PROVE LM!Shutdown
  BY <1>6 DEF Shutdown, Timers, Stabilization, Watchdog, shotVars,
      LM!Shutdown, LM!Timers, LM!Stabilization, LM!Watchdog, LM!shotVars
<1>7. ASSUME InitializingRestart PROVE LM!InitializingRestart
  BY <1>7 DEF InitializingRestart, Take, QueueAndReturn, shotVars,
      LM!InitializingRestart, LM!Take, LM!QueueAndReturn, LM!shotVars
<1>8. ASSUME PollSimulatorArmed PROVE LM!PollSimulatorArmed
  BY <1>8 DEF PollSimulatorArmed, Take, QueueAndReturn, shotVars, LM!PollSimulatorArmed,
      LM!Take, LM!QueueAndReturn, LM!shotVars
<1>9. ASSUME BallNotFound PROVE LM!BallNotFound
  BY <1>9 DEF BallNotFound, Take, QueueAndReturn, WaitingStatus, shotVars,
      LM!BallNotFound, LM!Take, LM!QueueAndReturn, LM!WaitingStatus, LM!shotVars
<1>10. ASSUME BallFound PROVE LM!BallFound
  BY <1>10 DEF BallFound, Take, QueueAndReturn, Return, SetupTimer, WaitingStatus,
      shotVars, LM!BallFound, LM!Take, LM!QueueAndReturn, LM!Return,
      LM!SetupTimer, Stabilization, Watchdog, LM!Stabilization, LM!Watchdog, LM!WaitingStatus, LM!shotVars
<1>11. ASSUME IgnoreLateReminder PROVE LM!IgnoreLateReminder
  BY <1>11 DEF IgnoreLateReminder, Take, Return, shotVars, LM!IgnoreLateReminder,
      LM!Take, LM!Return, LM!shotVars
<1>12. ASSUME CheckForBallStable PROVE LM!CheckForBallStable
  BY <1>12 DEF CheckForBallStable, Take, shotVars, LM!CheckForBallStable, LM!Take,
      LM!shotVars
<1>13. ASSUME BallMoved PROVE LM!BallMoved
  BY <1>13 DEF BallMoved, ExitThread, QueueAndReturn, shotVars, LM!BallMoved,
      LM!ExitThread, Stabilization, LM!Stabilization, LM!QueueAndReturn, LM!shotVars
<1>14. ASSUME PreImageReceived PROVE LM!PreImageReceived
  BY <1>14 DEF PreImageReceived, Take, QueueAndReturn, shotVars, LM!PreImageReceived,
      LM!Take, LM!QueueAndReturn, LM!shotVars
<1>15. ASSUME BeginWatching PROVE LM!BeginWatching
  BY <1>15 DEF BeginWatching, Take, shotVars, LM!BeginWatching, LM!Take, LM!shotVars
<1>16. ASSUME WatchAborted PROVE LM!WatchAborted
  BY <1>16 DEF WatchAborted, SetupTimer, Return, shotVars, LM!WatchAborted,
      LM!SetupTimer, Stabilization, Watchdog, LM!Stabilization, LM!Watchdog, LM!Return, LM!shotVars
<1>17. ASSUME ProcessImage PROVE LM!ProcessImage
  BY <1>17 DEF ProcessImage, Take, QueueAndReturn, Result, shotVars, LM!ProcessImage,
      LM!Take, LM!QueueAndReturn, LM!Result, LM!shotVars
<1>18. ASSUME ProcessImageFails PROVE LM!ProcessImageFails
  BY <1>18 DEF ProcessImageFails, Take, QueueAndReturn, shotVars, LM!ProcessImageFails,
      LM!Take, LM!QueueAndReturn, LM!shotVars
<1>19. ASSUME ImageTimedOut PROVE LM!ImageTimedOut
  BY <1>19 DEF ImageTimedOut, Take, QueueAndReturn, shotVars, LM!ImageTimedOut, LM!Take,
      LM!QueueAndReturn, LM!shotVars
<1>20. ASSUME UnsupportedTransition PROVE LM!UnsupportedTransition
  BY <1>20 DEF UnsupportedTransition, Take, Return, EventTypes, DriverTypes,
      ControlTypes, ImageTypes, Supported, shotVars, LM!UnsupportedTransition,
      LM!Take, LM!Return, LM!EventTypes, LM!DriverTypes, LM!ControlTypes,
      LM!ImageTypes, LM!Supported, LM!shotVars
<1>21. ASSUME HandlerThrows PROVE LM!HandlerThrows
  BY <1>21 DEF HandlerThrows, Take, Return, EventTypes, DriverTypes, ControlTypes,
      ImageTypes, UsesCamera, WaitingStatus, shotVars, LM!HandlerThrows,
      LM!Take, LM!Return, LM!EventTypes, LM!DriverTypes, LM!ControlTypes,
      LM!ImageTypes, LM!UsesCamera, LM!WaitingStatus, LM!shotVars
<1>22. ASSUME HitDetected PROVE LM!HitDetected
  BY <1>22 DEF HitDetected, SetupTimer, Return, shotVars, LM!HitDetected, LM!SetupTimer, Stabilization, Watchdog, LM!Stabilization, LM!Watchdog,
      LM!Return, LM!shotVars
<1>23. ASSUME WatchFails PROVE LM!WatchFails
  BY <1>23 DEF WatchFails, QueueAndReturn, shotVars, LM!WatchFails, LM!QueueAndReturn,
      LM!shotVars
<1>24. ASSUME WatchThrows PROVE LM!WatchThrows
  BY <1>24 DEF WatchThrows, Return, shotVars, LM!WatchThrows, LM!Return, LM!shotVars
<1>25. ASSUME BallStabilized PROVE LM!BallStabilized
  <2>1. shot' = shot + 1
    BY <1>25 DEF BallStabilized
  <2>2. Unanswered' = Unanswered \cup LM!CameraRequest(shot + 1)
    BY <2>1, ArmingAddsRequest
  <2> QED BY <1>25, <2>2 DEF BallStabilized, ExitThread, AfterStable, Return, QueueAndReturn,
      Unanswered, LM!BallStabilized, LM!ExitThread, Stabilization, LM!Stabilization, LM!AfterStable, LM!Return,
      LM!QueueAndReturn
<1> QED
  BY <1>1, <1>2, <1>3, <1>4, <1>5, <1>6, <1>7, <1>8, <1>9, <1>10, <1>11,
     <1>12, <1>13, <1>14, <1>15, <1>16, <1>17, <1>18, <1>19, <1>20, <1>21,
     <1>22, <1>23, <1>24, <1>25
  DEF FsmStep, WatchStep, LM!FsmStep, LM!WatchStep

----------------------------------------------------------------------------
\* Popping and pushing keep the shot numbers of a queue below a bound.
LEMMA QueuedShots ==
    ASSUME NEW q \in Seq(C2Events), NEW n \in Nat, \A i \in DOMAIN q : q[i].shot \in 0..n
    PROVE  /\ q # <<>> =>
                 /\ Tail(q) \in Seq(C2Events) /\ Head(q).shot \in 0..n
                 /\ \A i \in DOMAIN Tail(q) : Tail(q)[i].shot \in 0..n
           /\ \A e \in C2Events : e.shot \in 0..n =>
                 /\ Append(q, e) \in Seq(C2Events)
                 /\ \A i \in DOMAIN Append(q, e) : Append(q, e)[i].shot \in 0..n
<1>1. Len(q) \in Nat /\ DOMAIN q = 1..Len(q)
  OBVIOUS
<1>2. ASSUME q # <<>>
      PROVE  /\ Tail(q) \in Seq(C2Events) /\ Head(q).shot \in 0..n
             /\ \A i \in DOMAIN Tail(q) : Tail(q)[i].shot \in 0..n
  <2>1. Len(q) # 0 /\ Len(Tail(q)) = Len(q) - 1 /\ DOMAIN Tail(q) = 1..(Len(q) - 1)
        /\ Tail(q) \in Seq(C2Events) /\ Head(q) = q[1]
    BY <1>2
  <2>2. \A i \in DOMAIN Tail(q) : i + 1 \in DOMAIN q /\ Tail(q)[i] = q[i + 1]
    BY <1>1, <2>1
  <2> QED BY <1>1, <2>1, <2>2
<1>3. ASSUME NEW e \in C2Events, e.shot \in 0..n
      PROVE  /\ Append(q, e) \in Seq(C2Events)
             /\ \A i \in DOMAIN Append(q, e) : Append(q, e)[i].shot \in 0..n
  <2> DEFINE a == Append(q, e)
  <2>1. a \in Seq(C2Events) /\ DOMAIN a = 1..(Len(q) + 1) /\ a[Len(q) + 1] = e
    BY <1>1
  <2>2. \A i \in DOMAIN q : a[i] = q[i]
    BY <1>1
  <2>3. \A i \in DOMAIN a : i \in DOMAIN q \/ i = Len(q) + 1
    BY <1>1, <2>1
  <2> HIDE DEF a
  <2>4. a \in Seq(C2Events) /\ \A i \in DOMAIN a : a[i].shot \in 0..n
    BY <1>3, <2>1, <2>2, <2>3
  <2> QED BY <2>4 DEF a
<1> QED BY <1>2, <1>3

LEMMA C2EventTypes ==
    /\ C2!Restart \in C2Events /\ C2!Restart.shot = 0
    /\ \A s \in Nat : C2!Arm(s) \in C2Events /\ C2!Arm(s).shot = s
BY DEF C2Events, C2!Restart, C2!Arm

\* Camera 2 passes numbers on: from its queue to the shot it serves, and from
\* there to the picture it sends.
LEMMA Camera2StepKeeps ==
    ASSUME OfArmedShots, C2!FsmStep, UNCHANGED <<shot, requests, answered>>
    PROVE  OfArmedShots'
<1> USE DEF OfArmedShots
<1>1. ASSUME NEW e, C2!Take(e)
      PROVE  /\ c2queue' \in Seq(C2Events) /\ c2pc = "dequeue"
             /\ \A i \in DOMAIN c2queue' : c2queue'[i].shot \in 0..shot
             /\ e.shot \in 0..shot
  BY <1>1, QueuedShots DEF C2!Take
<1>2. CASE C2!CheckRunning
  BY <1>2 DEF C2!CheckRunning
<1>3. CASE C2!DequeueTimesOut
  BY <1>3 DEF C2!DequeueTimesOut
<1>4. CASE C2!Push
  <2>1. c2queue' = Append(c2queue, C2!Restart)
    BY <1>4 DEF C2!Push, C2!Enqueue
  <2>2. c2queue' \in Seq(C2Events) /\ \A i \in DOMAIN c2queue' : c2queue'[i].shot \in 0..shot
    BY <2>1, QueuedShots, C2EventTypes
  <2> QED BY <1>4, <2>2 DEF C2!Push
<1>5. CASE C2!ExitReceived
  <2>1. c2queue' \in Seq(C2Events) /\ \A i \in DOMAIN c2queue' : c2queue'[i].shot \in 0..shot
    BY <1>5, <1>1 DEF C2!ExitReceived
  <2> QED BY <1>5, <2>1 DEF C2!ExitReceived
<1>6. CASE C2!InitializingRestart
  <2>1. c2queue' \in Seq(C2Events) /\ \A i \in DOMAIN c2queue' : c2queue'[i].shot \in 0..shot
    BY <1>6, <1>1 DEF C2!InitializingRestart
  <2> QED BY <1>6, <2>1 DEF C2!InitializingRestart
<1>7. CASE C2!RestartAsCamera1
  <2>1. c2queue' \in Seq(C2Events) /\ \A i \in DOMAIN c2queue' : c2queue'[i].shot \in 0..shot
    BY <1>7, <1>1 DEF C2!RestartAsCamera1
  <2> QED BY <1>7, <2>1 DEF C2!RestartAsCamera1
<1>8. CASE C2!UnsupportedTransition
  <2>1. c2queue' \in Seq(C2Events) /\ \A i \in DOMAIN c2queue' : c2queue'[i].shot \in 0..shot
    BY <1>8, <1>1 DEF C2!UnsupportedTransition
  <2> QED BY <1>8, <2>1 DEF C2!UnsupportedTransition, C2!Throws
<1>9. CASE C2!ArmReceived
  <2>1. PICK s \in C2!Shots : C2!Take(C2!Arm(s)) /\ serving' = s
    BY <1>9 DEF C2!ArmReceived
  <2>2. s \in Nat /\ s # 0
    BY DEF C2!Shots
  <2>3. /\ c2queue' \in Seq(C2Events)
        /\ \A i \in DOMAIN c2queue' : c2queue'[i].shot \in 0..shot
        /\ s \in 1..shot
    BY <2>1, <2>2, <1>1, C2EventTypes
  <2> QED BY <1>9, <2>1, <2>3 DEF C2!ArmReceived
<1>10. CASE C2!CameraStarted
  BY <1>10 DEF C2!CameraStarted, C2!WaitForFrame
<1>11. CASE C2!UndistortThrows
  BY <1>11 DEF C2!UndistortThrows, C2!Throws
<1>12. CASE C2!SendPicture
  BY <1>12 DEF C2!SendPicture
<1> QED BY <1>2, <1>3, <1>4, <1>5, <1>6, <1>7, <1>8, <1>9, <1>10, <1>11, <1>12 DEF C2!FsmStep

\* A trigger, a camera fault or a new start of the process hands no number on.
LEMMA Camera2EnvironmentKeeps ==
    ASSUME OfArmedShots, UNCHANGED <<shot, requests, answered>>,
           C2!CameraFails \/ C2!StartProcess \/ C2!Trigger(Head(wire))
    PROVE  OfArmedShots'
<1> USE DEF OfArmedShots
<1>1. CASE C2!CameraFails
  BY <1>1 DEF C2!CameraFails
<1>2. CASE C2!StartProcess
  <2>1. c2queue' = <<>> /\ c2queue' \in Seq(C2Events) /\ DOMAIN c2queue' = {}
    BY <1>2 DEF C2!StartProcess
  <2> QED BY <1>2, <2>1 DEF C2!StartProcess
<1>3. CASE C2!Trigger(Head(wire))
  BY <1>3 DEF C2!Trigger, C2!WaitForFrame, C2!vars, C2!fsmVars
<1> QED BY <1>1, <1>2, <1>3

----------------------------------------------------------------------------
\* Camera 1 hands out one new number when it arms a shot, and no other step of
\* its FSM thread changes the counter or the requests.
LEMMA Camera1StepKeeps ==
    ASSUME OfArmedShots, FsmStep \/ WatchStep, UNCHANGED <<answered, c2vars>>
    PROVE  OfArmedShots'
<1> USE DEF OfArmedShots, c2vars
<1>1. (shot' = shot /\ requests' = requests) \/ BallStabilized
  BY DEF FsmStep, WatchStep, shotVars, CheckRunning, DequeueTimesOut, Push,
      ExitReceived, ControlMessageReceived, Shutdown, InitializingRestart,
      PollSimulatorArmed, BallNotFound, BallFound, IgnoreLateReminder,
      CheckForBallStable, BallMoved, PreImageReceived, BeginWatching,
      WatchAborted, ProcessImage, ProcessImageFails, ImageTimedOut,
      UnsupportedTransition, HandlerThrows, HitDetected, WatchFails, WatchThrows
<1>2. CASE shot' = shot /\ requests' = requests
  BY <1>2
<1>3. CASE BallStabilized
  <2>1. shot' = shot + 1 /\ requests' = requests \cup CameraRequest(shot + 1)
    BY <1>3 DEF BallStabilized
  <2>2. \A r \in CameraRequest(shot + 1) : r[2] = shot + 1
    BY DEF CameraRequest
  <2>3. 0..shot \subseteq 0..shot' /\ 1..shot \subseteq 1..shot' /\ shot + 1 \in 1..shot'
        /\ shot' \in Nat
    BY <2>1
  <2>4. \A r \in requests' : r[2] \in 1..shot'
    BY <2>1, <2>2, <2>3
  <2> QED BY <2>3, <2>4
<1> QED BY <1>1, <1>2, <1>3

LEMMA DeliveryKeeps ==
    ASSUME OfArmedShots,
           (\E r \in requests : ArmDelivered(r)) \/ \E p \in sent : PictureDelivered(p)
    PROVE  OfArmedShots'
<1> USE DEF OfArmedShots, c2vars
<1>1. CASE \E r \in requests : ArmDelivered(r)
  <2>1. PICK r \in requests : ArmDelivered(r)
    BY <1>1
  <2>2. /\ c2queue' = Append(c2queue, C2!Arm(r[2]))
        /\ UNCHANGED <<shot, answered, c2pc, serving, sent>>
        /\ requests' \subseteq requests
    BY <2>1 DEF ArmDelivered, C2!ArmMessage, C2!Enqueue, shotVars
  <2>3. C2!Arm(r[2]) \in C2Events /\ C2!Arm(r[2]).shot \in 0..shot
    BY C2EventTypes
  <2>4. c2queue' \in Seq(C2Events) /\ \A i \in DOMAIN c2queue' : c2queue'[i].shot \in 0..shot
    BY <2>2, <2>3, QueuedShots
  <2> QED BY <2>2, <2>4
<1>2. CASE \E p \in sent : PictureDelivered(p)
  <2>1. PICK p \in sent : PictureDelivered(p)
    BY <1>2
  <2>2. answered' = answered \cup {p.shot} /\ UNCHANGED <<shot, requests, c2vars>>
    BY <2>1 DEF PictureDelivered, shotVars
  <2> QED BY <2>2
<1> QED BY <1>1, <1>2

\* A picture that is delivered answers a request that is still unanswered.
LEMMA DeliveryRefines ==
    ASSUME OfArmedShots, NEW p \in sent, PictureDelivered(p)
    PROVE  \E r \in Unanswered : LM!Camera2Answers(r)
<1> DEFINE r == <<"Camera2ImageReceived", p.shot>>
<1>1. p.shot \in 1..shot /\ p.shot \notin answered
  BY DEF OfArmedShots, PictureDelivered
<1>2. r \in Unanswered
  BY <1>1 DEF Unanswered
<1>3. Unanswered' = Unanswered \ {r}
  <2>1. answered' = answered \cup {p.shot} /\ shot' = shot
    BY DEF PictureDelivered, shotVars
  <2> QED BY <2>1 DEF Unanswered
<1>4. LM!Camera2Answers(r)
  BY <1>2, <1>3 DEF PictureDelivered, HasRoom, fsmVars, shotVars, Unanswered,
      LM!Camera2Answers, LM!HasRoom, LM!fsmVars, LM!shotVars
<1> QED BY <1>2, <1>4

----------------------------------------------------------------------------
LEMMA SystemStepKeeps == OfArmedShots /\ [SystemNext]_systemVars => OfArmedShots'
<1> SUFFICES ASSUME OfArmedShots, [SystemNext]_systemVars PROVE OfArmedShots'
  OBVIOUS
<1>1. CASE Camera1Step
  BY <1>1, Camera1StepKeeps DEF Camera1Step
<1>2. CASE \E t \in Timers : Camera1Timer(t)
  BY <1>2 DEF Camera1Timer, TimerStep, TimerExpires, TimerCallback, shotVars, c2vars, OfArmedShots
<1>3. CASE Camera1Environment
  BY <1>3 DEF Camera1Environment, Signal, IpcMessage, shotVars, c2vars, OfArmedShots
<1>4. CASE SendPulse
  BY <1>4, Camera2EnvironmentKeeps DEF SendPulse, vars, shotVars
<1>5. CASE (\E r \in requests : ArmDelivered(r)) \/ \E p \in sent : PictureDelivered(p)
  BY <1>5, DeliveryKeeps
<1>6. CASE Camera2Step
  BY <1>6, Camera2StepKeeps DEF Camera2Step, vars, shotVars
<1>7. CASE Camera2Environment
  BY <1>7, Camera2EnvironmentKeeps DEF Camera2Environment, vars, shotVars
<1>8. CASE UNCHANGED systemVars
  BY <1>8 DEF systemVars, vars, shotVars, c2vars, OfArmedShots
<1> QED BY <1>1, <1>2, <1>3, <1>4, <1>5, <1>6, <1>7, <1>8 DEF SystemNext

LEMMA SystemStepRefines == OfArmedShots /\ [SystemNext]_systemVars => [LM!Next]_(LM!vars)
<1> SUFFICES ASSUME OfArmedShots, [SystemNext]_systemVars PROVE LM!Next \/ UNCHANGED LM!vars
  OBVIOUS
<1>1. CASE Camera1Step
  BY <1>1, Camera1StepRefines DEF Camera1Step, LM!Next
<1>2. CASE \E t \in Timers : Camera1Timer(t)
  <2>1. PICK t \in Timers : Camera1Timer(t)
    BY <1>2
  <2>2. LM!TimerStep(t)
    BY <2>1 DEF Camera1Timer, TimerStep, TimerExpires, TimerCallback, fsmVars, shotVars,
        HasRoom, Plain, Callback, Stabilization, LM!TimerStep, LM!TimerExpires,
        LM!TimerCallback, LM!fsmVars, LM!shotVars, LM!HasRoom, LM!Plain, LM!Callback,
        LM!Stabilization
  <2>3. t \in LM!Timers
    BY DEF Timers, Stabilization, Watchdog, LM!Timers, LM!Stabilization, LM!Watchdog
  <2> QED BY <2>2, <2>3 DEF LM!Next
<1>3. CASE Camera1Environment
  <2>1. CASE Signal
    BY <1>3, <2>1 DEF Camera1Environment, Signal, fsmVars, shotVars, LM!Next,
        LM!EnvironmentStep, LM!Signal, LM!fsmVars, LM!shotVars
  <2>2. ASSUME NEW t \in ControlTypes \cup {"Exit"}, IpcMessage(t) PROVE LM!Next
    <3>1. LM!IpcMessage(t)
      BY <1>3, <2>2 DEF Camera1Environment, IpcMessage, fsmVars, shotVars, HasRoom, Plain,
          LM!IpcMessage, LM!fsmVars, LM!shotVars, LM!HasRoom, LM!Plain
    <3> QED BY <3>1 DEF ControlTypes, LM!Next, LM!EnvironmentStep, LM!ControlTypes
  <2> QED BY <1>3, <2>1, <2>2 DEF Camera1Environment
<1>4. CASE \E p \in sent : PictureDelivered(p)
  BY <1>4, DeliveryRefines DEF LM!Next, LM!EnvironmentStep, Unanswered
<1>5. ASSUME UNCHANGED <<fsmVars, queue, running, timer, alreadySent, uiStatus, club,
                         shotVars, ipcSent, answered>>
      PROVE  UNCHANGED LM!vars
  BY <1>5 DEF fsmVars, shotVars, LM!vars, LM!fsmVars, LM!shotVars
<1>6. CASE \E r \in requests : ArmDelivered(r)
  BY <1>5, <1>6 DEF ArmDelivered
<1>7. CASE SendPulse \/ Camera2Step \/ Camera2Environment \/ UNCHANGED systemVars
  BY <1>5, <1>7 DEF SendPulse, Camera2Step, Camera2Environment, systemVars, vars
<1> QED BY <1>1, <1>2, <1>3, <1>4, <1>6, <1>7 DEF SystemNext

LEMMA SystemInitRefines == SystemInit => OfArmedShots /\ LM!Init
<1> SUFFICES ASSUME SystemInit PROVE OfArmedShots /\ LM!Init
  OBVIOUS
<1>1. shot = 0 /\ answered = {} /\ requests = {} /\ sent = {} /\ serving = 0
      /\ c2pc = "push" /\ c2queue = <<>>
  BY DEF SystemInit, Init, C2!Init
<1>2. c2queue \in Seq(C2Events) /\ DOMAIN c2queue = {}
  BY <1>1
<1>3. OfArmedShots
  BY <1>1, <1>2 DEF OfArmedShots
<1>4. {"Camera2ImageReceived"} \X (1..shot \ answered) = {}
  BY <1>1
<1>5. LM!Init
  BY <1>4 DEF SystemInit, Init, Timers, Clubs, Stabilization, Watchdog,
      LM!Init, LM!Timers, LM!Clubs, LM!Stabilization, LM!Watchdog
<1> QED BY <1>3, <1>5

\* The two processes together, with messages lost or late and camera 2 failing
\* or starting anew at any moment, behave towards the launch monitor's FSM as
\* LaunchMonitorFsm assumes of camera 2: each request of gs_fsm.cpp for a picture is
\* answered at most once.
THEOREM CompositionRefines == SystemSpec => ImplementsLaunchMonitor
<1>1. SystemSpec => []OfArmedShots
  BY SystemInitRefines, SystemStepKeeps, PTL DEF SystemSpec
<1>2. SystemInit => LM!Init
  BY SystemInitRefines
<1> QED BY <1>1, <1>2, SystemStepRefines, PTL DEF SystemSpec, ImplementsLaunchMonitor, LM!Spec

----------------------------------------------------------------------------
(* Camera 1 keeps its invariants in the composition: what the broker does   *)
(* to its requests and its queue is what its own environment may do.        *)

PictureEvent(s) == [type |-> "Camera2ImageReceived", shot |-> s]

\* What the rest of the system does to camera 1.
FromCamera2 ==
    /\ UNCHANGED <<fsmVars, running, timer, alreadySent, uiStatus, club, shotVars, ipcSent>>
    /\ requests' \subseteq requests
    /\ \/ UNCHANGED queue
       \/ HasRoom /\ \E s \in 1..shot : queue' = Append(queue, PictureEvent(s))

LEMMA SystemStepKinds ==
    ASSUME OfArmedShots, [SystemNext]_systemVars
    PROVE  (Next \/ UNCHANGED vars) \/ FromCamera2
<1>1. CASE Camera1Step
  BY <1>1 DEF Camera1Step, Next
<1>2. CASE \E t \in Timers : Camera1Timer(t)
  BY <1>2 DEF Camera1Timer, Next
<1>3. CASE Camera1Environment
  BY <1>3 DEF Camera1Environment, Next, EnvironmentStep
<1>4. CASE SendPulse \/ Camera2Step \/ Camera2Environment \/ UNCHANGED systemVars
  BY <1>4 DEF SendPulse, Camera2Step, Camera2Environment, systemVars
<1>5. ASSUME NEW r \in requests, ArmDelivered(r) PROVE FromCamera2
  BY <1>5 DEF ArmDelivered, FromCamera2
<1>6. ASSUME NEW p \in sent, PictureDelivered(p) PROVE FromCamera2
  <2>1. p.shot \in 1..shot /\ queue' = Append(queue, PictureEvent(p.shot)) /\ HasRoom
    BY <1>6 DEF PictureDelivered, OfArmedShots, PictureEvent
  <2> QED BY <1>6, <2>1 DEF PictureDelivered, FromCamera2
<1> QED BY <1>1, <1>2, <1>3, <1>4, <1>5, <1>6 DEF SystemNext

LEMMA Camera1TypeStep ==
    ASSUME OfArmedShots, TypeOK, [SystemNext]_systemVars
    PROVE  TypeOK'
<1>1. CASE Next \/ UNCHANGED vars
  BY <1>1, TypeStep
<1>2. CASE FromCamera2
  <2>1. \A s \in 1..shot : PictureEvent(s) \in Events
    BY DEF PictureEvent, Events, EventTypes, ImageTypes, TypeOK
  <2>2. queue' \in Seq(Events) /\ Len(queue') <= kMaxQueueSize
    BY <1>2, <2>1 DEF FromCamera2, TypeOK, HasRoom
  <2> QED BY <1>2, <2>2 DEF FromCamera2, TypeOK, fsmVars, shotVars
<1> QED BY <1>1, <1>2, SystemStepKinds

LEMMA Camera1DriverStep ==
    ASSUME OfArmedShots, TypeOK, TypeOK', DriverInv, [SystemNext]_systemVars
    PROVE  DriverInv'
<1>1. CASE Next \/ UNCHANGED vars
  BY <1>1, DriverStep
<1>2. CASE FromCamera2
  <2>1. CASE UNCHANGED queue
    BY <1>2, <2>1 DEF FromCamera2, fsmVars, DriverInv, HandlerInv, TimerInv, OneDriverInv,
        PresentInv, InHandler, TimerPending
  <2>2. ASSUME NEW s \in 1..shot, queue' = Append(queue, PictureEvent(s)) PROVE DriverInv'
    <3>1. PictureEvent(s) \in Events /\ PictureEvent(s).type \notin DriverTypes
      BY DEF PictureEvent, Events, EventTypes, ImageTypes, DriverTypes, TypeOK
    <3>2. /\ SingleDriver(queue) => SingleDriver(queue')
          /\ NoDriver(queue) => NoDriver(queue')
          /\ Has(queue', "Restart") => Has(queue, "Restart")
          /\ \A u : Has(queue, u) => Has(queue', u)
      BY <2>2, <3>1, PushDriver DEF TypeOK, DriverTypes
    <3> QED BY <1>2, <3>2 DEF FromCamera2, fsmVars, DriverInv, HandlerInv, TimerInv,
        OneDriverInv, PresentInv, InHandler, TimerPending
  <2> QED BY <1>2, <2>1, <2>2 DEF FromCamera2
<1> QED BY <1>1, <1>2, SystemStepKinds

\* What the invariants of the composition rest on.
SystemInv == OfArmedShots /\ TypeOK /\ DriverInv

LEMMA SystemInvInit == SystemInit => SystemInv
BY SystemInitRefines, TypeInit, DriverInit DEF SystemInv, SystemInit

LEMMA SystemInvStep == SystemInv /\ [SystemNext]_systemVars => SystemInv'
BY SystemStepKeeps, Camera1TypeStep, Camera1DriverStep DEF SystemInv

LEMMA SystemInvHolds == SystemSpec => []SystemInv
BY SystemInvInit, SystemInvStep, PTL DEF SystemSpec

\* With the real camera 2 behind a broker that loses messages, and in every
\* state of either process, camera 1 is driven on by exactly one thing.
THEOREM ComposedDriver == SystemSpec => [](AtMostOneDriver /\ DriverPresent)
<1>1. SystemInv => AtMostOneDriver /\ DriverPresent
  BY DriverImplies DEF SystemInv
<1> QED BY <1>1, SystemInvHolds, PTL

----------------------------------------------------------------------------
(* The wire: what is left of the pulses of the current shot.               *)

\* What is left of the priming pulses when k initial ones are still to come.
Train(k, s) == [i \in 1..k |-> Pulse("initial", s)] \o <<Pulse("last", s)>>

TrainPulses(s) == {Pulse("initial", s), Pulse("last", s)}

LEMMA TrainShape ==
    ASSUME NEW k \in Nat, NEW s
    PROVE  /\ Train(k, s) \in Seq(TrainPulses(s))
           /\ Len(Train(k, s)) = k + 1
           /\ \A i \in 1..k : Train(k, s)[i] = Pulse("initial", s)
           /\ Train(k, s)[k + 1] = Pulse("last", s)
<1> DEFINE S == TrainPulses(s)
           f == [i \in 1..k |-> Pulse("initial", s)]
           l == <<Pulse("last", s)>>
<1>1. f \in Seq(S) /\ Len(f) = k /\ \A i \in 1..k : f[i] = Pulse("initial", s)
  BY DEF TrainPulses
<1>2. l \in Seq(S) /\ Len(l) = 1 /\ l[1] = Pulse("last", s)
  BY DEF TrainPulses
<1> HIDE DEF S, f, l
<1>3. /\ f \o l \in Seq(S) /\ Len(f \o l) = k + 1
      /\ \A i \in 1..(k + 1) : (f \o l)[i] = IF i <= k THEN f[i] ELSE l[i - k]
  <2>1. /\ f \o l \in Seq(S) /\ Len(f \o l) = Len(f) + Len(l)
        /\ \A i \in 1..Len(f) + Len(l) : (f \o l)[i] = IF i <= Len(f) THEN f[i] ELSE l[i - Len(f)]
    BY <1>1, <1>2, ConcatProperties
  <2> QED BY <1>1, <1>2, <2>1
<1>4. /\ \A i \in 1..k : (f \o l)[i] = Pulse("initial", s)
      /\ (f \o l)[k + 1] = Pulse("last", s)
  BY <1>1, <1>2, <1>3
<1> QED BY <1>3, <1>4 DEF Train, S, f, l

LEMMA TrainFacts ==
    ASSUME NEW k \in Nat, NEW s
    PROVE  /\ Train(k, s) # <<>>
           /\ k # 0 => Head(Train(k, s)) = Pulse("initial", s) /\ Tail(Train(k, s)) = Train(k - 1, s)
           /\ k = 0 => Head(Train(k, s)) = Pulse("last", s) /\ Tail(Train(k, s)) = <<>>
<1> DEFINE S == TrainPulses(s)
           t == Train(k, s)
           b == Train(k - 1, s)
<1>1. /\ t \in Seq(S) /\ Len(t) = k + 1
      /\ \A i \in 1..k : t[i] = Pulse("initial", s)
      /\ t[k + 1] = Pulse("last", s)
  BY TrainShape
<1>2. k # 0 => /\ b \in Seq(S) /\ Len(b) = k
               /\ \A i \in 1..(k - 1) : b[i] = Pulse("initial", s)
               /\ b[k] = Pulse("last", s)
  <2>1. k # 0 => k - 1 \in Nat /\ (k - 1) + 1 = k
    OBVIOUS
  <2> QED BY <2>1, TrainShape
<1> HIDE DEF S, t, b
<1>3. t # <<>> /\ Head(t) = t[1]
  BY <1>1
<1>4. Tail(t) \in Seq(S) /\ Len(Tail(t)) = k /\ \A i \in 1..k : Tail(t)[i] = t[i + 1]
  BY <1>1, <1>3, HeadTailProperties
<1>5. ASSUME k # 0 PROVE Head(t) = Pulse("initial", s) /\ Tail(t) = b
  <2>1. \A i \in 1..k : Tail(t)[i] = b[i]
    BY <1>1, <1>2, <1>4, <1>5
  <2>2. Tail(t) = b
    BY <1>2, <1>4, <1>5, <2>1, SeqEqual
  <2> QED BY <1>1, <1>3, <1>5, <2>2
<1>6. ASSUME k = 0 PROVE Head(t) = Pulse("last", s) /\ Tail(t) = <<>>
  <2>1. Tail(t) = <<>>
    BY <1>4, <1>6, EmptySeq
  <2> QED BY <1>1, <1>3, <1>6, <2>1
<1> QED BY <1>3, <1>5, <1>6 DEF t, b

LEMMA Singles ==
    ASSUME NEW x, NEW y
    PROVE  /\ <<x>> \o <<y>> # <<>> /\ Head(<<x>> \o <<y>>) = x /\ Tail(<<x>> \o <<y>>) = <<y>>
           /\ <<x>> \o <<>> # <<>> /\ Head(<<x>> \o <<>>) = x /\ Tail(<<x>> \o <<>>) = <<>>
<1> DEFINE S == {x, y}
           a == <<x>>
           b == <<y>>
<1>1. /\ a \in Seq(S) /\ Len(a) = 1 /\ a[1] = x
      /\ b \in Seq(S) /\ Len(b) = 1 /\ b[1] = y
  OBVIOUS
<1> HIDE DEF S, a, b
<1>2. a \o <<>> = a
  BY <1>1, ConcatEmptySeq
<1>3. /\ a \o b \in Seq(S) /\ Len(a \o b) = Len(a) + Len(b)
      /\ \A i \in 1..(Len(a) + Len(b)) : (a \o b)[i] = IF i <= Len(a) THEN a[i] ELSE b[i - Len(a)]
  BY <1>1, ConcatProperties
<1>4. Len(a \o b) = 2 /\ (a \o b)[1] = x /\ (a \o b)[2] = y
  BY <1>1, <1>3
<1>5. a \o b # <<>> /\ Head(a \o b) = x /\ Head(a) = x /\ a # <<>>
  BY <1>1, <1>3, <1>4
<1>6. Tail(a \o b) \in Seq(S) /\ Len(Tail(a \o b)) = 1 /\ Tail(a \o b)[1] = y
  BY <1>3, <1>4, <1>5, HeadTailProperties
<1>7. Tail(a \o b) = b
  BY <1>1, <1>6, SeqEqual
<1>8. Tail(a) \in Seq(S) /\ Len(Tail(a)) = 0
  BY <1>1, <1>5, HeadTailProperties
<1>9. Tail(a) = <<>>
  BY <1>8, EmptySeq
<1> QED BY <1>2, <1>5, <1>7, <1>9 DEF a, b

\* The camera that needs a flush gets one after the strobes.
LEMMA HitPulsesFacts ==
    ASSUME NEW s
    PROVE  /\ HitPulses(s) # <<>> /\ Head(HitPulses(s)) = Pulse("strobe", s)
           /\ Tail(HitPulses(s)) = IF kCameraRequiresFlushPulse THEN <<Pulse("flush", s)>> ELSE <<>>
BY Singles DEF HitPulses

LEMMA PrimingPulsesFacts ==
    ASSUME NEW s, ~kUsePreImageSubtraction
    PROVE  PrimingPulses(s) = Train(InitialPulses, s)
<1> DEFINE S == {Pulse("initial", s), Pulse("last", s)}
           t == Train(InitialPulses, s)
<1>1. t \in Seq(S)
  <2>1. [i \in 1..InitialPulses |-> Pulse("initial", s)] \in Seq(S)
    OBVIOUS
  <2>2. <<Pulse("last", s)>> \in Seq(S)
    OBVIOUS
  <2> HIDE DEF S
  <2> QED BY <2>1, <2>2 DEF Train
<1> HIDE DEF S, t
<1>2. t \o <<>> = t
  BY <1>1
<1> QED BY <1>2 DEF PrimingPulses, Train, t

----------------------------------------------------------------------------
(* Camera 2's queue: which of its events are in which set, and in what      *)
(* order, when one is taken or added.                                      *)

None(q, S) == \A i \in DOMAIN q : q[i] \notin S
AtMostOne(q, S) == \A i, j \in DOMAIN q : q[i] \in S /\ q[j] \in S => i = j
Before(q, S, T) == \A i, j \in DOMAIN q : q[i] \in S /\ q[j] \in T => i < j

LEMMA PopSets ==
    ASSUME NEW q \in Seq(C2Events), q # <<>>, NEW S, NEW T
    PROVE  /\ None(q, S) => None(Tail(q), S) /\ Head(q) \notin S
           /\ AtMostOne(q, S) => AtMostOne(Tail(q), S)
           /\ AtMostOne(q, S) /\ Head(q) \in S => None(Tail(q), S)
           /\ Before(q, S, T) => Before(Tail(q), S, T)
           /\ Before(q, S, T) /\ Head(q) \in T => None(q, S)
<1>1. /\ Head(q) = q[1] /\ 1 \in DOMAIN q
      /\ \A i \in DOMAIN q : i \in Nat /\ ~(i < 1)
      /\ \A i \in DOMAIN Tail(q) : /\ i \in Nat /\ i >= 1
                                   /\ i + 1 \in DOMAIN q /\ Tail(q)[i] = q[i + 1]
  OBVIOUS
<1>2. None(q, S) => None(Tail(q), S) /\ Head(q) \notin S
  BY <1>1 DEF None
<1>3. AtMostOne(q, S) => AtMostOne(Tail(q), S)
  BY <1>1 DEF AtMostOne
<1>4. AtMostOne(q, S) /\ Head(q) \in S => None(Tail(q), S)
  BY <1>1 DEF AtMostOne, None
<1>5. Before(q, S, T) => Before(Tail(q), S, T)
  BY <1>1 DEF Before
<1>6. Before(q, S, T) /\ Head(q) \in T => None(q, S)
  BY <1>1 DEF Before, None
<1> QED BY <1>2, <1>3, <1>4, <1>5, <1>6

LEMMA PushSets ==
    ASSUME NEW q \in Seq(C2Events), NEW e \in C2Events, NEW S, NEW T
    PROVE  /\ e \notin S /\ None(q, S) => None(Append(q, e), S)
           /\ e \notin S /\ AtMostOne(q, S) => AtMostOne(Append(q, e), S)
           /\ None(q, S) => AtMostOne(Append(q, e), S)
           /\ e \notin S /\ Before(q, S, T) => Before(Append(q, e), S, T)
           /\ e \notin S /\ None(q, T) => Before(Append(q, e), S, T)
<1> DEFINE a == Append(q, e)
<1>1. /\ Len(q) \in Nat /\ DOMAIN q = 1..Len(q) /\ DOMAIN a = 1..(Len(q) + 1)
      /\ a[Len(q) + 1] = e /\ \A i \in DOMAIN q : a[i] = q[i]
  OBVIOUS
<1> HIDE DEF a
<1>2. \A i \in DOMAIN a : \/ i \in DOMAIN q /\ a[i] = q[i] /\ i < Len(q) + 1
                          \/ i = Len(q) + 1 /\ a[i] = e
  BY <1>1
<1>3. e \notin S /\ None(q, S) => None(a, S)
  BY <1>2 DEF None
<1>4. e \notin S /\ AtMostOne(q, S) => AtMostOne(a, S)
  BY <1>2 DEF AtMostOne
<1>5. None(q, S) => AtMostOne(a, S)
  BY <1>2 DEF None, AtMostOne
<1>6. e \notin S /\ Before(q, S, T) => Before(a, S, T)
  BY <1>1, <1>2 DEF Before
<1>7. e \notin S /\ None(q, T) => Before(a, S, T)
  BY <1>1, <1>2 DEF None, Before
<1> QED BY <1>3, <1>4, <1>5, <1>6, <1>7 DEF a

----------------------------------------------------------------------------
(* A picture shows the strobes of its own shot: camera 2 is armed before    *)
(* the first pulse of a shot or not at all, and from then on it counts.     *)

\* A shot that was given up before its ball was hit, so that no result will
\* ever show its picture.
Unhit(s) == s < shot /\ s \notin hits

ShowsHit(s, i) == i \in {C2!NoTrigger, Pulse("strobe", s)} \/ Unhit(s)

FullTrain == Train(InitialPulses, shot)

WireInv ==
    \/ wire = <<>>
    \/ shot \notin hits /\ \E k \in 0..InitialPulses : wire = Train(k, shot)
    \/ wire = HitPulses(shot)
    \/ wire = <<Pulse("flush", shot)>>

\* Where camera 2's loop is and what is still to come on the wire agree.
InStep ==
    \/ /\ flight = "kWaitingForFirstPrimingPulseGroup"
       /\ wire = FullTrain /\ shot \notin hits
    \/ /\ flight = "kWaitingForFirstPrimingTimeEnd"
       /\ firstTrigger = Pulse("initial", shot)
       /\ shot \notin hits /\ \E k \in 0..(InitialPulses - 1) : wire = Train(k, shot)
    \/ /\ flight = C2!AfterPriming
       /\ \/ shot \notin hits /\ wire = <<>>
          \/ shot \in hits /\ wire = HitPulses(shot)
    \/ /\ kCameraRequiresFlushPulse
       /\ flight = "kWaitingForFinalImageFlush"
       /\ lastTrigger = Pulse("strobe", shot)
       /\ shot \in hits /\ wire = <<Pulse("flush", shot)>>

MatchInv ==
    /\ hits \subseteq 0..shot
    /\ WireInv
    /\ c2pc = "opening" => serving = shot /\ wire = FullTrain
    /\ c2pc = "exposing" => Unhit(serving) \/ (serving = shot /\ InStep)
    /\ c2pc # "sending" => image = C2!NoTrigger
    /\ c2pc = "sending" => ShowsHit(serving, image)
    /\ \A p \in sent : ShowsHit(p.shot, p.image)

\* An arm message that camera 2 would take up after the first pulse of its
\* shot, and the Restarts that would make it ready to.
LateArms == {e \in C2Events : /\ e.type = "ArmCamera2MessageReceived"
                              /\ ~(e.shot = shot /\ wire = FullTrain)}
RestartEvents == {e \in C2Events : e.type = "Restart"}

\* A camera 2 that awaits an arm message has no late one in its queue, and one
\* that starts over meets the late ones before it is ready for them.
ArmInv ==
    /\ c2pc \in {"opening", "exposing", "sending"} => c2state = "WaitingForCameraArmMessage"
    /\ AtMostOne(c2queue, RestartEvents)
    /\ c2pc = "push" \/ c2state = "WaitingForCameraArmMessage" => None(c2queue, RestartEvents)
    /\ c2pc \in {"loop", "dequeue", "opening"} /\ c2state = "WaitingForCameraArmMessage" =>
          None(c2queue, LateArms)
    /\ c2pc \in {"loop", "dequeue"} /\ c2state = "InitializingCamera2System" =>
          Before(c2queue, LateArms, RestartEvents)

LEMMA MatchFrame ==
    ASSUME MatchInv, ArmInv, UNCHANGED <<shot, hits, wire, c2vars>>
    PROVE  MatchInv' /\ ArmInv'
BY DEF MatchInv, ArmInv, WireInv, InStep, Unhit, ShowsHit, FullTrain, LateArms, c2vars,
    C2!AfterPriming

\* The first pulse on the wire tells what is on it.
LEMMA WireHead ==
    ASSUME OfArmedShots, WireInv, wire # <<>>
    PROVE  /\ Head(wire).shot = shot
           /\ Head(wire).kind \in {"initial", "last"} => shot \notin hits
<1>1. CASE shot \notin hits /\ \E k \in 0..InitialPulses : wire = Train(k, shot)
  <2>1. PICK k \in 0..InitialPulses : wire = Train(k, shot)
    BY <1>1
  <2>2. Head(wire) \in {Pulse("initial", shot), Pulse("last", shot)}
    BY <2>1, TrainFacts
  <2> QED BY <1>1, <2>2 DEF Pulse
<1>2. CASE wire = HitPulses(shot)
  BY <1>2, HitPulsesFacts DEF Pulse
<1>3. CASE wire = <<Pulse("flush", shot)>>
  BY <1>3 DEF Pulse
<1> QED BY <1>1, <1>2, <1>3 DEF WireInv

LEMMA FullTrainHead ==
    ASSUME OfArmedShots, WireInv, NEW s, wire = Train(InitialPulses, s)
    PROVE  s = shot /\ shot \notin hits /\ wire # <<>>
<1>1. wire # <<>> /\ Head(wire) = Pulse("initial", s)
  BY TrainFacts
<1> QED BY <1>1, WireHead DEF Pulse

LEMMA NotFullTrain ==
    ASSUME NEW s
    PROVE  /\ <<>> # Train(InitialPulses, s)
           /\ HitPulses(s) # Train(InitialPulses, s)
BY TrainFacts, HitPulsesFacts DEF Pulse

\* What is left of the wire once its first pulse has gone out.
LEMMA WireTail ==
    ASSUME OfArmedShots, WireInv, wire # <<>>, wire' = Tail(wire), UNCHANGED <<shot, hits>>
    PROVE  WireInv'
<1>1. CASE shot \notin hits /\ \E k \in 0..InitialPulses : wire = Train(k, shot)
  <2>1. PICK k \in 0..InitialPulses : wire = Train(k, shot)
    BY <1>1
  <2>2. CASE k = 0
    BY <2>1, <2>2, TrainFacts DEF WireInv
  <2>3. CASE k # 0
    <3>1. wire' = Train(k - 1, shot') /\ k - 1 \in 0..InitialPulses /\ shot' \notin hits'
      BY <1>1, <2>1, <2>3, TrainFacts
    <3> QED BY <3>1 DEF WireInv
  <2> QED BY <2>2, <2>3
<1>2. CASE wire = HitPulses(shot)
  BY <1>2, HitPulsesFacts DEF WireInv
<1>3. CASE wire = <<Pulse("flush", shot)>>
  <2>1. wire' = <<>>
    BY <1>3
  <2> QED BY <2>1 DEF WireInv
<1> QED BY <1>1, <1>2, <1>3 DEF WireInv

\* Camera 1's FSM thread, which has sent the last trigger before it does
\* anything else, gives up a shot, counts a new one, or sees a hit.
LEMMA Camera1Matches ==
    ASSUME OfArmedShots, MatchInv, ArmInv, ~kUsePreImageSubtraction, Camera1Step
    PROVE  MatchInv' /\ ArmInv'
<1>1. wire = <<>> /\ UNCHANGED c2vars
  BY DEF Camera1Step
<1>2. \/ UNCHANGED <<shot, hits>>
      \/ shot' = shot + 1 /\ UNCHANGED hits
      \/ hits' = hits \cup {shot} /\ UNCHANGED shot
  BY DEF Camera1Step, FsmStep, WatchStep, shotVars, CheckRunning, DequeueTimesOut, Push,
      ExitReceived, ControlMessageReceived, Shutdown, InitializingRestart,
      PollSimulatorArmed, BallNotFound, BallFound, IgnoreLateReminder,
      CheckForBallStable, BallMoved, BallStabilized, PreImageReceived, BeginWatching,
      WatchAborted, ProcessImage, ProcessImageFails, ImageTimedOut,
      UnsupportedTransition, HandlerThrows, HitDetected, WatchFails, WatchThrows
<1>3. CASE UNCHANGED <<shot, hits>>
  <2>1. wire' = <<>>
    BY <1>3 DEF Camera1Step
  <2> QED BY <1>1, <1>3, <2>1, MatchFrame
<1>4. wire # FullTrain
  BY <1>1, NotFullTrain DEF FullTrain
<1>5. /\ c2pc = "exposing" =>
            Unhit(serving) \/ (serving = shot /\ flight = C2!AfterPriming /\ shot \notin hits)
      /\ c2pc # "opening" /\ shot \in Nat
  <2>1. wire # HitPulses(shot) /\ wire # <<Pulse("flush", shot)>>
    BY <1>1, HitPulsesFacts
  <2>2. \A k \in 0..(InitialPulses - 1) : wire # Train(k, shot)
    BY <1>1, TrainFacts
  <2> QED BY <1>4, <2>1, <2>2 DEF MatchInv, InStep, OfArmedShots
<1>6. \A p \in sent : p.shot \in Nat
  BY DEF OfArmedShots
<1>7. CASE shot' = shot + 1 /\ UNCHANGED hits
  <2>1. shot \in Nat /\ shot' # shot /\ shot' \notin hits /\ hits' = hits
    BY <1>7, <1>5 DEF MatchInv
  <2>2. wire' = Train(InitialPulses, shot') /\ WireInv'
    BY <1>7, <2>1, PrimingPulsesFacts DEF Camera1Step, WireInv
  <2>3. \A s \in Int : Unhit(s) => Unhit(s)'
    BY <1>7, <2>1 DEF Unhit
  <2>4. c2pc = "exposing" => Unhit(serving)'
    <3>1. serving' = serving /\ serving \in Int
      BY <1>1 DEF c2vars, OfArmedShots
    <3>2. serving = shot /\ shot \notin hits => Unhit(serving)'
      BY <1>7, <2>1, <3>1 DEF Unhit
    <3> QED BY <1>5, <2>3, <3>1, <3>2 DEF Unhit
  <2>5. \A p \in sent : ShowsHit(p.shot, p.image)'
    <3> TAKE p \in sent
    <3>1. ShowsHit(p.shot, p.image) /\ p.shot \in Int
      BY <1>6 DEF MatchInv
    <3> QED BY <2>3, <3>1 DEF ShowsHit
  <2>6. c2pc = "sending" => ShowsHit(serving, image)'
    BY <1>1, <2>3 DEF MatchInv, ShowsHit, OfArmedShots, c2vars
  <2>7. MatchInv'
    <3>1. hits' \subseteq 0..shot'
      BY <1>7, <1>5 DEF MatchInv
    <3>2. /\ c2pc' # "opening"
          /\ c2pc' = "exposing" => Unhit(serving)'
          /\ c2pc' # "sending" => image' = C2!NoTrigger
          /\ c2pc' = "sending" => ShowsHit(serving, image)'
          /\ \A p \in sent' : ShowsHit(p.shot, p.image)'
      BY <1>1, <1>5, <2>4, <2>5, <2>6 DEF c2vars, MatchInv
    <3> QED BY <2>2, <3>1, <3>2 DEF MatchInv
  <2>8. LateArms' \subseteq LateArms
    BY <1>4 DEF LateArms
  <2> QED BY <1>1, <2>7, <2>8 DEF ArmInv, c2vars, None, Before
<1>8. CASE hits' = hits \cup {shot} /\ UNCHANGED shot /\ ~UNCHANGED <<shot, hits>>
  <2>1. shot \notin hits /\ shot \in hits' /\ wire' = HitPulses(shot) /\ shot' = shot
    BY <1>8 DEF Camera1Step
  <2>2. wire' # FullTrain'
    BY <2>1, NotFullTrain DEF FullTrain
  <2>3. LateArms' = LateArms
    BY <1>4, <2>1, <2>2 DEF LateArms
  <2>4. \A s : Unhit(s) => Unhit(s)'
    BY <1>8, <1>5 DEF Unhit
  <2>5. \A p \in sent : ShowsHit(p.shot, p.image)'
    BY <2>4 DEF MatchInv, ShowsHit
  <2>6. c2pc = "sending" => ShowsHit(serving, image)'
    BY <1>1, <2>4 DEF MatchInv, ShowsHit, c2vars
  <2>7. c2pc = "exposing" => Unhit(serving)' \/ (serving = shot /\ InStep')
    BY <1>1, <1>5, <2>1, <2>4 DEF InStep, C2!AfterPriming, c2vars
  <2>8. MatchInv'
    <3>1. hits' \subseteq 0..shot' /\ WireInv'
      BY <1>8, <1>5, <2>1 DEF MatchInv, WireInv
    <3>2. /\ c2pc' # "opening"
          /\ c2pc' = "exposing" => Unhit(serving)' \/ (serving' = shot' /\ InStep')
          /\ c2pc' # "sending" => image' = C2!NoTrigger
          /\ c2pc' = "sending" => ShowsHit(serving, image)'
          /\ \A p \in sent' : ShowsHit(p.shot, p.image)'
      BY <1>1, <1>5, <2>1, <2>5, <2>6, <2>7 DEF c2vars, MatchInv
    <3> QED BY <3>1, <3>2 DEF MatchInv
  <2> QED BY <1>1, <2>3, <2>8 DEF ArmInv, c2vars
<1> QED BY <1>2, <1>3, <1>7, <1>8

\* Camera 2 is still on its way to the shot only if it has missed it for good.
LEMMA SettledFacts ==
    ASSUME Camera2Settled
    PROVE  /\ c2pc \notin {"opening", "sending"}
           /\ c2pc \in {"loop", "dequeue"} => c2queue = <<>>
BY DEF Camera2Settled

\* A trigger that camera 2 does not hear.
LEMMA LostPulseMatches ==
    ASSUME OfArmedShots, MatchInv, ArmInv, ~kUsePreImageSubtraction, PauseSuffices,
           SendPulse, c2pc # "exposing"
    PROVE  MatchInv' /\ ArmInv'
<1>1. UNCHANGED <<shot, hits, c2vars>> /\ wire # <<>> /\ wire' = Tail(wire)
  BY DEF SendPulse, C2!Trigger, C2!vars, C2!fsmVars, C2!cameraVars, c2vars, vars, shotVars
<1>2. wire = FullTrain => Camera2Settled
  BY PrimingPulsesFacts DEF SendPulse, FullTrain
<1>3. c2pc # "opening"
  BY <1>2, SettledFacts DEF MatchInv
<1>4. WireInv'
  BY <1>1, WireTail DEF MatchInv
<1>5. MatchInv'
  BY <1>1, <1>3, <1>4 DEF MatchInv, c2vars, Unhit, ShowsHit
<1>6. CASE wire = FullTrain
  <2>1. c2pc \in {"loop", "dequeue"} => c2queue = <<>>
    BY <1>2, <1>6, SettledFacts
  <2>2. c2pc \in {"loop", "dequeue"} =>
            None(c2queue, LateArms') /\ Before(c2queue, LateArms', RestartEvents)
    BY <2>1 DEF None, Before
  <2> QED BY <1>1, <1>3, <1>5, <2>2 DEF ArmInv, c2vars
<1>7. CASE wire # FullTrain
  <2>1. LateArms' \subseteq LateArms
    BY <1>7 DEF LateArms
  <2> QED BY <1>1, <1>5, <2>1 DEF ArmInv, c2vars, None, Before
<1> QED BY <1>6, <1>7

\* A trigger that camera 2 counts: for a shot given up it may be anything, for
\* the current one the loop stays in step with what is still to come.
LEMMA CountedPulseMatches ==
    ASSUME OfArmedShots, MatchInv, ArmInv, ~kUsePreImageSubtraction, PauseSuffices,
           SendPulse, c2pc = "exposing"
    PROVE  MatchInv' /\ ArmInv'
<1> DEFINE p == Head(wire)
<1>1. /\ UNCHANGED <<shot, hits, c2state, c2queue, serving, sent>>
      /\ wire # <<>> /\ wire' = Tail(wire)
      /\ lastTrigger' = IF kCameraRequiresFlushPulse THEN p ELSE C2!NoTrigger
      /\ c2pc' \in {"exposing", "sending"}
  BY DEF SendPulse, C2!Trigger, C2!WaitForFrame, vars, shotVars
<1>2. \/ /\ flight = "kWaitingForFinalImageFlush"
         /\ c2pc' = "sending"
         /\ image' = C2!Frame(p)
      \/ /\ flight # "kWaitingForFinalImageFlush"
         /\ UNCHANGED image
         /\ \E quiet \in C2!Quiet(p) : flight' = C2!NextFlight(quiet)
         /\ firstTrigger' = IF flight = "kWaitingForFirstPrimingPulseGroup" THEN p
                            ELSE firstTrigger
  BY DEF SendPulse, C2!Trigger
<1>3. ArmInv'
  BY <1>1 DEF ArmInv
<1>4. WireInv'
  BY <1>1, WireTail DEF MatchInv
<1>5. hits' \subseteq 0..shot' /\ \A q \in sent' : ShowsHit(q.shot, q.image)'
  BY <1>1 DEF MatchInv, ShowsHit, Unhit
<1>6. image = C2!NoTrigger /\ InitialPulses \in Nat \ {0}
  BY DEF MatchInv
<1>7. ASSUME c2pc' = "exposing" => Unhit(serving)' \/ (serving' = shot' /\ InStep'),
             c2pc' = "exposing" => image' = C2!NoTrigger,
             c2pc' = "sending" => ShowsHit(serving, image)'
      PROVE  MatchInv' /\ ArmInv'
  BY <1>1, <1>3, <1>4, <1>5, <1>7 DEF MatchInv
<1>8. CASE Unhit(serving)
  <2>1. Unhit(serving)' /\ (c2pc' = "exposing" => image' = C2!NoTrigger)
    BY <1>1, <1>2, <1>6, <1>8 DEF Unhit
  <2> QED BY <1>7, <2>1 DEF ShowsHit
<1>9. ASSUME image' = C2!NoTrigger, c2pc' = "exposing" => serving' = shot' /\ InStep'
      PROVE  MatchInv' /\ ArmInv'
  BY <1>1, <1>7, <1>9 DEF ShowsHit
<1>10. CASE /\ flight = "kWaitingForFirstPrimingPulseGroup" /\ serving = shot
            /\ wire = FullTrain /\ shot \notin hits
  <2>1. p = Pulse("initial", shot) /\ wire' = Train(InitialPulses - 1, shot)
    BY <1>1, <1>6, <1>10, TrainFacts DEF FullTrain
  <2>2. /\ flight' = "kWaitingForFirstPrimingTimeEnd"
        /\ firstTrigger' = Pulse("initial", shot) /\ image' = C2!NoTrigger
    BY <1>2, <1>6, <1>10, <2>1 DEF C2!NextFlight
  <2>3. InitialPulses - 1 \in 0..(InitialPulses - 1)
    BY <1>6
  <2>4. InStep'
    BY <1>1, <1>10, <2>1, <2>2, <2>3 DEF InStep
  <2> QED BY <1>1, <1>9, <1>10, <2>2, <2>4
<1>11. CASE /\ flight = "kWaitingForFirstPrimingTimeEnd" /\ serving = shot
            /\ firstTrigger = Pulse("initial", shot)
            /\ shot \notin hits /\ \E k \in 0..(InitialPulses - 1) : wire = Train(k, shot)
  <2>1. PICK k \in 0..(InitialPulses - 1) : wire = Train(k, shot)
    BY <1>11
  <2>2. image' = C2!NoTrigger /\ firstTrigger' = firstTrigger
    BY <1>2, <1>6, <1>11
  <2>3. CASE k # 0
    <3>1. p = Pulse("initial", shot) /\ wire' = Train(k - 1, shot)
      <4>1. k \in Nat
        OBVIOUS
      <4> QED BY <1>1, <2>1, <2>3, <4>1, TrainFacts
    <3>2. C2!Quiet(p) = {FALSE}
      BY <1>11, <3>1 DEF C2!Quiet, Pulse
    <3>3. flight' = flight
      BY <1>2, <1>11, <3>2 DEF C2!NextFlight
    <3>4. k - 1 \in 0..(InitialPulses - 1)
      BY <2>3
    <3>5. InStep'
      BY <1>1, <1>11, <2>2, <3>1, <3>3, <3>4 DEF InStep
    <3> QED BY <1>1, <1>9, <1>11, <2>2, <3>5
  <2>4. CASE k = 0
    <3>1. p = Pulse("last", shot) /\ wire' = <<>>
      BY <1>1, <2>1, <2>4, TrainFacts
    <3>2. \A quiet \in C2!Quiet(p) : quiet
      <4>1. /\ p.kind = "last" /\ p.shot = shot
            /\ firstTrigger.kind = "initial" /\ firstTrigger.shot = shot
        BY <1>11, <3>1 DEF Pulse
      <4>2. C2!Quiet(p) = {p.kind # "initial"}
        BY <4>1 DEF C2!Quiet
      <4> QED BY <4>1, <4>2
    <3>3. flight' = C2!AfterPriming
      BY <1>2, <1>11, <3>2 DEF C2!NextFlight
    <3>4. InStep'
      BY <1>1, <1>11, <3>1, <3>3 DEF InStep, C2!AfterPriming
    <3> QED BY <1>1, <1>9, <1>11, <2>2, <3>4
  <2> QED BY <2>3, <2>4
<1>12. CASE /\ flight = C2!AfterPriming /\ serving = shot
            /\ shot \in hits /\ wire = HitPulses(shot)
  <2>1. /\ p = Pulse("strobe", shot)
        /\ wire' = IF kCameraRequiresFlushPulse THEN <<Pulse("flush", shot)>> ELSE <<>>
    BY <1>1, <1>12, HitPulsesFacts
  <2>2. CASE kCameraRequiresFlushPulse
    <3>1. flight = "kWaitingForFinalImageTrigger"
      BY <1>12, <2>2 DEF C2!AfterPriming
    <3>2. flight' = "kWaitingForFinalImageFlush" /\ image' = C2!NoTrigger
      BY <1>2, <1>6, <3>1 DEF C2!NextFlight
    <3>3. InStep'
      BY <1>1, <1>12, <2>1, <2>2, <3>2 DEF InStep
    <3> QED BY <1>1, <1>9, <1>12, <3>2, <3>3
  <2>3. CASE ~kCameraRequiresFlushPulse
    <3>1. flight = "kWaitingForFinalImageFlush"
      BY <1>12, <2>3 DEF C2!AfterPriming
    <3>2. c2pc' = "sending" /\ image' = Pulse("strobe", shot)
      BY <1>2, <2>1, <2>3, <3>1 DEF C2!Frame
    <3> QED BY <1>1, <1>7, <1>12, <3>2 DEF ShowsHit
  <2> QED BY <2>2, <2>3
<1>13. CASE /\ kCameraRequiresFlushPulse /\ serving = shot
            /\ flight = "kWaitingForFinalImageFlush"
            /\ lastTrigger = Pulse("strobe", shot)
  <2>1. c2pc' = "sending" /\ image' = Pulse("strobe", shot)
    BY <1>2, <1>13 DEF C2!Frame
  <2> QED BY <1>1, <1>7, <1>13, <2>1 DEF ShowsHit
<1> QED BY <1>1, <1>8, <1>10, <1>11, <1>12, <1>13 DEF MatchInv, InStep

LEMMA ArmMatches ==
    ASSUME OfArmedShots, MatchInv, ArmInv, ~kUsePreImageSubtraction, PauseSuffices,
           NEW r \in requests, ArmDelivered(r)
    PROVE  MatchInv' /\ ArmInv'
<1> DEFINE e == C2!Arm(r[2])
<1>1. /\ UNCHANGED <<shot, hits, wire, c2state, c2pc, c2running, serving, flight,
                     firstTrigger, lastTrigger, image, sent>>
      /\ c2queue' = Append(c2queue, e)
      /\ wire = Train(InitialPulses, r[2])
  BY PrimingPulsesFacts DEF ArmDelivered, C2!ArmMessage, C2!Enqueue, C2!cameraVars, shotVars
<1>2. r[2] = shot /\ wire = FullTrain
  BY <1>1, FullTrainHead DEF MatchInv, FullTrain
<1>3. e \in C2Events /\ e \notin LateArms /\ e \notin RestartEvents
  BY <1>2, C2EventTypes DEF LateArms, RestartEvents, C2!Arm, OfArmedShots
<1>4. MatchInv'
  BY <1>1 DEF MatchInv, WireInv, InStep, Unhit, ShowsHit, FullTrain, C2!AfterPriming
<1>5. LateArms' = LateArms
  BY <1>1 DEF LateArms, FullTrain
<1>6. ArmInv'
  BY <1>1, <1>3, <1>5, PushSets DEF ArmInv, OfArmedShots
<1> QED BY <1>4, <1>6

\* Camera 2 takes up an arm message only in time, and a picture leaves it only
\* for the shot whose triggers it has counted.
LEMMA Camera2Matches ==
    ASSUME OfArmedShots, MatchInv, ArmInv, ~kUsePreImageSubtraction, Camera2Step
    PROVE  MatchInv' /\ ArmInv'
<1>1. UNCHANGED <<shot, hits, wire>> /\ C2!FsmStep
  BY DEF Camera2Step, vars, shotVars
<1>2. /\ WireInv' /\ hits' \subseteq 0..shot' /\ LateArms' = LateArms
      /\ \A s, i : ShowsHit(s, i) => ShowsHit(s, i)'
      /\ \A s : s = shot => s = shot'
      /\ FullTrain' = FullTrain
  BY <1>1 DEF MatchInv, WireInv, ShowsHit, Unhit, LateArms, FullTrain
<1>3. ASSUME NEW e, C2!Take(e)
      PROVE  /\ c2pc = "dequeue" /\ c2queue # <<>> /\ c2queue' = Tail(c2queue)
             /\ Head(c2queue) = e /\ e \in C2Events
  <2>1. c2pc = "dequeue" /\ c2queue # <<>> /\ Head(c2queue) = e /\ c2queue' = Tail(c2queue)
    BY <1>3 DEF C2!Take
  <2> QED BY <2>1 DEF OfArmedShots
<1>4. c2queue # <<>> =>
        \A S, T : /\ None(c2queue, S) => None(Tail(c2queue), S) /\ Head(c2queue) \notin S
                  /\ AtMostOne(c2queue, S) => AtMostOne(Tail(c2queue), S)
                  /\ AtMostOne(c2queue, S) /\ Head(c2queue) \in S => None(Tail(c2queue), S)
                  /\ Before(c2queue, S, T) => Before(Tail(c2queue), S, T)
                  /\ Before(c2queue, S, T) /\ Head(c2queue) \in T => None(c2queue, S)
  BY PopSets DEF OfArmedShots
<1>5. c2pc # "sending" => image = C2!NoTrigger
  BY DEF MatchInv
<1>6. ASSUME c2pc' \notin {"opening", "exposing", "sending"},
             image' = C2!NoTrigger, UNCHANGED sent
      PROVE  MatchInv'
  BY <1>2, <1>6 DEF MatchInv
<1>7. CASE C2!CheckRunning
  <2>1. c2pc' \in {"stopped", "camera1", "dequeue"} /\ UNCHANGED <<image, sent, c2queue, c2state>> /\ c2pc = "loop"
        /\ (c2pc' = "camera1" => c2state = "WaitingForBall")
    BY <1>7 DEF C2!CheckRunning, C2!cameraVars
  <2> QED BY <1>2, <1>5, <1>6, <2>1 DEF ArmInv
<1>8. CASE C2!DequeueTimesOut
  <2>1. c2pc = "dequeue" /\ c2pc' = "loop" /\ UNCHANGED <<image, sent, c2queue, c2state>>
    BY <1>8 DEF C2!DequeueTimesOut, C2!cameraVars
  <2> QED BY <1>2, <1>5, <1>6, <2>1 DEF ArmInv
<1>9. CASE C2!Push
  <2>1. /\ c2pc = "push" /\ c2pc' = "loop" /\ UNCHANGED <<image, sent>>
        /\ c2state' = "InitializingCamera2System"
        /\ c2queue' = Append(c2queue, C2!Restart)
    BY <1>9 DEF C2!Push, C2!Enqueue, C2!cameraVars
  <2>2. C2!Restart \in C2Events /\ C2!Restart \notin LateArms
    BY C2EventTypes DEF LateArms, C2!Restart
  <2>3. AtMostOne(c2queue', RestartEvents) /\ Before(c2queue', LateArms, RestartEvents)
    BY <2>1, <2>2, PushSets DEF ArmInv, OfArmedShots
  <2> QED BY <1>2, <1>5, <1>6, <2>1, <2>3 DEF ArmInv
<1>10. CASE C2!ExitReceived
  <2>1. /\ C2!Take(C2!Exit) /\ c2pc' = "loop" /\ UNCHANGED <<c2state, image, sent>>
    BY <1>10 DEF C2!ExitReceived, C2!cameraVars
  <2> QED BY <1>2, <1>3, <1>4, <1>5, <1>6, <2>1 DEF ArmInv
<1>11. CASE C2!InitializingRestart
  <2>1. /\ C2!Take(C2!Restart) /\ c2pc' = "loop" /\ UNCHANGED <<image, sent>>
        /\ c2state = "InitializingCamera2System" /\ c2state' = "WaitingForCameraArmMessage"
    BY <1>11 DEF C2!InitializingRestart, C2!cameraVars
  <2>2. Head(c2queue) \in RestartEvents /\ c2pc = "dequeue" /\ c2queue # <<>> /\ c2queue' = Tail(c2queue)
    BY <1>3, <2>1 DEF RestartEvents, C2!Restart
  <2>3. None(c2queue', RestartEvents) /\ None(c2queue', LateArms) /\ AtMostOne(c2queue', RestartEvents)
    BY <1>4, <2>1, <2>2 DEF ArmInv
  <2> QED BY <1>2, <1>5, <1>6, <2>1, <2>2, <2>3 DEF ArmInv
<1>12. CASE C2!RestartAsCamera1
  <2>1. /\ C2!Take(C2!Restart) /\ c2pc' = "loop" /\ UNCHANGED <<image, sent>>
        /\ c2state' = "WaitingForBall"
    BY <1>12 DEF C2!RestartAsCamera1, C2!cameraVars
  <2> QED BY <1>2, <1>3, <1>4, <1>5, <1>6, <2>1 DEF ArmInv
<1>13. CASE C2!UnsupportedTransition
  <2>1. PICK e \in C2!Events : C2!Take(e)
    BY <1>13 DEF C2!UnsupportedTransition
  <2>2. /\ c2pc' = "loop" /\ image' = C2!NoTrigger /\ UNCHANGED sent
        /\ c2state' = "InitializingCamera1System"
    BY <1>13 DEF C2!UnsupportedTransition, C2!Throws, C2!CameraOff
  <2> QED BY <1>2, <1>3, <1>4, <1>6, <2>1, <2>2 DEF ArmInv
<1>14. CASE C2!ArmReceived
  <2>1. PICK s \in C2!Shots : C2!Take(C2!Arm(s)) /\ serving' = s
    BY <1>14 DEF C2!ArmReceived
  <2>2. /\ c2state = "WaitingForCameraArmMessage" /\ c2pc' = "opening"
        /\ UNCHANGED <<c2state, image, sent>>
    BY <1>14 DEF C2!ArmReceived, C2!cameraVars
  <2>3. /\ c2pc = "dequeue" /\ c2queue # <<>> /\ c2queue' = Tail(c2queue)
        /\ C2!Arm(s) \in C2Events /\ C2!Arm(s) \notin LateArms
    <3>1. /\ c2pc = "dequeue" /\ c2queue # <<>> /\ c2queue' = Tail(c2queue)
          /\ Head(c2queue) = C2!Arm(s) /\ C2!Arm(s) \in C2Events
      BY <1>3, <2>1
    <3>2. None(c2queue, LateArms)
      BY <2>2, <3>1 DEF ArmInv
    <3>3. Head(c2queue) \notin LateArms
      BY <1>4, <3>1, <3>2
    <3> QED BY <3>1, <3>3
  <2>4. s = shot /\ wire = FullTrain
    BY <2>3 DEF LateArms, C2!Arm
  <2>5. MatchInv'
    BY <1>1, <1>2, <1>5, <2>1, <2>2, <2>3, <2>4 DEF MatchInv
  <2>6. ArmInv'
    BY <1>2, <1>4, <2>2, <2>3 DEF ArmInv
  <2> QED BY <2>5, <2>6
<1>15. CASE C2!CameraStarted
  <2>1. /\ c2pc = "opening" /\ c2pc' \in {"exposing", "sending"}
        /\ flight' = "kWaitingForFirstPrimingPulseGroup"
        /\ UNCHANGED <<c2state, c2queue, serving, image, sent>>
    BY <1>15 DEF C2!CameraStarted, C2!WaitForFrame
  <2>2. serving = shot /\ wire = FullTrain /\ shot \notin hits
    BY <2>1, FullTrainHead DEF MatchInv, FullTrain
  <2>3. InStep' /\ serving' = shot'
    BY <1>1, <1>2, <2>1, <2>2 DEF InStep
  <2>4. MatchInv'
    BY <1>2, <1>5, <2>1, <2>3 DEF MatchInv, ShowsHit
  <2> QED BY <1>2, <2>1, <2>4 DEF ArmInv
<1>16. CASE C2!UndistortThrows
  <2>1. /\ c2pc' = "loop" /\ image' = C2!NoTrigger /\ UNCHANGED <<sent, c2queue>>
        /\ c2state' = "InitializingCamera1System"
    BY <1>16 DEF C2!UndistortThrows, C2!Throws, C2!CameraOff
  <2> QED BY <1>2, <1>6, <2>1 DEF ArmInv
<1>17. CASE C2!SendPicture
  <2>1. /\ c2pc = "sending" /\ c2pc' = "push" /\ image' = C2!NoTrigger
        /\ sent' = sent \cup {[shot |-> serving, image |-> image]}
        /\ UNCHANGED <<c2state, c2queue>>
    BY <1>17 DEF C2!SendPicture, C2!CameraOff
  <2>2. \A p \in sent' : ShowsHit(p.shot, p.image)'
    BY <1>2, <2>1 DEF MatchInv
  <2>3. MatchInv'
    BY <1>2, <2>1, <2>2 DEF MatchInv
  <2> QED BY <1>2, <2>1, <2>3 DEF ArmInv
<1> QED
  BY <1>1, <1>7, <1>8, <1>9, <1>10, <1>11, <1>12, <1>13, <1>14, <1>15, <1>16, <1>17
  DEF C2!FsmStep

\* A camera that fails sends no other shot's trigger, and a process that is
\* started again has forgotten what it was armed for.
LEMMA Camera2FaultMatches ==
    ASSUME OfArmedShots, MatchInv, ArmInv, Camera2Environment
    PROVE  MatchInv' /\ ArmInv'
<1>1. UNCHANGED <<shot, hits, wire, sent>>
  BY DEF Camera2Environment, vars, shotVars, C2!CameraFails, C2!StartProcess
<1>2. /\ WireInv' /\ hits' \subseteq 0..shot' /\ LateArms' = LateArms
      /\ \A s, i : ShowsHit(s, i) => ShowsHit(s, i)'
  BY <1>1 DEF MatchInv, WireInv, ShowsHit, Unhit, LateArms, FullTrain
<1>3. CASE C2!CameraFails
  <2>1. /\ c2pc \in {"opening", "exposing"} /\ c2pc' = "sending"
        /\ UNCHANGED <<c2state, c2queue, serving, image>>
    BY <1>3 DEF C2!CameraFails, C2!cameraVars
  <2>2. image' = C2!NoTrigger
    BY <2>1 DEF MatchInv
  <2>3. MatchInv'
    BY <1>1, <1>2, <2>1, <2>2 DEF MatchInv, ShowsHit
  <2> QED BY <1>2, <2>1, <2>3 DEF ArmInv
<1>4. CASE C2!StartProcess
  <2>1. c2pc' = "push" /\ c2queue' = <<>> /\ image' = C2!NoTrigger
    BY <1>4 DEF C2!StartProcess, C2!CameraOff
  <2>2. DOMAIN c2queue' = {}
    BY <2>1
  <2>3. MatchInv'
    BY <1>1, <1>2, <2>1 DEF MatchInv
  <2> QED BY <1>2, <2>1, <2>2, <2>3 DEF ArmInv, None, AtMostOne, Before
<1> QED BY <1>3, <1>4 DEF Camera2Environment

\* With pre-image subtraction the FSM waits for a picture that camera 2 never
\* sends, so that no ball is ever watched.
NoHitInv ==
    /\ hits = {}
    /\ state # "WaitingForBallHit" /\ pc # "watching"
    /\ pc = "push" => next # "WaitingForBallHit"
    /\ \A i \in DOMAIN queue : queue[i].type # "Camera2PreImageReceived"

LEMMA NoHitPush ==
    ASSUME NEW q \in Seq(Events), NEW e \in Events, e.type # "Camera2PreImageReceived",
           \A i \in DOMAIN q : q[i].type # "Camera2PreImageReceived"
    PROVE  \A i \in DOMAIN Append(q, e) : Append(q, e)[i].type # "Camera2PreImageReceived"
<1>1. /\ DOMAIN q = 1..Len(q) /\ Len(q) \in Nat /\ DOMAIN Append(q, e) = 1..(Len(q) + 1)
      /\ Append(q, e)[Len(q) + 1] = e
      /\ \A i \in 1..Len(q) : Append(q, e)[i] = q[i]
  OBVIOUS
<1>2. \A i \in DOMAIN Append(q, e) : i \in 1..Len(q) \/ i = Len(q) + 1
  BY <1>1
<1> QED BY <1>1, <1>2

LEMMA NoHitStep ==
    ASSUME TypeOK, OfArmedShots, NoHitInv, kUsePreImageSubtraction, [SystemNext]_systemVars
    PROVE  NoHitInv'
<1> USE DEF NoHitInv
<1>1. queue # <<>> => /\ Head(queue) = queue[1] /\ 1 \in DOMAIN queue
                      /\ \A i \in DOMAIN Tail(queue) : i + 1 \in DOMAIN queue /\ Tail(queue)[i] = queue[i + 1]
  BY DEF TypeOK
<1>2. queue # <<>> =>
        /\ Head(queue).type # "Camera2PreImageReceived"
        /\ \A i \in DOMAIN Tail(queue) : Tail(queue)[i].type # "Camera2PreImageReceived"
  BY <1>1
<1>3. CASE FromCamera2
  <2>1. \A s \in 1..shot : PictureEvent(s) \in Events /\ PictureEvent(s).type # "Camera2PreImageReceived"
    BY DEF PictureEvent, Events, EventTypes, ImageTypes, TypeOK
  <2>2. \A i \in DOMAIN queue' : queue'[i].type # "Camera2PreImageReceived"
    BY <1>3, <2>1, NoHitPush DEF FromCamera2, TypeOK
  <2> QED BY <1>3, <2>2 DEF FromCamera2, fsmVars, shotVars
<1>4. CASE UNCHANGED vars
  BY <1>4 DEF vars, fsmVars, shotVars
<1>5. CASE FsmStep
  <2>1. CASE Push
    <3>1. Plain(pushing) \in Events /\ Plain(pushing).type # "Camera2PreImageReceived"
      BY PlainType DEF TypeOK, EventTypes, DriverTypes, Plain
    <3>2. \A i \in DOMAIN queue' : queue'[i].type # "Camera2PreImageReceived"
      BY <2>1, <3>1, NoHitPush DEF Push, TypeOK
    <3> QED BY <2>1, <3>2 DEF Push, Return, shotVars
  <2>2. CASE BallMoved \/ BallStabilized \/ CheckRunning \/ DequeueTimesOut \/ Shutdown \/ WatchAborted
    BY <2>2 DEF BallMoved, BallStabilized, AfterStable, QueueAndReturn, Return,
        CheckRunning, DequeueTimesOut, Shutdown, WatchAborted, shotVars
  <2>3. CASE \/ ExitReceived \/ ControlMessageReceived \/ UnsupportedTransition \/ HandlerThrows
             \/ IgnoreLateReminder \/ CheckForBallStable
    BY <1>2, <2>3 DEF ExitReceived, ControlMessageReceived, UnsupportedTransition,
        HandlerThrows, IgnoreLateReminder, CheckForBallStable, Take, Return, shotVars
  <2>4. CASE InitializingRestart \/ PollSimulatorArmed \/ BallNotFound \/ BallFound
    BY <1>2, <2>4 DEF InitializingRestart, PollSimulatorArmed, BallNotFound, BallFound,
        Take, Return, QueueAndReturn, shotVars
  <2>5. CASE PreImageReceived \/ BeginWatching
    BY <1>2, <2>5 DEF PreImageReceived, BeginWatching, Take
  <2>6. CASE ProcessImage \/ ProcessImageFails \/ ImageTimedOut
    BY <1>2, <2>6 DEF ProcessImage, ProcessImageFails, ImageTimedOut, Take,
        QueueAndReturn, shotVars
  <2> QED BY <1>5, <2>1, <2>2, <2>3, <2>4, <2>5, <2>6 DEF FsmStep
<1>6. ~WatchStep
  BY DEF WatchStep, HitDetected, WatchFails, WatchThrows
<1>7. ASSUME NEW t \in Timers, TimerStep(t) PROVE NoHitInv'
  <2>1. Plain(Callback(t)) \in Events /\ Plain(Callback(t)).type # "Camera2PreImageReceived"
    BY PlainType DEF Callback, EventTypes, DriverTypes, Plain
  <2>2. TimerCallback(t) => \A i \in DOMAIN queue' : queue'[i].type # "Camera2PreImageReceived"
    BY <2>1, NoHitPush DEF TimerCallback, TypeOK
  <2> QED BY <1>7, <2>2 DEF TimerStep, TimerExpires, TimerCallback, fsmVars, shotVars
<1>8. CASE Signal \/ \E t \in ControlTypes \cup {"Exit"} : IpcMessage(t)
  <2>1. ASSUME NEW t \in ControlTypes \cup {"Exit"}, IpcMessage(t) PROVE NoHitInv'
    <3>1. Plain(t) \in Events /\ Plain(t).type # "Camera2PreImageReceived"
      BY PlainType DEF EventTypes, ControlTypes, Plain
    <3>2. \A i \in DOMAIN queue' : queue'[i].type # "Camera2PreImageReceived"
      BY <2>1, <3>1, NoHitPush DEF IpcMessage, TypeOK
    <3> QED BY <2>1, <3>2 DEF IpcMessage, fsmVars, shotVars
  <2> QED BY <1>8, <2>1 DEF Signal, fsmVars, shotVars
<1>9. FromCamera2 \/ UNCHANGED vars \/ FsmStep \/ (\E t \in Timers : TimerStep(t))
        \/ Signal \/ \E t \in ControlTypes \cup {"Exit"} : IpcMessage(t)
  <2>1. CASE SendPulse \/ Camera2Step \/ Camera2Environment \/ UNCHANGED systemVars
    BY <2>1 DEF SendPulse, Camera2Step, Camera2Environment, systemVars
  <2>2. ASSUME NEW r \in requests, ArmDelivered(r) PROVE FromCamera2
    BY <2>2 DEF ArmDelivered, FromCamera2
  <2>3. ASSUME NEW p \in sent, PictureDelivered(p) PROVE FromCamera2
    BY <2>3 DEF PictureDelivered, FromCamera2, OfArmedShots, PictureEvent
  <2> QED BY <1>6, <2>1, <2>2, <2>3 DEF SystemNext, Camera1Step, Camera1Timer, Camera1Environment
<1> QED BY <1>3, <1>4, <1>5, <1>7, <1>8, <1>9

----------------------------------------------------------------------------
\* The two ways the hardware is set up.
PictureInvs == IF kUsePreImageSubtraction THEN NoHitInv ELSE MatchInv /\ ArmInv

LEMMA PictureInvsInit == SystemInit => PictureInvs
<1> SUFFICES ASSUME SystemInit PROVE PictureInvs
  OBVIOUS
<1>1. /\ hits = {} /\ shot = 0 /\ wire = <<>> /\ sent = {} /\ c2pc = "push"
      /\ image = C2!NoTrigger /\ c2queue = <<>> /\ queue = <<>>
      /\ pc = "push" /\ state # "WaitingForBallHit" /\ next # "WaitingForBallHit"
  BY DEF SystemInit, Init, C2!Init
<1>2. DOMAIN c2queue = {} /\ DOMAIN queue = {}
  BY <1>1
<1> QED BY <1>1, <1>2 DEF PictureInvs, NoHitInv, MatchInv, ArmInv, WireInv, None, AtMostOne,
           Before

LEMMA PictureInvsStep ==
    ASSUME PauseSuffices, SystemInv, PictureInvs, [SystemNext]_systemVars
    PROVE  PictureInvs'
<1>1. CASE kUsePreImageSubtraction
  BY <1>1, NoHitStep DEF PictureInvs, SystemInv
<1>2. CASE ~kUsePreImageSubtraction
  <2> USE <1>2 DEF PictureInvs, SystemInv
  <2>1. CASE Camera1Step
    BY <2>1, Camera1Matches
  <2>2. CASE (\E t \in Timers : Camera1Timer(t)) \/ Camera1Environment \/ UNCHANGED systemVars
    BY <2>2, MatchFrame DEF Camera1Timer, TimerStep, TimerExpires, TimerCallback,
        Camera1Environment, Signal, IpcMessage, systemVars, vars, shotVars
  <2>3. CASE SendPulse
    BY <2>3, LostPulseMatches, CountedPulseMatches
  <2>4. CASE \E r \in requests : ArmDelivered(r)
    BY <2>4, ArmMatches
  <2>5. CASE \E p \in sent : PictureDelivered(p)
    BY <2>5, MatchFrame DEF PictureDelivered, shotVars
  <2>6. CASE Camera2Step
    BY <2>6, Camera2Matches
  <2>7. CASE Camera2Environment
    BY <2>7, Camera2FaultMatches
  <2> QED BY <2>1, <2>2, <2>3, <2>4, <2>5, <2>6, <2>7 DEF SystemNext
<1> QED BY <1>1, <1>2

\* As long as camera 2 gets ready within the pause that camera 1 makes for it,
\* a picture that answers a hit shows the strobes of that hit: the triggers
\* that ball_flight_camera_event_loop counts stay in step with those of
\* pulse_strobe.cpp, whatever is lost, fails or starts over in between.
THEOREM PicturesShowTheHit ==
    ASSUME PauseSuffices
    PROVE  SystemSpec => []PictureOfTheHit
<1>1. SystemInv /\ PictureInvs /\ [SystemNext]_systemVars => PictureInvs'
  BY PictureInvsStep
<1>2. PictureInvs => PictureOfTheHit
  BY DEF PictureInvs, NoHitInv, MatchInv, PictureOfTheHit, ShowsHit, Unhit
<1> QED BY <1>1, <1>2, PictureInvsInit, SystemInvHolds, PTL DEF SystemSpec

----------------------------------------------------------------------------
(* The safety part of CameraReleased.                                      *)

\* How many triggers camera 2's loop still waits for before it ends, once it is
\* past the priming pulses.
TriggersShort ==
    CASE flight = "kWaitingForFinalImageTrigger" -> 2
      [] flight = "kWaitingForFinalImageFlush" -> 1
      [] OTHER -> 3

\* A loop whose ball has been hit is past the priming pulses, and what is still
\* on the wire is exactly what it waits for.
ReleaseOnTheWire ==
    serving \in hits =>
        /\ c2pc # "opening"
        /\ c2pc = "exposing" => serving = shot /\ Len(wire) = TriggersShort /\ wire # <<>>

\* After a hit camera 2 never waits for a trigger that camera 1 does not send:
\* neither lost arm messages, faults nor restarts leave its loop one short.
THEOREM ReleaseIsOnTheWire ==
    ASSUME PauseSuffices
    PROVE  SystemSpec => []ReleaseOnTheWire
<1>1. SystemInv /\ PictureInvs /\ [SystemNext]_systemVars => PictureInvs'
  BY PictureInvsStep
<1>2. SystemInv /\ PictureInvs => ReleaseOnTheWire
  <2> SUFFICES ASSUME SystemInv, PictureInvs, serving \in hits
               PROVE  /\ c2pc # "opening"
                      /\ c2pc = "exposing" => serving = shot /\ Len(wire) = TriggersShort /\ wire # <<>>
    BY DEF ReleaseOnTheWire
  <2>1. ~kUsePreImageSubtraction /\ MatchInv /\ OfArmedShots
    BY DEF PictureInvs, NoHitInv, SystemInv
  <2>2. c2pc # "opening"
    BY <2>1, FullTrainHead DEF MatchInv, FullTrain
  <2>3. ASSUME c2pc = "exposing"
        PROVE  serving = shot /\ Len(wire) = TriggersShort /\ wire # <<>>
    <3>1. serving = shot /\ InStep /\ shot \in hits
      BY <2>1, <2>3 DEF MatchInv, Unhit
    <3>2. CASE flight = C2!AfterPriming /\ wire = HitPulses(shot)
      <4>1. /\ Len(HitPulses(shot)) = (IF kCameraRequiresFlushPulse THEN 2 ELSE 1)
            /\ HitPulses(shot) # <<>>
        BY DEF HitPulses
      <4>2. flight = (IF kCameraRequiresFlushPulse THEN "kWaitingForFinalImageTrigger"
                      ELSE "kWaitingForFinalImageFlush")
        BY <2>1, <3>2 DEF C2!AfterPriming
      <4> QED
        BY <3>1, <3>2, <4>1, <4>2 DEF TriggersShort
    <3>3. CASE flight = "kWaitingForFinalImageFlush" /\ wire = <<Pulse("flush", shot)>>
      BY <3>1, <3>3 DEF TriggersShort
    <3> QED
      BY <3>1, <3>2, <3>3 DEF InStep
  <2> QED
    BY <2>2, <2>3
<1> QED
  BY <1>1, <1>2, PictureInvsInit, SystemInvHolds, PTL DEF SystemSpec

----------------------------------------------------------------------------
(* Camera 2 in the composition: what Camera2Fsm_proofs shows of any         *)
(* triggers and messages holds of those that camera 1 sends.                *)

Camera2 == INSTANCE Camera2Fsm_proofs WITH
    state <- c2state, pc <- c2pc, queue <- c2queue, running <- c2running,
    CameraFaults <- Camera2Faults

\* The process of these proofs is the one of TwoCameraSystem.
LEMMA SameSteps ==
    /\ C2!FsmStep <=> Camera2!FsmStep
    /\ C2!CameraFails <=> Camera2!CameraFails
    /\ C2!StartProcess <=> Camera2!StartProcess
BY DEF C2!FsmStep, C2!CheckRunning, C2!DequeueTimesOut, C2!Push, C2!ExitReceived,
    C2!InitializingRestart, C2!RestartAsCamera1, C2!UnsupportedTransition, C2!ArmReceived,
    C2!CameraStarted, C2!UndistortThrows, C2!SendPicture, C2!CameraFails, C2!StartProcess,
    C2!Take, C2!Enqueue, C2!Restart, C2!Exit, C2!Arm, C2!Events, C2!Shots, C2!Supported,
    C2!Throws, C2!CameraOff, C2!NoTrigger, C2!WaitForFrame, C2!cameraVars,
    Camera2!FsmStep, Camera2!CheckRunning, Camera2!DequeueTimesOut, Camera2!Push,
    Camera2!ExitReceived, Camera2!InitializingRestart, Camera2!RestartAsCamera1,
    Camera2!UnsupportedTransition, Camera2!ArmReceived, Camera2!CameraStarted,
    Camera2!UndistortThrows, Camera2!SendPicture, Camera2!CameraFails, Camera2!StartProcess,
    Camera2!Take, Camera2!Enqueue, Camera2!Restart, Camera2!Exit, Camera2!Arm, Camera2!Events,
    Camera2!Shots, Camera2!Supported, Camera2!Throws, Camera2!CameraOff, Camera2!NoTrigger,
    Camera2!WaitForFrame, Camera2!cameraVars

LEMMA SameTriggers ==
    /\ \A s : C2!ArmMessage(s) <=> Camera2!ArmMessage(s)
    /\ \A p : C2!Trigger(p) <=> Camera2!Trigger(p)
BY DEF C2!ArmMessage, C2!Enqueue, C2!Arm, C2!cameraVars, C2!Trigger, C2!vars, C2!fsmVars,
    C2!Frame, C2!Quiet, C2!NextFlight, C2!AfterPriming, C2!WaitForFrame, C2!NoTrigger,
    Camera2!ArmMessage, Camera2!Enqueue, Camera2!Arm, Camera2!cameraVars, Camera2!Trigger,
    Camera2!vars, Camera2!fsmVars, Camera2!Frame, Camera2!Quiet, Camera2!NextFlight,
    Camera2!AfterPriming, Camera2!WaitForFrame, Camera2!NoTrigger

LEMMA SameStates ==
    /\ C2!Init <=> Camera2!Init
    /\ C2!TypeOK <=> Camera2!TypeOK
    /\ C2!OneRestart <=> Camera2!OneRestart
BY DEF C2!Init, C2!TypeOK, C2!OneRestart, C2!Restarts, C2!Events, C2!Restart, C2!Exit, C2!Arm,
    C2!Shots, C2!Triggers, C2!NoTrigger,
    Camera2!Init, Camera2!TypeOK, Camera2!OneRestart, Camera2!Restarts, Camera2!Events,
    Camera2!Restart, Camera2!Exit, Camera2!Arm, Camera2!Shots, Camera2!Triggers,
    Camera2!NoTrigger

\* A shot that is armed has a number, so that the pulses of its hit have one.
NumberInv ==
    /\ Armed => shot # 0
    /\ pc = "watching" => state = "WaitingForBallHit"

LEMMA NumberStep ==
    ASSUME OfArmedShots, TypeOK, NumberInv, [SystemNext]_systemVars
    PROVE  NumberInv'
<1> USE DEF NumberInv, Armed, Reached
<1>1. CASE FsmStep \/ WatchStep
  <2>1. CASE BallStabilized
    <3>1. shot' = shot + 1 /\ pc' \in {"push", "loop"} /\ shot \in Nat
      BY <2>1 DEF BallStabilized, AfterStable, QueueAndReturn, Return, OfArmedShots
    <3> QED BY <3>1
  <2>2. CASE \/ CheckRunning \/ DequeueTimesOut \/ Push \/ ExitReceived
             \/ ControlMessageReceived \/ Shutdown \/ IgnoreLateReminder
             \/ UnsupportedTransition \/ HandlerThrows \/ CheckForBallStable
    BY <2>2 DEF CheckRunning, DequeueTimesOut, Push, ExitReceived, ControlMessageReceived,
        Shutdown, IgnoreLateReminder, UnsupportedTransition, HandlerThrows,
        CheckForBallStable, Take, Return, shotVars
  <2>3. CASE \/ InitializingRestart \/ PollSimulatorArmed \/ BallNotFound \/ BallFound
             \/ BallMoved
    BY <2>3 DEF InitializingRestart, PollSimulatorArmed, BallNotFound, BallFound,
        BallMoved, Take, Return, QueueAndReturn, shotVars
  <2>4. CASE \/ PreImageReceived \/ BeginWatching \/ WatchAborted \/ WatchStep
             \/ ProcessImage \/ ProcessImageFails \/ ImageTimedOut
    BY <2>4 DEF PreImageReceived, BeginWatching, WatchAborted, WatchStep, HitDetected,
        WatchFails, WatchThrows, ProcessImage, ProcessImageFails, ImageTimedOut, Take,
        Return, QueueAndReturn, shotVars
  <2> QED BY <1>1, <2>1, <2>2, <2>3, <2>4 DEF FsmStep
<1>2. CASE FromCamera2 \/ UNCHANGED vars
  BY <1>2 DEF FromCamera2, vars, fsmVars, shotVars
<1>3. CASE (\E t \in Timers : TimerStep(t)) \/ EnvironmentStep \/ Stopped
  BY <1>3 DEF TimerStep, TimerExpires, TimerCallback, EnvironmentStep, Camera2Answers,
      IpcMessage, Signal, Stopped, vars, fsmVars, shotVars
<1> QED BY <1>1, <1>2, <1>3, SystemStepKinds DEF Next


\* What is on its way over the wire are triggers of shots that have a number.
WireTyped == wire \in Seq(C2!Triggers)

LEMMA PulsesAreTriggers ==
    ASSUME NEW s \in Shots
    PROVE  PrimingPulses(s) \in Seq(C2!Triggers) /\ HitPulses(s) \in Seq(C2!Triggers)
<1> DEFINE T == C2!Triggers
           a == [i \in 1..InitialPulses |-> Pulse("initial", s)]
           b == <<Pulse("last", s)>>
           c == IF kUsePreImageSubtraction
                THEN <<Pulse("preImage", s), Pulse("preFlush", s)>> ELSE <<>>
           d == <<Pulse("strobe", s)>>
           e == IF kCameraRequiresFlushPulse THEN <<Pulse("flush", s)>> ELSE <<>>
<1>1. \A k \in {"initial", "last", "preImage", "preFlush", "strobe", "flush"} : Pulse(k, s) \in T
  BY DEF Pulse, C2!Triggers, C2!Shots, Shots
<1> HIDE DEF T
<1>2. a \in Seq(T) /\ b \in Seq(T) /\ c \in Seq(T) /\ d \in Seq(T) /\ e \in Seq(T)
  BY <1>1
<1> HIDE DEF a, b, c, d, e
<1>3. (a \o b) \o c \in Seq(T) /\ a \o (b \o c) \in Seq(T) /\ d \o e \in Seq(T)
  BY <1>2, ConcatProperties
<1> QED BY <1>3 DEF PrimingPulses, HitPulses, T, a, b, c, d, e

LEMMA WireStep ==
    ASSUME OfArmedShots, TypeOK, TypeOK', NumberInv, WireTyped, [SystemNext]_systemVars
    PROVE  WireTyped'
<1> USE DEF WireTyped
<1>1. CASE Camera1Step
  <2>1. CASE wire' = <<>>
    BY <2>1
  <2>2. CASE shot' # shot
    <3>1. shot' \in Shots
      <4>1. shot \in Nat /\ shot' \in 0..MaxShots
        BY DEF OfArmedShots, TypeOK
      <4>2. OfArmedShots'
        BY <1>1, Camera1StepKeeps DEF Camera1Step
      <4>3. BallStabilized
        BY <1>1, <2>2 DEF Camera1Step, FsmStep, WatchStep, shotVars, CheckRunning,
            DequeueTimesOut, Push, ExitReceived, ControlMessageReceived, Shutdown,
            InitializingRestart, PollSimulatorArmed, BallNotFound, BallFound,
            IgnoreLateReminder, CheckForBallStable, BallMoved, PreImageReceived,
            BeginWatching, WatchAborted, ProcessImage, ProcessImageFails, ImageTimedOut,
            UnsupportedTransition, HandlerThrows, HitDetected, WatchFails, WatchThrows
      <4> QED BY <4>1, <4>3 DEF BallStabilized, Shots
    <3>2. PrimingPulses(shot') \in Seq(C2!Triggers)
      BY <3>1, PulsesAreTriggers
    <3>3. wire' = PrimingPulses(shot')
      <4>1. hits' = hits
        BY <1>1, <2>2 DEF Camera1Step, FsmStep, WatchStep, HitDetected, WatchFails,
            WatchThrows, shotVars, CheckRunning, DequeueTimesOut, Push, ExitReceived,
            ControlMessageReceived, Shutdown, InitializingRestart, PollSimulatorArmed,
            BallNotFound, BallFound, IgnoreLateReminder, CheckForBallStable, BallMoved,
            BallStabilized, PreImageReceived, BeginWatching, WatchAborted, ProcessImage,
            ProcessImageFails, ImageTimedOut, UnsupportedTransition, HandlerThrows
      <4> QED BY <1>1, <2>2, <4>1 DEF Camera1Step
    <3> QED BY <3>2, <3>3
  <2>3. CASE shot' = shot /\ hits' # hits
    <3>1. HitDetected
      BY <1>1, <2>3 DEF Camera1Step, FsmStep, WatchStep, shotVars, CheckRunning,
          DequeueTimesOut, Push, ExitReceived, ControlMessageReceived, Shutdown,
          InitializingRestart, PollSimulatorArmed, BallNotFound, BallFound,
          IgnoreLateReminder, CheckForBallStable, BallMoved, BallStabilized,
          PreImageReceived, BeginWatching, WatchAborted, ProcessImage, ProcessImageFails,
          ImageTimedOut, UnsupportedTransition, HandlerThrows, WatchFails, WatchThrows
    <3>2. shot \in Shots
      BY <3>1 DEF HitDetected, NumberInv, Armed, Reached, TypeOK, Shots
    <3> QED BY <1>1, <2>3, <3>2, PulsesAreTriggers DEF Camera1Step
  <2> QED BY <1>1, <2>1, <2>2, <2>3 DEF Camera1Step
<1>2. CASE SendPulse
  <2>1. wire # <<>> /\ wire' = Tail(wire)
    BY <1>2 DEF SendPulse
  <2>2. Tail(wire) \in Seq(C2!Triggers)
    BY <2>1, HeadTailProperties DEF WireTyped
  <2> QED BY <2>1, <2>2
<1>3. CASE UNCHANGED wire
  BY <1>3
<1> QED BY <1>1, <1>2, <1>3 DEF SystemNext, Camera1Timer, Camera1Environment, ArmDelivered,
           PictureDelivered, Camera2Step, Camera2Environment, systemVars

\* Every step of the composition is for camera 2 one that its proofs know.
LEMMA Camera2InvStep ==
    ASSUME TypeOK, WireTyped, Camera2!Inv, [SystemNext]_systemVars
    PROVE  Camera2!Inv'
<1>1. CASE SendPulse
  <2>1. Head(wire) \in Camera2!Triggers
    <3>1. wire # <<>> /\ wire \in Seq(C2!Triggers)
      BY <1>1 DEF SendPulse, WireTyped
    <3>2. C2!Triggers = Camera2!Triggers
      BY DEF C2!Triggers, Camera2!Triggers, C2!Shots, Camera2!Shots
    <3> QED BY <3>1, <3>2, HeadTailProperties
  <2>2. Camera2!Trigger(Head(wire))
    BY <1>1, SameTriggers DEF SendPulse
  <2> QED BY <2>1, <2>2, Camera2!TriggerKeepsInv
<1>2. ASSUME NEW r \in requests, ArmDelivered(r) PROVE Camera2!Inv'
  <2>1. r[2] \in Camera2!Shots
    BY DEF TypeOK, Shots, Camera2!Shots
  <2>2. Camera2!ArmMessage(r[2])
    BY <1>2, SameTriggers DEF ArmDelivered
  <2> QED BY <2>1, <2>2, Camera2!MessageKeepsInv
<1>3. CASE Camera2Step
  <2>1. Camera2!Next
    BY <1>3, SameSteps DEF Camera2Step, Camera2!Next
  <2> QED BY <2>1, Camera2!StepKeepsInv
<1>4. CASE Camera2Environment
  <2>1. Camera2!Next
    BY <1>4, SameSteps DEF Camera2Environment, Camera2!Next, Camera2!EnvironmentStep
  <2> QED BY <2>1, Camera2!StepKeepsInv
<1>5. CASE UNCHANGED c2vars
  <2>1. UNCHANGED Camera2!vars
    BY <1>5 DEF c2vars, Camera2!vars, Camera2!fsmVars, Camera2!cameraVars
  <2> QED BY <2>1, Camera2!StepKeepsInv
<1> QED BY <1>1, <1>2, <1>3, <1>4, <1>5 DEF SystemNext, Camera1Step, Camera1Timer,
           Camera1Environment, PictureDelivered, systemVars

ComposedInv == SystemInv /\ NumberInv /\ WireTyped /\ Camera2!Inv

LEMMA ComposedInvHolds == SystemSpec => []ComposedInv
<1>1. SystemInit => ComposedInv
  <2> SUFFICES ASSUME SystemInit PROVE ComposedInv
    OBVIOUS
  <2>1. NumberInv /\ WireTyped
    BY DEF SystemInit, Init, NumberInv, Armed, Reached, WireTyped
  <2>2. Camera2!Inv
    BY SameStates, Camera2!InitInv DEF SystemInit
  <2> QED BY <2>1, <2>2, SystemInvInit DEF ComposedInv
<1>2. ComposedInv /\ [SystemNext]_systemVars => ComposedInv'
  BY SystemInvStep, NumberStep, WireStep, Camera2InvStep DEF ComposedInv, SystemInv
<1> QED BY <1>1, <1>2, PTL DEF SystemSpec

\* The variables of both processes keep their types, and so does what is on its way
\* between them: no pulse or arm message carries anything but the number of a shot.
THEOREM SystemTypeCorrect == SystemSpec => []SystemTypeOK
<1>1. ComposedInv => SystemTypeOK
  <2> SUFFICES ASSUME ComposedInv PROVE SystemTypeOK
    OBVIOUS
  <2>1. TypeOK /\ wire \in Seq(C2!Triggers)
    BY DEF ComposedInv, SystemInv, WireTyped
  <2>2. answered \subseteq Shots
    BY DEF ComposedInv, SystemInv, OfArmedShots, TypeOK, Shots
  <2>3. C2!TypeOK
    BY SameStates DEF ComposedInv, Camera2!Inv
  <2> QED BY <2>1, <2>2, <2>3 DEF SystemTypeOK
<1> QED BY <1>1, ComposedInvHolds, PTL

\* Under the triggers and arm messages of the real camera 1, too, camera 2's loop
\* of gs_fsm.cpp is driven by exactly one Restart.
THEOREM ComposedRestart == SystemSpec => []C2!OneRestart
<1>1. ComposedInv => C2!OneRestart
  BY SameStates DEF ComposedInv, Camera2!Inv, Camera2!RestartInv, Camera2!OneRestart,
      Camera2!Restarts, Camera2!AtMostOneRestart, Camera2!HasRestart
<1> QED BY <1>1, ComposedInvHolds, PTL


----------------------------------------------------------------------------
(* Camera 1 in the composition: its theorems, at the unanswered requests.  *)

Camera1 == INSTANCE LaunchMonitorFsm_proofs WITH requests <- Unanswered

LEMMA SameLaunchMonitor ==
    /\ LM!Init => Camera1!Init
    /\ [LM!Next]_(LM!vars) => [Camera1!Next]_(Camera1!vars)
<1>1. LM!Init => Camera1!Init
  BY DEF Unanswered, LM!Init, LM!Timers, LM!Clubs, LM!Stabilization, LM!Watchdog,
      Camera1!Init, Camera1!Timers, Camera1!Clubs, Camera1!Stabilization, Camera1!Watchdog
<1>2. LM!Next => Camera1!Next
  BY DEF Unanswered, LM!Next, Camera1!Next,
      LM!fsmVars, LM!shotVars, LM!vars, LM!States, LM!DriverTypes, LM!ControlTypes,
      LM!ImageTypes, LM!EventTypes, LM!Clubs, LM!Statuses, LM!Shots, LM!Events, LM!Results,
      LM!Plain, LM!Stabilization, LM!Watchdog, LM!Timers, LM!Callback, LM!HasRoom, LM!Take,
      LM!Return, LM!QueueAndReturn, LM!SetupTimer, LM!ExitThread, LM!TimerExpires,
      LM!TimerCallback, LM!CheckRunning, LM!DequeueTimesOut, LM!Push, LM!ExitReceived,
      LM!ControlMessageReceived, LM!Shutdown, LM!InitializingRestart,
      LM!PollSimulatorArmed, LM!WaitingStatus, LM!BallNotFound, LM!BallFound,
      LM!IgnoreLateReminder, LM!CheckForBallStable, LM!BallMoved, LM!CameraRequest,
      LM!AfterStable, LM!BallStabilized, LM!PreImageReceived, LM!BeginWatching,
      LM!HitDetected, LM!WatchAborted, LM!WatchFails, LM!Result, LM!ProcessImage,
      LM!ProcessImageFails, LM!ImageTimedOut, LM!Supported, LM!UsesCamera,
      LM!UnsupportedTransition, LM!HandlerThrows, LM!WatchThrows, LM!Camera2Answers,
      LM!IpcMessage, LM!Signal, LM!FsmStep, LM!WatchStep, LM!TimerStep, LM!EnvironmentStep,
      LM!Stopped, Camera1!fsmVars, Camera1!shotVars, Camera1!vars, Camera1!States,
      Camera1!DriverTypes, Camera1!ControlTypes, Camera1!ImageTypes, Camera1!EventTypes,
      Camera1!Clubs, Camera1!Statuses, Camera1!Shots, Camera1!Events, Camera1!Results,
      Camera1!Plain, Camera1!Stabilization, Camera1!Watchdog, Camera1!Timers,
      Camera1!Callback, Camera1!HasRoom, Camera1!Take, Camera1!Return,
      Camera1!QueueAndReturn, Camera1!SetupTimer, Camera1!ExitThread, Camera1!TimerExpires,
      Camera1!TimerCallback, Camera1!CheckRunning, Camera1!DequeueTimesOut, Camera1!Push,
      Camera1!ExitReceived, Camera1!ControlMessageReceived, Camera1!Shutdown,
      Camera1!InitializingRestart, Camera1!PollSimulatorArmed, Camera1!WaitingStatus,
      Camera1!BallNotFound, Camera1!BallFound, Camera1!IgnoreLateReminder,
      Camera1!CheckForBallStable, Camera1!BallMoved, Camera1!CameraRequest,
      Camera1!AfterStable, Camera1!BallStabilized, Camera1!PreImageReceived,
      Camera1!BeginWatching, Camera1!HitDetected, Camera1!WatchAborted, Camera1!WatchFails,
      Camera1!Result, Camera1!ProcessImage, Camera1!ProcessImageFails,
      Camera1!ImageTimedOut, Camera1!Supported, Camera1!UsesCamera,
      Camera1!UnsupportedTransition, Camera1!HandlerThrows, Camera1!WatchThrows,
      Camera1!Camera2Answers, Camera1!IpcMessage, Camera1!Signal, Camera1!FsmStep,
      Camera1!WatchStep, Camera1!TimerStep, Camera1!EnvironmentStep, Camera1!Stopped
<1>3. UNCHANGED LM!vars => UNCHANGED Camera1!vars
  BY DEF Unanswered, LM!vars, LM!fsmVars, LM!shotVars, Camera1!vars, Camera1!fsmVars,
      Camera1!shotVars
<1> QED BY <1>1, <1>2, <1>3


\* What was proved of camera 1 alone holds with the real camera 2 behind the lossy
\* broker: results are numbered once, of shots that were hit, no picture is used for
\* two, and only an exception makes "ready to be hit" a lie.
THEOREM ComposedLaunchMonitor ==
    SystemSpec => /\ [](ResultsNumberedOnce /\ HitBeforeResult /\ PicturesUsedOnce)
                  /\ Camera1!ReadyIsHonest
<1>1. SystemSpec => Camera1!Spec
  BY CompositionRefines, SameLaunchMonitor, PTL DEF ImplementsLaunchMonitor, LM!Spec, Camera1!Spec
<1>2. Camera1!ResultsNumberedOnce => ResultsNumberedOnce
  BY DEF Camera1!ResultsNumberedOnce, ResultsNumberedOnce
<1>3. Camera1!HitBeforeResult => HitBeforeResult
  BY DEF Camera1!HitBeforeResult, HitBeforeResult
<1>4. Camera1!PicturesUsedOnce => PicturesUsedOnce
  BY DEF Camera1!PicturesUsedOnce, PicturesUsedOnce
<1> QED BY <1>1, <1>2, <1>3, <1>4, Camera1!ReadyAlwaysHonest, Camera1!NumberedOnce,
           Camera1!HitComesFirst, Camera1!PicturesNeverReused, PTL

=============================================================================
