-------------------------- MODULE Camera2Fsm_proofs --------------------------
(* Theorems about Camera2Fsm, for every value of its constants.            *)
EXTENDS Camera2Fsm, TLAPS

USE SizesAssumption

HasRestart(q) == \E i \in DOMAIN q : q[i] = Restart
AtMostOneRestart(q) == \A i, j \in DOMAIN q : q[i] = Restart /\ q[j] = Restart => i = j

\* What a pop does to the Restarts of a queue: it removes the one at its head,
\* if there is one there, and no other.
LEMMA PopRestarts ==
    ASSUME NEW q \in Seq(Events), q # <<>>
    PROVE  /\ Tail(q) \in Seq(Events)
           /\ Len(Tail(q)) = Len(q) - 1
           /\ Head(q) \in Events
           /\ HasRestart(Tail(q)) => HasRestart(q)
           /\ HasRestart(q) /\ Head(q) # Restart => HasRestart(Tail(q))
           /\ AtMostOneRestart(q) => AtMostOneRestart(Tail(q))
           /\ AtMostOneRestart(q) /\ Head(q) = Restart => ~HasRestart(Tail(q))
<1>1. /\ Tail(q) \in Seq(Events) /\ Head(q) \in Events
      /\ Len(q) \in Nat /\ Len(Tail(q)) = Len(q) - 1 /\ Len(q) # 0
      /\ DOMAIN q = 1..Len(q) /\ DOMAIN Tail(q) = 1..Len(Tail(q))
      /\ Head(q) = q[1]
  OBVIOUS
<1>2. \A i \in DOMAIN Tail(q) : i + 1 \in DOMAIN q /\ Tail(q)[i] = q[i + 1]
  BY <1>1
<1>3. \A i \in DOMAIN q : i # 1 => i - 1 \in DOMAIN Tail(q) /\ Tail(q)[i - 1] = q[i]
  BY <1>1, <1>2
<1>4. HasRestart(Tail(q)) => HasRestart(q)
  BY <1>2 DEF HasRestart
<1>5. HasRestart(q) /\ Head(q) # Restart => HasRestart(Tail(q))
  BY <1>1, <1>3 DEF HasRestart
<1>6. AtMostOneRestart(q) => AtMostOneRestart(Tail(q))
  BY <1>1, <1>2 DEF AtMostOneRestart
<1>7. ASSUME AtMostOneRestart(q), Head(q) = Restart, HasRestart(Tail(q)) PROVE FALSE
  <2>1. PICK i \in DOMAIN Tail(q) : Tail(q)[i] = Restart
    BY <1>7 DEF HasRestart
  <2>2. i + 1 \in DOMAIN q /\ q[i + 1] = Restart /\ q[1] = Restart /\ 1 \in DOMAIN q
    BY <2>1, <1>1, <1>2, <1>7
  <2>3. i + 1 = 1
    BY <2>2, <1>7 DEF AtMostOneRestart
  <2> QED BY <2>1, <2>3, <1>1
<1> QED BY <1>1, <1>4, <1>5, <1>6, <1>7

\* What a push does to them.
LEMMA PushRestarts ==
    ASSUME NEW q \in Seq(Events), NEW e \in Events
    PROVE  /\ Append(q, e) \in Seq(Events)
           /\ Len(Append(q, e)) = Len(q) + 1
           /\ e = Restart => HasRestart(Append(q, e))
           /\ e # Restart => (HasRestart(Append(q, e)) <=> HasRestart(q))
           /\ e # Restart /\ AtMostOneRestart(q) => AtMostOneRestart(Append(q, e))
           /\ ~HasRestart(q) => AtMostOneRestart(Append(q, e))
<1> DEFINE a == Append(q, e)
<1>1. /\ a \in Seq(Events) /\ Len(q) \in Nat /\ Len(a) = Len(q) + 1
      /\ DOMAIN q = 1..Len(q) /\ DOMAIN a = 1..(Len(q) + 1)
      /\ a[Len(q) + 1] = e
  OBVIOUS
<1>2. \A i \in DOMAIN q : i \in DOMAIN a /\ a[i] = q[i]
  BY <1>1
<1>3. \A i \in DOMAIN a : i = Len(q) + 1 \/ i \in DOMAIN q
  BY <1>1
<1> HIDE DEF a
<1>4. e = Restart => HasRestart(a)
  BY <1>1 DEF HasRestart
<1>5. e # Restart => (HasRestart(a) <=> HasRestart(q))
  BY <1>1, <1>2, <1>3 DEF HasRestart
<1>6. e # Restart /\ AtMostOneRestart(q) => AtMostOneRestart(a)
  BY <1>1, <1>2, <1>3 DEF AtMostOneRestart
<1>7. ~HasRestart(q) => AtMostOneRestart(a)
  BY <1>1, <1>2, <1>3 DEF HasRestart, AtMostOneRestart
<1> QED BY <1>1, <1>4, <1>5, <1>6, <1>7 DEF a

----------------------------------------------------------------------------
\* While the FSM thread is inside WaitForCam2Trigger it serves a shot, its state
\* has not changed, and once the camera runs its loop is in a waiting state;
\* nothing but the end of the handler, or the start of the process, pushes.
Busy == {"opening", "exposing", "sending"}

HandlerInv ==
    /\ pc \in Busy => state = "WaitingForCameraArmMessage" /\ serving \in Shots
    /\ pc = "exposing" => flight \notin {"kUninitialized", "kFinalImageReceived"}
    /\ pc = "push" => state \in {"InitializingCamera2System", "WaitingForCameraArmMessage"}

\* OneRestart, and that whoever is about to push a Restart has queued none.
RestartInv ==
    /\ AtMostOneRestart(queue)
    /\ state = "InitializingCamera2System" /\ pc # "push" => HasRestart(queue)
    /\ state = "WaitingForCameraArmMessage" => ~HasRestart(queue)
    /\ pc = "push" => ~HasRestart(queue)

Inv == TypeOK /\ HandlerInv /\ RestartInv

LEMMA EventTypes ==
    /\ Restart \in Events /\ Exit \in Events /\ Exit # Restart
    /\ \A s \in Shots : Arm(s) \in Events /\ Arm(s) # Restart
BY DEF Events, Restart, Exit, Arm

\* An event taken from the queue by a handler.
LEMMA TakeRestarts ==
    ASSUME Inv, NEW e \in Events, Take(e)
    PROVE  /\ queue' \in Seq(Events) /\ Len(queue') <= kMaxQueueSize
           /\ AtMostOneRestart(queue')
           /\ ~HasRestart(queue) => ~HasRestart(queue')
           /\ HasRestart(queue) /\ e # Restart => HasRestart(queue')
           /\ e = Restart => ~HasRestart(queue')
<1>1. queue \in Seq(Events) /\ queue # <<>> /\ Len(queue) <= kMaxQueueSize
      /\ AtMostOneRestart(queue) /\ queue' = Tail(queue) /\ Head(queue) = e
  BY DEF Inv, TypeOK, RestartInv, Take
<1>2. Len(queue) \in Nat
  BY <1>1
<1> QED BY <1>1, <1>2, PopRestarts

\* An event other than a Restart put in it by another thread.
LEMMA EnqueueRestarts ==
    ASSUME Inv, NEW e \in Events, e # Restart, Enqueue(e)
    PROVE  /\ queue' \in Seq(Events) /\ Len(queue') <= kMaxQueueSize
           /\ AtMostOneRestart(queue')
           /\ HasRestart(queue') <=> HasRestart(queue)
<1>1. queue \in Seq(Events) /\ Len(queue) < kMaxQueueSize
      /\ AtMostOneRestart(queue) /\ queue' = Append(queue, e)
  BY DEF Inv, TypeOK, RestartInv, Enqueue
<1>2. Len(queue) \in Nat
  BY <1>1
<1> QED BY <1>1, <1>2, PushRestarts

----------------------------------------------------------------------------
\* What a trigger makes of the state of the camera loop.
LEMMA FlightStates ==
    ASSUME Inv, pc = "exposing", flight # "kWaitingForFinalImageFlush", NEW quiet \in BOOLEAN
    PROVE  NextFlight(quiet) \in
             {"kWaitingForFirstPrimingTimeEnd", "kWaitingForPreImageTrigger",
              "kWaitingForPreImageFlush", "kWaitingForFinalImageTrigger",
              "kWaitingForFinalImageFlush"}
BY DEF Inv, TypeOK, HandlerInv, NextFlight, AfterPriming

LEMMA NoTriggerType == NoTrigger \in Triggers \cup {NoTrigger}
OBVIOUS

LEMMA InitInv == Init => Inv
<1> SUFFICES ASSUME Init PROVE Inv
  OBVIOUS
<1>1. queue = <<>> /\ queue \in Seq(Events) /\ Len(queue) = 0 /\ DOMAIN queue = {}
  BY DEF Init
<1>2. TypeOK
  BY <1>1 DEF Init, TypeOK
<1>3. HandlerInv
  BY DEF Init, HandlerInv, Busy
<1>4. RestartInv
  BY <1>1 DEF Init, RestartInv, AtMostOneRestart, HasRestart
<1> QED BY <1>2, <1>3, <1>4 DEF Inv

\* Steps of the event loop.
LEMMA LoopKeepsInv ==
    ASSUME Inv,
           CheckRunning \/ DequeueTimesOut \/ Push \/ ExitReceived
               \/ InitializingRestart \/ RestartAsCamera1 \/ UnsupportedTransition
    PROVE  Inv'
<1> USE DEF Inv, TypeOK, HandlerInv, RestartInv, Busy, cameraVars
<1>1. CASE CheckRunning
  BY <1>1 DEF CheckRunning
<1>2. CASE DequeueTimesOut
  BY <1>2 DEF DequeueTimesOut
<1>3. CASE Push
  <2>1. /\ queue' \in Seq(Events) /\ Len(queue') <= kMaxQueueSize
        /\ AtMostOneRestart(queue') /\ HasRestart(queue')
    <3>1. queue' = Append(queue, Restart) /\ Len(queue) < kMaxQueueSize /\ ~HasRestart(queue)
      BY <1>3 DEF Push, Enqueue
    <3>2. Len(queue) \in Nat /\ Restart \in Events
      BY EventTypes
    <3> QED BY <3>1, <3>2, PushRestarts
  <2> QED BY <1>3, <2>1 DEF Push
<1>4. CASE ExitReceived
  <2>1. /\ queue' \in Seq(Events) /\ Len(queue') <= kMaxQueueSize
        /\ AtMostOneRestart(queue')
        /\ ~HasRestart(queue) => ~HasRestart(queue')
        /\ HasRestart(queue) => HasRestart(queue')
    BY <1>4, TakeRestarts, EventTypes DEF ExitReceived
  <2>2. pc = "dequeue"
    BY <1>4 DEF ExitReceived, Take
  <2> QED BY <1>4, <2>1, <2>2 DEF ExitReceived
<1>5. CASE InitializingRestart
  <2>1. /\ queue' \in Seq(Events) /\ Len(queue') <= kMaxQueueSize
        /\ AtMostOneRestart(queue') /\ ~HasRestart(queue')
    BY <1>5, TakeRestarts, EventTypes DEF InitializingRestart
  <2> QED BY <1>5, <2>1 DEF InitializingRestart
<1>6. CASE RestartAsCamera1
  <2>1. /\ queue' \in Seq(Events) /\ Len(queue') <= kMaxQueueSize
        /\ AtMostOneRestart(queue') /\ ~HasRestart(queue')
    BY <1>6, TakeRestarts, EventTypes DEF RestartAsCamera1
  <2> QED BY <1>6, <2>1 DEF RestartAsCamera1
<1>7. CASE UnsupportedTransition
  <2>1. PICK e \in Events : Take(e)
    BY <1>7 DEF UnsupportedTransition
  <2>2. /\ queue' \in Seq(Events) /\ Len(queue') <= kMaxQueueSize
        /\ AtMostOneRestart(queue')
    BY <2>1, TakeRestarts
  <2> QED BY <1>7, <2>2 DEF UnsupportedTransition, Throws, CameraOff
<1> QED BY <1>1, <1>2, <1>3, <1>4, <1>5, <1>6, <1>7

\* Steps of the handler that waits for camera 2's trigger.
LEMMA HandlerKeepsInv ==
    ASSUME Inv,
           ArmReceived \/ CameraStarted \/ CameraFails \/ UndistortThrows \/ SendPicture
    PROVE  Inv'
<1> USE DEF Inv, TypeOK, HandlerInv, RestartInv, Busy, cameraVars
<1>1. CASE ArmReceived
  <2>1. PICK s \in Shots : Take(Arm(s)) /\ serving' = s
    BY <1>1 DEF ArmReceived
  <2>2. /\ queue' \in Seq(Events) /\ Len(queue') <= kMaxQueueSize
        /\ AtMostOneRestart(queue')
        /\ ~HasRestart(queue) => ~HasRestart(queue')
    BY <2>1, TakeRestarts, EventTypes
  <2> QED BY <1>1, <2>1, <2>2 DEF ArmReceived, Shots
<1>2. CASE CameraStarted
  BY <1>2 DEF CameraStarted, WaitForFrame
<1>3. CASE CameraFails
  BY <1>3 DEF CameraFails
<1>4. CASE UndistortThrows
  BY <1>4 DEF UndistortThrows, Throws, CameraOff
<1>5. CASE SendPicture
  <2>1. sent' \subseteq [shot : Shots, image : Triggers \cup {NoTrigger}]
    BY <1>5 DEF SendPicture
  <2> QED BY <1>5, <2>1 DEF SendPicture, CameraOff
<1> QED BY <1>1, <1>2, <1>3, <1>4, <1>5

\* Whatever trigger comes over the wire.
LEMMA TriggerKeepsInv ==
    ASSUME Inv, NEW p \in Triggers, Trigger(p)
    PROVE  Inv'
<1> USE DEF Inv, TypeOK, HandlerInv, RestartInv, Busy
<1>1. CASE pc # "exposing"
  BY <1>1 DEF Trigger, vars, fsmVars, cameraVars
<1>2. CASE pc = "exposing"
  <2>1. UNCHANGED <<state, queue, running, serving, sent>>
    BY <1>2 DEF Trigger
  <2>2. lastTrigger' \in Triggers \cup {NoTrigger}
    BY <1>2 DEF Trigger
  <2>3. CASE flight = "kWaitingForFinalImageFlush"
    <3>1. /\ flight' = "kFinalImageReceived" /\ pc' = "sending"
          /\ image' \in Triggers \cup {NoTrigger} /\ firstTrigger' = firstTrigger
      BY <1>2, <2>3 DEF Trigger, Frame
    <3> QED BY <1>2, <2>1, <2>2, <3>1
  <2>4. CASE flight # "kWaitingForFinalImageFlush"
    <3>1. PICK quiet \in Quiet(p) : flight' = NextFlight(quiet)
      BY <1>2, <2>4 DEF Trigger
    <3>2. quiet \in BOOLEAN
      BY <3>1 DEF Quiet
    <3>3. flight' \in
             {"kWaitingForFirstPrimingTimeEnd", "kWaitingForPreImageTrigger",
              "kWaitingForPreImageFlush", "kWaitingForFinalImageTrigger",
              "kWaitingForFinalImageFlush"}
      BY <1>2, <2>4, <3>1, <3>2, FlightStates
    <3>4. /\ firstTrigger' \in Triggers \cup {NoTrigger}
          /\ pc' \in {"exposing", "sending"} /\ image' = image
      BY <1>2, <2>4 DEF Trigger, WaitForFrame
    <3> QED BY <1>2, <2>1, <2>2, <3>3, <3>4
  <2> QED BY <2>3, <2>4
<1> QED BY <1>1, <1>2

\* Messages, signals and a new start of the process.
LEMMA MessageKeepsInv ==
    ASSUME Inv, (\E s \in Shots : ArmMessage(s)) \/ ShutdownMessage
    PROVE  Inv'
<1>1. PICK e \in Events \ {Restart} : Enqueue(e)
  BY EventTypes DEF ArmMessage, ShutdownMessage
<1>2. UNCHANGED <<state, pc, running, serving, cameraVars, sent>>
  BY DEF ArmMessage, ShutdownMessage
<1>3. /\ queue' \in Seq(Events) /\ Len(queue') <= kMaxQueueSize
      /\ AtMostOneRestart(queue')
      /\ HasRestart(queue') <=> HasRestart(queue)
  BY <1>1, EnqueueRestarts
<1> QED BY <1>2, <1>3 DEF Inv, TypeOK, HandlerInv, RestartInv, Busy, cameraVars

LEMMA OperatorKeepsInv ==
    ASSUME Inv, Signal \/ StartProcess
    PROVE  Inv'
<1> USE DEF Inv, TypeOK, HandlerInv, RestartInv, Busy, cameraVars
<1>1. CASE Signal
  BY <1>1 DEF Signal
<1>2. CASE StartProcess
  <2>1. queue' = <<>> /\ queue' \in Seq(Events) /\ Len(queue') = 0 /\ DOMAIN queue' = {}
    BY <1>2 DEF StartProcess
  <2>2. AtMostOneRestart(queue') /\ ~HasRestart(queue')
    BY <2>1 DEF AtMostOneRestart, HasRestart
  <2> QED BY <1>2, <2>1, <2>2 DEF StartProcess, CameraOff
<1> QED BY <1>1, <1>2

LEMMA StepKeepsInv == Inv /\ [Next]_vars => Inv'
<1> SUFFICES ASSUME Inv, [Next]_vars PROVE Inv'
  OBVIOUS
<1>1. CASE FsmStep
  BY <1>1, LoopKeepsInv, HandlerKeepsInv DEF FsmStep
<1>2. CASE \E k \in {"initial", "strobe"}, s \in Shots : Trigger([kind |-> k, shot |-> s])
  BY <1>2, TriggerKeepsInv DEF Triggers
<1>3. CASE (\E s \in Shots : ArmMessage(s)) \/ ShutdownMessage
  BY <1>3, MessageKeepsInv
<1>4. CASE Signal \/ StartProcess
  BY <1>4, OperatorKeepsInv
<1>5. CASE CameraFails
  BY <1>5, HandlerKeepsInv
<1>6. CASE UNCHANGED vars
  BY <1>6 DEF vars, fsmVars, cameraVars, Inv, TypeOK, HandlerInv, RestartInv, Busy
<1> QED BY <1>1, <1>2, <1>3, <1>4, <1>5, <1>6 DEF Next, EnvironmentStep

LEMMA InvHolds == Spec => []Inv
BY InitInv, StepKeepsInv, PTL DEF Spec

\* Every variable of the camera-2 process keeps its type and its event queue the
\* capacity, under any triggers, messages, faults and restarts.
THEOREM Camera2TypeCorrect == Spec => []TypeOK
<1>1. Inv => TypeOK
  BY DEF Inv
<1> QED BY <1>1, InvHolds, PTL

\* The camera-2 loop is driven by exactly one Restart: the handlers of gs_fsm.cpp
\* that queue one do so only when none is queued, so none is left over to be
\* popped while an arm message is awaited.
THEOREM OneRestartAlways == Spec => []OneRestart
<1>1. Inv => OneRestart
  BY DEF Inv, RestartInv, OneRestart, Restarts, AtMostOneRestart, HasRestart
<1> QED BY <1>1, InvHolds, PTL
=============================================================================
