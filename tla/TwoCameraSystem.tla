--------------------------- MODULE TwoCameraSystem ---------------------------
(***************************************************************************)
(* The two processes together.  They share nothing: camera 1 sends arm      *)
(* messages to camera 2 and camera 2 sends pictures back, over a broker     *)
(* that may lose them, and camera 1 triggers camera 2's shutter over a wire *)
(* that camera 2 hears only while its camera runs.  No message is           *)
(* acknowledged; camera 1 pauses before it primes the camera and hopes.     *)
(*                                                                         *)
(* LaunchMonitorFsm knows of camera 2 only that it may answer each request  *)
(* once.  Here its `requests' are the arm messages still on their way, and  *)
(* the module shows that camera 2 is such an answerer.                      *)
(***************************************************************************)
EXTENDS LaunchMonitorFsm, FiniteSets

CONSTANTS
    InitialPulses,              \* kNumInitialCamera2PrimingPulses (12)
    kCameraRequiresFlushPulse,  \* the configuration constant of that name
    PauseSuffices,              \* camera 2 gets ready within the pause before the pulses
    Camera2Faults               \* camera 2's camera calls may fail or throw

ASSUME PulsesAssumption == InitialPulses \in Nat \ {0}
ASSUME SystemAssumption ==
    /\ kCameraRequiresFlushPulse \in BOOLEAN
    /\ PauseSuffices \in BOOLEAN
    /\ Camera2Faults \in BOOLEAN
    /\ ~Camera2SendsPreImage

VARIABLES
    wire,         \* the triggers camera 1's FSM thread is busy sending
    answered,     \* shots whose picture has reached camera 1
    c2state, c2pc, c2queue, c2running,
    serving, flight, firstTrigger, lastTrigger, image, sent

C2 == INSTANCE Camera2Fsm WITH
    state <- c2state, pc <- c2pc, queue <- c2queue, running <- c2running,
    CameraFaults <- Camera2Faults

c2vars == <<c2state, c2pc, c2queue, c2running, serving, flight, firstTrigger,
            lastTrigger, image, sent>>
systemVars == <<vars, wire, answered, c2vars>>

Pulse(k, s) == [kind |-> k, shot |-> s]

\* A mutant: one train of pulses, with no pause before the last.
PrimingPulsesShort(s) == [i \in 1..InitialPulses |-> Pulse("initial", s)]

\* SendCameraPrimingPulses.
PrimingPulses(s) ==
    [i \in 1..InitialPulses |-> Pulse("initial", s)]
        \o <<Pulse("last", s)>>
        \o (IF kUsePreImageSubtraction
            THEN <<Pulse("preImage", s), Pulse("preFlush", s)>> ELSE <<>>)

\* SendExternalTrigger.
HitPulses(s) ==
    <<Pulse("strobe", s)>>
        \o (IF kCameraRequiresFlushPulse THEN <<Pulse("flush", s)>> ELSE <<>>)

----------------------------------------------------------------------------
(* Camera 1.  Its FSM thread sends the pulses itself, inside the handler    *)
(* that arms a shot and inside the watch that sees the hit.                 *)

Camera1Step ==
    /\ wire = <<>>
    /\ FsmStep \/ WatchStep
    /\ wire' = CASE shot' # shot -> PrimingPulses(shot')
                 [] hits' # hits -> HitPulses(shot)
                 [] OTHER -> <<>>
    /\ UNCHANGED <<answered, c2vars>>

Camera1Timer(t) ==
    /\ TimerStep(t)
    /\ UNCHANGED <<wire, answered, c2vars>>

Camera1Environment ==
    /\ Signal \/ \E t \in ControlTypes \cup {"Exit"} : IpcMessage(t)
    /\ UNCHANGED <<wire, answered, c2vars>>

\* Camera 2 can go no further by itself.
Camera2Settled ==
    \/ c2pc \in {"exposing", "camera1", "stopped"}
    \/ c2pc \in {"loop", "dequeue"} /\ c2queue = <<>>
    \/ c2pc = "push" /\ Len(c2queue) = kMaxQueueSize

\* The next trigger goes out.  Before the first one camera 1 pauses.
SendPulse ==
    /\ wire # <<>>
    /\ PauseSuffices /\ wire = PrimingPulses(shot) => Camera2Settled
    /\ wire' = Tail(wire)
    /\ C2!Trigger(Head(wire))
    /\ UNCHANGED <<vars, answered>>

----------------------------------------------------------------------------
(* The broker.  Messages of one sender stay in order; one that is overtaken *)
(* has been lost.                                                          *)

\* Camera 2's consumer thread dispatches an arm message.
ArmDelivered(r) ==
    /\ r \in requests
    /\ c2pc # "stopped"
    /\ PauseSuffices => wire = PrimingPulses(r[2])
    /\ requests' = {q \in requests : q[2] > r[2]}
    /\ C2!ArmMessage(r[2])
    /\ UNCHANGED <<fsmVars, queue, running, timer, alreadySent, uiStatus, club,
                   shotVars, ipcSent, wire, answered>>

\* A mutant: a picture may be delivered again.
PictureDeliveredAgain(p) ==
    /\ \A s \in answered : s <= p.shot
    /\ HasRoom
    /\ queue' = Append(queue, [type |-> "Camera2ImageReceived", shot |-> p.shot])
    /\ answered' = answered \cup {p.shot}
    /\ UNCHANGED <<fsmVars, running, timer, alreadySent, uiStatus, club,
                   requests, shotVars, ipcSent, wire, c2vars>>

\* Camera 1's consumer thread dispatches a picture.
PictureDelivered(p) ==
    /\ \A s \in answered : s < p.shot
    /\ HasRoom
    /\ queue' = Append(queue, [type |-> "Camera2ImageReceived", shot |-> p.shot])
    /\ answered' = answered \cup {p.shot}
    /\ UNCHANGED <<fsmVars, running, timer, alreadySent, uiStatus, club,
                   requests, shotVars, ipcSent, wire, c2vars>>

----------------------------------------------------------------------------
(* Camera 2.                                                               *)

Camera2Step == C2!FsmStep /\ UNCHANGED <<vars, wire, answered>>

Camera2Environment ==
    /\ C2!CameraFails \/ C2!StartProcess
    /\ UNCHANGED <<vars, wire, answered>>

----------------------------------------------------------------------------
SystemInit ==
    /\ Init
    /\ C2!Init
    /\ wire = <<>>
    /\ answered = {}

SystemNext ==
    \/ Camera1Step
    \/ \E t \in Timers : Camera1Timer(t)
    \/ Camera1Environment
    \/ SendPulse
    \/ \E r \in requests : ArmDelivered(r)
    \/ \E p \in sent : PictureDelivered(p)
    \/ Camera2Step
    \/ Camera2Environment

SystemSpec == SystemInit /\ [][SystemNext]_systemVars

\* Both FSM threads run and camera 1's goes on sending a train it has begun;
\* the broker, the golfer and the operator promise nothing.
SystemFairness ==
    /\ WF_systemVars(Camera1Step)
    /\ WF_systemVars(SendPulse)
    /\ WF_systemVars(Camera2Step)

FairSystemSpec == SystemSpec /\ SystemFairness

----------------------------------------------------------------------------
(* Properties.                                                             *)

\* The types of both processes and of what is between them.
SystemTypeOK ==
    /\ TypeOK
    /\ C2!TypeOK
    /\ wire \in Seq(C2!Triggers)
    /\ answered \subseteq Shots

\* The composition behaves as camera 1 assumes: whatever is lost, late or
\* restarted, each arm request is answered by at most one picture.
LM == INSTANCE LaunchMonitorFsm WITH
    requests <- {"Camera2ImageReceived"} \X (1..shot \ answered)

ImplementsLaunchMonitor == LM!Spec

\* A picture that answers a shot whose ball was hit shows the strobes of that
\* hit, and not a priming pulse or another shot: the triggers camera 2 counts
\* stay matched to those camera 1 sends, as long as the pause suffices.
PictureOfTheHit ==
    \A p \in sent : p.shot \in hits =>
        p.image \in {C2!NoTrigger, Pulse("strobe", p.shot)}

\* A camera 2 that is armed for a shot lets go of it once the ball is hit: the
\* triggers of one shot are enough to bring its loop to an end.
CameraReleased ==
    \A s \in Shots : (serving = s /\ s \in hits) ~> serving # s
=============================================================================
