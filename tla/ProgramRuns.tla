---------------------------- MODULE ProgramRuns ----------------------------
(***************************************************************************)
(* Runs of the program pitrac_lm, one after another and at the same time,  *)
(* on the two Pis of a launch monitor: what each opens, in which order and *)
(* for which command line (PerformSystemStartupTasks), what it uses at its *)
(* work (run_main), and what it closes.  What lasts is the trigger of each *)
(* Pi's sensor, which scripts set and no program sets back; the pin of the *)
(* strobe is one program's at a time; and all meet at one message broker.  *)
(***************************************************************************)
EXTENDS Naturals

CONSTANTS
  Programs,    \* processes, each of which may run command after command
  Pis,
  Commands,    \* command lines: [kind, mode, single, pi]
  MaxStarts,   \* bound on the runs
  None

VARIABLES
  command,   \* the command line of a running process, or None
  stage,     \* where the main thread of a process is
  ipc,       \* its consumer_ and producer_ exist
  gpio,      \* it holds the pin of the strobe
  running,   \* PiTrac_running_
  told,      \* an Exit event is in its queue
  alone,     \* no camera of its Pi was started up since its own was
  trigger,   \* how the sensor of each Pi is triggered
  starts     \* number of runs so far

process == <<command, stage, ipc, gpio, running, told>>
vars == <<process, alone, trigger, starts>>

-----------------------------------------------------------------------------
(* What the command line decides. *)

IsCamera1(c) ==
  c.mode \in {"Camera1", "Camera1TestStandalone", "Test", "Camera1Calibrate",
              "Camera1AutoCalibrate", "Camera1BallLocation"}

\* A mutant of the next: "this is system 1, regardless of which camera" is left out.
SystemIdByCamera(c) ==
  IF IsCamera1(c) \/ c.mode \in {"Camera2AutoCalibrate", "Camera2BallLocation"}
    THEN "LM_1" ELSE "LM_2"

SystemID(c) ==
  IF \/ IsCamera1(c)
     \/ c.kind = "still"
     \/ c.mode \in {"Camera2AutoCalibrate", "Camera2BallLocation"}
    THEN "LM_1" ELSE "LM_2"

Calibrates(c) == c.kind = "run" /\ c.mode \in {"Camera1Calibrate", "Camera2Calibrate"}

OpensStrobe(c) ==
  \/ c.kind = "still"
  \/ c.mode \in {"Camera1", "Camera1TestStandalone", "Camera1AutoCalibrate",
                 "Camera2AutoCalibrate", "Camera1BallLocation", "Camera2BallLocation"}

FirstStage(c) ==
  CASE c.kind = "pulse" -> "gpio" [] Calibrates(c) -> "ipc" [] OTHER -> "camera"

\* Which camera a single picture is of: another list of modes than IsCamera1.
PictureOf(c) ==
  IF \/ c.mode \in {"Camera1", "Camera1BallLocation"}
     \/ c.kind = "run" /\ c.mode = "Camera1AutoCalibrate"
    THEN "picture" ELSE "request"

WorkOfMode(c) ==
  CASE c.mode \in {"Camera1Calibrate", "Camera2Calibrate"} -> "picture"
    [] c.mode \in {"Camera1", "Camera1TestStandalone"} -> "monitor"
    [] c.mode \in {"Camera2", "Camera2TestStandalone", "RunCam2ProcessForPi1Processing"} -> "camera2"
    [] c.mode = "Test" -> "exit"
    [] OTHER -> PictureOf(c)

Work(c) ==
  CASE c.kind = "shutdown" -> "send"
    [] c.kind = "results" -> "arm"
    [] c.kind = "still" -> PictureOf(c)
    [] c.kind = "pulse" -> "pulse"
    [] c.kind = "run" -> WorkOfMode(c)

RunsFsm(c) == c.kind = "run" /\ Work(c) \in {"monitor", "camera2"}

-----------------------------------------------------------------------------
Init ==
  /\ command = [p \in Programs |-> None]
  /\ stage = [p \in Programs |-> "idle"]
  /\ ipc = [p \in Programs |-> FALSE]
  /\ gpio = [p \in Programs |-> FALSE]
  /\ running = [p \in Programs |-> FALSE]
  /\ told = [p \in Programs |-> FALSE]
  /\ alone = [p \in Programs |-> FALSE]
  /\ trigger = [i \in Pis |-> "internal"]
  /\ starts = 0

Goto(p, to) == stage' = [stage EXCEPT ![p] = to]

\* A process that ends loses all it held, whether it closed it or not.
Ends(p) ==
  /\ Goto(p, "idle")
  /\ command' = [command EXCEPT ![p] = None]
  /\ ipc' = [ipc EXCEPT ![p] = FALSE]
  /\ gpio' = [gpio EXCEPT ![p] = FALSE]
  /\ running' = [running EXCEPT ![p] = FALSE]
  /\ told' = [told EXCEPT ![p] = FALSE]
  /\ UNCHANGED <<trigger, starts>>

\* main, up to run_main: a command line or a configuration it cannot read ends it.
Start(p, c) ==
  /\ command[p] = None /\ starts < MaxStarts
  /\ starts' = starts + 1
  /\ command' = [command EXCEPT ![p] = c]
  /\ running' = [running EXCEPT ![p] = TRUE]
  /\ Goto(p, FirstStage(c))
  /\ UNCHANGED <<ipc, gpio, told, alone, trigger>>

-----------------------------------------------------------------------------
(* PerformSystemStartupTasks: each step may fail, and then the process ends.  *)

Triggers(c) ==
  IF c.single THEN "unchanged"
  ELSE CASE c.mode \in {"Camera1", "Camera1TestStandalone", "TestSpin"} -> "internal"
         [] c.mode \in {"Camera2", "Camera2TestStandalone"} -> "external"
         [] OTHER -> "unchanged"

\* The script sets the trigger, or fails and leaves it.
CameraStartedUp(p, t) ==
  /\ trigger' = IF t = "unchanged" THEN trigger ELSE [trigger EXCEPT ![command[p].pi] = t]
  /\ Goto(p, "ipc")
  /\ UNCHANGED <<command, ipc, gpio, running, told, starts>>

SamePi(p, q) == command[q] # None /\ command[q].pi = command[p].pi

StartsUpCamera(p) ==
  /\ stage[p] = "camera"
  /\ alone' = [q \in Programs |-> q = p \/ (alone[q] /\ ~SamePi(p, q))]

\* A mutant of the next: the result of the script is not looked at.
PerformCameraSystemStartupUnchecked(p) ==
  /\ StartsUpCamera(p)
  /\ CameraStartedUp(p, Triggers(command[p])) \/ CameraStartedUp(p, "unchanged")

PerformCameraSystemStartup(p) ==
  /\ StartsUpCamera(p)
  /\ \/ CameraStartedUp(p, Triggers(command[p]))
     \/ Triggers(command[p]) # "unchanged" /\ Ends(p)

\* A consumer without a producer is as good as none: the process ends.
InitializeIPCSystem(p) ==
  /\ stage[p] = "ipc"
  /\ \/ /\ ipc' = [ipc EXCEPT ![p] = TRUE]
        /\ Goto(p, IF Calibrates(command[p]) THEN Work(command[p]) ELSE "gpio")
        /\ UNCHANGED <<command, gpio, running, told, trigger, starts>>
     \/ Ends(p)
  /\ UNCHANGED alone

\* The pin is refused while another process of this Pi holds it.
PinIsFree(p) ==
  \A q \in Programs \ {p} : ~(gpio[q] /\ SamePi(p, q))

InitGPIO(p) ==
  LET needed == command[p].kind = "pulse" \/ OpensStrobe(command[p])
      next == IF command[p].kind = "pulse" THEN "pulse" ELSE "sims"
  IN  /\ stage[p] = "gpio"
      /\ \/ /\ needed => PinIsFree(p)
            /\ gpio' = [gpio EXCEPT ![p] = needed]
            /\ Goto(p, next)
            /\ UNCHANGED <<command, ipc, running, told, trigger, starts>>
         \/ needed /\ Ends(p)
      /\ UNCHANGED alone

InitializeSims(p) ==
  /\ stage[p] = "sims"
  /\ \/ Goto(p, Work(command[p])) /\ UNCHANGED <<command, ipc, gpio, running, told, trigger, starts>>
     \/ IsCamera1(command[p]) /\ Ends(p)
  /\ UNCHANGED alone

-----------------------------------------------------------------------------
(* run_main *)

Only(p, to) ==
  Goto(p, to) /\ UNCHANGED <<command, ipc, gpio, running, told, alone, trigger, starts>>

\* "Avoid getting our own messages reflected back": a message of one's own system.
Hears(q, p) == ipc[q] /\ SystemID(command[q]) # SystemID(command[p])

SendShutdown(p) ==
  /\ stage[p] = "send"
  /\ told' = [q \in Programs |-> told[q] \/ Hears(q, p)]
  /\ Goto(p, "close")
  /\ UNCHANGED <<command, ipc, gpio, running, alone, trigger, starts>>

\* Shots that could not be read are not sent, and nothing is closed either; each
\* other waits until all simulators are armed.
InjectShots(p) ==
  /\ stage[p] = "arm"
  /\ \/ Ends(p) /\ UNCHANGED alone
     \/ Only(p, "close")

\* What follows a picture, taken or not.  The loops of ball location and of the
\* pulse test wait for a signal that is handled, and none is: they go on for ever.
AfterPicture(c) ==
  CASE c.kind = "still" -> {"close"}
    [] c.kind = "pulse" -> {"pulse"}
    [] RunsFsm(c) -> {"monitor"}
    [] Calibrates(c) -> {"picture", "close"}
    [] c.kind = "run" /\ c.mode \in {"Camera1AutoCalibrate", "Camera2AutoCalibrate"} ->
         {PictureOf(c), "exit"}
    [] c.kind = "run" /\ c.mode \in {"Camera1BallLocation", "Camera2BallLocation"} ->
         {PictureOf(c)}

GoesOn(p) == \E s \in AfterPicture(command[p]) : Only(p, s)

TakeRawPicture(p) == stage[p] = "picture" /\ GoesOn(p)

\* still_image_event_loop waits for a frame; a sensor that waits for a trigger
\* delivers none, and nothing but another failure ends the wait.
FrameArrives(p) ==
  stage[p] = "picture" /\ trigger[command[p].pi] = "internal" /\ TakeRawPicture(p)

\* A picture of camera 2: its program is asked, the strobe is primed and fired.
RequestPicture(p) == stage[p] = "request" /\ Only(p, "pulse")

Strobe(p) == stage[p] = "pulse" /\ GoesOn(p)

\* A mutant: the program at camera 1 works off its events and never looks for Exit.
MonitorOnRunning(p) ==
  /\ stage[p] = "monitor"
  /\ \/ ~running[p] /\ Only(p, "close")
     \/ running[p] /\ (Only(p, "picture") \/ Only(p, "watching"))

\* RunGolfSimFsm at camera 1: it ends for a signal or an Exit event.  Events that were
\* queued before the Exit have their turn first: a picture, or the watch of a ball.
Monitor(p) ==
  /\ stage[p] = "monitor"
  /\ \/ (~running[p] \/ told[p]) /\ Only(p, "close")
     \/ running[p] /\ (Only(p, "picture") \/ Only(p, "watching"))

\* WatchForHitAndTrigger returns for a hit or a fault of its camera.  It never looks at
\* the queue, so an Exit that waits there does not end it.
WatchReturns(p) == stage[p] = "watching" /\ Only(p, "monitor")

\* The loop of the watcher looks at PiTrac_running_ before each frame it waits for.
WatchIsStopped(p) ==
  /\ stage[p] = "watching" /\ ~running[p] /\ trigger[command[p].pi] = "internal"
  /\ WatchReturns(p)

Camera2Ends(p) == stage[p] = "camera2" /\ (~running[p] \/ told[p]) /\ Only(p, "close")

\* PerformSystemShutdownTasks or ShutdownIPCSystem, and the end of main.
Close(p) == stage[p] = "close" /\ Ends(p) /\ UNCHANGED alone
EndWithoutClosing(p) == stage[p] = "exit" /\ Ends(p) /\ UNCHANGED alone

\* SIGINT: default_signal_handler, where it was installed, and else the end.
Signal(p) ==
  /\ command[p] # None
  /\ IF RunsFsm(command[p])
       THEN /\ running' = [running EXCEPT ![p] = FALSE]
            /\ UNCHANGED <<command, stage, ipc, gpio, told, trigger, starts>>
       ELSE Ends(p)
  /\ UNCHANGED alone

Step(p) ==
  \/ PerformCameraSystemStartup(p) \/ InitializeIPCSystem(p) \/ InitGPIO(p)
  \/ InitializeSims(p) \/ SendShutdown(p) \/ InjectShots(p) \/ TakeRawPicture(p)
  \/ RequestPicture(p) \/ Strobe(p) \/ Monitor(p) \/ WatchReturns(p) \/ Camera2Ends(p)
  \/ Close(p) \/ EndWithoutClosing(p)

Next ==
  \E p \in Programs : Step(p) \/ Signal(p) \/ \E c \in Commands : Start(p, c)

\* The events of a queue are worked off in their order: Exit has its turn.
Exits(p) == Monitor(p) /\ stage'[p] = "close"

\* That the golfer hits is not among it.
Fairness ==
  \A p \in Programs :
     /\ WF_vars(FrameArrives(p)) /\ WF_vars(WatchIsStopped(p))
     /\ SF_vars(Exits(p)) /\ WF_vars(Close(p))

Spec == Init /\ [][Next]_vars /\ Fairness

-----------------------------------------------------------------------------
\* "Setup the Pi Camera to be internally or externally triggered as appropriate": the
\* launch monitor watches with a sensor that runs free, whatever ran before it, until
\* another program of its Pi starts a camera up.
MonitorRunsFree ==
  \A p \in Programs :
     (/\ stage[p] \in {"monitor", "picture", "watching"} /\ alone[p]
      /\ RunsFsm(command[p]) /\ ~command[p].single)
       => trigger[command[p].pi] = "internal"

\* Whoever asks for a picture of camera 2 is heard by the program at camera 2 and
\* hears its answer: none of the two takes the other for itself.
RequestsAreHeard ==
  \A p, q \in Programs :
     (stage[p] \in {"request", "monitor"} /\ stage[q] = "camera2") => Hears(q, p) /\ Hears(p, q)

\* A launch monitor that was told to shut down ends, unless it comes to wait for good:
\* for a picture of a sensor that another program has left waiting for a trigger, or for
\* a golfer who does not hit the ball.
AwaitsTrigger(p) ==
  stage[p] \in {"picture", "watching"} /\ trigger[command[p].pi] = "external"
AwaitsHit(p) == stage[p] = "watching" /\ running[p]

ToldMonitorsEnd ==
  \A p \in Programs :
     (told[p] /\ stage[p] \in {"monitor", "picture", "watching"} /\ RunsFsm(command[p]))
       ~> (command[p] = None \/ [](AwaitsTrigger(p) \/ AwaitsHit(p)))
=============================================================================
