--------------------------- MODULE Programs_proofs ---------------------------
(* Theorems about the runs of the program, for every set of command lines,   *)
(* processes and Pis and any number of runs.  No fairness is used.           *)
EXTENDS MC_Programs, TLAPS

Stages ==
  {"idle", "camera", "ipc", "gpio", "sims", "send", "arm", "picture", "request", "pulse",
   "monitor", "watching", "camera2", "exit", "close"}

\* Startup is over.
AtWork == Stages \ {"idle", "camera", "ipc"}

\* What a process may be at, by its command line.
OnPath(c, s) ==
  /\ s = "picture" => Runs!Work(c) \in {"picture", "monitor"}
  /\ s = "pulse" => Runs!Work(c) \in {"pulse", "request"}
  /\ s \in {"request", "monitor", "camera2"} => Runs!Work(c) = s
  /\ s = "watching" => Runs!Work(c) = "monitor"

\* A launch monitor that watches camera 1 with both Pis.
Watches(c) == Runs!Work(c) = "monitor" /\ ~c.single

RunType ==
  /\ command \in [Programs -> Commands \cup {None}]
  /\ stage \in [Programs -> Stages]
  /\ ipc \in [Programs -> BOOLEAN] /\ alone \in [Programs -> BOOLEAN]
  /\ trigger \in [Pis -> {"internal", "external"}]

\* A process at its work is on the path of its command line and has its messages,
\* and from the startup of its camera on, a sensor that nobody else has touched is
\* still triggered as the launch monitor set it.
Placed(p) ==
  stage[p] # "idle" =>
    /\ command[p] \in Commands
    /\ OnPath(command[p], stage[p])
    /\ stage[p] \in AtWork => ipc[p] \/ command[p].kind = "pulse"
    /\ (alone[p] /\ stage[p] # "camera" /\ Watches(command[p]))
         => trigger[command[p].pi] = "internal"

RunInv == RunType /\ \A p \in Programs : Placed(p)

-----------------------------------------------------------------------------
(* What the tables of command lines amount to.                               *)

LEMMA CommandParts ==
    ASSUME NEW c \in Commands
    PROVE  /\ c.kind \in {"run", "still", "pulse", "shutdown", "results"}
           /\ c.mode \in {"Camera1", "Camera1TestStandalone", "Test", "Camera1Calibrate",
                "Camera1AutoCalibrate", "Camera1BallLocation", "Camera2",
                "Camera2TestStandalone", "Camera2Calibrate", "Camera2AutoCalibrate",
                "Camera2BallLocation", "RunCam2ProcessForPi1Processing"}
           /\ c.pi \in Pis
BY CommandsAssumption

LEMMA PictureTable ==
    ASSUME NEW c \in Commands
    PROVE  /\ Runs!PictureOf(c) \in {"picture", "request"}
           /\ (c.kind = "run" /\ Runs!PictureOf(c) = "request") =>
                 c.mode \notin {"Camera1AutoCalibrate", "Camera1BallLocation"}
BY DEF Runs!PictureOf

\* The work of a command line, row by row.
LEMMA WorkTable ==
    ASSUME NEW c \in Commands
    PROVE  \/ c.kind = "shutdown" /\ Runs!Work(c) = "send"
           \/ c.kind = "results" /\ Runs!Work(c) = "arm"
           \/ c.kind = "still" /\ Runs!Work(c) = Runs!PictureOf(c)
           \/ c.kind = "pulse" /\ Runs!Work(c) = "pulse"
           \/ c.kind = "run" /\ Runs!Calibrates(c) /\ Runs!Work(c) = "picture"
           \/ /\ c.kind = "run" /\ c.mode \in {"Camera1", "Camera1TestStandalone"}
              /\ Runs!Work(c) = "monitor"
           \/ /\ c.kind = "run" /\ Runs!Work(c) = "camera2"
              /\ c.mode \in {"Camera2", "Camera2TestStandalone", "RunCam2ProcessForPi1Processing"}
           \/ c.kind = "run" /\ c.mode = "Test" /\ Runs!Work(c) = "exit"
           \/ /\ c.kind = "run" /\ Runs!Work(c) = Runs!PictureOf(c)
              /\ c.mode \in {"Camera1AutoCalibrate", "Camera2AutoCalibrate",
                             "Camera1BallLocation", "Camera2BallLocation"}
<1> USE DEF Runs!Work, Runs!WorkOfMode
<1>1. CASE c.kind = "shutdown"
  BY <1>1
<1>2. CASE c.kind = "results"
  BY <1>2
<1>3. CASE c.kind = "still"
  BY <1>3
<1>4. CASE c.kind = "pulse"
  BY <1>4
<1>5. CASE c.kind = "run"
  <2>1. Runs!Work(c) = Runs!WorkOfMode(c)
    BY <1>5
  <2>2. CASE c.mode \in {"Camera1Calibrate", "Camera2Calibrate"}
    BY <1>5, <2>1, <2>2 DEF Runs!Calibrates
  <2>3. CASE c.mode \in {"Camera1", "Camera1TestStandalone"}
    BY <1>5, <2>1, <2>3
  <2>4. CASE c.mode \in {"Camera2", "Camera2TestStandalone", "RunCam2ProcessForPi1Processing"}
    BY <1>5, <2>1, <2>4
  <2>5. CASE c.mode = "Test"
    BY <1>5, <2>1, <2>5
  <2>6. CASE c.mode \in {"Camera1AutoCalibrate", "Camera2AutoCalibrate",
                         "Camera1BallLocation", "Camera2BallLocation"}
    BY <1>5, <2>1, <2>6
  <2> QED
    BY <2>2, <2>3, <2>4, <2>5, <2>6, CommandParts
<1> QED
  BY <1>1, <1>2, <1>3, <1>4, <1>5, CommandParts

\* Only the pulse test skips the camera and the messages, and only a calibration
\* the camera alone; a watching launch monitor starts its camera up.
LEMMA Beginnings ==
    ASSUME NEW c \in Commands
    PROVE  /\ Runs!FirstStage(c) \in {"gpio", "ipc", "camera"}
           /\ Runs!FirstStage(c) = "gpio" => c.kind = "pulse"
           /\ Watches(c) => Runs!FirstStage(c) = "camera" /\ Runs!Triggers(c) = "internal"
           /\ Runs!Triggers(c) \in {"unchanged", "internal", "external"}
<1>1. /\ Runs!FirstStage(c) \in {"gpio", "ipc", "camera"}
      /\ Runs!FirstStage(c) = "gpio" => c.kind = "pulse"
  BY DEF Runs!FirstStage, Runs!Calibrates
<1>2. Runs!Triggers(c) \in {"unchanged", "internal", "external"}
  BY DEF Runs!Triggers
<1>3. ASSUME Watches(c) PROVE Runs!FirstStage(c) = "camera" /\ Runs!Triggers(c) = "internal"
  <2>1. c.kind = "run" /\ c.mode \in {"Camera1", "Camera1TestStandalone"} /\ ~c.single
    BY <1>3, WorkTable, PictureTable DEF Watches
  <2>2. Runs!FirstStage(c) = "camera"
    BY <2>1 DEF Runs!FirstStage, Runs!Calibrates
  <2>3. Runs!Triggers(c) = "internal"
    BY <2>1 DEF Runs!Triggers
  <2> QED
    BY <2>2, <2>3
<1> QED
  BY <1>1, <1>2, <1>3

LEMMA WorkIsOnPath ==
    ASSUME NEW c \in Commands
    PROVE  /\ Runs!Work(c) \in AtWork /\ OnPath(c, Runs!Work(c))
           /\ c.kind = "pulse" => Runs!Work(c) = "pulse"
BY WorkTable, PictureTable DEF AtWork, Stages, OnPath

LEMMA AfterPictureIsOnPath ==
    ASSUME NEW c \in Commands, NEW s \in {"picture", "pulse"}, OnPath(c, s),
           NEW t \in Runs!AfterPicture(c)
    PROVE  t \in AtWork /\ OnPath(c, t)
<1> USE DEF AtWork, Stages, OnPath
<1>1. CASE c.kind = "still"
  <2>1. Runs!AfterPicture(c) = {"close"}
    BY <1>1 DEF Runs!AfterPicture, Runs!RunsFsm, Runs!Calibrates
  <2> QED
    BY <2>1
<1>2. CASE c.kind = "pulse"
  <2>1. Runs!AfterPicture(c) = {"pulse"}
    BY <1>2 DEF Runs!AfterPicture, Runs!RunsFsm, Runs!Calibrates
  <2> QED
    BY <1>2, <2>1, WorkTable
<1>3. CASE c.kind = "run" /\ Runs!Work(c) \in {"monitor", "camera2"}
  <2>1. Runs!RunsFsm(c) /\ ~Runs!Calibrates(c)
        /\ c.mode \notin {"Camera1AutoCalibrate", "Camera2AutoCalibrate",
                          "Camera1BallLocation", "Camera2BallLocation"}
    BY <1>3, WorkTable, PictureTable DEF Runs!RunsFsm, Runs!Calibrates
  <2>2. Runs!AfterPicture(c) = {"monitor"}
    BY <1>3, <2>1 DEF Runs!AfterPicture
  <2> QED
    BY <1>3, <2>2
<1>4. CASE c.kind = "run" /\ Runs!Calibrates(c)
  <2>1. Runs!Work(c) = "picture" /\ ~Runs!RunsFsm(c)
    BY <1>4, WorkTable DEF Runs!RunsFsm, Runs!Calibrates
  <2>2. Runs!AfterPicture(c) = {"picture", "close"}
    BY <1>4, <2>1 DEF Runs!AfterPicture, Runs!Calibrates
  <2> QED
    BY <2>1, <2>2
<1>5. CASE /\ c.kind = "run" /\ Runs!Work(c) = Runs!PictureOf(c)
           /\ c.mode \in {"Camera1AutoCalibrate", "Camera2AutoCalibrate",
                          "Camera1BallLocation", "Camera2BallLocation"}
  <2>1. ~Runs!RunsFsm(c) /\ ~Runs!Calibrates(c)
    BY <1>5, PictureTable DEF Runs!RunsFsm, Runs!Calibrates
  <2>2. \/ Runs!AfterPicture(c) = {Runs!PictureOf(c), "exit"}
        \/ Runs!AfterPicture(c) = {Runs!PictureOf(c)}
    BY <1>5, <2>1 DEF Runs!AfterPicture
  <2> QED
    BY <1>5, <2>2, PictureTable
<1> QED
  BY <1>1, <1>2, <1>3, <1>4, <1>5, WorkTable

\* Whoever asks for pictures of camera 2 is of another system than who serves them.
LEMMA Systems ==
    ASSUME NEW c \in Commands
    PROVE  /\ Runs!Work(c) \in {"request", "monitor"} =>
                Runs!SystemID(c) = "LM_1" /\ c.kind # "pulse"
           /\ Runs!Work(c) = "camera2" => Runs!SystemID(c) = "LM_2" /\ c.kind # "pulse"
<1>1. Runs!Work(c) \in {"request", "monitor"} =>
         \/ c.kind = "still"
         \/ c.kind = "run" /\ c.mode \in {"Camera1", "Camera1TestStandalone",
                                          "Camera2AutoCalibrate", "Camera2BallLocation"}
  BY WorkTable, PictureTable
<1>2. Runs!Work(c) = "camera2" =>
         /\ c.kind = "run"
         /\ c.mode \in {"Camera2", "Camera2TestStandalone", "RunCam2ProcessForPi1Processing"}
  BY WorkTable, PictureTable
<1>3. Runs!Work(c) \in {"request", "monitor"} => Runs!SystemID(c) = "LM_1"
  BY <1>1 DEF Runs!SystemID, Runs!IsCamera1
<1>4. Runs!Work(c) = "camera2" => Runs!SystemID(c) = "LM_2"
  BY <1>2 DEF Runs!SystemID, Runs!IsCamera1
<1> QED
  BY <1>1, <1>2, <1>3, <1>4

-----------------------------------------------------------------------------
(* The steps.                                                                *)

\* A step of p touches the places of the others only through the triggers and alone.
LEMMA OthersStay ==
    ASSUME RunInv, NEW p \in Programs, NEW q \in Programs, q # p,
           command'[q] = command[q], stage'[q] = stage[q], ipc'[q] = ipc[q],
           alone'[q] => alone[q],
           (alone'[q] /\ command[q] \in Commands) =>
              trigger'[command[q].pi] = trigger[command[q].pi]
    PROVE  Placed(q)'
BY DEF RunInv, Placed

LEMMA EndsKeeps ==
    ASSUME RunInv, NEW p \in Programs, Runs!Ends(p), alone' \in [Programs -> BOOLEAN],
           \A q \in Programs \ {p} : alone'[q] => alone[q]
    PROVE  RunInv'
<1>1. /\ stage' = [stage EXCEPT ![p] = "idle"] /\ command' = [command EXCEPT ![p] = None]
      /\ ipc' = [ipc EXCEPT ![p] = FALSE] /\ UNCHANGED trigger
  BY DEF Runs!Ends, Runs!Goto
<1>2. RunType'
  BY <1>1 DEF RunInv, RunType, Stages
<1>3. ASSUME NEW q \in Programs PROVE Placed(q)'
  <2>1. CASE q = p
    BY <1>1, <2>1 DEF RunInv, RunType, Placed
  <2>2. CASE q # p
    BY <1>1, <2>2, OthersStay DEF RunInv, RunType
  <2> QED
    BY <2>1, <2>2
<1> QED
  BY <1>2, <1>3 DEF RunInv

\* A step of a process at its work that changes no more than its stage, its pin and
\* what others were told.
LEMMA MoveKeeps ==
    ASSUME RunInv, NEW p \in Programs, NEW to \in AtWork, stage[p] \in AtWork,
           OnPath(command[p], to), stage' = [stage EXCEPT ![p] = to],
           UNCHANGED <<command, ipc, alone, trigger>>
    PROVE  RunInv'
<1>1. RunType'
  BY DEF RunInv, RunType, AtWork
<1>2. ASSUME NEW q \in Programs PROVE Placed(q)'
  <2>1. CASE q = p
    <3>1. Placed(p) /\ stage[p] # "idle" /\ stage[p] # "camera" /\ stage'[p] = to
      BY DEF RunInv, RunType, AtWork
    <3> QED
      BY <2>1, <3>1 DEF Placed
  <2>2. CASE q # p
    BY <2>2, OthersStay DEF RunInv, RunType
  <2> QED
    BY <2>1, <2>2
<1> QED
  BY <1>1, <1>2 DEF RunInv

LEMMA StartKeeps ==
    ASSUME RunInv, NEW p \in Programs, NEW c \in Commands, Runs!Start(p, c)
    PROVE  RunInv'
<1>1. /\ stage' = [stage EXCEPT ![p] = Runs!FirstStage(c)]
      /\ command' = [command EXCEPT ![p] = c] /\ UNCHANGED <<ipc, alone, trigger>>
  BY DEF Runs!Start, Runs!Goto
<1>2. RunType'
  BY <1>1, Beginnings DEF RunInv, RunType, Stages
<1>3. ASSUME NEW q \in Programs PROVE Placed(q)'
  <2>1. CASE q = p
    <3>1. command'[p] = c /\ stage'[p] = Runs!FirstStage(c)
      BY <1>1 DEF RunInv, RunType
    <3>2. OnPath(c, Runs!FirstStage(c))
      BY Beginnings DEF OnPath
    <3>3. Runs!FirstStage(c) \in AtWork => c.kind = "pulse"
      BY Beginnings DEF AtWork
    <3>4. Watches(c) => Runs!FirstStage(c) = "camera"
      BY Beginnings
    <3> QED
      BY <2>1, <3>1, <3>2, <3>3, <3>4 DEF Placed
  <2>2. CASE q # p
    BY <1>1, <2>2, OthersStay DEF RunInv, RunType
  <2> QED
    BY <2>1, <2>2
<1> QED
  BY <1>2, <1>3 DEF RunInv

\* The camera that is started up takes its sensor from all that were there before.
LEMMA CameraKeeps ==
    ASSUME RunInv, NEW p \in Programs, Runs!PerformCameraSystemStartup(p)
    PROVE  RunInv'
<1> DEFINE c == command[p]
<1>1. /\ stage[p] = "camera" /\ c \in Commands
      /\ alone' = [q \in Programs |-> q = p \/ (alone[q] /\ ~Runs!SamePi(p, q))]
  BY DEF RunInv, Placed, Runs!PerformCameraSystemStartup, Runs!StartsUpCamera
<1>2. /\ alone' \in [Programs -> BOOLEAN]
      /\ \A q \in Programs \ {p} : alone'[q] => alone[q] /\ ~Runs!SamePi(p, q)
  BY <1>1 DEF RunInv, RunType
<1>3. CASE Runs!Ends(p)
  BY <1>2, <1>3, EndsKeeps
<1>4. CASE Runs!CameraStartedUp(p, Runs!Triggers(c))
  <2>1. /\ stage' = [stage EXCEPT ![p] = "ipc"] /\ UNCHANGED <<command, ipc>>
        /\ trigger' = IF Runs!Triggers(c) = "unchanged" THEN trigger
                      ELSE [trigger EXCEPT ![c.pi] = Runs!Triggers(c)]
    BY <1>4 DEF Runs!CameraStartedUp, Runs!Goto
  <2>2. c.pi \in Pis /\ Runs!Triggers(c) \in {"unchanged", "internal", "external"}
    BY <1>1, Beginnings, CommandParts
  <2>3. trigger' \in [Pis -> {"internal", "external"}]
    BY <2>1, <2>2 DEF RunInv, RunType
  <2>4. RunType'
    BY <1>2, <2>1, <2>3 DEF RunInv, RunType, Stages
  <2>5. ASSUME NEW q \in Programs PROVE Placed(q)'
    <3>1. CASE q = p
      <4>1. command'[p] = c /\ stage'[p] = "ipc"
        BY <2>1 DEF RunInv, RunType
      <4>2. Watches(c) => trigger'[c.pi] = "internal"
        <5>1. SUFFICES ASSUME Watches(c) PROVE trigger'[c.pi] = "internal"
          OBVIOUS
        <5>2. Runs!Triggers(c) = "internal"
          BY <1>1, <5>1, Beginnings
        <5> QED
          BY <2>1, <2>2, <5>2 DEF RunInv, RunType
      <4>3. OnPath(c, "ipc") /\ "ipc" \notin AtWork
        BY DEF OnPath, AtWork
      <4> QED
        BY <1>1, <3>1, <4>1, <4>2, <4>3 DEF Placed
    <3>2. CASE q # p
      <4>1. command'[q] = command[q] /\ stage'[q] = stage[q] /\ ipc'[q] = ipc[q]
        BY <2>1, <3>2 DEF RunInv, RunType
      <4>2. ASSUME alone'[q], command[q] \in Commands
            PROVE  trigger'[command[q].pi] = trigger[command[q].pi]
        <5>1. command[q].pi # c.pi
          BY <1>2, <3>2, <4>2, CommandsAssumption DEF Runs!SamePi
        <5>2. command[q].pi \in Pis
          BY <4>2, CommandParts
        <5> QED
          BY <2>1, <2>2, <5>1, <5>2 DEF RunInv, RunType
      <4> QED
        BY <1>2, <3>2, <4>1, <4>2, OthersStay
    <3> QED
      BY <3>1, <3>2
  <2> QED
    BY <2>4, <2>5 DEF RunInv
<1> QED
  BY <1>3, <1>4 DEF Runs!PerformCameraSystemStartup

LEMMA IpcKeeps ==
    ASSUME RunInv, NEW p \in Programs, Runs!InitializeIPCSystem(p)
    PROVE  RunInv'
<1> DEFINE c == command[p]
           to == IF Runs!Calibrates(c) THEN Runs!Work(c) ELSE "gpio"
<1>1. stage[p] = "ipc" /\ c \in Commands /\ UNCHANGED alone
  BY DEF RunInv, Placed, Runs!InitializeIPCSystem
<1>2. CASE Runs!Ends(p)
  BY <1>1, <1>2, EndsKeeps DEF RunInv, RunType
<1>3. CASE /\ ipc' = [ipc EXCEPT ![p] = TRUE] /\ Runs!Goto(p, to)
           /\ UNCHANGED <<command, gpio, active, told, trigger, starts>>
  <2>1. to \in AtWork /\ OnPath(c, to)
    BY <1>1, WorkIsOnPath DEF AtWork, Stages, OnPath
  <2> HIDE DEF to
  <2>2. stage' = [stage EXCEPT ![p] = to]
    BY <1>3 DEF Runs!Goto
  <2>3. RunType'
    BY <1>1, <1>3, <2>1, <2>2 DEF RunInv, RunType, AtWork
  <2>4. ASSUME NEW q \in Programs PROVE Placed(q)'
    <3>1. CASE q = p
      <4>1. stage'[p] = to /\ ipc'[p] /\ Placed(p)
        BY <1>3, <2>2 DEF RunInv, RunType
      <4> QED
        BY <1>1, <1>3, <2>1, <3>1, <4>1 DEF Placed
    <3>2. CASE q # p
      BY <1>1, <1>3, <2>2, <3>2, OthersStay DEF RunInv, RunType
    <3> QED
      BY <3>1, <3>2
  <2> QED
    BY <2>3, <2>4 DEF RunInv
<1> QED
  BY <1>2, <1>3 DEF Runs!InitializeIPCSystem

LEMMA GpioKeeps ==
    ASSUME RunInv, NEW p \in Programs, Runs!InitGPIO(p)
    PROVE  RunInv'
<1> DEFINE to == IF command[p].kind = "pulse" THEN "pulse" ELSE "sims"
<1>1. /\ stage[p] = "gpio" /\ command[p] \in Commands /\ UNCHANGED alone
      /\ Runs!Ends(p) \/ (Runs!Goto(p, to) /\ UNCHANGED <<command, ipc, trigger>>)
  BY DEF RunInv, Placed, Runs!InitGPIO
<1>2. CASE Runs!Ends(p)
  BY <1>1, <1>2, EndsKeeps DEF RunInv, RunType
<1>3. CASE Runs!Goto(p, to) /\ UNCHANGED <<command, ipc, trigger>>
  <2>1. to \in AtWork /\ OnPath(command[p], to)
    BY <1>1, WorkIsOnPath DEF AtWork, Stages, OnPath
  <2> HIDE DEF to
  <2> QED
    BY <1>1, <1>3, <2>1, MoveKeeps DEF Runs!Goto, AtWork, Stages
<1> QED
  BY <1>1, <1>2, <1>3

LEMMA SimsKeeps ==
    ASSUME RunInv, NEW p \in Programs, Runs!InitializeSims(p)
    PROVE  RunInv'
<1> DEFINE to == Runs!Work(command[p])
<1>1. /\ stage[p] = "sims" /\ command[p] \in Commands /\ UNCHANGED alone
      /\ Runs!Ends(p) \/ (Runs!Goto(p, to) /\ UNCHANGED <<command, ipc, trigger>>)
  BY DEF RunInv, Placed, Runs!InitializeSims
<1>2. CASE Runs!Ends(p)
  BY <1>1, <1>2, EndsKeeps DEF RunInv, RunType
<1>3. CASE Runs!Goto(p, to) /\ UNCHANGED <<command, ipc, trigger>>
  <2>1. to \in AtWork /\ OnPath(command[p], to)
    BY <1>1, WorkIsOnPath
  <2> HIDE DEF to
  <2> QED
    BY <1>1, <1>3, <2>1, MoveKeeps DEF Runs!Goto, AtWork, Stages
<1> QED
  BY <1>1, <1>2, <1>3

\* After a picture, or a flash for one, a process goes on along its path.
LEMMA GoesOnKeeps ==
    ASSUME RunInv, NEW p \in Programs, stage[p] \in {"picture", "pulse"}, Runs!GoesOn(p)
    PROVE  RunInv'
<1>1. command[p] \in Commands /\ OnPath(command[p], stage[p])
  BY DEF RunInv, Placed
<1>2. PICK t \in Runs!AfterPicture(command[p]) : Runs!Only(p, t)
  BY DEF Runs!GoesOn
<1>3. t \in AtWork /\ OnPath(command[p], t)
  BY <1>1, <1>2, AfterPictureIsOnPath
<1> QED
  BY <1>2, <1>3, MoveKeeps DEF Runs!Only, Runs!Goto, AtWork, Stages

LEMMA StepKeeps ==
    ASSUME RunInv, NEW p \in Programs, Runs!Step(p)
    PROVE  RunInv'
<1>a. ASSUME stage[p] \in AtWork, NEW to \in {"close", "picture", "pulse", "watching", "monitor"}, Runs!Only(p, to),
             OnPath(command[p], to)
      PROVE  RunInv'
  BY <1>a, MoveKeeps DEF Runs!Only, Runs!Goto, AtWork, Stages
<1>b. ASSUME Runs!Ends(p), UNCHANGED alone PROVE RunInv'
  BY <1>b, EndsKeeps DEF RunInv, RunType
<1>c. OnPath(command[p], "close")
  BY DEF OnPath
<1>1. CASE \/ Runs!PerformCameraSystemStartup(p) \/ Runs!InitializeIPCSystem(p)
           \/ Runs!InitGPIO(p) \/ Runs!InitializeSims(p)
  BY <1>1, CameraKeeps, IpcKeeps, GpioKeeps, SimsKeeps
<1>2. CASE Runs!SendShutdown(p)
  <2>1. /\ stage[p] = "send" /\ stage' = [stage EXCEPT ![p] = "close"]
        /\ UNCHANGED <<command, ipc, alone, trigger>>
    BY <1>2 DEF Runs!SendShutdown, Runs!Goto
  <2> QED
    BY <1>c, <2>1, MoveKeeps DEF AtWork, Stages
<1>3. CASE Runs!InjectShots(p)
  BY <1>3, <1>a, <1>b, <1>c DEF Runs!InjectShots, AtWork, Stages
<1>4. CASE Runs!TakeRawPicture(p) \/ Runs!Strobe(p)
  BY <1>4, GoesOnKeeps DEF Runs!TakeRawPicture, Runs!Strobe
<1>5. CASE Runs!RequestPicture(p)
  <2>1. stage[p] = "request" /\ Runs!Only(p, "pulse")
    BY <1>5 DEF Runs!RequestPicture
  <2>2. OnPath(command[p], "pulse")
    BY <2>1 DEF RunInv, Placed, OnPath
  <2> QED
    BY <1>a, <2>1, <2>2 DEF AtWork, Stages
<1>6. CASE Runs!Monitor(p)
  <2>1. /\ stage[p] = "monitor"
        /\ Runs!Only(p, "close") \/ Runs!Only(p, "picture") \/ Runs!Only(p, "watching")
    BY <1>6 DEF Runs!Monitor
  <2>2. OnPath(command[p], "picture") /\ OnPath(command[p], "watching")
    BY <2>1 DEF RunInv, Placed, OnPath
  <2> QED
    BY <1>a, <1>c, <2>1, <2>2 DEF AtWork, Stages
<1>7. CASE Runs!Camera2Ends(p)
  BY <1>7, <1>a, <1>c DEF Runs!Camera2Ends, AtWork, Stages
<1>8. CASE Runs!Close(p) \/ Runs!EndWithoutClosing(p)
  BY <1>8, <1>b DEF Runs!Close, Runs!EndWithoutClosing
<1>9. CASE Runs!WatchReturns(p)
  <2>1. stage[p] = "watching" /\ Runs!Only(p, "monitor")
    BY <1>9 DEF Runs!WatchReturns
  <2>2. OnPath(command[p], "monitor")
    BY <2>1 DEF RunInv, Placed, OnPath
  <2> QED
    BY <1>a, <2>1, <2>2 DEF AtWork, Stages
<1> QED
  BY <1>1, <1>2, <1>3, <1>4, <1>5, <1>6, <1>7, <1>8, <1>9 DEF Runs!Step

LEMMA SignalKeeps ==
    ASSUME RunInv, NEW p \in Programs, Runs!Signal(p)
    PROVE  RunInv'
<1>1. CASE Runs!Ends(p) /\ UNCHANGED alone
  BY <1>1, EndsKeeps DEF RunInv, RunType
<1>2. CASE UNCHANGED <<command, stage, ipc, alone, trigger>>
  BY <1>2 DEF RunInv, RunType, Placed
<1> QED
  BY <1>1, <1>2 DEF Runs!Signal

LEMMA RunInit == Runs!Init => RunInv
BY DEF Runs!Init, RunInv, RunType, Stages, Placed

LEMMA RunNext == RunInv /\ [ProgramsNext]_allVars => RunInv'
<1> SUFFICES ASSUME RunInv, [ProgramsNext]_allVars PROVE RunInv'
  OBVIOUS
<1>1. CASE Runs!Next
  BY <1>1, StepKeeps, SignalKeeps, StartKeeps DEF Runs!Next
<1>2. CASE UNCHANGED runVars
  BY <1>2 DEF runVars, RunInv, RunType, Placed
<1> QED
  BY <1>1, <1>2 DEF ProgramsNext, Camera2Step, RunStep, allVars

LEMMA RunsAreSafe == ProgramsSpec => []RunInv
BY RunInit, RunNext, PTL DEF ProgramsSpec, ProgramsInit

-----------------------------------------------------------------------------
\* The launch monitor watches with a sensor that runs free, whatever ran before it and
\* beside it, until another program of its Pi starts a camera up.
THEOREM MonitorsRunFree == ProgramsSpec => []MonitorRunsFree
<1>1. RunInv => MonitorRunsFree
  <2> SUFFICES ASSUME RunInv, NEW p \in Programs, stage[p] \in {"monitor", "picture", "watching"},
                      alone[p], Runs!RunsFsm(command[p]), ~command[p].single
               PROVE  trigger[command[p].pi] = "internal"
    BY DEF MonitorRunsFree, Runs!MonitorRunsFree
  <2>1. Runs!Work(command[p]) = "monitor"
    BY DEF RunInv, Placed, OnPath, Runs!RunsFsm
  <2> QED
    BY <2>1 DEF RunInv, Placed, Watches
<1> QED
  BY <1>1, RunsAreSafe, PTL

\* Whoever asks for a picture of camera 2 and its program hear each other, whichever
\* command lines the two run.
THEOREM PictureRequestsAreHeard == ProgramsSpec => []RequestsAreHeard
<1>1. RunInv => RequestsAreHeard
  <2> SUFFICES ASSUME RunInv, NEW p \in Programs, NEW q \in Programs,
                      stage[p] \in {"request", "monitor"}, stage[q] = "camera2"
               PROVE  Runs!Hears(q, p) /\ Runs!Hears(p, q)
    BY DEF RequestsAreHeard, Runs!RequestsAreHeard
  <2>1. /\ command[p] \in Commands /\ Runs!Work(command[p]) = stage[p]
        /\ ipc[p] \/ command[p].kind = "pulse"
    BY DEF RunInv, Placed, OnPath, AtWork, Stages
  <2>2. /\ command[q] \in Commands /\ Runs!Work(command[q]) = "camera2"
        /\ ipc[q] \/ command[q].kind = "pulse"
    BY DEF RunInv, Placed, OnPath, AtWork, Stages
  <2>3. Runs!SystemID(command[p]) = "LM_1" /\ ipc[p]
    BY <2>1, Systems
  <2>4. Runs!SystemID(command[q]) = "LM_2" /\ ipc[q]
    BY <2>2, Systems
  <2> QED
    BY <2>3, <2>4 DEF Runs!Hears
<1> QED
  BY <1>1, RunsAreSafe, PTL
=============================================================================
