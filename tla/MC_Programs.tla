----------------------------- MODULE MC_Programs -----------------------------
(***************************************************************************)
(* The program at camera 2 from within (Camera2Fsm), or all the programs   *)
(* of a launch monitor from without (ProgramRuns): a behaviour is one of   *)
(* either, and the other stays as it starts.                               *)
(***************************************************************************)
EXTENDS MC_Camera2Fsm

CONSTANTS Programs, Pis, Commands, MaxStarts, None  \* ProgramRuns

VARIABLES part, command, stage, ipc, gpio, active, told, alone, trigger, starts

\* The command lines of the scripts and of the options, for camera 1 on Pi 1 and camera
\* 2 on Pi 2; the program that serves pictures of camera 2 may be on Pi 1 as well.
CommandLine(kind, of, pi) == [kind |-> kind, mode |-> of, single |-> FALSE, pi |-> pi]
MCCommands ==
  {CommandLine("run", "Camera1", 1), CommandLine("run", "Camera2", 2),
   CommandLine("still", "Camera1", 1), CommandLine("still", "Camera2", 1),
   CommandLine("run", "Camera2AutoCalibrate", 1), CommandLine("run", "Camera1BallLocation", 1),
   CommandLine("run", "Camera2Calibrate", 2), CommandLine("pulse", "Test", 1),
   CommandLine("shutdown", "Test", 1), CommandLine("shutdown", "Camera2", 2),
   CommandLine("results", "Camera1", 1), CommandLine("run", "Test", 1),
   [CommandLine("run", "RunCam2ProcessForPi1Processing", 1) EXCEPT !.single = TRUE]}

Runs == INSTANCE ProgramRuns WITH running <- active

\* A command line is of one of the modes that ProgramRuns follows.
ASSUME CommandsAssumption ==
  /\ Commands \subseteq
       [kind : {"run", "still", "pulse", "shutdown", "results"},
        mode : {"Camera1", "Camera1TestStandalone", "Test", "Camera1Calibrate",
                "Camera1AutoCalibrate", "Camera1BallLocation", "Camera2",
                "Camera2TestStandalone", "Camera2Calibrate", "Camera2AutoCalibrate",
                "Camera2BallLocation", "RunCam2ProcessForPi1Processing"},
        single : BOOLEAN, pi : Pis]
  /\ None \notin Commands

runVars == <<command, stage, ipc, gpio, active, told, alone, trigger, starts>>
allVars == <<part, vars, runVars>>

ProgramsInit == part \in {"camera2", "programs"} /\ Init /\ Runs!Init

Camera2Step(A) == part = "camera2" /\ A /\ UNCHANGED <<part, runVars>>
RunStep(A) == part = "programs" /\ A /\ UNCHANGED <<part, vars>>

ProgramsNext == Camera2Step(Next) \/ RunStep(Runs!Next)

\* The fairness of the two modules.
ProgramsSpec ==
  /\ ProgramsInit /\ [][ProgramsNext]_allVars
  /\ WF_allVars(Camera2Step(FsmStep))
  /\ \A p \in Programs :
        /\ WF_allVars(RunStep(Runs!FrameArrives(p)))
        /\ WF_allVars(RunStep(Runs!WatchIsStopped(p)))
        /\ SF_allVars(RunStep(Runs!Exits(p)))
        /\ WF_allVars(RunStep(Runs!Close(p)))

\* The launch monitor watches with a sensor that runs free, whatever ran before.
MonitorRunsFree == Runs!MonitorRunsFree

\* Whoever asks for a picture of camera 2 and its program hear each other.
RequestsAreHeard == Runs!RequestsAreHeard

\* A launch monitor told to shut down ends, or waits for a trigger or a hit for good.
ToldMonitorsEnd == part = "programs" => Runs!ToldMonitorsEnd
==============================================================================
