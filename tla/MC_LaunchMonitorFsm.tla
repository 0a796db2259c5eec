------------------------ MODULE MC_LaunchMonitorFsm ------------------------
(* Model-checking instance of LaunchMonitorFsm; the cfg files give the     *)
(* bounds.                                                                 *)
EXTENDS LaunchMonitorFsm
=============================================================================
