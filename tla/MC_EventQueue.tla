---------------------------- MODULE MC_EventQueue ----------------------------
(* Model checking of EventQueue; the cfg file gives the constants.          *)
EXTENDS EventQueue
=============================================================================
