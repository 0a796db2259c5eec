--------------------------- MODULE MC_Camera2Fsm ----------------------------
(* Camera2Fsm for model checking; the .cfg files give the constants.        *)
EXTENDS Camera2Fsm
=============================================================================
