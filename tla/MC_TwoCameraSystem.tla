------------------------- MODULE MC_TwoCameraSystem --------------------------
(* TwoCameraSystem for model checking; the .cfg files give the constants.   *)
EXTENDS TwoCameraSystem
=============================================================================
