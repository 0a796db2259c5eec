-------------------------- MODULE MC_SimInterfaces --------------------------
(* SimInterfaces for model checking; the .cfg files give the constants.     *)
EXTENDS SimInterfaces
=============================================================================
