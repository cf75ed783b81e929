---------------------------- MODULE MCSatComSystem ----------------------------
(* TLC instance of SatComSystem: the model values come from the .cfg file.   *)
EXTENDS SatComSystem
==============================================================================
