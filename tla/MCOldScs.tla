------------------------------- MODULE MCOldScs -------------------------------
(* TLC instance of OldScs: the model values come from the .cfg file.         *)
EXTENDS OldScs
==============================================================================
