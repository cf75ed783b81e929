------------------------------ MODULE MCLteLink ------------------------------
(* TLC instance of LteLink: the model values come from the .cfg files.      *)
EXTENDS LteLink
==============================================================================
