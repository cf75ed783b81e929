------------------------------- MODULE MCModem -------------------------------
(* TLC instance of Modem.                                                    *)
EXTENDS Modem

(* A length below the smallest a message can have, and two that are legal.   *)
MCWriteLengths == {-1, 0, 1}
==============================================================================
