------------------------------ MODULE MCMqttLink ------------------------------
(* TLC instance of MqttLink: the model values come from the .cfg files.     *)
EXTENDS MqttLink
===============================================================================
