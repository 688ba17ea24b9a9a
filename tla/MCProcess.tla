----------------------------- MODULE MCProcess ------------------------------
(* Small instances of the process for TLC. With ticks of three seconds the *)
(* code's ten-second waits are four ticks.                                 *)
EXTENDS ProcessProperties
=============================================================================
