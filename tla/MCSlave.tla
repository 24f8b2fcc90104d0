------------------------------- MODULE MCSlave -------------------------------
(* Slave for TLC.                                                          *)
EXTENDS Slave
=============================================================================
