---------------------------- MODULE MCDownTimeout ----------------------------
(* DownTimeout for TLC.                                                    *)
EXTENDS DownTimeout
=============================================================================
