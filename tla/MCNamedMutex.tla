----------------------------- MODULE MCNamedMutex -----------------------------
(* NamedMutex for TLC.                                                     *)
EXTENDS NamedMutex
=============================================================================
