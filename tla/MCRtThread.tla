----------------------------- MODULE MCRtThread ------------------------------
(* RtThread for TLC.                                                       *)
EXTENDS RtThread
=============================================================================
