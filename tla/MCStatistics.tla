----------------------------- MODULE MCStatistics -----------------------------
(* Statistics for TLC.                                                     *)
EXTENDS Statistics

MCTimes == {<<3, 2>>, <<4, 1>>}
=============================================================================
