---------------------------- MODULE MCProcessData ----------------------------
(* ProcessData for TLC: Words is a symmetric set of model values.          *)
EXTENDS ProcessData, TLC

WordSymmetry == Permutations(Words)
=============================================================================
