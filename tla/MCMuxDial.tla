------------------------------ MODULE MCMuxDial ------------------------------
(* MuxDial for TLC. *)
EXTENDS MuxDial, TLC

Symmetry == Permutations(Dialers)
=============================================================================
