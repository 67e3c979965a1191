-------------------------- MODULE MCWindowManager --------------------------
(* Instances of WindowManager for TLC. *)
EXTENDS WindowManager, TLC

Symmetry == Permutations(Window) \cup Permutations(Output)
=============================================================================
