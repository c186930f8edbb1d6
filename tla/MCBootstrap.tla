----------------------------- MODULE MCBootstrap -----------------------------
(* Bootstrap for TLC: control-plane Machines are interchangeable.          *)
EXTENDS Bootstrap, TLC

Symmetry == Permutations(CPMachines)
=============================================================================
