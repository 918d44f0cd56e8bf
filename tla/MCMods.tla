------------------------------- MODULE MCMods -------------------------------
(* Mods on small instances. *)
EXTENDS Mods, TLC

CONSTANTS w1, c1, c2

Symmetry == Permutations(Callers)
=============================================================================
