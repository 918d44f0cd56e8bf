----------------------------- MODULE MCRegistry -----------------------------
(* The registry on small instances. *)
EXTENDS Registry, TLC

CONSTANTS old, new, e1, e2, a1
=============================================================================
