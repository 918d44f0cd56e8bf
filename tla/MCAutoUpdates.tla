--------------------------- MODULE MCAutoUpdates ---------------------------
(***************************************************************************)
(* AutoUpdates on small instances.  The cooldown is two ticks of the clock *)
(* (six hours in the code).                                                *)
(***************************************************************************)
EXTENDS AutoUpdates, TLC

CONSTANTS s1, s2, h1, h2

OneServer   == <<s1>>
TwoServers  == <<s1, s2>>
OneHandler  == {h1}
TwoHandlers == {h1, h2}

\* The handlers only differ by name.
Symmetry == Permutations(Handlers)
=============================================================================
