-------------------------- MODULE MCCrashRecovery --------------------------
(***************************************************************************)
(* CrashRecovery on small instances.  The clock counts in units of which a *)
(* window holds one or two (60 minutes in the code), and two attempts in a *)
(* window are allowed instead of three.  Handlers differ in name only.     *)
(***************************************************************************)
EXTENDS CrashRecovery

CONSTANTS s1, s2, h1, h2

OneServer  == <<s1>>
TwoServers == <<s1, s2>>
Neither    == {}
First      == {s1}
Second     == {s2}
StopOnly   == {"stop"}
OneHandler == {h1}
TwoHandlers == {h1, h2}
HandlerSymmetry == Permutations(TwoHandlers)
=============================================================================
