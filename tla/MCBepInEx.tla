----------------------------- MODULE MCBepInEx -----------------------------
(* BepInEx on small instances: the first version is a file, the next one a *)
(* folder.                                                                 *)
EXTENDS BepInEx

CONSTANTS m1, m2, c1

TwoMods == <<m1, m2>>
FileThenFolder == <<"flat", "dir">>
=============================================================================
