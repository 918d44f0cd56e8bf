---------------------------- MODULE MCFileEditor ----------------------------
(***************************************************************************)
(* FileEditor on small instances: what was read is stale after one tick    *)
(* (15 minutes in the code), and every second request purges (the 50th).   *)
(***************************************************************************)
EXTENDS FileEditor, TLC

CONSTANTS ini, ann, bob

Names == Permutations(Clients)
=============================================================================
