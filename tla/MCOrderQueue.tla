--------------------------- MODULE MCOrderQueue ---------------------------
(***************************************************************************)
(* OrderQueue on small instances.  Hours are scaled down: an order is      *)
(* stale after 1 hour (24 in the code) and a closed one is purged after 2  *)
(* (168), so that a clock of three hours meets both, in that order.        *)
(***************************************************************************)
EXTENDS OrderQueue

CONSTANT s1

MCServers == {s1}
NoServer  == {}
MCIds409  == {2}

\* One type that launches the game and one that stops it.
StartStop == {"start", "stop"}
OnlyStart == {"start"}
=============================================================================
