--------------------------- MODULE MCGameServer ----------------------------
(* GameServer on small instances: which stop adapters a run considers.     *)
EXTENDS GameServer

\* What generic-force does, palworld-rcon does when its RCON fails; what
\* generic-graceful does, rcon-generic does when its RCON works.
RconAdapters == {"palworld-rcon", "rcon-generic"}
Graceful == {"generic-graceful"}
Force    == {"generic-force"}
=============================================================================
