------------------------------ MODULE MCLogger ------------------------------
(* Logger for TLC: see logger.cfg.  Threads are interchangeable, but the   *)
(* run checks liveness, so no symmetry is used.                            *)
EXTENDS Logger

MCLevels == {2, 3}    \* Info and Warning
=============================================================================
