--------------------------- MODULE MCHandleCache ---------------------------
(* Handles: one script thread and the game thread, a unit and a level. *)
EXTENDS HandleCache

CONSTANTS game, s1, unit, level

MCThreads == {game, s1}
MCUnits == {unit}
MCLevels == {level}
=============================================================================
