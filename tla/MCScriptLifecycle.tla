------------------------- MODULE MCScriptLifecycle -------------------------
(* One script file and the console script, which loads it; the game thread *)
(* restarts the console, the console window starts scripts.                *)
EXTENDS ScriptLifecycle

CONSTANTS starter, builtin

MCPaths == {starter, builtin}
MCLoads == {<<builtin, starter>>}
MCStarters == {UI}
MCRestarters == {Game}
MCBoth == {Game, UI}
MCNobody == {}
=============================================================================
