\* The console script loads a script while the engine shuts down.
\* After the shutdown nothing is left to do, so deadlock is not checked.
CONSTANTS
  starter = starter
  builtin = builtin
  Game = Game
  UI = UI
  Unloader = Unloader
  NoScript = NoScript
  Paths <- MCPaths
  Console = builtin
  Loads <- MCLoads
  Starters <- MCNobody
  Restarters <- MCNobody
  ShutdownRaces = TRUE
  JoinsRunning = FALSE
  MaxScripts = 2
SPECIFICATION Spec
INVARIANT JoinedIsStopped
CHECK_DEADLOCK FALSE
