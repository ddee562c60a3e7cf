\* The game thread and the console window both restart the console script.
\* After the shutdown nothing is left to do, so deadlock is not checked.
CONSTANTS
  starter = starter
  builtin = builtin
  Game = Game
  UI = UI
  Unloader = Unloader
  NoScript = NoScript
  Paths <- MCPaths
  Console = builtin
  Loads <- MCLoads
  Starters <- MCNobody
  Restarters <- MCBoth
  ShutdownRaces = FALSE
  JoinsRunning = FALSE
  MaxScripts = 4
SPECIFICATION Spec
INVARIANT OneConsoleWriter
CHECK_DEADLOCK FALSE
