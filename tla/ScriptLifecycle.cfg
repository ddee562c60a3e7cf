\* One console restarter, no engine call that begins during Shutdown, Script.join on stopped scripts only.
\* After the shutdown nothing is left to do, so deadlock is not checked.
CONSTANTS
  starter = starter
  builtin = builtin
  Game = Game
  UI = UI
  Unloader = Unloader
  NoScript = NoScript
  Paths <- MCPaths
  Console = builtin
  Loads <- MCLoads
  Starters <- MCStarters
  Restarters <- MCRestarters
  ShutdownRaces = FALSE
  JoinsRunning = FALSE
  MaxScripts = 4
SPECIFICATION Spec
INVARIANTS
  OnePerPath
  NoOrphan
  JoinedIsStopped
  RegisteredHasIsolate
PROPERTIES
  StopEnds
  EngineReturns
CHECK_DEADLOCK FALSE
