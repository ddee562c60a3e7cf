CONSTANTS
  game = game
  s1 = s1
  s2 = s2
  Threads <- MCThreads
  Game = game
  NoThread = NoThread
  MaxScopes = 3
  once = once
  every = every
  Timers <- MCTimers
  Intervals <- MCIntervals
  MaxPosted = 1
  MaxFrames = 2
  MaxNesting = 2
  c1 = c1
  c2 = c2
  Conns <- MCConns
  UI = UI
  NoConn = NoConn
  MaxMessages = 1
  MaxQueue = 1
  MaxDepth = 3
SPECIFICATION PartsSpec
INVARIANTS HeldIsOwned ScopesNest HandedBack
INVARIANTS OneTaskPerTimer RenderNotNested NothingUnseen SessionIsTheClients
PROPERTIES ImplementsReadersWriter StopEndsDelay PauseEnds
CHECK_DEADLOCK FALSE
