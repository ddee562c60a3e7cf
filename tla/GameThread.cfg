\* Two script threads, two tasks in all; tasks call Execute but in the first tick.
CONSTANTS
  game = game
  s1 = s1
  s2 = s2
  Threads <- MCThreads
  Game = game
  NoThread = NoThread
  MaxScopes = 3
  NestsInFirstTick = FALSE
  MaxOwnTasks = 2
  MaxTasks = 2
SPECIFICATION Spec
INVARIANTS
  CallTypeOK
  CallableAlive
  OneOutcome
  InOrder
PROPERTIES
  StopNeedsNoDrain
  CallsReturn
