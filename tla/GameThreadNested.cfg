\* One script; a task of the first tick calls Execute on the game thread.
CONSTANTS
  game = game
  s1 = s1
  s2 = s2
  Threads <- MCOneScript
  Game = game
  NoThread = NoThread
  MaxScopes = 3
  NestsInFirstTick = TRUE
  MaxOwnTasks = 2
  MaxTasks = 2
SPECIFICATION Spec
INVARIANT RunsInPlace
