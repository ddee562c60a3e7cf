\* One script thread, one unit and one level; and a hook of the game's own frame that joins.
\* A thread at its bound of scopes or releases stops, so deadlock is not checked.
CONSTANTS
  game = game
  s1 = s1
  unit = unit
  level = level
  Threads <- MCThreads
  Game = game
  NoThread = NoThread
  Units <- MCUnits
  Levels <- MCLevels
  JoinsInFrame = TRUE
  MaxScopes = 3
  MaxGeneration = 3
  MaxIncarnation = 3
  MaxReleases = 1
SPECIFICATION Spec
INVARIANT CachedIsCurrent
CHECK_DEADLOCK FALSE
