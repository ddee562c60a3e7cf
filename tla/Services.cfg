\* One part after the other: HandleCache (one script thread, one unit and one
\* level; no join in the game's own frame), Speedhack, Pathfinder,
\* SessionScripts, RoomData, IniStore, Database.  Each of them stops at its
\* bounds, so deadlock is not checked.
CONSTANTS
  game = game
  s1 = s1
  Threads <- MCThreads
  Game = game
  NoThread = NoThread
  MaxScopes = 3
  unit = unit
  level = level
  Units <- MCUnits
  Levels <- MCLevels
  JoinsInFrame = FALSE
  MaxGeneration = 3
  MaxIncarnation = 3
  MaxReleases = 1
  Readers <- MCReaders
  Setters <- MCSetters
  Speeds <- MCSpeeds
  Unit = 2
  TopSpeed = 5
  TimerTick = 1
  Epoch = 5
  Exact = 4
  Grain = 2
  MaxReal = 2
  MaxSets = 2
  Few = 4
  NoSetter = NoSetter
  moor = moor
  den = den
  Seeds = {1, 2}
  Cells <- MCCells
  Collision <- MCCollision
  Doors <- MCDoors
  RoomWidth = 2
  Requests <- MCRequests
  MaxSearches = 3
  MaxGen = 2
  Nothing = Nothing
  sorc = sorc
  Sorc = Sorc
  pala = pala
  Profiles <- MCProfiles
  NoProfile = NoProfile
  Folded <- MCFolded
  None = None
  WithGame <- MCWithGame
  WithStarter <- MCWithStarter
  MaxSwitches = 1
  MaxChecks = 1
  MaxSessions = 2
  g1 = g1
  g2 = g2
  g3 = g3
  r1 = r1
  r2 = r2
  Guards <- MCGuards
  Rooms <- MCRooms
  NoGuard = NoGuard
  w1 = w1
  w2 = w2
  w3 = w3
  k1 = k1
  k2 = k2
  Writers <- MCWriters
  Profile <- MCProfile
  Keys <- MCKeys
  Nobody = Nobody
  MaxAttempts = 2
  d1 = d1
  q1 = q1
  q2 = q2
  v1 = v1
  Databases <- MCDatabases
  Statements <- MCStatements
  Views <- MCViews
  MaxRows = 2
  Null = Null
SPECIFICATION ServicesSpec
INVARIANTS FreshWhenFollowed CachedIsCurrent
INVARIANTS SessionHasItsScript PathsFollowProfile RoomsAreKept GameKeepsItsRooms
INVARIANTS NoLostUpdate SectionIsWhole ClockNeverGoesBack PathIsShortest NoDangling RowIsCurrent
PROPERTIES NothingMovesUnderALock NoRestartInSession CollectorIsUnseen
CHECK_DEADLOCK FALSE
