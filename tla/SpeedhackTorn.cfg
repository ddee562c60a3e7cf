CONSTANTS
  game = game
  script = script
  panel = panel
  NoSetter = NoSetter
  Few = 4
  Readers <- MCReaders
  Setters <- MCSetters
  Speeds <- MCSpeeds
  Unit = 2
  TopSpeed = 5
  TimerTick = 1
  Epoch = 5
  Exact = 4
  Grain = 2
  MaxReal = 4
  MaxSets = 2
SPECIFICATION SpeedhackSpec
INVARIANT TornReadIsClose
CHECK_DEADLOCK FALSE
