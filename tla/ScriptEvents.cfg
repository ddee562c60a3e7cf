CONSTANTS
  s1 = s1
  s2 = s2
  key = key
  chat = chat
  msg = msg
  game = game
  Order <- MCOrder
  Names <- MCNames
  Blockers <- MCBlockers
  Broadcasts <- MCBroadcasts
  Interests <- MCInterests
  LongNames <- MCEmpty
  Overflow = Overflow
  NoSlot = NoSlot
  Hooks <- MCHooks
  Free = Free
  MaxSlots = 1
  MaxOfAName = 1
  Pausers <- MCPausers
  MaxHandlers = 1
  MaxNesting = 1
SPECIFICATION EventsSpec
INVARIANTS CountIsExact EveryListenerServed VotesAccounted
CHECK_DEADLOCK FALSE
