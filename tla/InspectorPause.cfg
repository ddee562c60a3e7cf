CONSTANTS
  c1 = c1
  c2 = c2
  Conns <- MCConns
  UI = UI
  NoConn = NoConn
  MaxMessages = 1
  MaxQueue = 1
  MaxDepth = 3
SPECIFICATION InspectorSpec
PROPERTIES TornDownOutsidePause
CHECK_DEADLOCK FALSE
