SPECIFICATION LinkFairSpec
CONSTANTS
  None = None
  base = base
  main = main
  Layer <- MCLayer
  Preset <- MCPreset
  UnreadCap = 1
  WireCap = 1
  FeedCap = 1
  SocketCap = 1
  MoveCap = 3
INVARIANTS
  LayerIsConnected
  MenuIsCurrent
PROPERTIES
  RelayFollows
  Settles
\* The daemon makes MoveCap moves and is then left alone.
CHECK_DEADLOCK FALSE
