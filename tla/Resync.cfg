SPECIFICATION ResyncFairSpec
CONSTANTS
  None = None
  Budget = 1
  MaxFailures = 1
  Pid = {p1}
  QueueCap = 1
  LineCap = 1
  PersistOutcomes = {"failed"}
  kbd = kbd
  Device <- OneKeyboard
  Key <- ItsKey
  Nodes <- ItsNode
  Virtual = {}
  EventCap = 1
  Absent = Absent
  UserCommand = {"Start", "Pause"}
INVARIANT NoKeyboardMissed
PROPERTIES
  PausedStaysPaused
  ResyncReachesKanata
