SPECIFICATION GuidedSpec
CONSTANTS
  None = None
  Budget = 1
  MaxFailures = 1
  DriverPreflight = TRUE
  PermissionPreflight = TRUE
  Scenes <- MCScenes
  Flips <- MCFlips
  Device = {"keyboard"}
  MoveCap = 1
  Slot <- MCSlot
INVARIANTS
  NeverPins
  PollsOnce
  DevicesFresh
PROPERTIES
  OpensItself
  ShowsTheTruth
  GuidesToCompletion
CHECK_DEADLOCK FALSE
