SPECIFICATION AssistantSpec
CONSTANTS
  None = None
  Budget = 1
  MaxFailures = 1
  DriverPreflight = TRUE
  PermissionPreflight = TRUE
  Scenes <- BareScenes
  Flips <- MCFlips
  Device = {"keyboard"}
  MoveCap = 1
  Slot <- MCSlot
INVARIANT DoneIsHealthy
CHECK_DEADLOCK FALSE
