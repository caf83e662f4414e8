SPECIFICATION SystemFairSpec
CONSTANTS
  None = None
  p1 = p1
  p2 = p2
  kanata = kanata
  r1 = r1
  r2 = r2
  Pid <- MCPid
  Binary <- MCBinary
  KanataBin = kanata
  Namesake <- MCBinary
  Release <- MCRelease
  StateDir = TRUE
  Root = TRUE
  FaultCap = 1
  Line <- MCLine
  Parts = {"agent", "both"}
  Attempts = 2
INVARIANTS
  OneKanata
  Upgraded
  NothingLeft
PROPERTIES
  LeavesNoKanata
  KeptAcrossRestarts
  
  Revives
\* Commands are bounded, and an uninstalled system does nothing.
CHECK_DEADLOCK FALSE
