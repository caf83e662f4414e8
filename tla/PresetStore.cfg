SPECIFICATION StoreSpec
CONSTANTS
  None = None
  Invalid = Invalid
  c = c
  Name = {a, b, c}
  Lists <- UpToTwo
  Reloader = {r1}
  WriteFails = TRUE
INVARIANTS
  StartupPickKept
  KeptUnlessDiverged
