SPECIFICATION WatchSpec
CONSTANTS
  None = None
  NoBinary = NoBinary
  f = f
  p = p
  stock = stock
  none = none
  plain = plain
  fancy = fancy
  broken = broken
  empty = empty
  UserFile <- Files
  Preset <- Presets
  Definition <- Definitions
  Binary = {stock}
  DefaultBinary = stock
  Arguments = {none}
  NoArguments = none
  Text <- Texts
  SafeText = plain
  Truncated = empty
  Accepts <- AcceptsBoth
  Client = {c1}
  Requests = {"Switch", "Safe"}
  Edits = {fancy, broken}
  Chmods = TRUE
  RestartCap = 1
  Respawns = FALSE
  Directory <- OneDirectory
INVARIANTS
  EditsAreLoaded
