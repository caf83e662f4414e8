SPECIFICATION ConfigSpec
CONSTANTS
  None = None
  NoBinary = NoBinary
  f = f
  g = g
  p = p
  q = q
  r = r
  stock = stock
  custom = custom
  none = none
  extra = extra
  plain = plain
  fancy = fancy
  broken = broken
  empty = empty
  UserFile <- Files
  Preset <- Presets
  Definition <- OwnDefinitions
  Binary = {stock, custom}
  DefaultBinary = stock
  Arguments = {none, extra}
  NoArguments = none
  Text <- Texts
  SafeText = plain
  Truncated = empty
  Accepts <- OwnAccepts
  Client = {c1, c2}
  Requests = {"Switch"}
  Edits = {broken}
  Chmods = TRUE
  RestartCap = 2
  Respawns = FALSE
INVARIANTS
  KeyboardStaysUp
