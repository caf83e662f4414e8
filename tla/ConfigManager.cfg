SPECIFICATION ConfigSpec
CONSTANTS
  None = None
  NoBinary = NoBinary
  f = f
  g = g
  p = p
  q = q
  r = r
  stock = stock
  custom = custom
  none = none
  extra = extra
  plain = plain
  fancy = fancy
  broken = broken
  empty = empty
  UserFile <- Files
  Preset <- MorePresets
  Definition <- MoreDefinitions
  Binary = {stock, custom}
  DefaultBinary = stock
  Arguments = {none, extra}
  NoArguments = none
  Text <- Texts
  SafeText = plain
  Truncated = empty
  Accepts <- OwnAccepts
  Client = {c1}
  Requests = {"Apply", "Switch", "Rollback", "Safe"}
  Edits = {broken}
  Chmods = FALSE
  RestartCap = 1
  Respawns = TRUE
INVARIANTS
  RunsWhatIsActive
  BackupOfActive
