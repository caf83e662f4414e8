SPECIFICATION FairSpec
CONSTANTS
  None = None
  Budget = 2
  MaxFailures = 3
  Pid = {p1, p2}
  QueueCap = 2
  LineCap = 2
  PersistOutcomes = {"written"}
INVARIANTS
  TypeOK
  OwnsItsKanata
  TimersMatchState
  PublishedAgree
  BackendReported
  BudgetRespected
PROPERTIES
  EventsChain
  KeepsOneKanata
  ShutdownCompletes
  RetriesEnd
  OutageSurfaces
