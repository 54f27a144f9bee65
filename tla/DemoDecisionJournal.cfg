\* One request, a lagging node, and faults at any step: what the journal says.
CONSTANTS
  r1 = r1
  r2 = r2
  Requests = {r1}
  Watchdog = Watchdog
  Owner = Owner
  decisionWindow = 1
  StaleReads = TRUE
  MaxTxs = 3
  WatchdogTxs = 0
  MaxOwnerTxs = 1
  MaxFaults = 2
  MaxTime = 3
SPECIFICATION Spec
INVARIANTS
  DecisionTypeOK
  ReceiptsTrue
  AnswersTrue
  WindowKept
PROPERTIES
  NoCompetingSignature
  BoundaryKept
