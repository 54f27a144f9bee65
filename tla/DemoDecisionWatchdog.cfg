\* One request, one fault at any step: the end of every wait, and the lock while nothing fails.
CONSTANTS
  r1 = r1
  r2 = r2
  Requests = {r1}
  Watchdog = Watchdog
  Owner = Owner
  decisionWindow = 1
  StaleReads = FALSE
  MaxTxs = 4
  WatchdogTxs = 2
  MaxOwnerTxs = 1
  MaxFaults = 1
  MaxTime = 3
SPECIFICATION Spec
INVARIANTS
  LockProtectsNonce
PROPERTIES
  UndecidedReturned
