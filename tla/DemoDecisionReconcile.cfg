\* Whether a journalled broadcast is always reconciled.
CONSTANTS
  r1 = r1
  r2 = r2
  Requests = {r1}
  Watchdog = Watchdog
  Owner = Owner
  decisionWindow = 1
  StaleReads = FALSE
  MaxTxs = 4
  WatchdogTxs = 1
  MaxOwnerTxs = 1
  MaxFaults = 1
  MaxTime = 2
SPECIFICATION RetryingSpec
PROPERTIES
  BroadcastReconciled
