\* What pausing stops.
CONSTANTS
  d1 = d1
  d2 = d2
  payee = payee
  NoOne = NoOne
  Safe = Safe
  Module = Module
  Outside = Outside
  Delegates = {d1}
  Admins = {fa}
  Owners = {o}
  Auditors = {}
  Payees = {payee}
  Proposals <- AuditProposals
  Amounts = {1}
  BLOCKED_COOLDOWN = 1
  REQUEST_EXPIRY = 1
  MAX_AUDIT_REQUESTS = 2
  Supply = 2
  MaxMandates = 1
  MaxRequests = 1
  MaxPackets = 0
  MaxTime = 1
SPECIFICATION Spec
PROPERTIES
  PausedPaysNobody
