\* Audit packets over settled requests, admin rotation, and drafts the rules refuse.
CONSTANTS
  d1 = d1
  d2 = d2
  payee = payee
  NoOne = NoOne
  Safe = Safe
  Module = Module
  Outside = Outside
  Delegates = {d1}
  Admins = {fa, fb}
  Owners = {o}
  Auditors = {aud}
  Payees = {payee}
  Proposals <- AuditProposals
  Amounts = {1, 2}
  BLOCKED_COOLDOWN = 1
  REQUEST_EXPIRY = 1
  MAX_AUDIT_REQUESTS = 1
  Supply = 2
  MaxMandates = 1
  MaxRequests = 2
  MaxPackets = 1
  MaxTime = 1
SPECIFICATION Spec
INVARIANTS
  PacketsStayTrue
  ViewerScope
PROPERTIES
  SettledIsFinal
