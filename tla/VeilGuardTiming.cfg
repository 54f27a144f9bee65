\* Refusals, the cooldown and expiry; the cooldown is shorter than the expiry.
CONSTANTS
  d1 = d1
  d2 = d2
  payee = payee
  NoOne = NoOne
  Safe = Safe
  Module = Module
  Outside = Outside
  Delegates = {d1}
  Admins = {fa}
  Owners = {o}
  Auditors = {}
  Payees = {payee}
  Proposals <- ProbingProposals
  Amounts = {2}
  BLOCKED_COOLDOWN = 2
  REQUEST_EXPIRY = 3
  MAX_AUDIT_REQUESTS = 2
  Supply = 2
  MaxMandates = 2
  MaxRequests = 2
  MaxPackets = 0
  MaxTime = 6
SPECIFICATION Spec
INVARIANTS
  ProbeSpacing
PROPERTIES
  NoRequestStranded
