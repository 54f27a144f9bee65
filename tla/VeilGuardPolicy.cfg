\* Two delegates, with one or two versions of a policy each, who share the treasury
\* and the escrow.
CONSTANTS
  d1 = d1
  d2 = d2
  payee = payee
  NoOne = NoOne
  Safe = Safe
  Module = Module
  Outside = Outside
  Delegates = {d1, d2}
  Admins = {fa}
  Owners = {o}
  Auditors = {}
  Payees = {payee}
  Proposals <- TwoDelegateProposals
  Amounts = {1, 2}
  BLOCKED_COOLDOWN = 1
  REQUEST_EXPIRY = 1
  MAX_AUDIT_REQUESTS = 2
  Supply = 2
  MaxMandates = 2
  MaxRequests = 2
  MaxPackets = 0
  MaxTime = 1
SPECIFICATION Spec
INVARIANTS
  TypeOK
  SlotExact
  SingleActiveMandate
  LiveUnderActiveMandate
  RestoreIsExact
  EscrowCoversLiveRequests
  BudgetLedger
PROPERTIES
  PaidInFull
  RefinesDelegatedBudget
