--------------------------- MODULE VeilGuardModule ---------------------------
(***************************************************************************)
(* The policy module contract of a Safe: mandates that delegate a budget,  *)
(* spend requests decided on ciphertext, the escrow that holds admissible  *)
(* funds until a decision is finalized, and scoped audit packets.          *)
(*                                                                         *)
(* One action is one transaction: an external function with everything it  *)
(* writes here, in the token and in the Nox access list.  A transaction    *)
(* that reverts changes nothing and is no step.  A ciphertext is a record  *)
(* of the handle that names it and the plaintext it hides; guards read     *)
(* only what the contract reads.                                           *)
(***************************************************************************)
EXTENDS Naturals, FiniteSets, FiniteSetsExt

CONSTANTS
    Delegates, Admins, Owners, Auditors,  \* the human roles
    NoOne,                                \* address(0)
    Safe, Module, Outside,                \* the treasury, the escrow, outside funds
    Payees,                               \* the other accounts a spend may go to
    Proposals,                            \* the drafts the finance admin may submit
    Amounts,                              \* the amounts of requests and of outside transfers
    BLOCKED_COOLDOWN, REQUEST_EXPIRY,     \* in ticks of the block clock
    MAX_AUDIT_REQUESTS,
    Supply,                               \* all the tokens there are, at first held outside
    MaxMandates, MaxRequests, MaxPackets, \* bounds on the three id counters
    MaxTime                               \* bound on the block clock

Humans      == Delegates \cup Admins \cup Owners \cup Auditors
Accounts    == {Safe, Module, Outside} \cup Payees
MandateIds  == 1 .. MaxMandates
RequestIds  == 1 .. MaxRequests
PacketIds   == 1 .. MaxPackets

ASSUME RolesAssumption ==
    /\ NoOne \notin Humans
    /\ Admins # {}
    /\ Safe # Module /\ Safe # Outside /\ Module # Outside
    /\ {Safe, Module, Outside} \cap Payees = {}

ASSUME BoundsAssumption ==
    /\ MaxMandates \in Nat /\ MaxRequests \in Nat /\ MaxPackets \in Nat
    /\ MaxTime \in Nat /\ Supply \in Nat /\ MAX_AUDIT_REQUESTS \in Nat

\* 10 minutes and 1 day in the contract: the cooldown is the shorter of the two.
ASSUME TimingAssumption ==
    /\ BLOCKED_COOLDOWN \in Nat
    /\ REQUEST_EXPIRY \in Nat
    /\ BLOCKED_COOLDOWN <= REQUEST_EXPIRY

ASSUME InputsAssumption ==
    /\ Amounts \subseteq Nat
    /\ Proposals \subseteq
         [delegate : Delegates \cup {NoOne}, validFrom : Nat, validUntil : Nat,
          recipients : SUBSET Accounts, autoLimit : Nat, budget : Nat, reserveFloor : Nat]

-----------------------------------------------------------------------------
VARIABLES
    now,               \* block.timestamp
    paused,
    financeAdmin,
    nextMandateId,
    nextRequestId,
    nextPacketId,
    mandate,           \* _mandates, with isAllowedRecipient as the field recipients
    request,           \* _requests
    packet,            \* _packets
    pendingRequestOf,  \* mandate id -> request id, 0 for none
    cooldownUntil,     \* delegate -> time
    activeMandateOf,   \* delegate -> mandate id, 0 for none
    balance,           \* the confidential token: account -> balance
    funded,            \* whether the Safe's balance handle is initialized
    enabled,           \* whether the Safe has this module enabled
    viewers            \* the Nox access list: <<human, handle>> pairs, only ever added to

policyVars == <<mandate, nextMandateId, activeMandateOf>>
adminVars  == <<paused, financeAdmin>>
spendVars  == <<request, nextRequestId, pendingRequestOf, cooldownUntil>>
packetVars == <<packet, nextPacketId>>
safeVars   == <<balance, funded, enabled>>
vars == <<now, policyVars, adminVars, spendVars, packetVars, safeVars, viewers>>

-----------------------------------------------------------------------------
(* Ciphertexts *)

HandleKinds == {"none", "autoLimit", "budgetLeft", "reserveFloor", "amount", "reserved",
                "reason", "snapAutoLimit", "snapBudgetLeft", "snapReserveFloor",
                "snapAmount", "snapReason"}
\* A handle is named by its kind, the object it was made for, and the request
\* (0 for none) whose evaluation made it.
Handles     == HandleKinds \X Nat \X Nat
Ciphers     == [handle : Handles, val : Nat]
Cipher(h, v) == [handle |-> h, val |-> v]
NoCipher    == Cipher(<<"none", 0, 0>>, 0)

D_EXECUTE  == 1
D_ESCALATE == 2
D_BLOCKED  == 3

R_NONE    == 0
R_BUDGET  == 1
R_BALANCE == 2
R_RESERVE == 3

MandateStates  == {"None", "Draft", "Active", "Retired"}
RequestStates  == {"None", "Requested", "Executed", "AwaitingSafeApproval",
                   "Blocked", "Cancelled", "Expired"}
LiveStates     == {"Requested", "AwaitingSafeApproval"}
TerminalStates == {"Executed", "Blocked", "Cancelled", "Expired"}

NoMandate == [delegate |-> NoOne, validFrom |-> 0, validUntil |-> 0, state |-> "None",
              recipients |-> {}, autoLimit |-> NoCipher, budgetLeft |-> NoCipher,
              reserveFloor |-> NoCipher]
NoRequest == [mandateId |-> 0, delegate |-> NoOne, recipient |-> NoOne, createdAt |-> 0,
              state |-> "None", amount |-> NoCipher, reserved |-> NoCipher,
              budgetBefore |-> NoCipher, decision |-> 0, reason |-> NoCipher]
NoPacket  == [auditor |-> NoOne, mandateId |-> 0, policyVersion |-> 0, createdAt |-> 0,
              requestIds |-> {}, snapshots |-> {}]

Init ==
    /\ now = 0
    /\ paused = FALSE
    /\ financeAdmin \in Admins
    /\ nextMandateId = 1 /\ nextRequestId = 1 /\ nextPacketId = 1
    /\ mandate = [m \in MandateIds |-> NoMandate]
    /\ request = [r \in RequestIds |-> NoRequest]
    /\ packet  = [p \in PacketIds |-> NoPacket]
    /\ pendingRequestOf = [m \in MandateIds |-> 0]
    /\ cooldownUntil   = [d \in Delegates |-> 0]
    /\ activeMandateOf = [d \in Delegates |-> 0]
    /\ balance = [a \in Accounts |-> IF a = Outside THEN Supply ELSE 0]
    /\ funded = FALSE
    /\ enabled = TRUE
    /\ viewers = {}

-----------------------------------------------------------------------------
(* Governance.  The finance admin calls directly; every other governance   *)
(* call is a transaction of the Safe, executed once its owners signed it.  *)

PolicyHandles(M) == {M.autoLimit.handle, M.budgetLeft.handle, M.reserveFloor.handle}

ProposeMandate(p) ==
    LET m == nextMandateId
        M == [delegate |-> p.delegate, validFrom |-> p.validFrom, validUntil |-> p.validUntil,
              state |-> "Draft", recipients |-> p.recipients,
              autoLimit    |-> Cipher(<<"autoLimit", m, 0>>, p.autoLimit),
              budgetLeft   |-> Cipher(<<"budgetLeft", m, 0>>, p.budget),
              reserveFloor |-> Cipher(<<"reserveFloor", m, 0>>, p.reserveFloor)]
    IN  /\ m <= MaxMandates
        /\ p.delegate # NoOne
        /\ p.validUntil > p.validFrom /\ p.validUntil > now
        /\ Cardinality(p.recipients) \in 1 .. 16
        /\ nextMandateId' = m + 1
        /\ mandate' = [mandate EXCEPT ![m] = M]
        /\ viewers' = viewers \cup (({financeAdmin} \cup Owners) \X PolicyHandles(M))
        /\ UNCHANGED <<now, adminVars, activeMandateOf, spendVars, packetVars, safeVars>>

\* Mutants, named for the slip, stand before the definition they are tested against.
SlotNotChecked(m) == TRUE

SlotFree(m) == m # 0 => pendingRequestOf[m] = 0

ActivatedBeside(m, prev) == [mandate EXCEPT ![m].state = "Active"]

\* The mandates once m took over from prev (0 for none).
Activated(m, prev) ==
    [i \in MandateIds |->
        CASE i = m    -> [mandate[i] EXCEPT !.state = "Active"]
          [] i = prev -> [mandate[i] EXCEPT !.state = "Retired"]
          [] OTHER    -> mandate[i]]

\* Activation retires the delegate's current mandate, unless it has one in flight.
ActivateMandate(m) ==
    LET d    == mandate[m].delegate
        prev == activeMandateOf[d]
    IN  /\ mandate[m].state = "Draft"
        /\ SlotFree(prev)
        /\ mandate' = Activated(m, prev)
        /\ activeMandateOf' = [activeMandateOf EXCEPT ![d] = m]
        /\ UNCHANGED <<now, nextMandateId, adminVars, spendVars, packetVars, safeVars, viewers>>

RetireMandate(m) ==
    LET d == mandate[m].delegate
    IN  /\ mandate[m].state \in {"Active", "Draft"}
        /\ SlotFree(m)
        /\ mandate' = [mandate EXCEPT ![m].state = "Retired"]
        /\ activeMandateOf' = IF activeMandateOf[d] = m
                              THEN [activeMandateOf EXCEPT ![d] = 0]
                              ELSE activeMandateOf
        /\ UNCHANGED <<now, nextMandateId, adminVars, spendVars, packetVars, safeVars, viewers>>

SetFinanceAdmin(newAdmin) ==
    /\ newAdmin # NoOne
    /\ financeAdmin' = newAdmin
    /\ UNCHANGED <<now, paused, policyVars, spendVars, packetVars, safeVars, viewers>>

\* By the finance admin or the Safe.
PauseAll ==
    /\ paused' = TRUE
    /\ UNCHANGED <<now, financeAdmin, policyVars, spendVars, packetVars, safeVars, viewers>>

UnpauseAll ==
    /\ paused' = FALSE
    /\ UNCHANGED <<now, financeAdmin, policyVars, spendVars, packetVars, safeVars, viewers>>

-----------------------------------------------------------------------------
(* The spend flow *)

TransferUncovered(from, to, a) ==
    IF from = to THEN balance ELSE [balance EXCEPT ![from] = @ - a, ![to] = @ + a]

\* A confidential transfer that the sender's balance does not cover moves nothing
\* and does not revert.
Transfer(from, to, a) ==
    IF from = to \/ a > balance[from]
    THEN balance
    ELSE [balance EXCEPT ![from] = @ - a, ![to] = @ + a]

\* The first of the three checks that fails, evaluated on ciphertext.
BlockedReason(m, a) ==
    CASE a > mandate[m].budgetLeft.val -> R_BUDGET
      [] a <= mandate[m].budgetLeft.val /\ a > balance[Safe] -> R_BALANCE
      [] /\ a <= mandate[m].budgetLeft.val /\ a <= balance[Safe]
         /\ balance[Safe] - a < mandate[m].reserveFloor.val -> R_RESERVE
      [] OTHER -> R_NONE

DecisionWithoutLimit(m, a) ==
    IF BlockedReason(m, a) = R_NONE THEN D_EXECUTE ELSE D_BLOCKED

Decision(m, a) ==
    CASE BlockedReason(m, a) # R_NONE  -> D_BLOCKED
      [] BlockedReason(m, a) = R_NONE /\ a <= mandate[m].autoLimit.val -> D_EXECUTE
      [] OTHER -> D_ESCALATE

ReservedFromBudgetOnly(m, a) == IF BlockedReason(m, a) = R_BUDGET THEN 0 ELSE a

Reserved(m, a) == IF BlockedReason(m, a) = R_NONE THEN a ELSE 0

InWindow(m) == mandate[m].validFrom <= now /\ now <= mandate[m].validUntil

AdmittedBesideAnother(d, m, to) ==
    /\ d = mandate[m].delegate /\ mandate[m].state = "Active"
    /\ to \in mandate[m].recipients
    /\ now >= cooldownUntil[d]

Admitted(d, m, to) ==
    /\ ~paused
    /\ d = mandate[m].delegate
    /\ mandate[m].state = "Active"
    /\ activeMandateOf[d] = m
    /\ InWindow(m)
    /\ to \in mandate[m].recipients
    /\ SlotFree(m)
    /\ now >= cooldownUntil[d]

\* tx1.  The Safe lends its balance handle and sends the reserve, both through
\* execTransactionFromModule, so the module must be enabled and the balance exist.
\* The request is bounded so that the clock can still reach its expiry.
RequestSpend(d, m, to, a) ==
    LET r == nextRequestId
        left == Cipher(<<"budgetLeft", m, r>>, mandate[m].budgetLeft.val - Reserved(m, a))
    IN  /\ r <= MaxRequests /\ now + REQUEST_EXPIRY <= MaxTime
        /\ Admitted(d, m, to)
        /\ funded /\ enabled
        /\ balance' = Transfer(Safe, Module, Reserved(m, a))
        /\ mandate' = [mandate EXCEPT ![m].budgetLeft = left]
        /\ nextRequestId' = r + 1
        /\ request' = [request EXCEPT ![r] =
             [mandateId |-> m, delegate |-> d, recipient |-> to, createdAt |-> now,
              state |-> "Requested",
              amount       |-> Cipher(<<"amount", r, 0>>, a),
              reserved     |-> Cipher(<<"reserved", r, 0>>, Reserved(m, a)),
              budgetBefore |-> mandate[m].budgetLeft,
              decision     |-> Decision(m, a),
              reason       |-> Cipher(<<"reason", r, 0>>, BlockedReason(m, a))]]
        /\ pendingRequestOf' = [pendingRequestOf EXCEPT ![m] = r]
        /\ viewers' = viewers
             \cup ({financeAdmin} \X {mandate[m].autoLimit.handle, left.handle,
                                      mandate[m].reserveFloor.handle})
             \cup ({d, financeAdmin} \X {<<"amount", r, 0>>, <<"reason", r, 0>>})
        /\ UNCHANGED <<now, adminVars, nextMandateId, activeMandateOf, cooldownUntil,
                       packetVars, funded, enabled>>

\* tx2.  Anyone may deliver the gateway's proof of the decision; the proof fixes
\* the outcome, so the courier chooses only when.
FinalizeExecute(r) ==
    LET m == request[r].mandateId
    IN  /\ request[r].decision = D_EXECUTE
        /\ request' = [request EXCEPT ![r].state = "Executed"]
        /\ pendingRequestOf' = [pendingRequestOf EXCEPT ![m] = 0]
        /\ balance' = Transfer(Module, request[r].recipient, request[r].reserved.val)
        /\ UNCHANGED <<cooldownUntil, viewers>>

EscalateFreesSlot(r) ==
    /\ request[r].decision = D_ESCALATE
    /\ request' = [request EXCEPT ![r].state = "AwaitingSafeApproval"]
    /\ pendingRequestOf' = [pendingRequestOf EXCEPT ![request[r].mandateId] = 0]
    /\ UNCHANGED <<balance, cooldownUntil, viewers>>

\* An escalated request keeps the slot of its mandate.
FinalizeEscalate(r) ==
    /\ request[r].decision = D_ESCALATE
    /\ request' = [request EXCEPT ![r].state = "AwaitingSafeApproval"]
    /\ pendingRequestOf' = [pendingRequestOf EXCEPT ![request[r].mandateId] = r]
    /\ viewers' = viewers \cup (Owners \X {request[r].amount.handle})
    /\ UNCHANGED <<balance, cooldownUntil>>

BlockedWithoutCooldown(r) ==
    /\ request[r].decision = D_BLOCKED
    /\ request' = [request EXCEPT ![r].state = "Blocked"]
    /\ pendingRequestOf' = [pendingRequestOf EXCEPT ![request[r].mandateId] = 0]
    /\ UNCHANGED <<balance, cooldownUntil, viewers>>

FinalizeBlocked(r) ==
    /\ request[r].decision = D_BLOCKED
    /\ request' = [request EXCEPT ![r].state = "Blocked"]
    /\ pendingRequestOf' = [pendingRequestOf EXCEPT ![request[r].mandateId] = 0]
    /\ cooldownUntil' = [cooldownUntil EXCEPT ![request[r].delegate] = now + BLOCKED_COOLDOWN]
    /\ UNCHANGED <<balance, viewers>>

Finalize(r) ==
    /\ request[r].state = "Requested"
    /\ FinalizeExecute(r) \/ FinalizeEscalate(r) \/ FinalizeBlocked(r)
    /\ UNCHANGED <<now, policyVars, adminVars, nextRequestId, packetVars, funded, enabled>>

ExecuteEscalated(r) ==
    /\ request[r].state = "AwaitingSafeApproval"
    /\ request' = [request EXCEPT ![r].state = "Executed"]
    /\ pendingRequestOf' = [pendingRequestOf EXCEPT ![request[r].mandateId] = 0]
    /\ balance' = Transfer(Module, request[r].recipient, request[r].reserved.val)
    /\ UNCHANGED <<now, policyVars, adminVars, nextRequestId, cooldownUntil, packetVars,
                   funded, enabled, viewers>>

BudgetKept(r) == mandate[request[r].mandateId].budgetLeft

\* The very ciphertext the budget was before the request.
RestoredBudget(r) == request[r].budgetBefore

\* The reserve goes back to the Safe and the mandate gets its budget back.
Refund(r, state) ==
    LET m == request[r].mandateId
    IN  /\ request' = [request EXCEPT ![r].state = state]
        /\ pendingRequestOf' = [pendingRequestOf EXCEPT ![m] = 0]
        /\ balance' = Transfer(Module, Safe, request[r].reserved.val)
        /\ mandate' = [mandate EXCEPT ![m].budgetLeft = RestoredBudget(r)]
        /\ viewers' = viewers \cup ({financeAdmin} \X
                        {mandate[m].autoLimit.handle, RestoredBudget(r).handle,
                         mandate[m].reserveFloor.handle})
        /\ UNCHANGED <<now, nextMandateId, activeMandateOf, adminVars, nextRequestId,
                       cooldownUntil, packetVars, funded, enabled>>

CancelEscalated(r) ==
    /\ request[r].state = "AwaitingSafeApproval"
    /\ Refund(r, "Cancelled")

ExpireAnyState(r) ==
    /\ request[r].state # "None"
    /\ now >= request[r].createdAt + REQUEST_EXPIRY
    /\ Refund(r, "Expired")

ExpireUnlessPaused(r) ==
    /\ ~paused
    /\ request[r].state = "Requested"
    /\ now >= request[r].createdAt + REQUEST_EXPIRY
    /\ Refund(r, "Expired")

ExpireUnfinalized(r) ==
    /\ request[r].state = "Requested"
    /\ now >= request[r].createdAt + REQUEST_EXPIRY
    /\ Refund(r, "Expired")

-----------------------------------------------------------------------------
(* Audit.  A packet holds fresh handles over the values as they stand; the *)
(* auditor becomes a viewer of those handles and of no other.              *)

LiveHandles(p, m, ids) ==
    {mandate[m].autoLimit, mandate[m].budgetLeft, mandate[m].reserveFloor}
    \cup {request[r].amount : r \in ids} \cup {request[r].reason : r \in ids}

Snapshots(p, m, ids) ==
    {Cipher(<<"snapAutoLimit", p, 0>>, mandate[m].autoLimit.val),
     Cipher(<<"snapBudgetLeft", p, 0>>, mandate[m].budgetLeft.val),
     Cipher(<<"snapReserveFloor", p, 0>>, mandate[m].reserveFloor.val)}
    \cup {Cipher(<<"snapAmount", p, r>>, request[r].amount.val) : r \in ids}
    \cup {Cipher(<<"snapReason", p, r>>, request[r].reason.val) : r \in ids}

DisclosableInFlight(m, r) == request[r].mandateId = m

\* Only a settled request of the packet's mandate may be disclosed.
Disclosable(m, r) == request[r].mandateId = m /\ request[r].state \in TerminalStates

CreateAuditPacket(auditor, m, ids) ==
    LET p == nextPacketId
    IN  /\ p <= MaxPackets
        /\ auditor # NoOne
        /\ Cardinality(ids) <= MAX_AUDIT_REQUESTS
        /\ mandate[m].state # "None"
        /\ \A r \in ids : Disclosable(m, r)
        /\ nextPacketId' = p + 1
        /\ packet' = [packet EXCEPT ![p] =
             [auditor |-> auditor, mandateId |-> m, policyVersion |-> m, createdAt |-> now,
              requestIds |-> ids, snapshots |-> Snapshots(p, m, ids)]]
        /\ viewers' = viewers \cup ({auditor} \X {c.handle : c \in Snapshots(p, m, ids)})
        /\ UNCHANGED <<now, policyVars, adminVars, spendVars, safeVars>>

-----------------------------------------------------------------------------
(* Around the contract: the Safe, the token and the chain. *)

\* The Safe's owners may enable and disable the module, and spend the treasury
\* in transactions of the Safe that never touch the module.
SetModuleEnabled(e) ==
    /\ enabled' = e
    /\ UNCHANGED <<now, policyVars, adminVars, spendVars, packetVars, balance, funded, viewers>>

SafeTransfer(a) ==
    /\ funded
    /\ balance' = Transfer(Safe, Outside, a)
    /\ UNCHANGED <<now, policyVars, adminVars, spendVars, packetVars, funded, enabled, viewers>>

\* Anyone may wrap or send tokens to the Safe, or to the module itself.
Wrap(to, a) ==
    /\ a <= balance[Outside]
    /\ balance' = Transfer(Outside, to, a)
    /\ funded' = (funded \/ to = Safe)
    /\ UNCHANGED <<now, policyVars, adminVars, spendVars, packetVars, enabled, viewers>>

Tick ==
    /\ now < MaxTime
    /\ now' = now + 1
    /\ UNCHANGED <<policyVars, adminVars, spendVars, packetVars, safeVars, viewers>>

Next ==
    \/ \E p \in Proposals : ProposeMandate(p)
    \/ \E m \in MandateIds : ActivateMandate(m) \/ RetireMandate(m)
    \/ \E a \in Admins : SetFinanceAdmin(a)
    \/ PauseAll \/ UnpauseAll
    \/ \E d \in Delegates, m \in MandateIds, to \in Accounts, a \in Amounts :
          RequestSpend(d, m, to, a)
    \/ \E r \in RequestIds : \/ Finalize(r)
                             \/ ExecuteEscalated(r)
                             \/ CancelEscalated(r)
                             \/ ExpireUnfinalized(r)
    \/ \E auditor \in Auditors, m \in MandateIds, ids \in SUBSET RequestIds :
          CreateAuditPacket(auditor, m, ids)
    \/ \E e \in BOOLEAN : SetModuleEnabled(e)
    \/ \E a \in Amounts : SafeTransfer(a)
    \/ \E to \in {Safe, Module}, a \in Amounts : Wrap(to, a)
    \/ Tick

\* Blocks keep coming, and expiry is open to anyone: some caller who wants the
\* escrow back keeps trying.  Nothing is assumed of couriers, admin or Safe.
Fairness ==
    /\ WF_vars(Tick)
    /\ \A r \in RequestIds : WF_vars(ExpireUnfinalized(r))

Spec == Init /\ [][Next]_vars /\ Fairness

-----------------------------------------------------------------------------
(* Properties *)

Mandate == [delegate : Delegates \cup {NoOne}, validFrom : Nat, validUntil : Nat,
            state : MandateStates, recipients : SUBSET Accounts, autoLimit : Ciphers,
            budgetLeft : Ciphers, reserveFloor : Ciphers]
Request == [mandateId : MandateIds \cup {0}, delegate : Delegates \cup {NoOne},
            recipient : Accounts \cup {NoOne}, createdAt : Nat, state : RequestStates,
            amount : Ciphers, reserved : Ciphers, budgetBefore : Ciphers,
            decision : 0 .. 3, reason : Ciphers]
Packet  == [auditor : Auditors \cup {NoOne}, mandateId : MandateIds \cup {0},
            policyVersion : MandateIds \cup {0}, createdAt : Nat,
            requestIds : SUBSET RequestIds, snapshots : SUBSET Ciphers]

\* The types of the variables.
TypeOK ==
    /\ now \in Nat
    /\ paused \in BOOLEAN /\ enabled \in BOOLEAN /\ funded \in BOOLEAN
    /\ financeAdmin \in Admins
    /\ nextMandateId \in 1 .. MaxMandates + 1
    /\ nextRequestId \in 1 .. MaxRequests + 1
    /\ nextPacketId  \in 1 .. MaxPackets + 1
    /\ mandate \in [MandateIds -> Mandate]
    /\ request \in [RequestIds -> Request]
    /\ packet  \in [PacketIds -> Packet]
    /\ pendingRequestOf \in [MandateIds -> RequestIds \cup {0}]
    /\ cooldownUntil   \in [Delegates -> Nat]
    /\ activeMandateOf \in [Delegates -> MandateIds \cup {0}]
    /\ balance \in [Accounts -> Nat]
    /\ viewers \subseteq Humans \X Handles

Live(r) == request[r].state \in LiveStates

\* The slot of a mandate names its live request and nothing else, so a mandate
\* never has two requests in flight and a settled one never blocks it: the slot
\* is cleared, kept or set again by finalize, approval, rejection and expiry.
SlotExact ==
    \A m \in MandateIds, r \in RequestIds :
        pendingRequestOf[m] = r <=> Live(r) /\ request[r].mandateId = m

\* activeMandateOf and the mandates' own states agree: a delegate has at most one
\* active mandate, whatever the order of proposals, activations and retirements.
SingleActiveMandate ==
    \A m \in MandateIds, d \in Delegates :
        activeMandateOf[d] = m <=> mandate[m].state = "Active" /\ mandate[m].delegate = d

\* A policy is never replaced or retired under a request in flight: the mandate of
\* a live request is its delegate's active one, hence a delegate has at most one
\* request in flight over all of its mandates.
LiveUnderActiveMandate ==
    \A r \in RequestIds : Live(r) =>
        /\ activeMandateOf[request[r].delegate] = request[r].mandateId
        /\ \A s \in RequestIds : Live(s) /\ request[s].delegate = request[r].delegate => s = r

\* Rejection and expiry overwrite the budget with an old ciphertext.  That gives back
\* exactly the reserve, neither more nor less, as long as nothing else was charged
\* to the budget meanwhile.
RestoreIsExact ==
    \A r \in RequestIds : Live(r) =>
        request[r].budgetBefore.val =
            mandate[request[r].mandateId].budgetLeft.val + request[r].reserved.val

SumReserved(S) == MapThenSumSet(LAMBDA r : request[r].reserved.val, S)

\* The module can pay or return every reserve it holds, whatever the treasury, other
\* requests and outsiders did: a transfer the balance does not cover would settle
\* the request and silently move nothing.
EscrowCoversLiveRequests ==
    balance[Module] >= SumReserved({r \in RequestIds : Live(r)})

RequestsOf(m) == {r \in RequestIds : request[r].mandateId = m}
\* The budget a mandate was drafted with: its first request found it untouched.
DraftedBudget(m) ==
    IF RequestsOf(m) = {} THEN mandate[m].budgetLeft.val
    ELSE request[Min(RequestsOf(m))].budgetBefore.val

\* All that was paid or is still held under a mandate plus what is left of its budget
\* is the budget its owners approved.
BudgetLedger ==
    \A m \in MandateIds :
        mandate[m].budgetLeft.val
          + SumReserved({r \in RequestsOf(m) : Live(r) \/ request[r].state = "Executed"})
        = DraftedBudget(m)

\* A delegate whose request was refused by the policy learns nothing more from a new
\* one before the cooldown is over, under any of its mandates, also when the refused
\* request was expired and never finalized.
ProbeSpacing ==
    \A r, s \in RequestIds :
        /\ r < s /\ request[s].state # "None"
        /\ request[r].delegate = request[s].delegate
        /\ request[r].decision = D_BLOCKED
        => request[s].createdAt >= request[r].createdAt + BLOCKED_COOLDOWN

\* A packet keeps telling the truth about the requests it covers: their amount and
\* reason are still those of the snapshots, and they are settled requests of its mandate.
PacketsStayTrue ==
    \A p \in PacketIds, r \in RequestIds : r \in packet[p].requestIds =>
        /\ request[r].mandateId = packet[p].mandateId
        /\ request[r].state \in TerminalStates
        /\ Cipher(<<"snapAmount", p, r>>, request[r].amount.val) \in packet[p].snapshots
        /\ Cipher(<<"snapReason", p, r>>, request[r].reason.val) \in packet[p].snapshots

SnapshotKinds == {"snapAutoLimit", "snapBudgetLeft", "snapReserveFloor", "snapAmount", "snapReason"}

\* An auditor with no other role views snapshots of its own packets and nothing live;
\* an owner with no other role views the amount of a request only once it escalated.
ViewerScope ==
    \A v \in viewers :
        /\ v[1] \in Auditors \ (Owners \cup Admins \cup Delegates) =>
              /\ v[2][1] \in SnapshotKinds
              /\ packet[v[2][2]].auditor = v[1]
        /\ v[1] \in Owners \ (Auditors \cup Admins \cup Delegates) /\ v[2][1] = "amount" =>
              /\ request[v[2][2]].decision = D_ESCALATE
              /\ request[v[2][2]].state # "Requested"

\* A request that is settled as executed really pays: its recipient gets the amount
\* asked for (a recipient that is the module itself already holds it), and an amount
\* over the automatic limit only after the Safe's owners had it to approve.
PaidInFull ==
    [][\A r \in RequestIds :
         request[r].state # "Executed" /\ request'[r].state = "Executed" =>
            /\ \/ request[r].recipient = Module
               \/ balance'[request[r].recipient] =
                     balance[request[r].recipient] + request[r].amount.val
            /\ \/ request[r].state = "AwaitingSafeApproval"
               \/ request[r].amount.val <= mandate[request[r].mandateId].autoLimit.val]_vars

\* A request that was settled, a mandate that was retired and a packet that was made
\* stay as they are.
SettledIsFinal ==
    [][/\ \A r \in RequestIds :
            request[r].state \in TerminalStates => request'[r] = request[r]
       /\ \A m \in MandateIds :
            mandate[m].state = "Retired" => mandate'[m] = mandate[m]
       /\ \A p \in PacketIds :
            p < nextPacketId => packet'[p] = packet[p]]_vars

\* No request waits for a decision for ever: with the gateway and every courier gone,
\* the module paused or disabled, the escrow still comes back through expiry.
NoRequestStranded ==
    \A r \in RequestIds : request[r].state = "Requested" ~> request[r].state # "Requested"

\* What a reader of the comment on pauseAll would expect ("pause everything"): while
\* the module is paused its escrow pays no recipient.
PausedPaysNobody ==
    [][paused => \A r \in RequestIds :
         request'[r].state = "Executed" => request[r].state = "Executed"]_vars

\* The module delivers the delegated budget it promises.
SpendStatus(r) ==
    CASE request[r].state = "None"     -> "free"
      [] Live(r)                       -> "held"
      [] request[r].state = "Executed" -> "paid"
      [] OTHER                         -> "returned"

GrantedView == {m \in MandateIds : mandate[m].state # "None"}
BudgetView  == [m \in MandateIds |-> mandate[m].budgetLeft.val]
StatusView  == [r \in RequestIds |-> SpendStatus(r)]
TakerView   == [r \in RequestIds |-> request[r].mandateId]
HeldView    == [r \in RequestIds |-> request[r].reserved.val]

Budget == INSTANCE DelegatedBudget WITH
    Mandates <- MandateIds, Spends <- RequestIds, Budgets <- {p.budget : p \in Proposals},
    granted <- GrantedView, budget <- BudgetView, status <- StatusView,
    taker <- TakerView, held <- HeldView

\* Every step of the module is a step of DelegatedBudget or leaves it alone.
RefinesDelegatedBudget == Budget!Spec

=============================================================================
