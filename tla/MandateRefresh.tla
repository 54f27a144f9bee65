--------------------------- MODULE MandateRefresh ---------------------------
(***************************************************************************)
(* How the provisioner keeps mandates usable: the watchdog refreshes each  *)
(* demo delegate's mandate, provision makes one for a visitor, and both    *)
(* run the same pipeline: back the mandate with test assets, propose it,   *)
(* let the Safe activate it, write the funding evidence.  Requests arrive  *)
(* in between, any call fails, the process restarts.  demoReady reads all  *)
(* of it over several awaits.                                              *)
(***************************************************************************)
EXTENDS Naturals, Sequences, FiniteSets

CONSTANTS
    DEMO_DELEGATES,     \* the sequence of demo delegates
    Visitors,           \* addresses provision is asked for, demo delegates included
    MaxRequests,        \* bound on the requests that arrive
    MaxProvisions,      \* bound on the calls of provision
    MaxAsks,            \* bound on the calls of demoReady
    MaxElsewhere,       \* bound on mandates proposed with the same key by a script
    MaxFaults           \* bound on crashes and failed calls

Delegates == {DEMO_DELEGATES[i] : i \in DOMAIN DEMO_DELEGATES} \cup Visitors

\* The code names three delegates, so there is a first one.
RefreshBounds ==
    /\ DEMO_DELEGATES \in Seq(Delegates) /\ DEMO_DELEGATES # <<>>
    /\ MaxRequests \in Nat /\ MaxProvisions \in Nat /\ MaxAsks \in Nat
    /\ MaxElsewhere \in Nat /\ MaxFaults \in Nat

Cycles == {"cycle1", "cycle2"}      \* runs of the watchdog
Jobs == Cycles \cup {"provision"}

VARIABLES
    topupEnabled, gasEnabled,   \* the opt-in switches of the release
    active,             \* delegate -> its active mandate, 0 for none
    ownerOf,            \* mandate -> the delegate it was proposed for
    unfit,              \* mandates drained below the floor, of an old schema or with legacy handles
    slot,               \* delegates with a request in flight
    gasLow,             \* delegates below the gas floor
    wrapped,            \* mandate-sized amounts wrapped for the Safe and not yet matched
    minted,             \* activations: mandate, delegate and whether assets were added for it
    mem, disk,          \* treasury-readiness journal: delegate -> mandate
    refreshing, due,    \* the watchdog's flag and whether its interval has passed
    job,                \* where each run of the pipeline is
    adminLock,          \* the job in the admin wallet's critical section, or "free"
    cache,              \* budgetCache: delegate -> none, low or ok
    probe,              \* the demoReady call under way
    used                \* what was spent of the bounds

chain == <<active, ownerOf, unfit, slot, gasLow>>
switches == <<topupEnabled, gasEnabled>>
journal == <<mem, disk>>
vars == <<switches, chain, wrapped, minted, journal, refreshing, due, job, adminLock,
          cache, probe, used>>

IdleJob == [pc |-> "idle", at |-> 0, who |-> DEMO_DELEGATES[1], seen |-> 0, id |-> 0, backed |-> FALSE]
IdleProbe == [pc |-> "idle", who |-> DEMO_DELEGATES[1], id |-> 0]

\* The chain may hold a mandate of an earlier process for the first delegate.
Init ==
    /\ topupEnabled \in BOOLEAN /\ gasEnabled \in BOOLEAN
    /\ ownerOf = <<DEMO_DELEGATES[1]>> /\ unfit \in SUBSET {1}
    /\ active = [d \in Delegates |-> IF d = DEMO_DELEGATES[1] THEN 1 ELSE 0]
    /\ slot = {} /\ gasLow \in SUBSET {DEMO_DELEGATES[1]}
    /\ wrapped = 0 /\ minted = {}
    /\ mem = [d \in Delegates |-> 0] /\ disk = mem
    /\ refreshing = FALSE /\ due = TRUE
    /\ job = [w \in Jobs |-> IdleJob] /\ adminLock = "free"
    /\ cache = [d \in Delegates |-> "none"]
    /\ probe = IdleProbe
    /\ used = [requests |-> 0, provisions |-> 0, asks |-> 0, elsewhere |-> 0, faults |-> 0]

Spend(kind, bound) == used[kind] < bound /\ used' = [used EXCEPT ![kind] = @ + 1]
Fault == Spend("faults", MaxFaults)
Step(w, pc) == job' = [job EXCEPT ![w].pc = pc]
Enter(w) == adminLock = "free" /\ adminLock' = w
Leave == adminLock' = "free"

\* The catch of a delegate's refresh, the rejected promise of a provision.
GiveUp(w) == Step(w, IF w = "provision" THEN "failed" ELSE "next")
Fails(w) == Fault /\ GiveUp(w) /\ adminLock' = IF adminLock = w THEN "free" ELSE adminLock

-----------------------------------------------------------------------------
(* The watchdog                                                            *)

CycleDue == due /\ ~refreshing

Start ==
    /\ CycleDue
    /\ due' = FALSE /\ refreshing' = TRUE
    /\ LET w == CHOOSE c \in Cycles : job[c].pc = "idle"
       IN  job' = [job EXCEPT ![w] = [IdleJob EXCEPT !.pc = "next"]]

\* refreshDemoMandateIfDrained, called by the sweep.
StartCycle ==
    /\ \E c \in Cycles : job[c].pc = "idle"
    /\ Start
    /\ UNCHANGED <<switches, chain, wrapped, minted, journal, adminLock, cache, probe, used>>

\* The loop: the next delegate, or the end.
NextDelegate(w) ==
    /\ job[w].pc = "next"
    /\ IF job[w].at = Len(DEMO_DELEGATES)
       THEN job' = [job EXCEPT ![w] = IdleJob] /\ refreshing' = FALSE
       ELSE /\ job' = [job EXCEPT ![w] = [IdleJob EXCEPT !.pc = "gas", !.at = job[w].at + 1,
                                              !.who = DEMO_DELEGATES[job[w].at + 1]]]
            /\ UNCHANGED refreshing
    /\ UNCHANGED <<switches, chain, wrapped, minted, journal, due, adminLock, cache, probe, used>>

\* maybeTopUpDemoGas: below the floor and not enabled, the delegate is left alone.
GasCheck(w) ==
    /\ job[w].pc = "gas"
    /\ \/ job[w].who \notin gasLow /\ Step(w, "mandate") /\ UNCHANGED <<adminLock, used>>
       \/ job[w].who \in gasLow /\ ~gasEnabled /\ Step(w, "next") /\ UNCHANGED <<adminLock, used>>
       \/ job[w].who \in gasLow /\ gasEnabled /\ Enter(w) /\ Step(w, "topup") /\ UNCHANGED used
       \/ Fails(w)
    /\ UNCHANGED <<switches, chain, wrapped, minted, journal, refreshing, due, cache, probe>>

GasTopUp(w) ==
    /\ job[w].pc = "topup"
    /\ \/ gasLow' = gasLow \ {job[w].who} /\ Leave /\ Step(w, "mandate") /\ UNCHANGED used
       \/ Fails(w) /\ UNCHANGED gasLow
    /\ UNCHANGED <<switches, active, ownerOf, unfit, slot, wrapped, minted, journal,
                   refreshing, due, cache, probe>>

\* activeMandateOf
ReadActive(w) ==
    /\ job[w].pc = "mandate"
    /\ \/ /\ job' = [job EXCEPT ![w].seen = active[job[w].who],
                                ![w].pc = IF active[job[w].who] = 0 THEN "scan" ELSE "look"]
          /\ UNCHANGED <<adminLock, used>>
       \/ Fails(w)
    /\ UNCHANGED <<switches, chain, wrapped, minted, journal, refreshing, due, cache, probe>>

isReady(d, m) == mem[d] = m

\* The mandate is fit and its funding is in the journal, or a fresh one is due.
Look(w) ==
    /\ job[w].pc = "look"
    /\ \/ /\ IF job[w].seen \in unfit \/ ~isReady(job[w].who, job[w].seen)
             THEN Step(w, "scan") ELSE Step(w, "next")
          /\ UNCHANGED <<adminLock, used>>
       \/ Fails(w)
    /\ UNCHANGED <<switches, chain, wrapped, minted, journal, refreshing, due, cache, probe>>

\* No fresh mandate without the switch, or while a request holds the slot.
Scan(w) ==
    /\ job[w].pc = "scan"
    /\ \/ /\ Step(w, IF topupEnabled /\ job[w].who \notin slot THEN "fund" ELSE "next")
          /\ UNCHANGED <<adminLock, used>>
       \/ Fails(w)
    /\ UNCHANGED <<switches, chain, wrapped, minted, journal, refreshing, due, cache, probe>>

-----------------------------------------------------------------------------
(* The pipeline                                                            *)

\* provision, once its quota is taken.
Provision(d) ==
    /\ job["provision"].pc \in {"idle", "failed"} /\ Spend("provisions", MaxProvisions)
    /\ job' = [job EXCEPT !["provision"] = [IdleJob EXCEPT !.pc = "fund", !.who = d]]
    /\ UNCHANGED <<switches, chain, wrapped, minted, journal, refreshing, due, adminLock,
                   cache, probe>>

\* fundDemoTreasury: one critical section of the admin wallet.
Fund(w) ==
    /\ job[w].pc = "fund"
    /\ IF topupEnabled
       THEN Enter(w) /\ Step(w, "faucet")
       ELSE GiveUp(w) /\ UNCHANGED adminLock
    /\ UNCHANGED <<switches, chain, wrapped, minted, journal, refreshing, due, cache, probe, used>>

\* mutant: the mandate is proposed on the faucet's receipt
FaucetOnly == [faucet |-> "propose", approve |-> "wrap", wrap |-> "propose"]
AfterSend == [faucet |-> "approve", approve |-> "wrap", wrap |-> "propose"]

\* Faucet, wrapper approval, wrap: each is mined before the next.
Send(w) ==
    /\ job[w].pc \in DOMAIN AfterSend
    /\ LET backs == job[w].pc = "wrap" IN
       \/ /\ job' = [job EXCEPT ![w].pc = AfterSend[job[w].pc], ![w].backed = backs]
          /\ wrapped' = wrapped + IF backs THEN 1 ELSE 0
          /\ adminLock' = IF AfterSend[job[w].pc] = "propose" THEN "free" ELSE adminLock
          /\ UNCHANGED used
       \/ Fails(w) /\ wrapped' \in {wrapped, wrapped + IF backs THEN 1 ELSE 0}
    /\ UNCHANGED <<switches, chain, minted, journal, refreshing, due, cache, probe>>

Mined(d) == ownerOf' = Append(ownerOf, d)

\* adminProposeMandate: the proposal is mined,
Propose(w) ==
    /\ job[w].pc = "propose"
    /\ \/ /\ Enter(w) /\ Mined(job[w].who)
          /\ job' = [job EXCEPT ![w].pc = "receipt", ![w].id = Len(ownerOf) + 1]
          /\ UNCHANGED used
       \/ Fails(w) /\ ownerOf' \in {ownerOf, Append(ownerOf, job[w].who)}
    /\ UNCHANGED <<switches, active, unfit, slot, gasLow, wrapped, minted, journal,
                   refreshing, due, cache, probe>>

IdFromReceipt(w) == job[w].id

\* and its id is read off the receipt.
Receipt(w) ==
    /\ job[w].pc = "receipt"
    /\ job' = [job EXCEPT ![w].pc = "activate", ![w].id = IdFromReceipt(w)]
    /\ Leave
    /\ UNCHANGED <<switches, chain, wrapped, minted, journal, refreshing, due, cache, probe, used>>

\* safeExec2of2 with activateMandate, which reverts while a request is in flight.
Activate(w) ==
    /\ job[w].pc = "activate"
    /\ LET m == job[w].id  d == ownerOf[m]
           mined == /\ d \notin slot /\ active' = [active EXCEPT ![d] = m]
                    /\ minted' = minted \cup {[id |-> m, of |-> job[w].who, backed |-> job[w].backed]}
       IN \/ mined /\ Step(w, "record") /\ UNCHANGED <<adminLock, used>>
          \/ d \in slot /\ GiveUp(w) /\ UNCHANGED <<active, minted, adminLock, used>>
          \/ Fails(w) /\ (mined \/ UNCHANGED <<active, minted>>)
    /\ UNCHANGED <<switches, ownerOf, unfit, slot, gasLow, wrapped, journal, refreshing, due,
                   cache, probe>>

Note(w) == [mem EXCEPT ![job[w].who] = job[w].id]

\* treasuryReadiness.record: in memory at once, then in the file.
Record(w) ==
    /\ job[w].pc = "record"
    /\ mem' = Note(w)
    /\ \/ disk' = mem' /\ Step(w, IF w = "provision" THEN "idle" ELSE "next") /\ UNCHANGED <<adminLock, used>>
       \/ disk' \in {disk, mem'} /\ Fails(w)
    /\ UNCHANGED <<switches, chain, wrapped, minted, refreshing, due, cache, probe>>

-----------------------------------------------------------------------------
(* demoReady                                                               *)

Say(answer) == probe' = [probe EXCEPT !.pc = answer]

\* kickRefresh: the interval is forgotten and a cycle starts if none is under way.
kickRefresh ==
    IF refreshing THEN due' = TRUE /\ UNCHANGED <<refreshing, job>>
    ELSE /\ due' = FALSE /\ refreshing' = TRUE
         /\ LET w == CHOOSE c \in Cycles : job[c].pc = "idle"
            IN  job' = [job EXCEPT ![w] = [IdleJob EXCEPT !.pc = "next"]]
NoKick == UNCHANGED <<due, refreshing, job>>
kickTreasuryRefresh == IF topupEnabled THEN kickRefresh ELSE NoKick

Ask(d) ==
    /\ probe.pc \in {"idle", "ready", "notReady"} /\ Spend("asks", MaxAsks)
    /\ IF active[d] = 0 THEN probe' = [pc |-> "notReady", who |-> d, id |-> 0] /\ kickTreasuryRefresh
       ELSE probe' = [pc |-> "mandate", who |-> d, id |-> active[d]] /\ NoKick
    /\ UNCHANGED <<switches, chain, wrapped, minted, journal, adminLock, cache>>

\* The recipients and the evidence, then the newest requests.
AskMandate ==
    /\ probe.pc = "mandate"
    /\ IF isReady(probe.who, probe.id) THEN Say("requests") /\ NoKick
       ELSE Say("notReady") /\ kickTreasuryRefresh
    /\ UNCHANGED <<switches, chain, wrapped, minted, journal, adminLock, cache, used>>

AskRequests ==
    /\ probe.pc = "requests"
    /\ Say(IF probe.who \in slot THEN "notReady" ELSE "gas")
    /\ UNCHANGED <<switches, chain, wrapped, minted, journal, refreshing, due, job, adminLock,
                   cache, used>>

AskGas ==
    /\ probe.pc = "gas"
    /\ IF probe.who \notin gasLow THEN Say("budget") /\ NoKick
       ELSE Say("notReady") /\ IF gasEnabled THEN kickRefresh ELSE NoKick
    /\ UNCHANGED <<switches, chain, wrapped, minted, journal, adminLock, cache, used>>

\* delegateBudget, from the cache or decrypted; a failed decryption is not held against it.
AskBudget ==
    /\ probe.pc = "budget"
    /\ LET fresh == IF probe.id \in unfit THEN "low" ELSE "ok"
           known == IF cache[probe.who] = "none" THEN fresh ELSE cache[probe.who]
       IN \/ /\ cache' = [cache EXCEPT ![probe.who] = known]
             /\ UNCHANGED used
             /\ IF known = "low" THEN Say("notReady") /\ kickTreasuryRefresh ELSE Say("ready") /\ NoKick
          \/ Fault /\ cache[probe.who] = "none" /\ Say("ready") /\ NoKick /\ UNCHANGED cache
    /\ UNCHANGED <<switches, chain, wrapped, minted, journal, adminLock>>

CacheExpires(d) ==
    /\ cache[d] # "none" /\ cache' = [cache EXCEPT ![d] = "none"]
    /\ UNCHANGED <<switches, chain, wrapped, minted, journal, refreshing, due, job, adminLock, probe, used>>

-----------------------------------------------------------------------------
(* The chain and the process                                               *)

\* A delegate spends: its slot is taken, its budget may fall below the floor.
Request(d) ==
    /\ active[d] # 0 /\ d \notin slot /\ Spend("requests", MaxRequests)
    /\ slot' = slot \cup {d} /\ unfit' \in {unfit, unfit \cup {active[d]}}
    /\ gasLow' \in {gasLow, gasLow \cup {d}}
    /\ UNCHANGED <<switches, active, ownerOf, wrapped, minted, journal, refreshing, due, job,
                   adminLock, cache, probe>>

Settle(d) ==
    /\ d \in slot /\ slot' = slot \ {d}
    /\ UNCHANGED <<switches, active, ownerOf, unfit, gasLow, wrapped, minted, journal,
                   refreshing, due, job, adminLock, cache, probe, used>>

\* A script proposes with the same key.
ProposeElsewhere(d) ==
    /\ Spend("elsewhere", MaxElsewhere) /\ Mined(d)
    /\ UNCHANGED <<switches, active, unfit, slot, gasLow, wrapped, minted, journal,
                   refreshing, due, job, adminLock, cache, probe>>

IntervalPasses ==
    /\ ~due /\ due' = TRUE
    /\ UNCHANGED <<switches, chain, wrapped, minted, journal, refreshing, job, adminLock,
                   cache, probe, used>>

Crash ==
    /\ Fault
    /\ mem' = disk /\ refreshing' = FALSE /\ due' = TRUE
    /\ job' = [w \in Jobs |-> IdleJob] /\ Leave
    /\ cache' = [d \in Delegates |-> "none"] /\ probe' = IdleProbe
    /\ UNCHANGED <<switches, chain, wrapped, minted, disk>>

JobStep(w) ==
    \/ NextDelegate(w) \/ GasCheck(w) \/ GasTopUp(w) \/ ReadActive(w) \/ Look(w) \/ Scan(w)
    \/ Fund(w) \/ Send(w) \/ Propose(w) \/ Receipt(w) \/ Activate(w) \/ Record(w)

Next ==
    \/ StartCycle \/ IntervalPasses \/ Crash
    \/ \E w \in Jobs : JobStep(w)
    \/ \E d \in Delegates : Request(d) \/ Settle(d) \/ ProposeElsewhere(d) \/ CacheExpires(d) \/ Ask(d)
    \/ AskMandate \/ AskRequests \/ AskGas \/ AskBudget
    \/ \E d \in Visitors : Provision(d)

Fairness ==
    /\ WF_vars(StartCycle) /\ WF_vars(IntervalPasses)
    /\ \A w \in Jobs : WF_vars(JobStep(w))
    /\ \A d \in Delegates : WF_vars(Settle(d))
Spec == Init /\ [][Next]_vars /\ Fairness

-----------------------------------------------------------------------------
(* Properties                                                              *)

RefreshTypeOK ==
    /\ active \in [Delegates -> 0 .. Len(ownerOf)]
    /\ mem \in [Delegates -> 0 .. Len(ownerOf)] /\ disk \in [Delegates -> 0 .. Len(ownerOf)]
    /\ unfit \subseteq 1 .. Len(ownerOf) /\ slot \subseteq Delegates /\ gasLow \subseteq Delegates
    /\ adminLock \in Jobs \cup {"free"} /\ wrapped \in Nat
    /\ cache \in [Delegates -> {"none", "low", "ok"}]

\* Budget is never reset without assets behind it: every mandate these pipelines
\* activated had its own wrap mined before.
MandatesAreBacked ==
    (\A x \in minted : x.backed) /\ Cardinality(minted) <= wrapped

\* What the journal says of a delegate was activated for that delegate, backed, also
\* after a crash and when two pipelines finish in another order than they began.
EvidenceIsTrue ==
    \A d \in Delegates : \A m \in {mem[d], disk[d]} \ {0} :
        \E x \in minted : x.id = m /\ x.of = d /\ x.backed

\* "ready" is said of a mandate whose assets were added, not of one that was active before.
ReadyIsBacked ==
    probe.pc = "ready" => \E x \in minted : x.id = probe.id /\ x.of = probe.who

\* A pipeline activates the proposal it made, whoever else proposes meanwhile.
ActivatesItsOwn == \A x \in minted : ownerOf[x.id] = x.of

\* Kicks and intervals never let two cycles spend on the same delegate.
OneRefreshAtATime ==
    \A v, w \in Cycles : v # w /\ job[v].pc # "idle" => job[w].pc = "idle"

\* The safety of the pipelines and of what they report.
MandatesSafe ==
    /\ RefreshTypeOK /\ MandatesAreBacked /\ EvidenceIsTrue
    /\ ReadyIsBacked /\ ActivatesItsOwn /\ OneRefreshAtATime

\* Every demo delegate has a fit mandate, and its funding is in the journal.
Served ==
    \A i \in DOMAIN DEMO_DELEGATES :
        LET d == DEMO_DELEGATES[i] IN active[d] # 0 /\ active[d] \notin unfit /\ mem[d] = active[d]
=============================================================================
