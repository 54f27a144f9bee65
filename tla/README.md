# VeilGuard: a verification development

VeilGuard lets the owners of a Safe delegate confidential spending: a delegate may
spend from the treasury under a mandate whose limits are ciphertexts, and the policy
is decided on ciphertext. This directory models the program in TLA+, checks small
instances with TLC and proves the core for all instances with TLAPS.

## Inventory

| component | state | operations | what makes it hard | what makes it correct |
|---|---|---|---|---|
| Policy module (`contracts/VeilGuardModule.sol`) | mandates, requests, packets, slots, cooldowns, active mandates, `paused`, the admin; balances in the token; viewers in the Nox access list | propose, activate, retire, set admin, pause, resume; request, finalize, execute/cancel escalated, expire; create a packet | calls of six roles in any order; two-transaction decisions; a budget restored by overwriting; an escrow all mandates share; transfers that fail silently; irrevocable grants | one live request per mandate, one active mandate per delegate, budgets that add up, an escrow that covers what it owes, refusals that are spaced out, packets that stay true |
| Tokens and Safe (`ConfidentialUSDC*.sol`, `mocks/`) | balances, enabled modules | transfer, wrap, enable, disable | the treasury moves outside the module too | supply is kept |
| Decision service (`server/lib/demo-decision.mjs`) | the journal file (first observation, intent, broadcast hash, receipt), in-memory jobs | decide, attest, expire | crashes between chain and journal, retries, a watchdog racing a user, one Safe nonce | one decision per request, no receipt without its transaction, a timeout never reported as a user's rejection |
| Safe executor and governance relay (`server/provisioner.mjs`) | the Safe lock and nonce | sign and broadcast; co-sign a governance action | nonce read, signatures, broadcast and receipt in one critical section | no two transactions signed over one nonce |
| Finalize courier, sweeper, `scripts/keeper.ts` | ids being finalized, the admin lock | finalize once the decision is provable | HTTP courier, sweeper and keeper meet the same request | one job per request, no wasted transaction, everything provable is delivered |
| Mandate refresh, provisioning and readiness (`server/provisioner.mjs`, `treasury-readiness.mjs`) | the funding journal, the budget cache | fund, propose, activate, record; ready? | a crash in the middle; requests and a second pipeline meanwhile | no mandate without assets, evidence that is true, delegates served in the end |
| Audit packets on request (`provisioner.mjs`, `single-flight.mjs`) | flights by key, quota | validate, group, reuse or create | overlapping keys, lost receipts, partial failure | results name the right packets, none is paid twice |
| Server guards (`sponsored-rate-limit.mjs`, `provision-security.mjs`) | quota journal, challenges | issue, verify, consume | concurrency, failed writes, restarts | quotas are never reopened, challenges are single-use, nobody is locked out for ever |
| RPC fallback (`rpc-fallback.mjs`) | quarantine and chain checks | read, broadcast | lost answers, endpoints that change chains | one delivery per payload, none to a wrong chain |
| Fresh-run controller and its scripts (`scripts/lib/fresh-*`, `smoke-sepolia.ts`, `e2e-sepolia.ts`) | checkpoint file | transaction, finalize, Safe action, check | crash at any point | nothing is sent twice, the checkpoint is true, runs complete |
| Demo session (`app/src/demo-session.ts`, `missions.ts`, `mission-recovery.ts`) | missions and tour of a run | the reducer; rebuilding from the chain | evidence in any order | outcomes are final and never guessed |
| Guided payments (`views/DelegateView.tsx`, `payment-track.ts`, `App.tsx`) | rendered session, pointer to the payment under way, decisions | submit, recover, bind, decide, reveal, restart | reloads, pages left while they pay, late answers, other visitors' requests | no mission is paid for twice while its page stays, evidence is the run's own |
| Mission drawer (`GuidedTour.tsx`, `routes.ts`) | step, role, route, pause | continue, resume, back, pause | the three land on different frames | pauses only when the visitor leaves, leads to the end |
| Disclosure page (`views/DisclosureView.tsx`, `disclosure-checkpoint.ts`) | checkpoint in the browser's storage | sign, record, recover, discard | tabs, reloads, refused writes | no group is signed twice, no pointer is lost |
| Auditor page (`views/AuditorView.tsx`) | packets, clear values, verdicts, gate | unlock, judge, complete | packets disclosed meanwhile | a complete audit was earned |
| Wallet network (`wallet-network.ts`, `App.tsx`, `nox.ts`) | connected wallet, checks under way, client cache | connect, restore, switch, disconnect | answers of wallets left behind | the latest intent wins, one prompt at a time |
| Browser operations and refresh (`operation-lock.ts`, `App.tsx`, `finalize-courier.ts`) | resources, the read under way, the finalize effect | acquire, release, refresh, follow | an effect held back by others' state | a resource has one holder, a ready decision is published |
| Nox reads (`nox-consistency.ts`, `nox.ts`, `ui.tsx`) | a wait's clock, the client cache | wait, retry, decrypt | replicas that lag, outages, deadlines | what resolves in time is noticed, failure is not remembered |
| Transaction log (`txlog.ts`) | cached map, scan in flight | fetch, forced rescan | joined and failed scans | whole maps that never shrink, few scans |
| Other user interface; deployment, evidence and release scripts | - | - | rendering; straight-line scripts | not modelled |

How they meet: delegates, owners and admin call the module on the chain. The server is
a courier (`finalize`), a co-signer of Safe transactions (activation, approval,
rejection) and a watchdog that rejects escalations nobody decided. The browser drives
the server over HTTP and reads the chain. Everything that moves money is an action of
the module; the others choose when it happens.

## Modules

| module | models |
|---|---|
| `VeilGuardModule` | the contract, with the token balances, the Safe's switch for the module and the access list it writes |
| `DelegatedBudget` | what the contract promises about a budget, abstractly: granted once, reserved, then paid or returned once |
| `MCVeilGuardModule` | the drafts of the small instances |
| `VeilGuardModule_proofs` | the theorems about the contract and their proofs |
| `DemoDecision` | the decision service with the Safe executor and its lock, the governance relay and the sweep of escalated requests |
| `MCDemoDecision` | the requests of the small instances |
| `DemoDecision_proofs` | the theorems about the decision service and their proofs |
| `FinalizeCourier`, `FinalizeCourier_proofs` | the three couriers of finalize, beside other users of the admin key; its theorem |
| `SponsoredProvisioning` | challenges, gate and quota in front of sponsored provisioning |
| `RpcFallback` | reads and broadcasts over a list of endpoints |
| `MandateRefresh`, `MandateRefresh_proofs` | the watchdog, provision and `demoReady` over one pipeline and one journal; its theorem |
| `AuditPackets`, `AuditPackets_proofs` | packet jobs behind a single-flight cache; its theorem |
| `Server`, `Server_proofs` | the five server modules above in one specification, with the constants of each; its theorems, and those about `SponsoredProvisioning` and `FreshRuns` |
| `MCServer` | the constants of its small instance |
| `FreshRun` | the checkpointed controller, for any script and chain given as constants |
| `FreshScripts` | the data of `FreshRun`: the two scripts and the chain they act on |
| `FreshRuns` | either script on the controller, with any number of faults |
| `DisclosureCheckpoint` | the disclosure page in several tabs over one storage |
| `MCCheckpoints` | the scripts and the disclosure in one instance |
| `DemoSession`, `MissionRecovery` | the reducer and the recovery from the chain, as operators on session records |
| `GuidedRun`, `GuidedRun_proofs` | one tab playing the payment missions, for any set of visits; uses `DemoSession` and `MissionRecovery`; its theorems |
| `GuidedTour` | the mission drawer and the shell; uses `DemoSession` |
| `AuditReview` | the auditor's page; uses `DemoSession` |
| `MCGuided` | the visits of its small instance |
| `WalletNetwork` | wallets, their network and the clients made from them |
| `BrowserOperations` | operations by resource, the shared refresh, the finalize effect |
| `NoxRead` | a click that reads a clear value |
| `RequestLog` | the scan of the module's events and the pages that show it |
| `Browser` | the drawer, the auditor's page and the four modules above in one specification, with the constants of each |
| `MCBrowser` | the constants of its small instance |
| `Clients_proofs` | the theorems about `DisclosureCheckpoint` and `Browser` and their proofs |
| `MCProgress` | the instances whose progress is checked, with their fairness |

A group instance (`Server` with `MCServer`, `Browser` with `MCBrowser`, `MCCheckpoints`, `MCProgress`) takes its
components with `INSTANCE ... WITH` (`Server` extends `RpcFallback`; `MCCheckpoints` extends
`DisclosureCheckpoint` and `FreshRuns`), each with the constants of its small case, some of them twice
with two cases (in `Server` and `Browser` the constants of a component are a record, or a record of them for each
case, so that the theorems are about any of them). Its variable `focus` (`part` in `Browser`) is chosen in the initial state and never changes: it names the
case whose component moves, and the others stand still. The components of a group share no
variable: whatever one of them does to another (a request taken by another visitor, a job of another
holder of the admin key, evidence earned on another page) is a step of the environment in that
other's module. So every behaviour of each component is explored, and nothing is lost by
exploring one at a time. `GuidedRun` has cases of the same sort: its constant `Visits` is a set of visits
(the missions played, the runs, payments and faults there may be, whether free payments, racing saves,
another visitor, a lost hash or a page left in the middle of a submission are among them), and its variable `visit`, chosen once, is one of them.

One action of `VeilGuardModule` is one transaction, named after its function; `Finalize`
has a disjunct per decision. A revert is no step. A ciphertext is a record of a handle
and a plaintext: actions store and copy whole ciphertexts where the contract does, and
grants are on handles. The plaintext comparison of `requestSpend` is
`BlockedReason`/`Decision`/`Reserved`; the proof of `finalize` fixes the decision, so the
caller chooses only when. `mandate[m].recipients` stands for `isAllowedRecipient`.
A packet's request ids are a set: order and duplicates only change the manifest hash.
Reentrancy is not modelled, as every function that calls out is `nonReentrant`.
`SafeTransfer`, `Wrap` and `SetModuleEnabled` are what owners and outsiders do around the
module, `Tick` is the block clock. `Transfer` moves nothing when the balance is short,
as ERC-7984 does.

`DemoDecision` is about `server/lib/demo-decision.mjs` and the parts of `provisioner.mjs` it is
given: one action runs from one `await` to the next, so everything else may happen in
between. An actor is the job of a request (`start` keeps at most one), the watchdog, or an
owner whose action the relay co-signs; `actor[a].pc` says which `await` it is at. `mem` and
`disk` are the journal as `mutate` leaves it: a failed write has changed memory. `queue` is
the Safe lock, first come, first served (`createSerialExecutor`). `tx` are the Safe
transactions in the order signer B sent them, which is the order they are mined in; the Safe
refuses one signed over another nonce, and a request that no longer waits makes the
transaction revert (`VeilGuardModule` says when; here only the states of a request are kept).
Gas is estimated before sending, so what would revert at that moment is not sent. Faults are
crashes, lost answers, failed writes, failed decryptions and waits that time out. With
`StaleReads` a node may answer from an older block. The journal's checks that a broadcast or
a receipt matches an intent never fail: the proof has that as part of its invariant. Ids, hashes and run ids are identified
with the request or the transaction they stand for, and progress reports, identity checks and
message texts are left out.

The modules of the server and the browser follow the same rule: an action runs from one
`await` (of a handler, an effect or a job) to the next, and what a handler captured before
it is kept in its record. What they leave out, beyond wording and rendering:

- `FinalizeCourier`: what the decision is. `MandateRefresh`: amounts; a mandate is backed or not.
- `AuditPackets`: one packet per mandate group; sizes of the manifest. `findAuditPacket` reads the last
  `lookback` packets (200 in the code) in batches, and a batch that fails is skipped: the lookup then
  misses what is there, and `lost` notes it with the broadcasts nobody waited for.
- `FreshRun`: a script is its sequence of steps; `Valid`, `Effect` and the others are the chain.
- `DisclosureCheckpoint`: each group of a scope is disclosed once; selections share no group (in the
  code a group that two selections share is disclosed once per selection). The browser has Web Locks:
  without them (`DisclosureView.tsx` 650-651) the operation runs with no exclusion between tabs, of which
  nothing here is claimed. The two saves before a signature is asked for (498, 520) are one.
- `GuidedRun`: the payment page is keyed by the run and mounted anew by Restart or after another page.
  A submission belongs to the page that began it (`submissionLock` is a ref of the mount): when that
  page is gone it goes on in `away`, saves its pointer and binds its request, and shows nothing any
  more. The new page may begin another, as the checks of the click are made before the awaited
  preflight and not again; only the shell's operation coordinator stands between the two, which refuses
  whoever would pay from a mandate that is being paid from (`Holds`), and lets a later one pass. A commit's effects run before the
  next click or poll, and only the answer of a call may come between a commit and its save effect
  (`Split`); Restart's reads of the chain are one step with its click, and so is the wait that recovers
  a receipt with what follows it (`DelegateView.tsx` 258-324). `rs.known` is a ghost: what the restart knew of.
- `GuidedTour`: how evidence is earned is summarised, as `GuidedRun` and `AuditReview` say it; a
  click's step, role and route land in any order. `strayed` is a ghost: the visitor left.
  The pause reason `role-change` cannot be reached and has no action.
- `AuditReview`: one page; the run's first packets and foreign ones are given, later packets
  come at any moment. The gate is read and the mission completed in one step; the code reads it while
  rendering (`AuditorView.tsx` 216-268) and completes in the effect of that render (273-298).
- `WalletNetwork`: one account per wallet; a check under way (`ensureSepoliaNetwork`) is a flight,
  the epoch is each task's `live` flag, prompts that are refused or run out are `Refuse`; tasks
  that wait for one promise resume in one step, as microtasks do. "One prompt at a time" is about checks:
  one that runs out after 60 seconds leaves its prompt open in the wallet (`wallet-network.ts` 55-70), where the
  next check's may join it.
- `BrowserOperations`: effects run before the next click; the minute's clock and the retry time
  trigger no effect by themselves.
- `NoxRead`: one button, its client's promise and two waits; time is relative to a wait. Timers fire
  when they are due: a pause that oversleeps may start the last attempt after the deadline, which the code
  does not test again (`nox-consistency.ts` 199).
- `RequestLog`: one page is mounted at a time; a block holds one event; log endpoints know the
  head the scan read, and heads do not go back from one scan to the next, as they may where the fallback
  transport answers from a node that lags (`txlog.ts` 72). That links stay depends on it.

## Runs

| run | instance | result |
|---|---|---|
| `policy` | two delegates and up to two policies, two requests, amounts 1 and 2, a treasury of 2, one of them allowed to pay the escrow itself | types, slots, active mandates, refunds, escrow, ledger, payments and the refinement hold |
| `timing` | one delegate with a policy that refuses and one that pays, cooldown 2, expiry 3, clock to 6 | refusals stay a cooldown apart; every request leaves Requested |
| `audit` | two admins, two requests, a packet, drafts the rules refuse | packets stay true, grants stay in scope, settled objects never change |
| `pause` | what stops while paused | violated: requests already made are still paid |
| `journal` | one request, two faults at any step, lagging nodes, clock to 3 | receipts and answers are true, the window is kept, nothing is signed after a journalled broadcast or receipt |
| `watchdog` | one request, a visitor, the watchdog and an owner, one fault at any step | a request nobody decided is settled in the end; while nothing fails no signature is spoilt by another over the same nonce |
| `reconcile` | the same with a visitor who keeps retrying | violated: a journalled broadcast that reverted strands the request |
| `server` | five components, see below | couriers, quota, broadcasts, mandates and packets are safe |
| `checkpoints` | two components, see below | nothing is sent or signed twice, what is reported is true, pointers survive |
| `guided` | the guided payments in seven kinds of visits, see below | evidence is true, missions that are complete stay so, Restart orphans nothing it knows |
| `browser` | six components, see below | the tour stands where its evidence is, audits are earned, prompts, resources, decrypts and logs are safe; late answers change nothing |
| `progress` | ten instances, see below | what must happen in the end |

The cases of the group runs:

| run | case | instance | property |
|---|---|---|---|
| `server` | courier | one request, an HTTP call, the sweeper, the keeper, another admin job, a fault anywhere | `CourierSafe`: one job per request, fresh nonces, a transaction is wasted only when outrun |
| | gate | two addresses, two POSTs at a time, a cap of two, a fault anywhere | `GateSafe`: quotas survive crashes and failed writes, challenges are accepted once |
| | rpc | two endpoints, one listed twice, that fail and change chains; a broadcast and a read | `RpcSafe`: one delivery, honest answers, nothing to a chain known to be wrong |
| | pipelines, crashes | the watchdog and a provision for one address; with a request, or with a fault anywhere | `MandatesSafe`: no mandate without assets, true evidence |
| | readiness | two delegates, two probes, a proposal made elsewhere | `MandatesSafe`: ready is said of backed mandates, one cycle at a time |
| | audits | two overlapping keys, three jobs, a quota of four, two packets looked back on, a fault anywhere | `PacketsSafe`: results are complete, no packet is paid twice without need |
| `checkpoints` | scripts | either script with three faults anywhere, somebody's keeper in the second | `FreshSafe`: nothing is sent twice; the file is true; a complete run leaves its evidence |
| | disclosure | two tabs, a scope of two mandates, two faults | `DisclosureSafe`: no group is signed twice, reports are true |
| | selections | two tabs, a scope of two mandates and another of one, a fault | the same, and `PointerSurvives` in both |
| `guided` | alone; with a lost hash | three missions in order, a reload or a lost answer; two missions where the hash of a broadcast may be lost too | `GuidedRunSafe`: evidence is true, and a mission is paid for once where hashes come back (`InOrder`); `GuidedSteps`: complete missions stay so |
| | left in the middle | the first mission with two payments; the page is left while one is on its way, at any of its awaits | `GuidedRunSafe`: evidence is true (`InOrder`); `GuidedSteps` |
| | free payments | the first mission with free payments and a save that races answers | `GuidedRunSafe`: evidence is true (`RoutineOnly`); `GuidedSteps` |
| | two runs; with free payments; with another visitor | two runs of two payments: a routine and an approval; routine and free ones; routines on a mandate another visitor uses | `GuidedSteps`: Restart settles what it knows; a free payment's pointer is dropped with its request in flight, which the property allows and the run contains |
| `browser` | tour, transit | two moves of the visitor's own, with and without a retried attempt | `TourSafe`, `BrowserSteps`: no step without its evidence, pauses only when the visitor leaves, clicks end on their targets |
| | overlap, late | two packets that overlap; a packet of the run beside a foreign one | `ReviewSafe`: a complete audit was earned packet by packet |
| | net | two wallets, two handlers and two checks at a time, three moves | `WalletSafe`, `BrowserSteps`: one prompt at a time, the latest intent wins, Sepolia was observed |
| | ops | two requests beside another page's operation, two failures | `PagesSafe`: a resource has one holder as long as its operation runs |
| | read | lagging replicas, outages, refusals, a wait that holds two pauses and a rest | `PagesSafe`, `BrowserSteps`: deadlines are kept, what resolves in time is noticed |
| | log | two requests, four blocks in chunks of two, two pages, forced and failed scans | `PagesSafe`, `BrowserSteps`: whole maps, links that stay, few scans |
| `progress` | courier, mandates | the sweeper alone with a fault; the watchdog with a fault and a request | `ServerServes`: whatever is provable is finalized; every delegate is served |
| | script | smoke with three faults, run again after each | `ScriptsComplete` |
| | run, tour, review | the approval mission with a reload; a visitor who follows the drawer with attempts that expire; overlapping packets and a fault | `VisitorsServed`: the mission, the demo and the audit are completed |
| | ops, read, net, log | a ready decision with two faults; a decrypt that is clicked again; a wallet that ignores or refuses; two pages | `VisitorsServed`: published and seen, shown, the button comes back, the packet is indexed |

Bounds: `MaxMandates`, `MaxRequests`, `MaxPackets` and `MaxTime` bound the counters and the
clock, `Supply` and `Amounts` the money. Two mandates and two requests suffice for the
hazards, which are about a request and the next one, a policy and its successor, or two
requests over one escrow; amounts 1 and 2 with budgets, limits and floors of 0 to 2 give
all three decisions and all reasons. A request is only made when the clock can still
reach its expiry, so that the bound on the clock never makes a request stuck. Expiry is one tick in `policy` and
`audit`, where only its order with the other actions matters.

In `DemoDecision`, `MaxTxs` bounds the Safe transactions, `WatchdogTxs` of which only the watchdog
may send and `MaxOwnerTxs` of which the owner may; an actor starts only when there is room for
what it may send, so that no actor is stuck for want of a transaction number. `MaxFaults` bounds the faults:
two suffice for a failure whose handling fails (a lost answer and then a crash or a failed
write), one where a fairness property is checked. `MaxTime` bounds the clock, with
`decisionWindow` 1; requests escalate before the last window, and the clock enters it only when
those that wait have been observed, so that the bound never leaves a request short of its
window. One request suffices, as the entries of the journal do not interact; the watchdog and
the owner compete with the visitor for the lock.

Bounds of the other modules. `MaxFaults` counts whatever may go wrong (crashes, lost answers,
failed reads and writes); one at any step is what handlers are written against, two or three where
the handling of a failure may itself fail (disclosure, scripts). `MaxMoves` of `GuidedTour` and
`WalletNetwork` counts what the user does unasked: two or three moves put one handler's answer
after another handler's start and end. `Posts`, `Tasks`, `Flights`, `Tabs`, `MaxJobs` give the
concurrency: two of a kind, as every hazard listed is between two. Timers are one or two ticks,
distinct where their order matters (`NoxRead`: a question shorter than the wait and longer
than the network's latency, a pause that does not divide the deadline). `RequestLog` has as many
blocks as two queries cover, and its head may be anywhere in them, so that the last chunk may be cut
short. `progress` takes the smallest instances in which what is awaited can still be held up.
The visits of `guided` have as many payments as a hazard is between: one for each mission, or one
and the one that replaces it, joins it or belongs to the next run; one fault, which may come at any step. The two tabs of `checkpoints` are symmetric: the module treats them alike, and all its properties
there are invariants.

Deadlock is checked except where the system may stop: a visitor whose moves, faults and
requests are used up, a tab closed for good, a script that is complete (`CHECK_DEADLOCK FALSE` in
`checkpoints`, `guided`, `browser` and `progress`). The server's loops never stop. In the contract and
the decision service some action is always possible (the owners can always switch the module;
anyone can always ask for an attestation).

Fairness: blocks keep coming (`Tick`), and for each request somebody who wants the escrow
back keeps calling `expireUnfinalized`, which is open to anyone. Nothing is assumed of
couriers, gateway, admin or Safe; so a request awaiting approval may wait for ever, as it
may in the contract.

In `DemoDecision`: the event loop runs what is ready (weak fairness of each actor's next step),
what was sent is mined or refused, the clock goes on, and every sweep visits every waiting
request (`setInterval(sweepFinalize)` loops over all of them; strong fairness of `StartExpire`,
as the watchdog is busy in between). No visitor or owner has to do anything. `reconcile` adds a visitor who
approved and keeps asking (`Retrying`), which is what the browser does: with it the property
fails all the same.

In `progress` fairness is of three sorts. The event loop goes on and started calls end, with an answer
or a failure: every job's and handler's next step is weakly fair. Timers fire: cycles,
sweeps, polls and retry times. And the chain mines what was sent. Strong fairness stands
where others disable an effect or poll now and then (`Observe` of `GuidedTour`, `Poll`,
`AskAttestation` and `Called` of `GuidedRun`, `Effect` of `BrowserOperations`). The user is fair in three
cases only, which ask where a user gets who does what the page asks: tour (follows the guide: `Lead`,
`Deed`), review (works through the packets), read (clicks again). `Turn(i)` is a disjunction over the
cases; as `focus` never changes, its fairness in a behaviour is that of the one action it stands for in
that case. No liveness is claimed of the sponsored gate, nor of the flights of packets.

## Divergences

Two are checked as runs that must be violated.

`reconcile`: a comment in `expire` leaves a journalled broadcast to "the
browser/recovery path". TLC's behaviour: the answer to an owner's governance transaction is
lost while the transaction is pending, the lock is released, the visitor's approval is signed
over the same nonce, sent and journalled, and reverts. From then on every retry finds the
journalled hash and fails, the watchdog skips the request, and nothing clears the intent. The
owners can still settle it through the Safe.

`pause`: the comment on `pauseAll` says "pause everything", yet
only `requestSpend` carries `notPaused`.

The others were met while modelling; TLC found each with the property named, which its module still
states. No run checks them.

| property | what the code does | what is said |
|---|---|---|
| `SurfaceStays` (`GuidedRun`) | when an expired invoice is retried, the new broadcast has no request id yet while the expired request is still bound and followed; the bookkeeping effect takes the pointer for the old one and clears the recovering surface, and with it the receipt recovery (`DelegateView.tsx` 371-375, 405) | "Never let that stale object clear the new request's recovery pointer or progress surface" (`DelegateView.tsx` 366) |
| `OwnRequestsOnly` (`GuidedRun`) | when another visitor's request takes the slot of the shared mandate first, it is followed, and `missionOf`, set by the own broadcast that then reverts, credits it to this run (`DelegateView.tsx` 377) | it "must never advance this session or its audit" (`DelegateView.tsx` 868) |
| `RestartOrphans` (`GuidedRun`) | the pointer is written when the wallet call returns; a Restart between the broadcast and that answer gives up a run with its payment in flight (`App.tsx` 681) | "Restart cannot orphan encrypted escrow" (`App.tsx` 694) |
| `OneAttempt` with `Abandons` (`GuidedRun`) | the page is left while its submission is in the preflight or asks the wallet, and the invoice is clicked again: the lock was the old page's (`DelegateView.tsx` 165), an inline operation does not set `busy` (`App.tsx` 328), no pointer is there yet, and the pointer and the action are looked at before the awaited `ensureReady` (784-821, 832) and not again before `submitCore` (837). The coordinator (519-523) refuses the second only while the first runs; if its preflight ends later, when the first was finalized, the slot is free and the mission is paid for twice | "Never open a second requestSpend while that transaction can still create (or has created) this mission attempt" (`DelegateView.tsx` 794-795) |
| none (`RestartLeavesNothingKnown` says so) | Restart reads the chain for a pointer only when its mission is one of the three (`App.tsx` 713-716), and removes any (788): a free payment in flight loses its pointer | of a slow RPC it is said that it "can no longer erase the only recovery pointer after the transaction is already live" (`DelegateView.tsx` 555-556) |
| `TerminalStays` with a failed clean-up, or with `Split` and several missions (`GuidedRun`) | Restart saves the session it captured before its awaits; the save effect writes its commit's state: evidence stored since is overwritten (`App.tsx` 797, 149) | "A strict terminal mission is immutable" (`demo-session.ts` 278) |
| `NothingForgotten` (`DisclosureCheckpoint`) | Discard judges by its own view's copy and removes the stored one, which another tab may have locked (`DisclosureView.tsx` 719) | pending requests "cannot be discarded" (`DisclosureView.tsx` 720) |
| `NoPauseInTransit` with a replaced retry (`GuidedTour`) | the page of a replaced request stops being a mission page when the retry binds, and the drawer pauses (`GuidedTour.tsx` 275) | "pauses after the user leaves an arrived target" (`GuidedTour.tsx` 464) |
| `ChainFromItsWallet` (`WalletNetwork`) | `switchChain` does not advance the epoch: asked for while another wallet is being connected, its late answer shows the old wallet's network as the new one's (`App.tsx` 455-467) | "a pending switch from a disconnected wallet cannot satisfy the next wallet connection" (`wallet-network.spec.ts` 245) |
| `ForcedIsFresh` (`RequestLog`) | a forced call joins the scan in flight, whose head may be older than the call (`txlog.ts` 59-61) | "Pass force=true to re-scan" (`txlog.ts` 57) |
| none (`ScriptsComplete` is checked of the first script only) | after a crash between the mined request and the confirmed Safe action of the second scenario, every restart fails the check of the first (`e2e-sepolia.ts` 463-466) | "a restart follows the original transaction" (`e2e-sepolia.ts` 6-8) |

There are two patterns: a copy of stored state is kept across awaits or a commit and then written, or
acted on, over what was stored since; and an answer is taken although what it was asked for has
changed.

## Proofs

Each proof module belongs to one component or group and proves its theorems for every value of the constants
that meets the named assumptions. Those are assumptions of `VeilGuardModule`, `GuidedRun` (`GuidedRunAssumption`),
`DemoDecision` and `Browser` (`BrowserConstants`: each component's own, such as `WalletsAssumption`), and for the
other components the definitions `CourierBounds`, `GateBounds`,
`DisclosureBounds`, `AuditBounds`, `RefreshBounds` and `RpcBounds`, which the theorems have as hypothesis and the
instances of `Server` and `MCCheckpoints` are checked against. An inductive invariant stands behind each theorem; TLC checked
the invariants on the runs' instances before they were proved.

`VeilGuardModule_proofs`: for all roles, accounts, drafts, amounts and bounds (roles and accounts
distinct, bounds natural numbers, cooldown no longer than expiry, drafts and amounts well-typed).

- `TypeCorrect`: `TypeOK`. The induction needs that a request that exists names a
  mandate (`MadeUnderMandate`), without which its slot is not in the domain.
- `SlotIsExact`, `ActiveMandateIsSingle`, `RefundRestores`,
  `LiveRequestIsUnderActiveMandate`: from one inductive invariant, `SlotInv`. None of
  the four is inductive alone: that a refund is exact needs that the slot kept every
  other request out since; that the slot is exact needs that unused ids are unused
  (`FreshIds`); that a policy is not replaced under a request needs that the request's
  delegate is the mandate's (`LiveOwned`), that a draft has a delegate
  (`DraftedForDelegate`), and that what was reserved follows from the decision
  (`ReservedByDecision`).
- `ModuleImplementsDelegatedBudget`: every step of the module is a step of
  `DelegatedBudget` or leaves it alone. A rejection maps to `Return` because the old
  ciphertext equals what is left plus the reserve, which is `RestoreIsExact`.
- `EscrowCovers` (`EscrowInv`), `LedgerBalances` (`LedgerInv`) and `PaymentsAreInFull` (`PayInv`, an
  action property) speak of sums. A sum over a finite set is a recursive function that
  picks an element; that it does not depend on the picks is proved once, from the
  well-foundedness of strict inclusion, as the induction theorems of the library cannot be
  used. A payment is in full because the escrow covers all that live requests
  reserve, so it covers this one.
- `RecordsAreFinal`, an action property; `PacketsAreTrue` (`PacketInv`) follows from it, as a packet
  covers settled requests. `ProbesAreSpaced` (`SpacingInv`): a refusal not yet served is in the
  delegate's cooldown, or its request is still live and holds the slot. `ScopeIsKept`
  (`ScopeInv`): every handle is named after the object and field it was made for, and where
  ciphertexts are copied they keep that name, so a grant says what it was given for.

`DemoDecision_proofs`: for all requests, bounds and windows (`ActorsAssumption`,
`DecisionBoundsAssumption`), with or without stale reads.

- `DecisionTypesCorrect` and `JournalIsTrue` (`DecisionTypeOK`, `ReceiptsTrue`) from
  `DecisionInv`. A receipt is copied from what an actor holds, so the invariant follows a
  transaction from its signature through the actor (`ActorOK`) to the entry (`EntryOK`); an
  actor past the lock holds the head of the queue, which is why nobody else can have changed
  its entry meanwhile (`ActorStep`), and transactions are only added or mined (`Grows`).
- `EveryAnswerIsTrue` (`AnswersTrue`): each answer is read off a true receipt or a transaction
  just confirmed, and stays true.
- `NothingCompetes` (`NoCompetingSignature`, an action property) from `SignInv`: who signs for
  a visitor or a timeout has found the entry clean in memory, and where memory is clean the
  file is. The second part is what failed writes could break, the first what the checks made
  before the lock could break.
- `BoundaryIsKept` (`BoundaryKept`, an action property) from `BoundaryInv`: the memory is never behind the
  file, so a crash or a failed write loses only what was not on disk, and beside a timeout's receipt no
  visitor's intent is left to be receipted over it.
- `NoTimeoutIsEarly` (`WindowKept`) from `WindowInv`: what the journal holds as first observation is
  never before the request began to wait, also when it was read from a node that lags.
- `LockKeepsNonce` (`LockProtectsNonce`) from `NonceInv`: while nothing fails, a transaction is
  pending only as long as the actor that sent it waits for it in the lock.

`FinalizeCourier_proofs`, `CourierStaysSafe`: for all callers and requests. `CourierInv` follows the
admin lock (`LockInv`: its queue has no caller twice, and whoever is past it is its head), what each
caller owns of `finalizingIds` (`OwnInv`), the nonces (`NonceInv`: the next is the number of
transactions of that key, so a nonce read under the lock stays right until the send), and what was
sent for a request (`FollowInv`: while a request is pending so is all that was sent for it).

`Clients_proofs` is about what runs in a page. `NoSecondSignature` and `PointersStay`: for all tabs, selections and
prompts (`DisclosureBounds`: selections have no repeated and no shared group). The difficulty is that a
checkpoint may be in the storage, in a tab's memory or on a screen, and that any of them may be
stale. `DisclosureInv` (`CheckpointsKnow`) says of each of them which signatures it must know: every one that was
given for a group of its selection, unless another checkpoint took over.

`BrowserInvariant` is the inductive invariant of `Browser`: that of the component that moves, in its case.

- `WalletIsSafe` and, of the action properties in `BrowserStepsHold`, `WalletSteps` (`NetInv`): for any wallets, handlers,
  checks and moves. A check is entered under its wallet exactly while it runs (`ChecksAgree`), so whoever asks for a
  second one joins it; at most one handler is still live, and it is about the wallet asked for last (`TasksOK`, `MainOK`),
  which is why a late answer finds itself outdated. A check that ended has forgotten its wallet (`IdleFlights`).
- `PagesAreSafe`: of the operations (`OpsInv`, for any requests), of a decrypt (`NoxInv`, for any durations that
  meet `DurationsAssumption`) and of the log (`LogInv`, for any chunks, blocks and failed scans). A pause never reaches
  past the deadline and an attempt never begins after it (`NoxTimes`); the time at which the network became well for good is kept
  apart from whether the attempt under way knew of it (`NoxWell`). A scan under way holds what the blocks before
  its next chunk say (`ScanOK`), so the map it ends with is whole; scans are counted against what asked for them (`ScansCounted`).
- `TourIsLoyal` and `LandsOnTarget` (`TourInv`): for any number of moves of the visitor. Evidence behind the tour (`TourBase`) needs that
  nothing a page or the drawer does takes evidence away (`Advances`, of the whole reducer) and that a click under way goes
  to a step whose evidence is there. That a pause is the visitor's own (`TourTransit`) needs to know where the page, the role and
  the drawer may be between the parts of a click, in all orders (`GoingOK`).
- `AuditIsEarned` (`ReviewInv`): for any packets and contents, overlapping or not, and packets of other runs. What is
  shown belongs to the packet that is selected (`Displayed`), verdicts are on requests that were opened (`Noted`), and the record
  of the audit is no further than what was opened and judged (`Earned`), also when it is completed by a gate that read it before a
  packet arrived.

`AuditPackets_proofs`, `PacketsAreSafe`: for all keys, mandates, quotas and lookbacks. `AuditInv` says
that the packets a job has made are those of the first mandates in ascending order (`JobInv`; that
the mandates have ranks without gaps is the lemma `Numbered`), that a key with a job has no entry (`FlightInv`, why an old
timer never meets a success it does not own), that a broadcast that is not mined and not given up is
awaited by the one job in the critical section (`ChainInv`), and that quota is taken before that
(`QuotaInv`).

`MandateRefresh_proofs`, `MandatesStaySafe`: for any delegates (at least one, as in the code), visitors and
bounds. `RefreshInv` follows a mandate from its wrap to the journal: what was activated and the jobs that
have wrapped and not yet activated (`Awaited`) are together no more than the wraps (`BackedOK`); a job that
activates holds the id that was mined for its own delegate, and one that records holds one that was
activated (`JobOK`); journal, file and probe name activations only (`Proven`, `ProbeOK`). Both cycles are
idle exactly when the flag is down (`CycleOK`), which is why a kick always finds one to start and never
starts a second. The admin lock is not used in the proof: a mandate's id comes from its own receipt.

`Server_proofs` begins with the gate, `GateIsSafe`: for all addresses, caps and windows (`GateBounds`: the
window of an address is no longer than the day of the quota, an hour against 24 in the code).
`GateInv` says that whatever was sponsored and still counts is in the file (`QuotaInv`), that a
challenge which was accepted is pending nowhere (`ChallengeInv`), and that the sets counted are
finite.

The theorems of the couriers, the gate, the mandates and the packets carry over to
`Server`, the specification the run `server` checks, for any constants of each (`ServerCouriers`,
`ServerGate`, `ServerMandates`, `ServerPackets`). `focus` never changes, so a behaviour of the server is one
of the component it chose. The RPC fallback is proved here (`ServerRpc`, from `RpcInv`): a payload is handed
over once, to a chain not known to be wrong, and is truly reported, and reads are recently checked, for any
lists of endpoints, any calls and quarantines, and endpoints that change chains at any time up to the bound. A
payload is not handed over before the call's last step, and its endpoint, if off the chain, left it after
the probe (`BroadcastOK`); a check's life began when its endpoint was last on the chain, which is what a read
that was let pass relies on (`EndpointOK`, `ReadOK`); and an endpoint that was never off the chain rests no
longer than after a fault. That no two endpoints are the same URL, whatever the lists (`UrlsOnce`), needs
that the kept places, in order, number the endpoints without a gap.

`ScriptsAreSafe` (`ScriptsInv`): for any number of faults, at any points. Of both scripts, the file is followed key by key
(`FileInv`): of a stage without a mark nothing was sent, a hash was sent once, a success was mined (`EntryOK`), and whoever is
about to send stands at a stage marked as prepared, of which nothing was sent (`AtStep`). What the
end-to-end script leaves needs more: its chain passes ten states in a fixed order (`Milestone`), whether the script or the keeper
finalizes, and each is tied to what was mined, sent and passed (`Reaches`), so the chain of a script that is through is
the last of them. Of the smoke script, that there is a
mandate only once its proposal was mined, and that what its file calls verified has taken place (`SmokeInv`).

`GuidedRun_proofs` is about one tab, for any set of visits (`GuidedRunAssumption` says only what a visit is). `RunInv` is the
inductive invariant of every visit. It ties three copies of the session (stored, rendered, about to be saved), the last
poll and what a Restart holds to the chain: every request a mission, the page or a call names was mined, what a poll
showed is an earlier state of the chain, or the present one where it is final (`SeenInv`), a submission, of the page or of one left, holds a transaction exactly
while one is out (`OpInv`, `AwayInv`), the pointer names a broadcast, and whatever a Restart knew is settled but for the request it cleans
up (`RestartInv`).

- `GuidedStepsHold` (`GuidedSteps`, an action property) follows from it, for any missions, runs, faults, free
  payments, pages left and other visitors: a Restart gives up no run with a request in flight that it knew of
  (polled, bound to a mission, or named by the pointer of a mission), and no step takes
  a complete mission away, but for the two told under Divergences (a Restart or a save under way).
- `GuidedRunIsSafe` (`GuidedRunSafe`). Its parts say of which visits they hold, as the others break them (under
  Divergences): evidence is true where missions are paid in order in one run, on mandates of the visitor's own
  (`InOrder`), wherever the page is left or reloaded; a mission is paid for once where, besides, no hash is lost and no
  page is left in the middle of a submission; evidence is also true of the first mission beside free payments and racing
  saves, without reloads (`RoutineOnly`). `GuidedInv` adds to `RunInv`, for these visits, four invariants:
  `OwnInv` (there is one run, and what the stored session and one about to be saved record is so on the chain, `Ev`);
  `OrderInv` (a payment for a mission is made when those before it are complete, `Past`, so that a request the recovery
  adopts is one of the mission it is adopted for);
  `OnceInv` (of two requests for a mission the earlier is dead, `Single`: whatever is alive is bound to the mission, held
  by the one submission or named by the pointer, `Follows`, and a new payment begins only when all of them are dead, `Pays`
  and `Points`); and `FirstInv` (requests for the first mission come one at a time, `Tidy`, each is watched until a poll
  shows it, `Watched`, and a free payment is never followed under the mission's name, `Apart`). That nothing else is alive is
  why the step that binds a request binds the right one, and the hard part is between a broadcast and its first poll, where
  neither the session nor the chain as it was last seen knows of it.

The lemmas they rest on are about the reducer (`DemoSession`: each action changes one mission, and how) and about
`mission-recovery` (`MissionRecovery`: which request a poll adopts, and that it tells a mission nothing that is not on the chain).

What the proofs changed in the models. The cases of `GuidedRun` were constants, so that a theorem could be about
one of them only; they are now a record that a visit chooses. In `FreshScripts` the decision on a request had two alternatives whose conditions
overlap, and TLC took the first where the specification leaves it open. `GateBounds` had allowed a window longer than the day, for which
an entry is forgotten too soon; `AuditPackets` had let a failed write take quota past the cap, and
had looked at all packets of the chain instead of the last ones, in one read that fails as a whole.
`RpcFallback` had its list of endpoints as a fold, and `RequestLog` its map of transactions, of which nothing can be proved
without induction; the list is now given by the places that are kept, and the map by the last block that says something of a
request. `DemoSession` now names the steps of `normalizeSession`, and `GuidedTour` the drawer's next step, as the lemmas are about
them.

Only model-checked: the violation runs, which show what does not hold, and liveness.
Liveness (`NoRequestStranded`, `UndecidedReturned`, `ServerServes`, `ScriptsComplete`,
`VisitorsServed`) is out of the prover's reach and stays with TLC.

## Not modelled

Cryptography (a ciphertext is its plaintext with a handle; the gateway's proof is assumed sound,
as it is verified on-chain by NoxCompute), events and views of the contract, gas, the ERC-7984
internals and the faucet. Of the server: routing, headers, origins and request bodies, gas
top-ups. Of the browser: rendering, forms, texts, the policy composer, the policies, admin and
verify pages beyond their use of the log, the browser's own 2-of-2 governance (the relay it
talks to is in `DemoDecision`), and the download of reports. Scripts without a checkpoint
(deployment, evidence) are one pass over a live network, and the reproduction policy is a static
check of workflow files: neither keeps state that a step of another could meet.

One hazard has no property (`App.tsx` 797, told under Divergences): there is nothing that holds
of it.

## Plan

The components with concurrency, failure or persistence of their own are modelled; every invariant and action
property the passing runs check is proved. What is left, in order of importance:

1. An abstract specification of a decided request (decided once, by a named author, with one
   receipt) and the refinement by `DemoDecision`.
2. The composition of the couriers' modules with the contract: `FinalizeCourier` and
   `DemoDecision` over the states of a request as `VeilGuardModule` has them.
