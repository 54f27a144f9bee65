------------------------------- MODULE Browser -------------------------------
(***************************************************************************)
(* What the browser does beside the guided payments and the disclosure, in *)
(* one specification: the mission drawer, the auditor's page, the          *)
(* connected wallets, the operations of the pages, a decrypt and the       *)
(* transaction log.  Each stands for the others by the steps they make in  *)
(* it; part, chosen once, says which of them moves.  The drawer and the    *)
(* auditor's page come in cases, which differ in their constants.          *)
(***************************************************************************)
EXTENDS Naturals, Sequences, FiniteSets

CONSTANTS
    netAt, opsAt, readAt, logAt,    \* constants of a component, as a record,
    tourAt, reviewAt                \* and of each case of one

VARIABLES
    part,
    chainOf, known, event, flight, check, task, account, info, active, shown, switching,
    netReq, handleClients, restoring, source, intent, netFaults, netMoves,
    req, asked, snap, load, held, running, busy, track, due, finalizing, waiting, follow,
    rounds, opsFaults,
    resolved, caughtUp, down, client, phase, loopAt, elapsed, clock, pause, readAsked, well,
    since, aborted, outcome, readFaults,
    log, cache, scan, page, asking, seen, base, reconciled, packet, owed, scans, forces,
    mounts, logFaults,
    ses, url, role, arrived, arrivedAt, going, dialog, bound, tourChain, origin, strayed,
    tourMoves,
    packets, session, open, index, listed, selected, decrypted, unlocking, reviews, fresh,
    stored, gate, opened, judged, reviewFaults

Net == INSTANCE WalletNetwork WITH
    Wallets <- netAt.Wallets, Fallback <- netAt.Fallback, Knowing <- netAt.Knowing,
    Saved <- netAt.Saved, Demo <- netAt.Demo, Tasks <- netAt.Tasks, Flights <- netAt.Flights,
    MaxFaults <- netAt.MaxFaults, MaxMoves <- netAt.MaxMoves,
    req <- netReq, cache <- handleClients, faults <- netFaults, moves <- netMoves

Ops == INSTANCE BrowserOperations WITH
    Ids <- opsAt.Ids, MaxRounds <- opsAt.MaxRounds, MaxFaults <- opsAt.MaxFaults,
    faults <- opsFaults

Read == INSTANCE NoxRead WITH
    Handles <- readAt.Handles, Timeout <- readAt.Timeout, ReadTimeout <- readAt.ReadTimeout,
    Interval <- readAt.Interval, RequestTimeout <- readAt.RequestTimeout,
    Latency <- readAt.Latency, MaxFaults <- readAt.MaxFaults,
    at <- loopAt, asked <- readAsked, faults <- readFaults

Log == INSTANCE RequestLog WITH
    Ids <- logAt.Ids, Chunk <- logAt.Chunk, MaxBlocks <- logAt.MaxBlocks,
    MaxForces <- logAt.MaxForces, MaxFaults <- logAt.MaxFaults, MaxMounts <- logAt.MaxMounts,
    faults <- logFaults

Tour(c) == INSTANCE GuidedTour WITH
    Retries <- tourAt[c].Retries, MaxMoves <- tourAt[c].MaxMoves,
    sent <- bound, chain <- tourChain, moves <- tourMoves

Review(c) == INSTANCE AuditReview WITH
    Contents <- reviewAt[c].Contents, Foreign <- reviewAt[c].Foreign,
    Handles <- reviewAt[c].Handles, MaxFaults <- reviewAt[c].MaxFaults,
    chain <- packets, ses <- session, values <- decrypted, faults <- reviewFaults

Tours == DOMAIN tourAt
Reviews == DOMAIN reviewAt

ASSUME BrowserConstants ==
    /\ Net!WalletsAssumption /\ Ops!RoundsAssumption
    /\ Read!DurationsAssumption /\ Log!ChunkAssumption
    /\ Tours # {} /\ Reviews # {}
    /\ \A c \in Tours : Tour(c)!TourAssumption
    /\ \A c \in Reviews : Review(c)!ReviewAssumption

-----------------------------------------------------------------------------
netVars ==
    <<chainOf, known, event, flight, check, task, account, info, active, shown, switching,
      netReq, handleClients, restoring, source, intent, netFaults, netMoves>>
opsVars ==
    <<req, asked, snap, load, held, running, busy, track, due, finalizing, waiting, follow,
      rounds, opsFaults>>
readVars ==
    <<resolved, caughtUp, down, client, phase, loopAt, elapsed, clock, pause, readAsked, well,
      since, aborted, outcome, readFaults>>
logVars ==
    <<log, cache, scan, page, asking, seen, base, reconciled, packet, owed, scans, forces,
      mounts, logFaults>>
tourVars ==
    <<ses, url, role, arrived, arrivedAt, going, dialog, bound, tourChain, origin, strayed,
      tourMoves>>
reviewVars ==
    <<packets, session, open, index, listed, selected, decrypted, unlocking, reviews, fresh,
      stored, gate, opened, judged, reviewFaults>>
browserVars == <<part, netVars, opsVars, readVars, logVars, tourVars, reviewVars>>

\* What does not move stands in an initial state of some case.
CaseOf(cases) == IF part \in cases THEN part ELSE CHOOSE c \in cases : TRUE

BrowserInit ==
    /\ part \in {"net", "ops", "read", "log"} \cup Tours \cup Reviews
    /\ Net!Init /\ Ops!Init /\ Read!Init /\ Log!Init
    /\ \E c \in Tours : c = CaseOf(Tours) /\ Tour(c)!Init
    /\ \E c \in Reviews : c = CaseOf(Reviews) /\ Review(c)!Init

BrowserNext ==
    \/ /\ part = "net" /\ Net!Next
       /\ UNCHANGED <<part, opsVars, readVars, logVars, tourVars, reviewVars>>
    \/ /\ part = "ops" /\ Ops!Next
       /\ UNCHANGED <<part, netVars, readVars, logVars, tourVars, reviewVars>>
    \/ /\ part = "read" /\ Read!Next
       /\ UNCHANGED <<part, netVars, opsVars, logVars, tourVars, reviewVars>>
    \/ /\ part = "log" /\ Log!Next
       /\ UNCHANGED <<part, netVars, opsVars, readVars, tourVars, reviewVars>>
    \/ /\ \E c \in Tours : part = c /\ Tour(c)!Next
       /\ UNCHANGED <<part, netVars, opsVars, readVars, logVars, reviewVars>>
    \/ /\ \E c \in Reviews : part = c /\ Review(c)!Next
       /\ UNCHANGED <<part, netVars, opsVars, readVars, logVars, tourVars>>

BrowserSpec == BrowserInit /\ [][BrowserNext]_browserVars

-----------------------------------------------------------------------------
(* Properties *)

\* A wallet is prompted by one check at a time, and handle clients are the provider's.
WalletSafe == part = "net" => Net!WalletSafe

\* Resources are held as long as their operation; a decrypt is tried on resolved handles
\* and in time; the pages show whole maps of transactions.
PagesSafe ==
    /\ part = "ops" => Ops!OperationsSafe
    /\ part = "read" => Read!ReadSafe
    /\ part = "log" => Log!LogSafe

\* Late answers of wallets change nothing, a wait gives up only with a reason, links to
\* transactions stay, and a click of the drawer ends on its target whatever the order its
\* parts land in, if no attempt is replaced meanwhile.
BrowserSteps ==
    [][ /\ part = "net" => Net!WalletSteps
        /\ part = "read" => Read!GivesUpWithReason
        /\ part = "log" => Log!LinksStay
        /\ \A c \in Tours : part = c /\ tourAt[c].Retries = {} => Tour(c)!LandsOnTarget
      ]_browserVars

\* The tour stands only where its evidence is, and pauses only when the visitor left.
TourSafe ==
    \A c \in Tours : part = c =>
        /\ Tour(c)!TourTypeOK /\ Tour(c)!EvidenceBehind
        /\ tourAt[c].Retries = {} => Tour(c)!NoPauseInTransit

\* A complete audit was earned packet by packet, request by request.
ReviewSafe == \A c \in Reviews : part = c => Review(c)!ReviewSafe
=============================================================================
