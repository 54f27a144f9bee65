----------------------------- MODULE MCProgress -----------------------------
(***************************************************************************)
(* What must happen in the end, for the components whose fairness is of    *)
(* use, in one instance.  They share nothing but the count of faults;      *)
(* focus, chosen once, says which of them moves.  As focus never changes,  *)
(* fairness of a disjunction of their actions is fairness of each.         *)
(***************************************************************************)
EXTENDS Naturals, Sequences, FiniteSets, FreshScripts

VARIABLES
    focus, faults,
    chain, resolved, finalizing, job, cursor, queue, tx, settledBy,
    topupEnabled, gasEnabled, active, ownerOf, unfit, slot, gasLow, wrapped, minted,
    mem, disk, refreshing, due, pipeline, adminLock, cache, probe, used,
    stages, values, pos, pc, scriptChain, sent, unmined, mined,
    ses, url, role, arrived, arrivedAt, going, dialog, unbound, tourChain, origin, strayed, moves,
    disclosed, session, open, index, listed, selected, clear, unlocking, reviews, fresh,
    stored, gate, opened, judged,
    payments, polled, loaded, store, view, committed, pend, pointer, op, away, flow, followed,
    visit, missionOf, att, runDue, restore, calls, rs,
    req, asked, snap, load, held, running, busy, track, effectDue, finalizingRef, waiting,
    follow, rounds,
    known, caughtUp, down, client, phase, at, elapsed, clock, pause, readAsked, well, since,
    aborted, outcome,
    chainOf, walletKnows, event, flight, check, task, account, info, provider, shown, switching,
    netReq, handleClients, restoring, source, intent, netMoves,
    log, txMap, scan, page, asking, seen, base, reconciled, packet, owed, scans, forces, mounts

\* The server's sweep alone: no keeper, no other job.
Courier == INSTANCE FinalizeCourier WITH
    MaxRequests <- 1, Posts <- {"post"}, Sweeper <- "sweeper", Keeper <- "keeper",
    KeeperRuns <- FALSE, Treasury <- "treasury", MaxOther <- 0, MaxFaults <- 1

\* The watchdog serves a delegate whose slot a request may take.
Mandates == INSTANCE MandateRefresh WITH
    DEMO_DELEGATES <- <<"demo">>, Visitors <- {}, MaxRequests <- 1,
    MaxProvisions <- 0, MaxAsks <- 0, MaxElsewhere <- 0, MaxFaults <- 1, job <- pipeline

Smoke == INSTANCE FreshRun WITH
    Script <- SmokeScript, InitialChain <- Untouched, Valid <- ScriptValid,
    Effect <- ScriptEffect, Reached <- ScriptReached, Pending <- ScriptPending,
    Holds <- ScriptHolds, Keeper <- FALSE, MaxFaults <- 3, chain <- scriptChain

\* The approval mission alone, with one reload.
ApprovalOnly == [Missions |-> {"approval"}, MaxRequests |-> 1, MaxRuns |-> 1, MaxFaults |-> 1,
    FreePlay |-> FALSE, Split |-> FALSE, LosesHash |-> FALSE, Shared |-> FALSE, Abandons |-> FALSE]
Approval == INSTANCE GuidedRun WITH
    Visits <- {ApprovalOnly},
    req <- payments, seen <- polled, shown <- committed, track <- pointer,
    active <- followed, due <- runDue

\* Attempts that expire or time out.
Tour == INSTANCE GuidedTour WITH
    Retries <- {"routine", "approval"}, MaxMoves <- 0, chain <- tourChain, sent <- unbound

\* Overlapping packets, disclosed while the auditor works.
Review == INSTANCE AuditReview WITH
    Contents <- <<{1, 2}, {2, 3}>>, Foreign <- {}, Handles <- 1, MaxFaults <- 1,
    chain <- disclosed, ses <- session, values <- clear

Ops == INSTANCE BrowserOperations WITH
    Ids <- {1}, MaxRounds <- 1, MaxFaults <- 2, due <- effectDue, finalizing <- finalizingRef

Read == INSTANCE NoxRead WITH
    Handles <- {"h1", "h2"}, Timeout <- 3, ReadTimeout <- 2, Interval <- 2,
    RequestTimeout <- 2, Latency <- 1, MaxFaults <- 1, resolved <- known, asked <- readAsked

\* A wallet that ignores, refuses or never answers the network button.
Net == INSTANCE WalletNetwork WITH
    Wallets <- {1}, Fallback <- 1, Knowing <- {}, Saved <- 1, Demo <- 9, Tasks <- {1, 2},
    Flights <- {1, 2}, MaxFaults <- 1, MaxMoves <- 2, known <- walletKnows, active <- provider,
    req <- netReq, cache <- handleClients, moves <- netMoves

Log == INSTANCE RequestLog WITH
    Ids <- {1, 2}, Chunk <- 2, MaxBlocks <- 3, MaxForces <- 0, MaxFaults <- 0,
    MaxMounts <- 2, cache <- txMap

-----------------------------------------------------------------------------
courierVars == <<chain, resolved, finalizing, job, cursor, queue, tx, settledBy>>
mandateVars ==
    <<topupEnabled, gasEnabled, active, ownerOf, unfit, slot, gasLow, wrapped, minted,
      mem, disk, refreshing, due, pipeline, adminLock, cache, probe, used>>
scriptVars == <<stages, values, pos, pc, scriptChain, sent, unmined, mined>>
tourVars ==
    <<ses, url, role, arrived, arrivedAt, going, dialog, unbound, tourChain, origin, strayed, moves>>
reviewVars ==
    <<disclosed, session, open, index, listed, selected, clear, unlocking, reviews, fresh,
      stored, gate, opened, judged>>
runVars ==
    <<payments, polled, loaded, store, view, committed, pend, pointer, op, away, flow, followed,
      missionOf, att, runDue, restore, calls, rs>>
opsVars ==
    <<req, asked, snap, load, held, running, busy, track, effectDue, finalizingRef, waiting,
      follow, rounds>>
readVars ==
    <<known, caughtUp, down, client, phase, at, elapsed, clock, pause, readAsked, well, since,
      aborted, outcome>>
netVars ==
    <<chainOf, walletKnows, event, flight, check, task, account, info, provider, shown, switching,
      netReq, handleClients, restoring, source, intent, netMoves>>
logVars ==
    <<log, txMap, scan, page, asking, seen, base, reconciled, packet, owed, scans, forces, mounts>>
vars == <<focus, faults, visit, courierVars, mandateVars, scriptVars, tourVars, reviewVars, runVars,
          opsVars, readVars, netVars, logVars>>

On(part) == focus = part
Still(part, partVars) == IF On(part) THEN TRUE ELSE UNCHANGED partVars
Frame ==
    /\ UNCHANGED <<focus, visit>>
    /\ Still("courier", courierVars) /\ Still("mandates", mandateVars)
    /\ Still("script", scriptVars) /\ Still("tour", tourVars) /\ Still("review", reviewVars)
    /\ Still("run", runVars) /\ Still("ops", opsVars) /\ Still("read", readVars) /\ Still("net", netVars)
    /\ Still("log", logVars)
    /\ IF focus \in {"mandates", "tour"} THEN UNCHANGED faults ELSE TRUE

Init ==
    /\ focus \in {"courier", "mandates", "script", "tour", "review", "run", "ops", "read", "net",
                "log"}
    /\ Courier!Init /\ Smoke!Init /\ Tour!Init /\ Review!Init /\ Approval!Init /\ Ops!Init /\ Read!Init /\ Log!Init
    /\ Mandates!Init /\ Net!Init
    /\ focus # "mandates" => topupEnabled /\ gasEnabled /\ unfit = {} /\ gasLow = {}

Next ==
    /\ \/ On("courier") /\ Courier!Next
       \/ On("mandates") /\ Mandates!Next
       \/ On("script") /\ Smoke!Next
       \/ On("tour") /\ Tour!Next
       \/ On("review") /\ Review!GuidedNext
       \/ On("run") /\ Approval!Next
       \/ On("ops") /\ Ops!Next
       \/ On("read") /\ Read!Next
       \/ On("net") /\ Net!Next
       \/ On("log") /\ Log!Next
    /\ Frame

\* The fairness of the components, one action of each to a line.
Turn(i) ==
    /\ \/ /\ On("courier")
          /\ CASE i = 1 -> Courier!Step("post") [] i = 2 -> Courier!Step("sweeper")
               [] i = 3 -> Courier!ServerLoop [] i = 4 -> \E t \in DOMAIN tx : Courier!Mine(t)
               [] OTHER -> FALSE
       \/ /\ On("mandates")
          /\ CASE i = 1 -> Mandates!StartCycle [] i = 2 -> Mandates!IntervalPasses
               [] i = 3 -> Mandates!JobStep("cycle1") [] i = 4 -> Mandates!JobStep("cycle2")
               [] i = 5 -> Mandates!Settle("demo") [] OTHER -> FALSE
       \/ /\ On("script")
          /\ CASE i = 1 -> Smoke!Run [] i = 2 -> Smoke!Restart
               [] i = 3 -> \E k \in Smoke!Keys : Smoke!Mine(k) [] OTHER -> FALSE
       \/ /\ On("tour")
          /\ CASE i = 1 -> Tour!Lands [] i = 2 -> Tour!Settles [] i = 3 -> Tour!Bind
               [] i = 4 -> Tour!Lead [] OTHER -> FALSE
       \/ On("review") /\ i = 1 /\ Review!GuidedNext
       \/ /\ On("run")
          /\ CASE i = 1 -> Approval!Mine [] i = 2 -> Approval!Effects
               [] i = 3 -> Approval!ReconcileNow [] i = 4 -> Approval!Restore
               [] i = 5 -> Approval!Bookkeep [] OTHER -> FALSE
       \/ /\ On("ops")
          /\ CASE i = 1 -> Ops!Poll [] i = 2 -> Ops!Read [] i = 3 -> Ops!LoadDone
               [] i = 4 -> Ops!EndPolicy [] i = 5 -> Ops!RetryTime [] i = 6 -> Ops!Ask(1)
               [] i = 7 -> Ops!Round(1) [] i = 8 -> Ops!FollowEnds(1) [] i = 9 -> Ops!Publish(1)
               [] OTHER -> FALSE
       \/ /\ On("read")
          /\ CASE i = 1 -> Read!Click [] i = 2 -> \E ok \in BOOLEAN : Read!ClientEnds(ok)
               [] i = 3 -> Read!Attempt [] i = 4 -> Read!Wake
               [] i = 5 -> Read!Answers \/ Read!AskFails [] i = 6 -> Read!Decrypts \/ Read!DecryptFails
               [] i = 7 -> Read!Tick [] i = 8 -> \E h \in {"h1", "h2"} : Read!Resolve(h)
               [] i = 9 -> Read!CatchUp [] OTHER -> Read!Recover
       \/ /\ On("net") /\ i \in {1, 2}
          /\ Net!ReadFirst(i) \/ Net!Refuse(i) \/ Net!Approve(i) \/ Net!Poll(i) \/ Net!Deadline(i)
       \/ /\ On("log")
          /\ CASE i = 1 -> Log!ReadHead [] i = 2 -> Log!Query [] i = 3 -> Log!ScanEnds
               [] i = 4 -> Log!Reconcile [] OTHER -> FALSE
    /\ Frame

\* What other actions keep disabling again.
Chance(i) ==
    /\ \/ On("tour") /\ CASE i = 1 -> Tour!Observe [] i = 2 -> Tour!Deed [] OTHER -> FALSE
       \/ /\ On("run")
          /\ CASE i = 1 -> Approval!Poll [] i = 2 -> Approval!AskAttestation
               [] OTHER -> Approval!Called
       \/ On("ops") /\ i = 1 /\ Ops!Effect
    /\ Frame

Spec ==
    /\ Init /\ [][Next]_vars
    /\ \A i \in 1..10 : WF_vars(Turn(i))
    /\ \A i \in 1..3 : SF_vars(Chance(i))

-----------------------------------------------------------------------------
(* Properties *)

\* Something the server owes: a provable request, a delegate without a fit mandate.
Unserved ==
    \/ On("courier") /\ \E r \in Courier!Requests : Courier!Provable(r)
    \/ On("mandates") /\ topupEnabled /\ gasEnabled /\ ~Mandates!Served
\* What can be proved is finalized in the end by the sweeper alone, and every demo delegate
\* ends up with a fit mandate whose funding is in the journal, whatever fails on the way.
ServerServes == <>[]~Unserved

\* Run again after every failure, a fresh-deployment script completes or needs its operator.
ScriptsComplete == On("script") => <>(pc = "complete" \/ []Smoke!OperatorNeeded)

\* Something a visitor waits for, in each part.
Awaited ==
    \/ On("tour") /\ ~Tour!DemoCompleted(ses)
    \/ On("review") /\ ~Review!Complete(session, "audit")
    \/ On("run") /\ Approval!DecisionUnknown
    \/ On("read") /\ outcome # "shown"
    \/ On("net") /\ switching
    \/ On("ops") /\ Ops!Behind
    \/ On("log") /\ Log!Unindexed
\* Who follows the guide completes the demo, the guided auditor finishes, a settled decision
\* completes its mission although the page was reloaded, a decrypt that is clicked again shows
\* its value, the network button comes back, a ready decision is published and seen, and the
\* auditor's packet gets its transactions.
VisitorsServed == []<>~Awaited
=============================================================================
