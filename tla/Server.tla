------------------------------- MODULE Server -------------------------------
(***************************************************************************)
(* The components of the server process beside the decision service, in   *)
(* one specification: the RPC fallback, which it extends, and an instance  *)
(* of every other.  They share no state but the chain and the admin lock,  *)
(* which each of them models with the calls of the others as steps of its  *)
(* environment; so a behaviour of one says all there is to say of it, and  *)
(* focus, chosen once, says which of them moves.  MandateRefresh has three *)
(* focuses, each with constants of its own.  A component comes with its    *)
(* theorems where it has a module of them (one that ends in _proofs).      *)
(***************************************************************************)
EXTENDS RpcFallback

CONSTANTS                           \* of each component, as a record
    courierAt, gateAt, pipelinesAt, crashesAt, readinessAt, auditsAt

VARIABLES
    focus,
    courierChain, resolved, finalizing, courierJob, cursor, queue, tx, settledBy, courierFaults,
    gateNow, challenges, issued, post, inFlight, gateMem, gateDisk, healthy, sponsored,
    accepted, attempts, gateFaults,
    topupEnabled, gasEnabled, active, ownerOf, unfit, slot, gasLow, wrapped, minted,
    mem, disk, refreshing, due, pipeline, adminLock, cache, probe, used,
    terminal, packets, pending, packetJob, results, timers, packetLock, taken,
    broadcasts, lost, jobs, packetFaults

Courier == INSTANCE FinalizeCourier_proofs WITH
    MaxRequests <- courierAt.MaxRequests, Posts <- courierAt.Posts, Sweeper <- "sweeper",
    Keeper <- "keeper", KeeperRuns <- courierAt.KeeperRuns, Treasury <- "treasury",
    MaxOther <- courierAt.MaxOther, MaxFaults <- courierAt.MaxFaults,
    chain <- courierChain, job <- courierJob, faults <- courierFaults

Gate == INSTANCE SponsoredProvisioning WITH
    Applicants <- gateAt.Applicants, Posts <- gateAt.Posts, dailyCap <- gateAt.dailyCap,
    DAY <- gateAt.DAY, subjectWindow <- gateAt.subjectWindow, ttl <- gateAt.ttl,
    maxPending <- gateAt.maxPending, MaxChallenges <- gateAt.MaxChallenges,
    MaxFaults <- gateAt.MaxFaults, MaxTime <- gateAt.MaxTime,
    now <- gateNow, pending <- challenges, mem <- gateMem, disk <- gateDisk,
    active <- sponsored, faults <- gateFaults

Pipelines == INSTANCE MandateRefresh_proofs WITH
    DEMO_DELEGATES <- pipelinesAt.DEMO_DELEGATES, Visitors <- pipelinesAt.Visitors,
    MaxRequests <- pipelinesAt.MaxRequests, MaxProvisions <- pipelinesAt.MaxProvisions,
    MaxAsks <- pipelinesAt.MaxAsks, MaxElsewhere <- pipelinesAt.MaxElsewhere,
    MaxFaults <- pipelinesAt.MaxFaults, job <- pipeline

Crashes == INSTANCE MandateRefresh_proofs WITH
    DEMO_DELEGATES <- crashesAt.DEMO_DELEGATES, Visitors <- crashesAt.Visitors,
    MaxRequests <- crashesAt.MaxRequests, MaxProvisions <- crashesAt.MaxProvisions,
    MaxAsks <- crashesAt.MaxAsks, MaxElsewhere <- crashesAt.MaxElsewhere,
    MaxFaults <- crashesAt.MaxFaults, job <- pipeline

Readiness == INSTANCE MandateRefresh_proofs WITH
    DEMO_DELEGATES <- readinessAt.DEMO_DELEGATES, Visitors <- readinessAt.Visitors,
    MaxRequests <- readinessAt.MaxRequests, MaxProvisions <- readinessAt.MaxProvisions,
    MaxAsks <- readinessAt.MaxAsks, MaxElsewhere <- readinessAt.MaxElsewhere,
    MaxFaults <- readinessAt.MaxFaults, job <- pipeline

Audits == INSTANCE AuditPackets_proofs WITH
    Keys <- auditsAt.Keys, mandateOf <- auditsAt.mandateOf, dailyCap <- auditsAt.dailyCap,
    lookback <- auditsAt.lookback, MaxJobs <- auditsAt.MaxJobs, MaxFaults <- auditsAt.MaxFaults,
    job <- packetJob, adminLock <- packetLock, faults <- packetFaults

ASSUME CourierConstants == Courier!CallersDistinct /\ Courier!CourierBounds
ASSUME GateConstants == Gate!GateBounds
ASSUME RpcConstants == RpcBounds
ASSUME MandateConstants == Pipelines!RefreshBounds /\ Crashes!RefreshBounds /\ Readiness!RefreshBounds
ASSUME AuditConstants == Audits!AuditBounds

-----------------------------------------------------------------------------
courierVars ==
    <<courierChain, resolved, finalizing, courierJob, cursor, queue, tx, settledBy, courierFaults>>
gateVars ==
    <<gateNow, challenges, issued, post, inFlight, gateMem, gateDisk, healthy, sponsored,
      accepted, attempts, gateFaults>>
mandateVars ==
    <<topupEnabled, gasEnabled, active, ownerOf, unfit, slot, gasLow, wrapped, minted,
      mem, disk, refreshing, due, pipeline, adminLock, cache, probe, used>>
auditVars ==
    <<terminal, packets, pending, packetJob, results, timers, packetLock, taken,
      broadcasts, lost, jobs, packetFaults>>
serverVars == <<focus, vars, courierVars, gateVars, mandateVars, auditVars>>

\* What does not move stands in one of its initial states.
ServerInit ==
    /\ focus \in {"courier", "gate", "rpc", "pipelines", "crashes", "readiness", "audits"}
    /\ Courier!Init /\ Gate!Init
    /\ Init /\ (focus # "rpc" => expected = Endpoints)
    /\ \/ focus = "readiness" /\ Readiness!Init
       \/ focus = "crashes" /\ Crashes!Init
       \/ focus \notin {"readiness", "crashes"} /\ Pipelines!Init
    /\ focus \notin {"pipelines", "crashes", "readiness"} =>
           topupEnabled /\ gasEnabled /\ unfit = {} /\ gasLow = {}
    /\ Audits!Init /\ (focus # "audits" => terminal = {})

ServerNext ==
    \/ /\ focus = "courier" /\ Courier!Next
       /\ UNCHANGED <<focus, gateVars, vars, mandateVars, auditVars>>
    \/ /\ focus = "gate" /\ Gate!Next
       /\ UNCHANGED <<focus, courierVars, vars, mandateVars, auditVars>>
    \/ /\ focus = "rpc" /\ Next
       /\ UNCHANGED <<focus, courierVars, gateVars, mandateVars, auditVars>>
    \/ /\ \/ focus = "pipelines" /\ Pipelines!Next
          \/ focus = "crashes" /\ Crashes!Next
          \/ focus = "readiness" /\ Readiness!Next
       /\ UNCHANGED <<focus, courierVars, gateVars, vars, auditVars>>
    \/ /\ focus = "audits" /\ Audits!Next
       /\ UNCHANGED <<focus, courierVars, gateVars, vars, mandateVars>>

ServerSpec == ServerInit /\ [][ServerNext]_serverVars

-----------------------------------------------------------------------------
(* Properties *)

\* finalizingIds is exactly what the jobs of the server own, nonces are fresh and no
\* transaction is wasted, whichever of HTTP, sweeper and keeper comes first.
CourierSafe == focus = "courier" => Courier!CourierSafe

\* No crash, failed write or failed provisioning reopens the sponsored quota.
GateSafe == focus = "gate" => Gate!GateSafe

\* Every mandate the pipelines activate is backed by its own funds, and evidence and
\* readiness speak of such mandates only.
MandatesSafe ==
    /\ focus = "pipelines" => Pipelines!MandatesSafe
    /\ focus = "crashes" => Crashes!MandatesSafe
    /\ focus = "readiness" => Readiness!MandatesSafe

\* A packet result is complete, redelivered and paid from the quota.
PacketsSafe == focus = "audits" => Audits!PacketsSafe
=============================================================================
