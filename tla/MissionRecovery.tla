---- MODULE MissionRecovery ----
(* What the chain alone proves about a run's missions                           *)
(* (app/src/mission-recovery.ts, app/src/demo-scenarios.ts).  "seen" is a       *)
(* snapshot of the request registry: a function from request ids to records     *)
(* with the run and the mission their memo commits to, and their state.         *)
EXTENDS DemoSession

Terminal == {"executed", "blocked", "cancelled", "expired"}
InFlight == {"requested", "awaiting"}

\* runBoundScenarioRequests: the memo hash commits to the run and the scenario.
RunBound(run, k, seen) == {i \in DOMAIN seen : seen[i].run = run /\ seen[i].mission = k}
newest(ids) == IF ids = {} THEN 0 ELSE CHOOSE i \in ids : \A j \in ids : i >= j

\* The attempt a mission follows: the bound one, the newest after an expiry or when none is bound.
Attempt(s, k, seen) ==
    LET candidates == RunBound(s.run, k, seen)
        bound == s.m[k].request
    IN  CASE bound = 0 -> newest(candidates)
          [] bound \in candidates -> IF seen[bound].state = "expired" THEN newest(candidates) ELSE bound
          [] OTHER -> 0

\* mutant: a cancelled request is taken for the visitor's Reject
InferReject(s, k, seen) ==
    LET id == Attempt(s, k, seen) IN
    IF k # "approval" \/ Complete(s, k) \/ id = 0 \/ seen[id].state # "cancelled" THEN s
    ELSE ApprovalSettled(DecisionConfirmed(s, id, "reject"), id, "reject")

ReconcileMission(s, k, seen) ==
    LET id == Attempt(s, k, seen)
        b == BindRequest(s, k, id, s.m[k].request # 0)
        st == seen[id].state
        p == b.m[k]
    IN  IF Complete(s, k) \/ id = 0 THEN s
        ELSE CASE k = "routine" /\ st = "executed" /\ p.outcome # "executed" -> RoutineExecuted(b, id)
               [] k = "approval" /\ p.confirmed /\ p.outcome = "none"
                  /\ <<p.decision, st>> \in {<<"approve", "executed">>, <<"reject", "cancelled">>} ->
                     ApprovalSettled(b, id, p.decision)
               [] k = "violation" /\ st = "blocked" /\ p.outcome # "blocked" -> ViolationBlocked(b, id)
               [] OTHER -> b

\* reconcileRunBoundMissionEvidence
Reconcile(s, seen) ==
    ReconcileMission(ReconcileMission(ReconcileMission(s, "routine", seen), "approval", seen), "violation", seen)
====
