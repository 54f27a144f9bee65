---- MODULE DemoSession ----
(* The run-bound progress of a demo visitor (app/src/demo-session.ts): pure     *)
(* operators on a session record, one per action of demoSessionReducer.  The    *)
(* modules GuidedRun and GuidedTour put them to work.  Request and packet ids   *)
(* are numbers, 0 is "not recorded"; times, roles' labels and the selected      *)
(* object are left out.  An action of another run returns the session as it is. *)
EXTENDS Naturals, FiniteSets

\* A route is a page and the request or packet it shows (0: none).
NoRoute == <<"none", 0>>
Inbox == <<"inbox", 0>>

MissionOrder == <<"routine", "approval", "violation", "audit">>
PaymentMissions == {"routine", "approval", "violation"}
MissionKeys == PaymentMissions \cup {"audit"}

EmptyProgress(st) ==
    [status |-> st, request |-> 0, outcome |-> "none", decision |-> "none", confirmed |-> FALSE,
     reason |-> FALSE, packets |-> {}, included |-> {}, reviewed |-> {}, flagged |-> {},
     unlocked |-> FALSE, verified |-> FALSE, compat |-> FALSE]

CreateSession(run, active) ==
    [run |-> run, life |-> "active", current |-> "routine", role |-> "delegate", route |-> Inbox,
     m |-> [k \in MissionKeys |-> EmptyProgress(IF k = "routine" THEN "ready" ELSE "locked")],
     tour |-> [active |-> active, step |-> 0, paused |-> FALSE, route |-> NoRoute, role |-> "none"],
     restart |-> [status |-> "idle", request |-> 0]]

NoSession == [run |-> 0]

RequestIds(s) == {s.m[k].request : k \in PaymentMissions}
\* hasCompleteAuditPacketCoverage
AuditCoverage(s) == s.m["audit"].packets # {} /\ 0 \notin RequestIds(s) /\ RequestIds(s) \subseteq s.m["audit"].included

\* isMissionComplete with strict: only concrete evidence counts.
Complete(s, k) ==
    LET p == s.m[k] IN
    CASE k = "routine" -> p.request # 0 /\ p.outcome = "executed"
      [] k = "approval" -> p.request # 0 /\ p.confirmed
                           /\ <<p.decision, p.outcome>> \in {<<"approve", "safe-approved">>, <<"reject", "safe-rejected">>}
      [] k = "violation" -> p.request # 0 /\ p.outcome = "blocked" /\ p.reason
      [] k = "audit" -> AuditCoverage(s) /\ p.included \subseteq p.reviewed \cup p.flagged
                        /\ p.unlocked /\ p.verified /\ p.outcome = "audit-reviewed"

DemoCompleted(s) == \A k \in MissionKeys : Complete(s, k)

Unfinished(s) == {i \in 1..4 : ~Complete(s, MissionOrder[i])}
StatusOf(s, i) ==
    LET k == MissionOrder[i] IN
    CASE Complete(s, k) -> "complete"
      [] ~Complete(s, k) /\ s.m[k].status = "active" -> "active"
      [] OTHER -> IF i = 1 \/ Complete(s, MissionOrder[i - 1]) THEN "ready" ELSE "locked"
LifeOf(s) ==
    IF Unfinished(s) = {} THEN "completed" ELSE IF s.life = "completed" THEN "active" ELSE s.life
Earliest(todo) == CHOOSE i \in todo : \A j \in todo : i <= j
CurrentOf(s) == IF Unfinished(s) = {} THEN "audit" ELSE MissionOrder[Earliest(Unfinished(s))]
Ordinal(k) == CHOOSE i \in 1..4 : MissionOrder[i] = k

\* Written as a function of the one session it is given.
Normalize(session) == [s \in {session} |->
    [s EXCEPT !.m = [k \in MissionKeys |-> [s.m[k] EXCEPT !.status = StatusOf(s, Ordinal(k))]],
              !.life = LifeOf(s), !.current = CurrentOf(s)]][session]

(***************************************************************************)
(* Request evidence.                                                       *)
(***************************************************************************)
BindRequest(s, k, id, replace) ==
    IF \/ Complete(s, k)
       \/ s.m[k].request # 0 /\ (s.m[k].request = id \/ ~replace)
    THEN s
    ELSE Normalize([s EXCEPT !.m[k] = [@ EXCEPT !.request = id, !.status = "active", !.outcome = "none",
                    !.decision = "none", !.confirmed = FALSE, !.reason = FALSE, !.compat = FALSE]])

\* An outcome is recorded for the bound request, or binds the first one.
MayRecord(s, k, id) == s.m[k].request \in {0, id}
RoutineExecuted(s, id) ==
    IF ~MayRecord(s, "routine", id) THEN s
    ELSE Normalize([s EXCEPT !.m["routine"].request = id, !.m["routine"].outcome = "executed"])

DecisionConfirmed(s, id, decision) ==
    IF ~MayRecord(s, "approval", id) THEN s
    ELSE Normalize([s EXCEPT !.m["approval"] = [@ EXCEPT !.request = id, !.decision = decision,
                    !.confirmed = TRUE, !.status = "active"]])

ApprovalSettled(s, id, decision) ==
    IF s.m["approval"].request # id \/ ~s.m["approval"].confirmed \/ s.m["approval"].decision # decision THEN s
    ELSE Normalize([s EXCEPT !.m["approval"].outcome = IF decision = "approve" THEN "safe-approved" ELSE "safe-rejected"])

ViolationBlocked(s, id) ==
    IF ~MayRecord(s, "violation", id) THEN s
    ELSE Normalize([s EXCEPT !.m["violation"].request = id, !.m["violation"].outcome = "blocked"])

ReasonDecrypted(s, id) ==
    IF ~MayRecord(s, "violation", id) THEN s
    ELSE Normalize([s EXCEPT !.m["violation"].request = id, !.m["violation"].reason = TRUE])

(***************************************************************************)
(* Audit evidence.                                                         *)
(***************************************************************************)
PacketsCreated(s, packets, requests) ==
    LET a == s.m["audit"]
        same == packets \subseteq a.packets /\ requests \subseteq a.included
    IN  Normalize([s EXCEPT !.m["audit"] = [a EXCEPT
            !.packets = a.packets \cup packets, !.included = a.included \cup requests, !.status = "active",
            !.unlocked = same /\ a.unlocked, !.verified = same /\ a.verified,
            !.outcome = IF same THEN a.outcome ELSE "none"]])
AuditUnlocked(s, packets) ==
    Normalize([s EXCEPT !.m["audit"].packets = packets, !.m["audit"].unlocked = TRUE])
Disposition(s, id, verdict) ==
    Normalize([s EXCEPT
        !.m["audit"].reviewed = IF verdict = "reviewed" THEN @ \cup {id} ELSE @ \ {id},
        !.m["audit"].flagged = IF verdict = "flagged" THEN @ \cup {id} ELSE @ \ {id}])
IntegrityVerified(s, ok) ==
    Normalize([s EXCEPT !.m["audit"].verified = ok, !.m["audit"].outcome = IF ok THEN "audit-reviewed" ELSE "none"])

\* completeMission('audit', ...): the packets, then what the auditor did with them.
AuditReviewed(s, packets, requests, verdict, ok) ==
    LET unlocked == AuditUnlocked(PacketsCreated(s, packets, requests), packets)
        judged == Normalize([unlocked EXCEPT
                    !.m["audit"].reviewed = (@ \cup {r \in DOMAIN verdict : verdict[r] = "reviewed"})
                                              \ {r \in DOMAIN verdict : verdict[r] = "flagged"},
                    !.m["audit"].flagged = (@ \cup {r \in DOMAIN verdict : verdict[r] = "flagged"})
                                              \ {r \in DOMAIN verdict : verdict[r] = "reviewed"}])
    IN  IntegrityVerified(judged, ok)

(***************************************************************************)
(* The tour and the life of the session.                                   *)
(***************************************************************************)
Navigate(s, route) == Normalize([s EXCEPT !.route = route])
SetRole(s, role) == Normalize([s EXCEPT !.role = role])
TourStep(s, step, route, role) ==
    Normalize([s EXCEPT !.route = route, !.role = IF role = "none" THEN @ ELSE role,
        !.tour = [active |-> TRUE, step |-> step, paused |-> FALSE, route |-> route, role |-> role]])
PauseTour(s) == Normalize([s EXCEPT !.life = "paused", !.tour.paused = TRUE])
ReturnToMission(s) ==
    Normalize([s EXCEPT !.life = "active", !.tour.paused = FALSE,
        !.route = IF s.tour.route = NoRoute THEN @ ELSE s.tour.route,
        !.role = IF s.tour.role = "none" THEN @ ELSE s.tour.role,
        !.restart = IF @.status = "failed" THEN [status |-> "idle", request |-> 0] ELSE @])
CloseTour(s) == Normalize([s EXCEPT !.tour.active = FALSE, !.tour.paused = FALSE])
ResumeSession(s) ==
    Normalize([s EXCEPT !.life = IF DemoCompleted(s) THEN "completed" ELSE "active",
        !.restart = [status |-> "idle", request |-> 0], !.tour.paused = FALSE])

\* request 0: nothing of the run awaits the Safe
RequestRestart(s, request) ==
    Normalize([s EXCEPT !.life = "paused",
        !.restart = [status |-> IF request = 0 THEN "ready" ELSE "cleanup-required", request |-> request]])
CleanupSucceeded(s, request) ==
    IF s.restart # [status |-> "cleanup-required", request |-> request] THEN s
    ELSE Normalize([s EXCEPT !.restart.status = "cleanup-confirmed"])
CleanupFailed(s, request) ==
    IF s.restart.request # request THEN s
    ELSE Normalize([s EXCEPT !.life = "paused", !.restart.status = "failed", !.tour.paused = TRUE])
ConfirmRestart(s, run) ==
    IF s.restart.status \notin {"ready", "cleanup-confirmed"} THEN s
    ELSE CreateSession(run, s.tour.active)

\* hydrateSession: a stored session is checked field by field and normalised again.
Hydrate(s) == IF s = NoSession THEN s ELSE Normalize(s)
====
