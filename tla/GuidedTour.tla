---- MODULE GuidedTour ----
(* The mission drawer (app/src/GuidedTour.tsx) and the shell that carries its   *)
(* steps out (App.tsx).  One click changes the session's step, the shell's role *)
(* and the browser's route, and the three land on different frames; after each  *)
(* frame the drawer's effect decides whether the visitor has left the mission.  *)
(* Requests 1..3 are the missions' first attempts, 4..6 their retries; the      *)
(* packet that discloses request r is 10 + r.                                   *)
EXTENDS DemoSession

CONSTANTS
    Retries,      \* payment missions whose first attempt may fail to settle
    MaxMoves      \* visitor's own moves: navigation, roles, reload, close

VARIABLES
    ses,          \* the demo session of the page
    url, role,    \* the browser's route and the shell's demo role
    arrived, arrivedAt,  \* the drawer's latch, and the step it is about
    going,        \* the click under way: its intent and the parts still to land
    dialog,       \* the resume dialog is open
    sent,         \* the request broadcast and not bound yet, 0: none
    chain, origin,\* each request's state, and who settled it
    strayed,      \* ghost: the visitor opened a page of no mission step
    moves

vars == <<ses, url, role, arrived, arrivedAt, going, dialog, sent, chain, origin, strayed, moves>>
latch == <<arrived, arrivedAt>>

Requests == 1..6
TourAssumption == MaxMoves \in Nat
Roles == {"delegate", "auditor", "signer"}
Builder == <<"disclosure-builder", 0>>
PacketIndex == <<"audit-packets", 0>>
Verify == <<"verify", 0>>
Outside == <<"policies", 0>>
Detail(r) == <<"payment-detail", r>>
PacketDetail(p) == <<"audit-detail", p>>

(***************************************************************************)
(* The steps, and where each sends the visitor next.                       *)
(***************************************************************************)
Steps == 0..6
StepMission(i) == IF i \in 1..3 THEN MissionOrder[i] ELSE IF i = 5 THEN "audit" ELSE "none"
StepRoute(i) == CASE i <= 3 -> Inbox [] i = 4 -> Builder [] i = 5 -> PacketIndex [] OTHER -> Verify
StepRole(i) == CASE i <= 4 -> "delegate" [] i = 5 -> "auditor" [] OTHER -> "none"

\* missionDone: the step's own evidence.
StepDone(s, i) == CASE i \in 1..3 \cup {5} -> Complete(s, StepMission(i)) [] i = 4 -> AuditCoverage(s) [] OTHER -> TRUE
Gated(s) == ~StepDone(s, s.tour.step)

\* The inbox holds the controls that submit, recover and retry; the detail page
\* those that decide and decrypt.
PaymentRoute(s, k) ==
    LET r == s.m[k].request IN
    IF r = 0 \/ chain[r] = 6 \/ (k = "approval" /\ chain[r] \in {2, 5}) THEN Inbox ELSE Detail(r)

\* deriveGuidedStepPreparation, with enterStep's fallback to the step's own target.
Prepared(s, i) ==
    CASE i \in 1..3 -> {<<PaymentRoute(s, StepMission(i)), "delegate">>}
      [] i = 5 /\ s.m["audit"].packets # {} -> {<<PacketDetail(p), "auditor">> : p \in s.m["audit"].packets}
      [] OTHER -> {<<StepRoute(i), StepRole(i)>>}

\* isMissionRouteCompatible
Compatible(s, i, u) ==
    \/ u = IF s.tour.route = NoRoute THEN StepRoute(i) ELSE s.tour.route
    \/ i \in 1..3 /\ (u = Inbox \/ (u[1] = "payment-detail" /\ u[2] = s.m[StepMission(i)].request))
    \/ i = 4 /\ u = Builder
    \/ i = 5 /\ (u = PacketIndex \/ (u[1] = "audit-detail" /\ u[2] \in s.m["audit"].packets))
    \/ i \in {0, 6} /\ u = StepRoute(i)

\* mutant: the second guard is dropped, only the step's own pages count
OwnStepOnly(s, u) == Compatible(s, s.tour.step, u)
InTransit(s, u) == \E i \in Steps : Compatible(s, i, u)
OnTarget(s, u, r) ==
    /\ Compatible(s, s.tour.step, u)
    /\ StepRole(s.tour.step) \in {"none", r}

(***************************************************************************)
(* A frame: what the page shows, then the effects of the drawer and shell. *)
(***************************************************************************)
Frame(session, u, r, reached) ==
    \E s \in {session} :
        LET here == reached /\ arrivedAt = s.tour.step
            watching == s.tour.active /\ ~s.tour.paused
            leaves == watching /\ here /\ ~OnTarget(s, u, r) /\ ~InTransit(s, u)
            shown == IF u = url THEN s ELSE Navigate(s, u)
        IN  /\ ses' = IF leaves THEN PauseTour(shown) ELSE shown
            /\ url' = u /\ role' = r
            /\ arrivedAt' = s.tour.step
            /\ arrived' = (s.tour.active /\ (here \/ (watching /\ OnTarget(s, u, r))))

Evidence(s) == Frame(s, url, role, arrived)

(***************************************************************************)
(* The guided controls.                                                    *)
(***************************************************************************)
Idle == [parts |-> {}, kind |-> "none", step |-> 0, route |-> NoRoute, role |-> "none"]
Quiet == going.parts = {} /\ ~dialog

\* One navigation intent: the session's step, the role if it changes, the route.
Press(kind, step, target) ==
    going' = [parts |-> {"step"} \cup (IF target[2] \in {"none", role} THEN {} ELSE {"role"})
                                \cup (IF target[1] = url THEN {} ELSE {"route"}),
              kind |-> kind, step |-> step, route |-> target[1], role |-> target[2]]
FromDrawer == arrived' = FALSE /\ UNCHANGED <<ses, url, role, arrivedAt, dialog, sent, chain, origin, strayed, moves>>
FromPage == UNCHANGED <<ses, url, role, latch, dialog, sent, chain, origin, strayed, moves>>

\* What the intent does to the session when it lands.
Stepped(s) ==
    LET step(t) == TourStep(t, going.step, going.route, going.role) IN
    CASE going.kind = "step" -> step(s)
      [] going.kind = "return" -> step(ReturnToMission(s))
      [] going.kind = "resume" -> step(ResumeSession(s))
      [] OTHER -> ReturnToMission(s)
Land(part) ==
    /\ part \in going.parts
    /\ going' = IF going.parts = {part} THEN Idle ELSE [going EXCEPT !.parts = @ \ {part}]
    /\ CASE part = "step" -> Frame(Stepped(ses), url, role, arrived)
         [] part = "role" -> Frame(SetRole(ses, going.role), url, going.role, arrived)
         [] OTHER -> Frame(ses, going.route, role, arrived)
    /\ strayed' = (strayed /\ part # "step")
    /\ UNCHANGED <<dialog, sent, chain, origin, moves>>
Lands == \E part \in {"step", "role", "route"} : Land(part)

DrawerNext ==
    /\ Quiet /\ ses.tour.active /\ ~ses.tour.paused /\ ~Gated(ses) /\ ses.tour.step < 6
    /\ \E t \in Prepared(ses, ses.tour.step + 1) : Press("step", ses.tour.step + 1, t)
    /\ FromDrawer
Prepare ==
    /\ Quiet /\ ses.tour.active /\ ~ses.tour.paused /\ Gated(ses)
    /\ \E t \in Prepared(ses, ses.tour.step) : Press("step", ses.tour.step, t)
    /\ FromDrawer
Return ==
    /\ Quiet /\ ses.tour.active /\ ses.tour.paused
    /\ \E t \in Prepared(ses, ses.tour.step) :
           Press(IF ses.tour.step \in 1..5 THEN "return" ELSE "returnOnly", ses.tour.step, t)
    /\ FromDrawer

\* A page's own Continue: the first payment mission that is not complete, or the
\* disclosure builder.
Todo == {i \in 1..3 : ~Complete(ses, MissionOrder[i])}
NextStep == IF Todo = {} THEN 4 ELSE CHOOSE i \in Todo : \A j \in Todo : i <= j
Continue ==
    /\ Quiet /\ ses.tour.active /\ url = Inbox /\ role = "delegate"
    /\ \E r \in Requests : chain[r] \in {2, 4, 5, 6}
    /\ Press("step", NextStep, <<StepRoute(NextStep), "delegate">>)
    /\ FromPage
OpenAudit ==
    /\ Quiet /\ url = Builder /\ role = "delegate" /\ AuditCoverage(ses)
    /\ \E p \in ses.m["audit"].packets : Press("step", 5, <<PacketDetail(p), "auditor">>)
    /\ FromPage

\* The guided-demo button opens the dialog over the session's last route.
Launch ==
    /\ Quiet /\ ~ses.tour.active /\ ~DemoCompleted(ses)
    /\ dialog' = TRUE /\ Frame(ses, ses.route, role, FALSE)
    /\ UNCHANGED <<going, sent, chain, origin, strayed, moves>>
Resume ==
    /\ dialog
    /\ \E t \in Prepared(ses, ses.tour.step) :
           LET own == ses.tour.step \in 1..5
               target == CASE own -> t[1] [] ~own /\ ses.tour.route # NoRoute -> ses.tour.route [] OTHER -> ses.route
               as == IF own THEN t[2] ELSE IF ses.tour.role = "none" THEN ses.role ELSE ses.tour.role
           IN  Press("resume", ses.tour.step, <<target, as>>)
    /\ dialog' = FALSE
    /\ UNCHANGED <<ses, url, role, latch, sent, chain, origin, strayed, moves>>

(***************************************************************************)
(* The visitor's own moves.                                                *)
(***************************************************************************)
Move == moves < MaxMoves /\ moves' = moves + 1
Details == {Detail(ses.m[k].request) : k \in {k \in PaymentMissions : ses.m[k].request # 0}}
GoTo ==
    /\ Quiet /\ Move
    /\ \E u \in {Inbox, Builder, PacketIndex, Verify, Outside} \cup Details :
           /\ u # url /\ Frame(ses, u, role, arrived)
           /\ strayed' = (strayed \/ ~InTransit(ses, u))
    /\ UNCHANGED <<going, dialog, sent, chain, origin>>
SwitchRole ==
    /\ Quiet /\ Move
    /\ \E r \in Roles \ {role} : Frame(SetRole(ses, r), url, r, arrived)
    /\ UNCHANGED <<going, dialog, sent, chain, origin, strayed>>
Back ==
    /\ Quiet /\ Move /\ ses.tour.active /\ ~ses.tour.paused /\ ses.tour.step > 0
    /\ \E t \in Prepared(ses, ses.tour.step - 1) : Press("step", ses.tour.step - 1, t)
    /\ arrived' = FALSE
    /\ UNCHANGED <<ses, url, role, arrivedAt, dialog, sent, chain, origin, strayed>>
Close ==
    /\ Quiet /\ Move /\ ses.tour.active
    /\ Frame(CloseTour(ses), url, role, FALSE)
    /\ UNCHANGED <<going, dialog, sent, chain, origin, strayed>>
\* A reload keeps the saved session, the role and the route; what had not landed
\* is lost, and an unfinished session is offered again.
Reload ==
    /\ Move
    /\ going' = Idle /\ dialog' = ~DemoCompleted(ses)
    /\ Frame(ses, url, role, FALSE)
    /\ UNCHANGED <<sent, chain, origin, strayed>>
Dismiss ==
    /\ dialog /\ Move /\ dialog' = FALSE
    /\ UNCHANGED <<ses, url, role, latch, going, sent, chain, origin, strayed>>

(***************************************************************************)
(* The missions' evidence (GuidedRun and AuditReview have the detail).      *)
(***************************************************************************)
Calm == UNCHANGED <<going, dialog, strayed, moves>>
OnDelegatePage == url[1] \in {"inbox", "payment-detail"}
Owner(r) == MissionOrder[((r - 1) % 3) + 1]
Number(k) == CHOOSE i \in 1..3 : MissionOrder[i] = k
Retryable(k, r) == chain[r] = 6 \/ (k = "approval" /\ chain[r] = 5 /\ origin[r] = "timeout")
Submit ==
    /\ Quiet /\ sent = 0 /\ url = Inbox /\ role = "delegate"
    /\ \E k \in PaymentMissions :
           LET r == ses.m[k].request
               new == IF r = 0 THEN Number(k) ELSE r + 3
           IN  /\ ses.m[k].status # "locked" /\ ~Complete(ses, k)
               /\ r # 0 => Retryable(k, r)
               /\ sent' = new /\ chain' = [chain EXCEPT ![new] = 1]
    /\ UNCHANGED <<ses, url, role, latch, origin>> /\ Calm
\* The submission's answer binds its request, wherever the visitor is by then.
Bind ==
    /\ sent # 0
    /\ Evidence(BindRequest(ses, Owner(sent), sent, sent > 3))
    /\ sent' = 0 /\ UNCHANGED <<chain, origin>> /\ Calm
\* The keeper and the TEE; only a first attempt may expire.
Settle(r) ==
    LET k == Owner(r)
        result == CASE k = "routine" -> 2 [] k = "approval" -> 3 [] OTHER -> 4
    IN  /\ \/ chain[r] = 1 /\ chain' = [chain EXCEPT ![r] = result] /\ UNCHANGED origin
           \/ chain[r] = 1 /\ r <= 3 /\ k \in Retries /\ chain' = [chain EXCEPT ![r] = 6] /\ UNCHANGED origin
           \/ /\ chain[r] = 3 /\ r <= 3 /\ k \in Retries
              /\ chain' = [chain EXCEPT ![r] = 5] /\ origin' = [origin EXCEPT ![r] = "timeout"]
        /\ UNCHANGED <<ses, url, role, latch, sent>> /\ Calm
Settles == \E r \in Requests : Settle(r)

Decided(s, r, d) == ApprovalSettled(DecisionConfirmed(s, r, d), r, d)
\* The decision is carried out; its answer may be lost and recovered later.
Decide ==
    LET r == ses.m["approval"].request IN
    /\ Quiet /\ role = "delegate" /\ r # 0 /\ url \in {Inbox, Detail(r)} /\ chain[r] = 3
    /\ \E d \in {"approve", "reject"}, answered \in BOOLEAN :
           /\ chain' = [chain EXCEPT ![r] = IF d = "approve" THEN 2 ELSE 5]
           /\ origin' = [origin EXCEPT ![r] = d]
           /\ Evidence(IF answered THEN Decided(ses, r, d) ELSE ses)
    /\ UNCHANGED sent /\ Calm
Recover ==
    LET r == ses.m["approval"].request IN
    /\ Quiet /\ role = "delegate" /\ url = Inbox /\ r # 0 /\ ~Complete(ses, "approval")
    /\ chain[r] \in {2, 5} /\ origin[r] \in {"approve", "reject"}
    /\ Evidence(Decided(ses, r, origin[r]))
    /\ UNCHANGED <<sent, chain, origin>> /\ Calm
\* The delegate's pages record what the chain shows of the bound requests.
Observe ==
    LET a == ses.m["routine"].request  v == ses.m["violation"].request IN
    /\ OnDelegatePage
    /\ \/ a # 0 /\ chain[a] = 2 /\ ~Complete(ses, "routine") /\ Evidence(RoutineExecuted(ses, a))
       \/ v # 0 /\ chain[v] = 4 /\ ses.m["violation"].outcome # "blocked" /\ Evidence(ViolationBlocked(ses, v))
    /\ UNCHANGED <<sent, chain, origin>> /\ Calm
DecryptReason ==
    LET v == ses.m["violation"].request IN
    /\ Quiet /\ role = "delegate" /\ v # 0 /\ url \in {Inbox, Detail(v)}
    /\ chain[v] = 4 /\ ~ses.m["violation"].reason
    /\ Evidence(ReasonDecrypted(ViolationBlocked(ses, v), v))
    /\ UNCHANGED <<sent, chain, origin>> /\ Calm
\* Each chosen request becomes a packet of its own mandate.
CreatePackets ==
    LET open == {r \in RequestIds(ses) : r \notin ses.m["audit"].included} IN
    /\ Quiet /\ url = Builder /\ role = "delegate" /\ Todo = {}
    /\ \E scope \in (SUBSET open) \ {{}} :
           Evidence(PacketsCreated(ses, {10 + r : r \in scope}, scope))
    /\ UNCHANGED <<sent, chain, origin>> /\ Calm
Review ==
    /\ Quiet /\ url[1] \in {"audit-packets", "audit-detail"} /\ role = "auditor"
    /\ AuditCoverage(ses) /\ ~Complete(ses, "audit")
    /\ Evidence(AuditReviewed(ses, ses.m["audit"].packets, ses.m["audit"].included,
                              [r \in ses.m["audit"].included |-> "reviewed"], TRUE))
    /\ UNCHANGED <<sent, chain, origin>> /\ Calm

Init ==
    /\ ses = CreateSession(1, TRUE)
    /\ url = Inbox /\ role = "delegate" /\ arrived = TRUE /\ arrivedAt = 0
    /\ going = Idle /\ dialog = FALSE /\ sent = 0
    /\ chain = [r \in Requests |-> 0] /\ origin = [r \in Requests |-> "none"]
    /\ strayed = FALSE /\ moves = 0

Lead == DrawerNext \/ Prepare \/ Return \/ Launch \/ Resume
Deed == Submit \/ Decide \/ Recover \/ DecryptReason \/ CreatePackets \/ Review
Next == \/ Lands \/ Lead \/ Continue \/ OpenAudit
        \/ GoTo \/ SwitchRole \/ Back \/ Close \/ Reload \/ Dismiss
        \/ Deed \/ Bind \/ Settles \/ Observe
Spec == Init /\ [][Next]_vars

\* Frames land, chain and pages do their part, and the visitor follows the guide:
\* presses what the drawer offers, and in the end the control it leads to.
Fairness == /\ WF_vars(Lands) /\ WF_vars(Settles) /\ WF_vars(Bind) /\ SF_vars(Observe)
            /\ WF_vars(Lead) /\ SF_vars(Deed)
FairSpec == Spec /\ Fairness

(***************************************************************************)
(* Properties                                                              *)
(***************************************************************************)
\* The shape of the state.
TourTypeOK ==
    /\ ses.tour.step \in Steps /\ ses.run = 1 /\ role \in Roles
    /\ arrived \in BOOLEAN /\ arrivedAt \in Steps /\ dialog \in BOOLEAN
    /\ going.parts \subseteq {"step", "role", "route"} /\ sent \in 0..6
    /\ chain \in [Requests -> 0..6] /\ moves \in 0..MaxMoves
    /\ ses.tour.paused => ses.tour.active

\* The tour pauses only because the visitor opened a page of no mission step:
\* never on a frame in which step, role and route belong to different steps
\* (GuidedTour.tsx 500-529).  With retries it is refuted: see README.
NoPauseInTransit == ses.tour.paused => strayed

\* The tour stands at a step only with all the evidence of the steps before it,
\* whichever control brought it there and whatever happened since (GuidedTour.tsx
\* 463; the pages' own Continue buttons).
EvidenceBehind == \A i \in 0..(ses.tour.step - 1) : StepDone(ses, i)

\* When a click has landed completely the tour runs and, at a step that asks for
\* something, the visitor is on the step's own page in the step's role
\* (GuidedTour.tsx 483-498, 552-581).
LandsOnTarget ==
    going.parts # {} /\ going'.parts = {} /\ moves' = moves =>
        /\ ses'.tour.active /\ ~ses'.tour.paused
        /\ ses'.tour.step \in 1..5 => OnTarget(ses', url', role')
====
