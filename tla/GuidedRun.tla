---- MODULE GuidedRun ----
(* One browser tab of the guided demo: the stored session, the copy React       *)
(* renders, the payment pipeline of DelegateView with its recovery pointer      *)
(* (payment-track.ts), the committee decision, and the Restart of a run         *)
(* (App.tsx).  Handlers run to their next await; what they captured before it   *)
(* is kept in "op", "away", "calls" and "rs".  A request keeps one number from  *)
(* its broadcast on.                                                            *)
EXTENDS MissionRecovery, Sequences

CONSTANT Visits     \* the kinds of visits, each a record of what may happen in it

\* Missions: the payment missions the visitor plays; MaxRequests: requestSpend
\* transactions broadcast; MaxRuns: runs the tab starts; MaxFaults: reloads and lost
\* answers; FreePlay: the visitor also pays outside the missions; Split: React commits a
\* state before the effects that save it run; Shared: another visitor pays from the same
\* mandate; LosesHash: a broadcast may go out without its hash coming back; Abandons: the
\* visitor may leave the payment pages while a submission runs.
Visit == [Missions : SUBSET PaymentMissions, MaxRequests : Nat, MaxRuns : Nat \ {0},
          MaxFaults : Nat, FreePlay : BOOLEAN, Split : BOOLEAN, Shared : BOOLEAN,
          LosesHash : BOOLEAN, Abandons : BOOLEAN]

ASSUME GuidedRunAssumption == Visits \subseteq Visit

VARIABLE visit                            \* chosen once
VARIABLES req, seen, loaded,              \* the chain, and the last poll of it
          store, view, shown, pend,       \* sessionStorage; React state, last commit, effect still to run
          track, op, away, flow,          \* recovery pointer; submissions of the mounted page and of pages left; progress surface
          active, missionOf, att, due, restore,   \* DelegateView's state
          calls, rs, faults
chain == <<req, seen, loaded>>
session == <<store, view, shown, pend>>
payment == <<track, op, away, flow>>
page == <<active, missionOf, att, due, restore>>
vars == <<chain, session, payment, page, calls, rs, faults>>

NoTrack == [tx |-> 0, id |-> 0, mission |-> "none", run |-> 0, replace |-> FALSE]
Idle == [at |-> "idle", tx |-> 0, mission |-> "none", run |-> 0, replace |-> FALSE]
NoRestart == [at |-> "idle", cur |-> NoSession, request |-> 0, known |-> {}]

Init ==
    /\ visit \in Visits
    /\ req = <<>> /\ seen = <<>> /\ loaded = FALSE
    /\ store = CreateSession(1, TRUE) /\ view = store /\ shown = store /\ pend = NoSession
    /\ track = NoTrack /\ op = Idle /\ away = <<>> /\ flow = "none"
    /\ active = 0 /\ missionOf = "none" /\ att = {} /\ due = FALSE /\ restore = TRUE
    /\ calls = {} /\ rs = NoRestart /\ faults = 0

Fault == faults < visit.MaxFaults /\ faults' = faults + 1

\* React runs the effects of a render before the next click, poll or timer is handled;
\* only the answer of a call may come between a commit and the effect that saves it.
Flushed == ~restore /\ ~due
Quiet == Flushed /\ pend = NoSession

(***************************************************************************)
(* The session.  A facade call (missions.ts) loads, reduces and saves in   *)
(* one task; its event makes React load the result.                        *)
(***************************************************************************)
Save(s) ==
    /\ store' = s /\ view' = s
    /\ IF visit.Split THEN UNCHANGED <<shown, pend>> ELSE shown' = s /\ pend' = NoSession
\* A call of another run leaves the session as it is.
SaveFor(run, s) == IF run = store.run THEN Save(s) ELSE UNCHANGED session

\* dispatchDemo: a navigation reduces React's copy; the effect saves it later.
Navigates ==
    /\ Quiet /\ visit.Split
    /\ \E route \in {Inbox, <<"detail", 0>>} \ {view.route} : view' = Navigate(view, route)
    /\ UNCHANGED <<chain, store, shown, pend, payment, page, calls, rs, faults>>

Commit ==
    /\ visit.Split /\ pend = NoSession /\ (view # shown \/ Reconcile(view, seen) # view)
    /\ shown' = view /\ pend' = view
    /\ UNCHANGED <<chain, store, view, payment, page, calls, rs, faults>>

\* The save effect writes the committed state when the storage differs; the recovery effect reconciles it.
Effects ==
    /\ pend # NoSession /\ pend' = NoSession
    /\ LET s == Reconcile(pend, seen) IN
       IF s = pend /\ store = pend THEN UNCHANGED <<store, view>> ELSE store' = s /\ view' = s
    /\ UNCHANGED <<chain, shown, payment, page, calls, rs, faults>>

ReconcileNow ==
    /\ ~visit.Split /\ Reconcile(view, seen) # view
    /\ Save(Reconcile(view, seen))
    /\ UNCHANGED <<chain, payment, page, calls, rs, faults>>

(***************************************************************************)
(* The chain: one slot per mandate, the violation has a mandate of its own.*)
(***************************************************************************)
mandate(k) == IF k \in {"routine", "approval"} THEN "main" ELSE k
SlotBusy(k) == \E i \in DOMAIN req : mandate(req[i].mission) = mandate(k) /\ req[i].state \in InFlight

Mine ==
    \E i \in DOMAIN req :
        /\ req[i].state = "pool"
        /\ req' = [req EXCEPT ![i].state = IF SlotBusy(req[i].mission) THEN "reverted" ELSE "requested"]
        /\ UNCHANGED <<seen, loaded, session, payment, page, calls, rs, faults>>

Finalize ==
    \E i \in DOMAIN req :
        /\ req[i].state = "requested"
        /\ \E st \in {CASE req[i].mission = "approval" -> "awaiting" [] req[i].mission = "violation" -> "blocked"
                        [] OTHER -> "executed", "expired"} :
              req' = [req EXCEPT ![i].state = st]
        /\ UNCHANGED <<seen, loaded, session, payment, page, calls, rs, faults>>

\* The decision service serves a call, Restart's cleanup, or cancels at its deadline.
Decided(i, st, origin) == req' = [req EXCEPT ![i].state = st, ![i].origin = origin]
ServiceActs ==
    /\ \E i \in DOMAIN req :
          /\ req[i].state = "awaiting"
          /\ \/ \E c \in calls : c.id = i /\ Decided(i, IF c.action = "approve" THEN "executed" ELSE "cancelled", "user")
             \/ rs.at = "cleaning" /\ rs.request = i /\ Decided(i, "cancelled", "user")
             \/ Decided(i, "cancelled", "timeout")
    /\ UNCHANGED <<seen, loaded, session, payment, page, calls, rs, faults>>

\* The demo mandates are shared: another visitor pays with them.
OtherVisitor ==
    /\ visit.Shared /\ Len(req) < visit.MaxRequests /\ ~SlotBusy("routine")
    /\ req' = Append(req, [run |-> 0, mission |-> "routine", state |-> "requested", origin |-> "none"])
    /\ UNCHANGED <<seen, loaded, session, payment, page, calls, rs, faults>>

\* App's poll: the registry as it is, with the effects of the new snapshot due.
Poll ==
    LET now == [i \in {j \in DOMAIN req : req[j].state \notin {"pool", "reverted"}} |-> req[i]] IN
    /\ Quiet /\ (now # seen \/ ~loaded)
    /\ seen' = now /\ loaded' = TRUE
    /\ restore' = (restore \/ DOMAIN now # DOMAIN seen)
    /\ due' = (due \/ (active \in DOMAIN now /\ (active \notin DOMAIN seen \/ now[active] # seen[active])))
    /\ UNCHANGED <<req, session, payment, active, missionOf, att, calls, rs, faults>>

(***************************************************************************)
(* The payment pipeline (runScenario, submitCore).                         *)
(***************************************************************************)
\* deriveGuidedInvoiceAction
ActionFor(k) ==
    LET id == store.m[k].request
        st == IF id \in DOMAIN seen THEN seen[id].state ELSE "unknown"
    IN  IF Complete(store, k) THEN "open"
        ELSE CASE id = 0 -> "submit"
               [] k = "approval" /\ st = "executed" -> "recover"
               [] k = "approval" /\ st = "cancelled" /\ id \in att ->
                     IF req[id].origin = "timeout" THEN "retry" ELSE "recover"
               [] st = "expired" -> "retry"
               [] OTHER -> "open"

before(k) == CASE k = "approval" -> "routine" [] k = "violation" -> "approval" [] OTHER -> "none"
Unlocked(k) == before(k) \in visit.Missions => Complete(store, before(k))
BlockingSeen(slot) == \E i \in DOMAIN seen : mandate(seen[i].mission) = slot /\ seen[i].state \in InFlight

\* The button of an invoice, or of the receipt of a settled request ("Run: Routine payment").
Offered(k) ==
    \/ op = Idle /\ flow = "none" /\ Unlocked(k) /\ (BlockingSeen("main") => k = "violation")
    \/ /\ k = "routine" /\ ~Complete(store, k)
       /\ active \in DOMAIN seen /\ seen[active].state \in Terminal

Start(k, replace) ==
    /\ op' = [Idle EXCEPT !.at = "preflight", !.mission = k, !.replace = replace]
    /\ flow' = "busy"

Tracked(k) == track.tx # 0 /\ track.mission = k /\ track.run = store.run

Click(k) ==
    /\ Quiet /\ loaded /\ Offered(k) /\ ActionFor(k) \in {"submit", "retry"}
    /\ LET retry == ActionFor(k) = "retry"
           old == Tracked(k) /\ retry /\ track.id # 0 /\ track.id = store.m[k].request IN
       \/ /\ ~Tracked(k) \/ old
          /\ track' = IF old THEN NoTrack ELSE track
          /\ IF op = Idle /\ ~BlockingSeen("main") THEN Start(k, retry) ELSE UNCHANGED <<op, flow>>
          /\ UNCHANGED <<session, missionOf, due>>
       \/ /\ Tracked(k) /\ track.id # 0 /\ ~old
          /\ Save(BindRequest(store, k, track.id, track.replace))
          /\ UNCHANGED <<track, op, flow, missionOf, due>>
       \/ /\ Tracked(k) /\ track.id = 0
          /\ flow' = "recovering" /\ missionOf' = k /\ due' = (due \/ missionOf # k)
          /\ UNCHANGED <<track, op, session>>
    /\ UNCHANGED <<chain, away, active, att, restore, calls, rs, faults>>

ClickFree ==
    /\ Quiet /\ visit.FreePlay /\ op = Idle /\ flow = "none" /\ loaded /\ ~BlockingSeen("free")
    /\ Start("free", FALSE)
    /\ UNCHANGED <<chain, session, track, away, page, calls, rs, faults>>

\* A submission goes on when its page is gone: 0 is the mounted page's, the others are away.
\* What an unmounted page would show or follow is lost; what it saves is not.
Ops == 0..Len(away)
Op(m) == IF m = 0 THEN op ELSE away[m]
Becomes(m, o, f) ==
    IF m = 0 THEN op' = o /\ flow' = f /\ UNCHANGED away
             ELSE away' = [away EXCEPT ![m] = o] /\ UNCHANGED <<op, flow>>
Over(m) == Becomes(m, Idle, "none")

\* The coordinator lets one submission at a time pay from a mandate, whichever page began it.
Holds(o) == o.at \in {"sending", "sent", "waiting"}
Preflight(m) ==
    /\ Quiet /\ Op(m).at = "preflight"
    /\ \/ /\ \A n \in Ops : Holds(Op(n)) => mandate(Op(n).mission) # mandate(Op(m).mission)
          /\ Becomes(m, [Op(m) EXCEPT !.at = "sending", !.run = store.run], flow)
       \/ Over(m)
    /\ UNCHANGED <<chain, session, track, page, calls, rs, faults>>

\* walletWrite simulates, then sends; the transaction is live before its hash is known here.
Broadcast(m) ==
    /\ Quiet /\ Op(m).at = "sending"
    /\ \/ /\ Len(req) < visit.MaxRequests /\ ~SlotBusy(Op(m).mission)
          /\ req' = Append(req, [run |-> IF Op(m).mission = "free" THEN 0 ELSE Op(m).run,
                                 mission |-> Op(m).mission, state |-> "pool", origin |-> "none"])
          /\ Becomes(m, [Op(m) EXCEPT !.at = "sent", !.tx = Len(req) + 1], flow)
       \/ Over(m) /\ UNCHANGED req
    /\ UNCHANGED <<seen, loaded, session, track, page, calls, rs, faults>>

Answer(m) ==
    /\ Quiet /\ Op(m).at = "sent"
    /\ \/ /\ LET o == Op(m) IN
             track' = [tx |-> o.tx, id |-> 0, mission |-> o.mission, run |-> o.run, replace |-> o.replace]
          /\ Becomes(m, [Op(m) EXCEPT !.at = "waiting"], flow)
          /\ missionOf' = IF m = 0 THEN op.mission ELSE missionOf
          /\ due' = (due \/ missionOf' # missionOf)
          /\ UNCHANGED faults
       \/ /\ visit.LosesHash /\ Fault /\ Over(m) /\ UNCHANGED <<track, missionOf, due>>
    /\ UNCHANGED <<chain, session, active, att, restore, calls, rs>>

\* The receipt's event names the request: the pointer and the mission are bound to it, and a
\* mounted page follows it.
Bind(run, k, id, replace) ==
    IF k = "free" THEN UNCHANGED session ELSE SaveFor(run, BindRequest(store, k, id, replace))
Follow(id, k) == active' = id /\ missionOf' = k /\ due' = TRUE
Settle(o, mounted) ==
    IF req[o.tx].state = "reverted"
    THEN track' = NoTrack /\ UNCHANGED <<session, active, missionOf, due>>
    ELSE /\ track' = [tx |-> o.tx, id |-> o.tx, mission |-> o.mission, run |-> o.run, replace |-> o.replace]
         /\ Bind(o.run, o.mission, o.tx, o.replace)
         /\ IF mounted THEN Follow(o.tx, o.mission) ELSE UNCHANGED <<active, missionOf, due>>
surface(tx) == IF req[tx].state = "reverted" THEN "none" ELSE "busy"

Receipt(m) ==
    /\ Flushed /\ Op(m).at = "waiting"
    /\ \/ /\ req[Op(m).tx].state # "pool"
          /\ Settle(Op(m), m = 0) /\ Becomes(m, Idle, surface(Op(m).tx))
       \/ Becomes(m, Idle, "recovering") /\ UNCHANGED <<track, session, active, missionOf, due>>
    /\ UNCHANGED <<chain, att, restore, calls, rs, faults>>

RecoverReceipt ==
    /\ Flushed /\ flow = "recovering" /\ track.tx # 0 /\ track.id = 0 /\ req[track.tx].state # "pool"
    /\ Settle(track, TRUE) /\ flow' = surface(track.tx)
    /\ UNCHANGED <<chain, op, away, att, restore, calls, rs, faults>>

(***************************************************************************)
(* DelegateView's effects.                                                 *)
(***************************************************************************)
boundSeen == {k \in PaymentMissions : store.m[k].request \in DOMAIN seen}

\* The view is keyed by the run; it is mounted anew with another run or after another page.
Remounted ==
    /\ active' = 0 /\ missionOf' = "none" /\ att' = {} /\ due' = FALSE /\ restore' = TRUE
    /\ flow' = "none" /\ op' = Idle /\ away' = IF op = Idle THEN away ELSE Append(away, op)
    /\ calls' = {[c EXCEPT !.shown = FALSE] : c \in {d \in calls : d.kind = "decide"}}
Leave ==
    /\ Quiet /\ (op = Idle \/ visit.Abandons) /\ Fault /\ Remounted
    /\ UNCHANGED <<chain, session, track, rs>>

\* The receipt of a settled request: on to the next invoice, or another payment of the same.
Continue ==
    /\ Quiet /\ active \in DOMAIN seen /\ seen[active].state \in Terminal
    /\ active' = 0 /\ UNCHANGED <<att, due, restore>>
    /\ missionOf' = missionOf \/ (Complete(store, "routine") /\ missionOf' = "none")
    /\ UNCHANGED <<chain, session, payment, calls, rs, faults>>

\* After a mount or a longer registry: the tracked payment, a bound one, or one left in flight.
Restore ==
    /\ restore /\ restore' = FALSE
    /\ LET mine == track.tx # 0 /\ track.run = store.run
           lost == mine /\ track.id = 0 IN
       IF active # 0 THEN UNCHANGED <<track, flow, active, missionOf, due>>
       ELSE /\ track' = IF mine THEN track ELSE NoTrack
            /\ flow' = IF lost THEN "recovering" ELSE flow
            /\ CASE mine /\ track.id \in DOMAIN seen -> Follow(track.id, track.mission)
                 [] ~(mine /\ track.id \in DOMAIN seen) /\ boundSeen # {} ->
                      LET k == CHOOSE k \in boundSeen : before(k) \notin boundSeen IN Follow(store.m[k].request, k)
                 [] OTHER -> IF BlockingSeen("main")
                      THEN Follow(CHOOSE i \in DOMAIN seen : mandate(seen[i].mission) = "main" /\ seen[i].state \in InFlight, "none")
                      ELSE UNCHANGED <<active, due>> /\ missionOf' = IF lost THEN track.mission ELSE missionOf
    /\ UNCHANGED <<chain, session, op, away, att, calls, rs, faults>>

\* A session event with nothing followed: follow the current mission's request.
Adopt ==
    /\ Quiet /\ active = 0 /\ store.current \in boundSeen
    /\ Follow(store.m[store.current].request, store.current)
    /\ UNCHANGED <<chain, session, payment, att, restore, calls, rs, faults>>

TracksLatest(k) ==
    track.tx = 0 \/ track.id = active \/ (track.id = 0 /\ k # "none" /\ track.mission = k)

Decide(s, id, action) == ApprovalSettled(DecisionConfirmed(s, id, action), id, action)
userAction(id) == IF req[id].state = "executed" THEN "approve" ELSE "reject"

\* Mission bookkeeping when the followed request is terminal.
Bookkeep ==
    /\ due /\ due' = FALSE
    /\ LET owners == {k \in PaymentMissions : store.m[k].request = active}
           k == IF active # 0 /\ owners # {} THEN CHOOSE x \in owners : TRUE ELSE "none"
           mission == IF k # "none" THEN k
                      ELSE IF missionOf = "none" /\ track.id = active THEN track.mission ELSE missionOf
           run == IF k # "none" \/ track.tx = 0 THEN store.run ELSE track.run
           routine == seen[active].state = "executed" /\ mission = "routine"
           decided == active \in att /\ req[active].origin = "user" /\ mission = "approval"
       IN  IF \/ active \notin DOMAIN seen \/ seen[active].state \notin Terminal
              \/ (track.tx # 0 /\ track.run # store.run) \/ ~TracksLatest(k)
           THEN UNCHANGED <<session, payment>>
           ELSE /\ IF routine THEN SaveFor(run, RoutineExecuted(store, active))
                   ELSE IF decided THEN SaveFor(run, Decide(store, active, userAction(active)))
                   ELSE UNCHANGED session
                /\ track' = IF routine \/ decided \/ mission = "free" THEN NoTrack ELSE track
                /\ flow' = "none" /\ UNCHANGED <<op, away>>
    /\ UNCHANGED <<chain, active, missionOf, att, restore, calls, rs, faults>>

(***************************************************************************)
(* The committee decision and its attestation.                             *)
(***************************************************************************)
ChooseDecision ==
    /\ Quiet /\ \A c \in calls : c.kind # "decide"
    /\ \E i \in DOMAIN seen, action \in {"approve", "reject"} :
          /\ seen[i].state = "awaiting" /\ seen[i].run = store.run
          /\ calls' = calls \cup {[kind |-> "decide", id |-> i, run |-> store.run, action |-> action, shown |-> TRUE]}
    /\ UNCHANGED <<chain, session, payment, page, rs, faults>>

\* Attestations are asked for the bound decided request, or the newest when none is bound.
AskAttestation ==
    LET decided == {i \in RunBound(store.run, "approval", seen) : seen[i].state \in {"executed", "cancelled"}}
        bound == store.m["approval"].request IN
    /\ Quiet /\ \A c \in calls : c.kind # "attest"
    /\ \E i \in decided \ (IF Complete(store, "approval") THEN att ELSE {}) :
          /\ IF bound = 0 THEN i = newest(decided) ELSE i = bound
          /\ calls' = calls \cup {[kind |-> "attest", id |-> i, run |-> store.run, action |-> "none", shown |-> TRUE]}
    /\ UNCHANGED <<chain, session, payment, page, rs, faults>>

\* Any new attestation runs the bookkeeping again.
Attested(c) == IF c.shown THEN att' = att \cup {c.id} /\ due' = TRUE ELSE UNCHANGED <<att, due>>
Called ==
    \E c \in calls :
        /\ Flushed /\ calls' = calls \ {c}
        /\ \/ /\ req[c.id].origin = "user" /\ c.action \in {"none", userAction(c.id)}
              /\ SaveFor(c.run, Decide(store, c.id, userAction(c.id)))
              /\ Attested(c)
           \/ /\ req[c.id].origin = "timeout" /\ c.kind = "attest"
              /\ Attested(c) /\ UNCHANGED session
           \/ /\ c.kind = "decide" /\ UNCHANGED <<session, att, due>>
        /\ UNCHANGED <<chain, payment, active, missionOf, restore, rs, faults>>

DecryptReason ==
    /\ Flushed /\ \E i \in RunBound(store.run, "violation", seen) :
          /\ seen[i].state = "blocked" /\ ~store.m["violation"].reason
          /\ Save(ReasonDecrypted(ViolationBlocked(store, i), i))
    /\ UNCHANGED <<chain, payment, page, calls, rs, faults>>

(***************************************************************************)
(* Resume and Restart (App.tsx).                                           *)
(***************************************************************************)
Resume ==
    /\ Quiet /\ view.life = "paused" /\ rs = NoRestart
    /\ Save(TourStep(ResumeSession(view), view.tour.step, view.route, view.role))
    /\ UNCHANGED <<chain, payment, page, calls, rs, faults>>

\* Every request the tab knows of the run: polled, bound, or named by the pointer of a mission.
Known(cur) ==
    ({cur.m[k].request : k \in PaymentMissions} \cup {IF track.run = cur.run /\ track.mission \in PaymentMissions THEN track.id ELSE 0}
       \cup UNION {RunBound(cur.run, k, seen) : k \in PaymentMissions}) \ {0}
\* A polled request is judged by the snapshot, another is read from the chain.
stateOf(i) == IF i \in DOMAIN seen THEN seen[i].state ELSE req[i].state

Unclassified(cur) == track.tx # 0 /\ track.id = 0 /\ track.run = cur.run
\* mutant: a request in evaluation does not refuse the restart
RestartAnyway(cur) == ~Unclassified(cur) /\ Cardinality({i \in Known(cur) : stateOf(i) = "awaiting"}) <= 1
Restartable(cur) ==
    /\ ~Unclassified(cur)
    /\ loaded \/ \E k \in PaymentMissions : cur.m[k].request # 0
    /\ \A i \in Known(cur) : stateOf(i) # "requested" /\ (stateOf(i) = "awaiting" => req[i].mission = "approval")
    /\ Cardinality({i \in Known(cur) : stateOf(i) = "awaiting"}) <= 1

Renewed(cur) == Save(ConfirmRestart(cur, cur.run + 1)) /\ track' = NoTrack /\ Remounted

RestartBegin ==
    /\ Quiet /\ rs = NoRestart /\ view.run < visit.MaxRuns /\ view.restart.status # "failed" /\ Restartable(view)
    /\ LET request == newest({i \in Known(view) : stateOf(i) = "awaiting"})
           cur == RequestRestart(view, request)
       IN  IF request = 0
           THEN Renewed(cur) /\ UNCHANGED rs
           ELSE Save(cur) /\ rs' = [at |-> "cleaning", cur |-> cur, request |-> request, known |-> Known(view)] /\ UNCHANGED <<payment, page, calls>>
    /\ UNCHANGED <<chain, faults>>

\* "known" is kept for RestartLeavesNothingKnown alone: the cleanup does not look again.
\* The refund is confirmed, or the cleanup is given up with the session it started from.
RestartEnds ==
    /\ Quiet /\ rs.at = "cleaning" /\ rs' = NoRestart
    /\ \/ req[rs.request].state = "cancelled" /\ Renewed(CleanupSucceeded(rs.cur, rs.request))
       \/ Save(CleanupFailed(rs.cur, rs.request)) /\ UNCHANGED <<payment, page, calls>>
    /\ UNCHANGED <<chain, faults>>

\* The page is reloaded: the storage stays, what the handlers held is gone.
Reload ==
    /\ Fault /\ ((\E m \in Ops : Op(m).at = "sent") => visit.LosesHash)
    /\ store' = store /\ view' = Hydrate(store) /\ shown' = view' /\ pend' = IF visit.Split THEN view' ELSE NoSession
    /\ seen' = <<>> /\ loaded' = FALSE
    /\ op' = Idle /\ away' = <<>> /\ flow' = "none" /\ track' = track
    /\ active' = 0 /\ missionOf' = "none" /\ att' = {} /\ due' = FALSE /\ restore' = TRUE
    /\ calls' = {} /\ rs' = NoRestart /\ UNCHANGED req

Next ==
    /\ UNCHANGED visit
    /\ \/ Mine \/ Finalize \/ ServiceActs \/ OtherVisitor \/ Poll
       \/ \E k \in visit.Missions : Click(k)
       \/ \E m \in Ops : Preflight(m) \/ Broadcast(m) \/ Answer(m) \/ Receipt(m)
       \/ ClickFree \/ RecoverReceipt
       \/ Commit \/ Effects \/ ReconcileNow \/ Restore \/ Bookkeep
       \/ Navigates \/ Adopt \/ Continue \/ Leave
       \/ ChooseDecision \/ AskAttestation \/ Called \/ DecryptReason
       \/ Resume \/ RestartBegin \/ RestartEnds \/ Reload

\* Blocks come and the page polls; the answers and effects of the page are handled in turn.
Fairness ==
    /\ WF_vars(Mine) /\ WF_vars(Effects) /\ WF_vars(ReconcileNow) /\ WF_vars(Restore) /\ WF_vars(Bookkeep)
    /\ SF_vars(Poll) /\ SF_vars(AskAttestation) /\ SF_vars(Called)

Spec == Init /\ [][Next]_<<visit, vars>> /\ Fairness
----
(* "Never let that stale object clear the new request's recovery pointer or      *)
(* progress surface" (DelegateView.tsx 366): while a broadcast has no request    *)
(* id, the page that was recovering it goes on showing so.  Refuted: see README.  *)
SurfaceStays ==
    [][(Unclassified(store) /\ flow = "recovering" /\ track' = track /\ faults' = faults) => flow' = "recovering"]_vars

(* "Its memo is bound to another run and must never advance this session or its  *)
(* audit" (DelegateView.tsx 868): only requests of the run are bound to it.      *)
(* Refuted on a shared mandate: see README.                                       *)
OwnRequestsOnly ==
    \A k \in PaymentMissions : store.m[k].request # 0 => req[store.m[k].request].run = store.run

(* The variables have their types: every recorded number names a broadcast       *)
(* transaction, and an operation in flight has one exactly when it has sent it.  *)
GuidedRunTypeOK ==
    /\ \A i \in DOMAIN req : req[i].state \in {"pool", "reverted"} \cup InFlight \cup Terminal
                             /\ req[i].run \in 0..visit.MaxRuns /\ req[i].origin \in {"none", "user", "timeout"}
    /\ DOMAIN seen \subseteq DOMAIN req /\ att \subseteq DOMAIN req /\ active \in 0..Len(req)
    /\ \A s \in {store, view} : \A k \in PaymentMissions : s.m[k].request \in 0..Len(req)
    /\ track.tx \in 0..Len(req) /\ track.id \in {0, track.tx}
    /\ \A m \in Ops : (Op(m).tx # 0) <=> Op(m).at \in {"sent", "waiting"}
    /\ flow \in {"none", "busy", "recovering"}

(* What the stored session counts as complete really happened on the chain, in   *)
(* this run: the routine payment executed, the approval was decided by this      *)
(* visitor's own Safe decision (never by the service's deadline), the violation  *)
(* was blocked.  Late receipts, recovered pointers, reloads and polls of older   *)
(* or newer requests never make it false (completeMission, mission-recovery).    *)
EvidenceIsTrue ==
    \A k \in PaymentMissions : Complete(store, k) =>
        LET p == store.m[k]
            r == req[p.request]
        IN  /\ r.run = store.run /\ r.mission = k
            /\ CASE k = "routine" -> r.state = "executed"
                 [] k = "violation" -> r.state = "blocked"
                 [] OTHER -> r.origin = "user" /\ r.state = IF p.decision = "approve" THEN "executed" ELSE "cancelled"

(* "A strict terminal mission is immutable" (demo-session.ts 278): as long as    *)
(* the run lasts, a complete mission keeps its request and stays complete.       *)
TerminalStays ==
    \A k \in PaymentMissions : Complete(store, k) /\ store'.run = store.run =>
        Complete(store', k) /\ store'.m[k].request = store.m[k].request

(* A mission of a run is paid for once: at most one of its requests is on its    *)
(* way, decided by the visitor, paid or blocked.  Only an expired request, a     *)
(* reverted one or one the deadline cancelled may be replaced (runScenario      *)
(* keeps the recovery pointer and the session's binding apart from reloads).     *)
OneAttempt ==
    \A i, j \in DOMAIN req :
        req[i].run # 0 /\ req[i].run = req[j].run /\ req[i].mission = req[j].mission
          /\ {i, j} \cap {x \in DOMAIN req : req[x].state \in {"expired", "reverted"} \/ req[x].origin = "timeout"} = {}
        => i = j

(* Both are of a visit of one run on mandates nobody else uses: a second run      *)
(* breaks either, another visitor the first.  The visitor pays for missions in    *)
(* order, beginning with the first, and for nothing else,                         *)
OwnVisit == visit.MaxRuns = 1 /\ ~visit.Shared
InOrder ==
    /\ OwnVisit /\ ~visit.FreePlay /\ ~visit.Split
    /\ \A k \in visit.Missions : before(k) \in visit.Missions \cup {"none"}
\* or stops after the first mission and pays freely beside it, in a tab that stays open
\* and whose saves race the answers.
RoutineOnly == OwnVisit /\ visit.Missions = {"routine"} /\ visit.MaxFaults = 0

(* The safety of a run's states.  A free payment, a racing save or a hash that    *)
(* never came back breaks OneAttempt; so does a page left while its submission    *)
(* runs, whose lock and whose checks are gone with it (see README).               *)
GuidedRunSafe ==
    /\ GuidedRunTypeOK
    /\ InOrder \/ RoutineOnly => EvidenceIsTrue
    /\ InOrder /\ ~visit.LosesHash /\ ~visit.Abandons => OneAttempt

(* A run is only given up when nothing the tab knew of it when Restart was        *)
(* pressed is in flight: polled, bound to a mission or named by the recovery      *)
(* pointer of a mission (restartDemo).  A free payment's pointer it drops.        *)
RestartLeavesNothingKnown ==
    store'.run # store.run =>
        \A i \in IF rs = NoRestart THEN Known(store) ELSE rs.known : req[i].state \notin InFlight

(* What no step does: Restart leaves nothing it knows of in flight; and while no   *)
(* Restart and no save are under way, a complete mission stays so.                 *)
GuidedSteps ==
    [][/\ RestartLeavesNothingKnown
       /\ rs.at = "idle" /\ pend = NoSession => TerminalStays]_<<visit, vars>>

(* "Restart cannot orphan encrypted escrow while the TEE is still working"       *)
(* (App.tsx 694): no request of a run that was given up is in flight.            *)
(* Refuted: see README.                                                           *)
RestartOrphans ==
    \A i \in DOMAIN req : req[i].run \in 1..(store.run - 1) => req[i].state \notin InFlight

(* The visitor's decision settled a request, and its mission does not know yet:   *)
(* the call's answer, an attestation after a reload or reconciliation will tell.  *)
DecisionUnknown ==
    \E i \in DOMAIN req : /\ req[i].origin = "user" /\ req[i].run = store.run
                          /\ store.m["approval"].request = i /\ ~Complete(store, "approval")
====
