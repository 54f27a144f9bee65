-------------------------- MODULE GuidedRun_proofs --------------------------
(***************************************************************************)
(* Theorems about GuidedRun, for every set of visits: its types, what no   *)
(* step does, that the evidence of a session is true, and that a mission   *)
(* is paid for once.                                                       *)
(***************************************************************************)
EXTENDS GuidedRun, FiniteSetTheorems, WellFoundedInduction, TLAPS

-----------------------------------------------------------------------------
(***************************************************************************)
(* What the actions of a demo session leave of its evidence.               *)
(***************************************************************************)

Keys == {"routine", "approval", "violation", "audit"}
ProgressShape(p) ==
    p = [status |-> p.status, request |-> p.request, outcome |-> p.outcome, decision |-> p.decision,
         confirmed |-> p.confirmed, reason |-> p.reason, packets |-> p.packets, included |-> p.included,
         reviewed |-> p.reviewed, flagged |-> p.flagged, unlocked |-> p.unlocked, verified |-> p.verified,
         compat |-> p.compat]
Shape(s) ==
    /\ s = [run |-> s.run, life |-> s.life, current |-> s.current, role |-> s.role, route |-> s.route,
            m |-> s.m, tour |-> s.tour, restart |-> s.restart]
    /\ s.m = [k \in Keys |-> s.m[k]]
    /\ \A k \in Keys : ProgressShape(s.m[k])
\* Progress p and q hold the same evidence.
SameProgress(p, q) ==
    /\ p.request = q.request /\ p.outcome = q.outcome /\ p.decision = q.decision
    /\ p.confirmed = q.confirmed /\ p.reason = q.reason /\ p.packets = q.packets
    /\ p.included = q.included /\ p.reviewed = q.reviewed /\ p.flagged = q.flagged
    /\ p.unlocked = q.unlocked /\ p.verified = q.verified
Kept(s, t) ==
    s.run = t.run /\ s.role = t.role /\ s.route = t.route /\ s.tour = t.tour /\ s.restart = t.restart
Same(s, t) ==
    /\ Kept(s, t)
    /\ \A k \in Keys : SameProgress(s.m[k], t.m[k])

LEMMA NormalizeKeeps ==
    ASSUME NEW s, Shape(s) PROVE Shape(Normalize(s)) /\ Same(Normalize(s), s)
<1>1. PICK st, life, current :
        /\ st = [k \in Keys |-> StatusOf(s, Ordinal(k))]
        /\ life = LifeOf(s) /\ current = CurrentOf(s)
  OBVIOUS
<1>2. PICK n : n = Normalize(s)
  OBVIOUS
<1>3. PICK m : m = [k \in Keys |-> [s.m[k] EXCEPT !.status = st[k]]]
  OBVIOUS
<1>4. n = [s EXCEPT !.m = m, !.life = life, !.current = current]
  BY <1>1, <1>2, <1>3 DEF Normalize, MissionKeys, PaymentMissions, Keys
<1>5. n = [run |-> s.run, life |-> life, current |-> current, role |-> s.role, route |-> s.route,
           m |-> m, tour |-> s.tour, restart |-> s.restart]
  BY <1>4 DEF Shape
<1>6. /\ n.run = s.run /\ n.life = life /\ n.current = current /\ n.role = s.role /\ n.route = s.route
      /\ n.m = m /\ n.tour = s.tour /\ n.restart = s.restart
  BY <1>5
<1>7. ASSUME NEW k \in Keys PROVE ProgressShape(m[k]) /\ SameProgress(m[k], s.m[k])
  <2>1. PICK p, q : p = s.m[k] /\ q = m[k]
    OBVIOUS
  <2>2. ProgressShape(p)
    BY <2>1 DEF Shape
  <2>3. q = [p EXCEPT !.status = st[k]]
    BY <1>3, <2>1
  <2>4. ProgressShape(q) /\ SameProgress(q, p)
    BY <2>2, <2>3 DEF ProgressShape, SameProgress
  <2> QED BY <2>1, <2>4
<1>8. m = [k \in Keys |-> m[k]]
  BY <1>3
<1> QED BY <1>2, <1>5, <1>6, <1>7, <1>8 DEF Shape, Same, Kept

\* t is s with evidence q for mission k.
Recorded(t, s, k, q) ==
    /\ Shape(t) /\ Kept(t, s) /\ SameProgress(t.m[k], q)
    /\ \A j \in Keys \ {k} : SameProgress(t.m[j], s.m[j])

Put(s, k, q) == [s EXCEPT !.m = [s.m EXCEPT ![k] = q]]

LEMMA WithMission ==
    ASSUME NEW s, Shape(s), NEW k \in Keys, NEW q, ProgressShape(q)
    PROVE  /\ Shape(Put(s, k, q)) /\ Kept(Put(s, k, q), s) /\ Put(s, k, q).m[k] = q
           /\ \A j \in Keys \ {k} : Put(s, k, q).m[j] = s.m[j]
<1>1. PICK t : t = Put(s, k, q)
  OBVIOUS
<1>2. PICK m : m = [s.m EXCEPT ![k] = q]
  OBVIOUS
<1>3. t = [run |-> s.run, life |-> s.life, current |-> s.current, role |-> s.role, route |-> s.route,
           m |-> m, tour |-> s.tour, restart |-> s.restart]
  BY <1>1, <1>2 DEF Shape, Put
<1>4. /\ t.run = s.run /\ t.life = s.life /\ t.current = s.current /\ t.role = s.role /\ t.route = s.route
      /\ t.m = m /\ t.tour = s.tour /\ t.restart = s.restart
  BY <1>3
<1>5. m = [j \in Keys |-> m[j]] /\ m[k] = q /\ \A j \in Keys \ {k} : m[j] = s.m[j]
  BY <1>2 DEF Shape
<1> QED BY <1>1, <1>3, <1>4, <1>5 DEF Shape, Kept

LEMMA Records ==
    ASSUME NEW s, Shape(s), NEW k \in Keys, NEW q, ProgressShape(q)
    PROVE  Recorded(Normalize(Put(s, k, q)), s, k, q)
<1>1. PICK t, n : t = Put(s, k, q) /\ n = Normalize(t)
  OBVIOUS
<1>2. /\ Shape(t) /\ Kept(t, s) /\ t.m[k] = q
      /\ \A j \in Keys \ {k} : t.m[j] = s.m[j]
  BY <1>1, WithMission
<1>3. Shape(n) /\ Same(n, t)
  BY <1>1, <1>2, NormalizeKeeps
<1> QED BY <1>1, <1>2, <1>3 DEF Recorded, Same, Kept

\* n is s but for mission k.
OnlyMission(n, s, k) == Shape(n) /\ Kept(n, s) /\ \A j \in Keys \ {k} : SameProgress(n.m[j], s.m[j])

LEMMA OnlyMissionJoins ==
    ASSUME NEW s, NEW t, NEW u, NEW k, OnlyMission(t, s, k), OnlyMission(u, t, k) PROVE OnlyMission(u, s, k)
BY DEF OnlyMission, Kept, SameProgress

LEMMA RecordedMission ==
    ASSUME NEW s, NEW n, NEW k, NEW q, Recorded(n, s, k, q) PROVE OnlyMission(n, s, k) /\ SameProgress(n.m[k], q)
BY DEF Recorded, OnlyMission

Payments == {"routine", "approval", "violation"}
\* Progress p completes the payment mission k.
Done(k, p) ==
    /\ p.request # 0
    /\ CASE k = "routine" -> p.outcome = "executed"
         [] k = "violation" -> p.outcome = "blocked" /\ p.reason
         [] OTHER -> /\ p.confirmed
                     /\ \/ p.decision = "approve" /\ p.outcome = "safe-approved"
                        \/ p.decision = "reject" /\ p.outcome = "safe-rejected"

LEMMA CompleteIs == ASSUME NEW s, NEW k \in Payments PROVE Complete(s, k) <=> Done(k, s.m[k])
<1>1. CASE k = "routine"
  BY <1>1 DEF Complete, Done
<1>2. CASE k = "approval"
  BY <1>2 DEF Complete, Done
<1>3. CASE k = "violation"
  BY <1>3 DEF Complete, Done
<1> QED BY <1>1, <1>2, <1>3 DEF Payments

LEMMA DoneSame ==
    ASSUME NEW p, NEW q, NEW k \in Payments, SameProgress(p, q) PROVE Done(k, p) <=> Done(k, q)
BY DEF Payments, SameProgress, Done

ExecutedAs(s, n, id) ==
    \/ n = s
    \/ /\ s.m["routine"].request \in {0, id} /\ OnlyMission(n, s, "routine")
       /\ n.m["routine"].request = id /\ n.m["routine"].outcome = "executed"

LEMMA ExecutedIs ==
    ASSUME NEW s, Shape(s), NEW id PROVE ExecutedAs(s, RoutineExecuted(s, id), id)
<1>1. PICK n, a, b : n = RoutineExecuted(s, id) /\ a = s.m["routine"] /\ b = n.m["routine"]
  OBVIOUS
<1>2. PICK q : q = [a EXCEPT !.request = id, !.outcome = "executed"]
  OBVIOUS
<1>3. ProgressShape(a) /\ "routine" \in Keys
  BY <1>1 DEF Shape, Keys
<1>4. ProgressShape(q) /\ q.request = id /\ q.outcome = "executed"
  BY <1>2, <1>3 DEF ProgressShape
<1>5. n = s \/ (a.request \in {0, id} /\ n = Normalize(Put(s, "routine", q)))
  <2>1. Put(s, "routine", q) = [s EXCEPT !.m["routine"].request = id, !.m["routine"].outcome = "executed"]
    BY <1>1, <1>2, <1>3 DEF Put, Shape
  <2> QED BY <1>1, <2>1 DEF RoutineExecuted, MayRecord
<1>6. n = s \/ (a.request \in {0, id} /\ OnlyMission(n, s, "routine") /\ SameProgress(b, q))
  BY <1>1, <1>3, <1>4, <1>5, Records, RecordedMission
<1> QED BY <1>1, <1>4, <1>6 DEF SameProgress, ExecutedAs

ConfirmedAs(s, n, id, decision) ==
    \/ n = s
    \/ /\ s.m["approval"].request \in {0, id} /\ OnlyMission(n, s, "approval")
       /\ n.m["approval"].request = id /\ n.m["approval"].decision = decision /\ n.m["approval"].confirmed = TRUE
       /\ n.m["approval"].outcome = s.m["approval"].outcome

LEMMA ConfirmedIs ==
    ASSUME NEW s, Shape(s), NEW id, NEW decision PROVE ConfirmedAs(s, DecisionConfirmed(s, id, decision), id, decision)
<1>1. PICK n, a, b : n = DecisionConfirmed(s, id, decision) /\ a = s.m["approval"] /\ b = n.m["approval"]
  OBVIOUS
<1>2. PICK q : q = [a EXCEPT !.request = id, !.decision = decision, !.confirmed = TRUE, !.status = "active"]
  OBVIOUS
<1>3. ProgressShape(a) /\ "approval" \in Keys
  BY <1>1 DEF Shape, Keys
<1>4. ProgressShape(q) /\ q.request = id /\ q.decision = decision /\ q.confirmed = TRUE /\ q.outcome = a.outcome
  BY <1>2, <1>3 DEF ProgressShape
<1>5. n = s \/ (a.request \in {0, id} /\ n = Normalize(Put(s, "approval", q)))
  BY <1>1, <1>2 DEF DecisionConfirmed, MayRecord, Put
<1>6. n = s \/ (a.request \in {0, id} /\ OnlyMission(n, s, "approval") /\ SameProgress(b, q))
  BY <1>1, <1>3, <1>4, <1>5, Records, RecordedMission
<1> QED BY <1>1, <1>4, <1>6 DEF SameProgress, ConfirmedAs

SettledAs(s, n, id, decision) ==
    \/ /\ n = s
       /\ s.m["approval"].request # id \/ ~s.m["approval"].confirmed \/ s.m["approval"].decision # decision
    \/ /\ OnlyMission(n, s, "approval")
       /\ s.m["approval"].request = id /\ s.m["approval"].confirmed /\ s.m["approval"].decision = decision
       /\ n.m["approval"].request = id /\ n.m["approval"].decision = decision
       /\ n.m["approval"].confirmed = s.m["approval"].confirmed
       /\ n.m["approval"].outcome = IF decision = "approve" THEN "safe-approved" ELSE "safe-rejected"

LEMMA SettledIs ==
    ASSUME NEW s, Shape(s), NEW id, NEW decision PROVE SettledAs(s, ApprovalSettled(s, id, decision), id, decision)
<1>1. PICK n, a, b, o : /\ n = ApprovalSettled(s, id, decision) /\ a = s.m["approval"] /\ b = n.m["approval"]
                        /\ o = IF decision = "approve" THEN "safe-approved" ELSE "safe-rejected"
  OBVIOUS
<1>2. PICK q : q = [a EXCEPT !.outcome = o]
  OBVIOUS
<1>3. ProgressShape(a) /\ "approval" \in Keys
  BY <1>1 DEF Shape, Keys
<1>4. ProgressShape(q) /\ q.request = a.request /\ q.decision = a.decision /\ q.confirmed = a.confirmed /\ q.outcome = o
  BY <1>2, <1>3 DEF ProgressShape
<1>5. \/ n = s /\ (a.request # id \/ ~a.confirmed \/ a.decision # decision)
      \/ a.request = id /\ a.confirmed /\ a.decision = decision /\ n = Normalize(Put(s, "approval", q))
  BY <1>1, <1>2 DEF ApprovalSettled, Put
<1>6. ASSUME n = Normalize(Put(s, "approval", q)) PROVE OnlyMission(n, s, "approval") /\ SameProgress(b, q)
  BY <1>1, <1>3, <1>4, <1>6, Records, RecordedMission
<1> QED BY <1>1, <1>4, <1>5, <1>6 DEF SameProgress, SettledAs

BlockedAs(s, n, id) ==
    \/ n = s
    \/ /\ s.m["violation"].request \in {0, id} /\ OnlyMission(n, s, "violation")
       /\ n.m["violation"].request = id /\ n.m["violation"].outcome = "blocked"
       /\ n.m["violation"].reason = s.m["violation"].reason

LEMMA BlockedIs ==
    ASSUME NEW s, Shape(s), NEW id PROVE BlockedAs(s, ViolationBlocked(s, id), id)
<1>1. PICK n, a, b : n = ViolationBlocked(s, id) /\ a = s.m["violation"] /\ b = n.m["violation"]
  OBVIOUS
<1>2. PICK q : q = [a EXCEPT !.request = id, !.outcome = "blocked"]
  OBVIOUS
<1>3. ProgressShape(a) /\ "violation" \in Keys
  BY <1>1 DEF Shape, Keys
<1>4. ProgressShape(q) /\ q.request = id /\ q.outcome = "blocked" /\ q.reason = a.reason
  BY <1>2, <1>3 DEF ProgressShape
<1>5. n = s \/ (a.request \in {0, id} /\ n = Normalize(Put(s, "violation", q)))
  <2>1. Put(s, "violation", q) = [s EXCEPT !.m["violation"].request = id, !.m["violation"].outcome = "blocked"]
    BY <1>1, <1>2, <1>3 DEF Put, Shape
  <2> QED BY <1>1, <2>1 DEF ViolationBlocked, MayRecord
<1>6. n = s \/ (a.request \in {0, id} /\ OnlyMission(n, s, "violation") /\ SameProgress(b, q))
  BY <1>1, <1>3, <1>4, <1>5, Records, RecordedMission
<1> QED BY <1>1, <1>4, <1>6 DEF SameProgress, BlockedAs

DecryptedAs(s, n, id) ==
    \/ n = s
    \/ /\ s.m["violation"].request \in {0, id} /\ OnlyMission(n, s, "violation")
       /\ n.m["violation"].request = id /\ n.m["violation"].reason = TRUE
       /\ n.m["violation"].outcome = s.m["violation"].outcome

LEMMA DecryptedIs ==
    ASSUME NEW s, Shape(s), NEW id PROVE DecryptedAs(s, ReasonDecrypted(s, id), id)
<1>1. PICK n, a, b : n = ReasonDecrypted(s, id) /\ a = s.m["violation"] /\ b = n.m["violation"]
  OBVIOUS
<1>2. PICK q : q = [a EXCEPT !.request = id, !.reason = TRUE]
  OBVIOUS
<1>3. ProgressShape(a) /\ "violation" \in Keys
  BY <1>1 DEF Shape, Keys
<1>4. ProgressShape(q) /\ q.request = id /\ q.outcome = a.outcome /\ q.reason = TRUE
  BY <1>2, <1>3 DEF ProgressShape
<1>5. n = s \/ (a.request \in {0, id} /\ n = Normalize(Put(s, "violation", q)))
  <2>1. Put(s, "violation", q) = [s EXCEPT !.m["violation"].request = id, !.m["violation"].reason = TRUE]
    BY <1>1, <1>2, <1>3 DEF Put, Shape
  <2> QED BY <1>1, <2>1 DEF ReasonDecrypted, MayRecord
<1>6. n = s \/ (a.request \in {0, id} /\ OnlyMission(n, s, "violation") /\ SameProgress(b, q))
  BY <1>1, <1>3, <1>4, <1>5, Records, RecordedMission
<1> QED BY <1>1, <1>4, <1>6 DEF SameProgress, DecryptedAs

BoundAs(s, n, k, id, replace) ==
    \/ n = s
    \/ /\ OnlyMission(n, s, k) /\ ~Complete(s, k)
       /\ s.m[k].request = 0 \/ (s.m[k].request # id /\ replace)
       /\ n.m[k].request = id /\ n.m[k].outcome = "none" /\ n.m[k].confirmed = FALSE

LEMMA BoundIs ==
    ASSUME NEW s, Shape(s), NEW k \in Keys, NEW id, NEW replace
    PROVE  BoundAs(s, BindRequest(s, k, id, replace), k, id, replace)
<1>1. PICK n, a, b : n = BindRequest(s, k, id, replace) /\ a = s.m[k] /\ b = n.m[k]
  OBVIOUS
<1>2. PICK q : q = [a EXCEPT !.request = id, !.status = "active", !.outcome = "none",
                    !.decision = "none", !.confirmed = FALSE, !.reason = FALSE, !.compat = FALSE]
  OBVIOUS
<1>3. ProgressShape(a)
  BY <1>1 DEF Shape
<1>4. ProgressShape(q) /\ q.request = id /\ q.outcome = "none" /\ q.confirmed = FALSE
  BY <1>2, <1>3 DEF ProgressShape
<1>5. \/ n = s
      \/ /\ n = Normalize(Put(s, k, q)) /\ ~Complete(s, k)
         /\ a.request = 0 \/ (a.request # id /\ replace)
  BY <1>1, <1>2 DEF BindRequest, Put
<1>6. ASSUME n = Normalize(Put(s, k, q)) PROVE OnlyMission(n, s, k) /\ SameProgress(b, q)
  BY <1>1, <1>3, <1>4, <1>6, Records, RecordedMission
<1> QED BY <1>1, <1>4, <1>5, <1>6 DEF SameProgress, BoundAs

\* A session without a request of a mission, or asked to replace it, binds the new one.
LEMMA BindTakes ==
    ASSUME NEW s, Shape(s), NEW k \in Keys, NEW id, NEW replace, ~Complete(s, k),
           s.m[k].request = 0 \/ (s.m[k].request # id /\ replace)
    PROVE  BindRequest(s, k, id, replace).m[k].request = id
<1>1. PICK n, p : n = BindRequest(s, k, id, replace) /\ p = s.m[k]
  OBVIOUS
<1>2. PICK q : q = [p EXCEPT !.request = id, !.status = "active", !.outcome = "none",
                    !.decision = "none", !.confirmed = FALSE, !.reason = FALSE, !.compat = FALSE]
  OBVIOUS
<1>3. ProgressShape(p)
  BY <1>1 DEF Shape
<1>4. ProgressShape(q) /\ q.request = id
  BY <1>2, <1>3 DEF ProgressShape
<1>5. n = Normalize(Put(s, k, q))
  BY <1>1, <1>2 DEF BindRequest, Put
<1> QED BY <1>1, <1>4, <1>5, Records, RecordedMission DEF SameProgress

\* The visitor's decision on request id, whole.
DecidedAs(s, n, id, action) ==
    \/ n = s
    \/ /\ OnlyMission(n, s, "approval") /\ s.m["approval"].request \in {0, id}
       /\ n.m["approval"].request = id /\ n.m["approval"].decision = action /\ n.m["approval"].confirmed = TRUE
       /\ n.m["approval"].outcome = IF action = "approve" THEN "safe-approved" ELSE "safe-rejected"

LEMMA DecideIs ==
    ASSUME NEW s, Shape(s), NEW id, NEW action PROVE DecidedAs(s, Decide(s, id, action), id, action)
<1>1. PICK t, n : t = DecisionConfirmed(s, id, action) /\ n = ApprovalSettled(t, id, action)
  OBVIOUS
<1>2. n = Decide(s, id, action)
  BY <1>1 DEF Decide
<1>3. ConfirmedAs(s, t, id, action)
  BY <1>1, ConfirmedIs
<1>4. Shape(t)
  BY <1>3 DEF ConfirmedAs, OnlyMission
<1>5. SettledAs(t, n, id, action)
  BY <1>1, <1>4, SettledIs
<1>6. CASE s.m["approval"].request \in {0, id}
  <2>1. t = DecisionConfirmed(s, id, action) /\ t.m["approval"].request = id /\ OnlyMission(t, s, "approval")
        /\ t.m["approval"].decision = action /\ t.m["approval"].confirmed = TRUE
    <3>1. PICK q : q = [s.m["approval"] EXCEPT !.request = id, !.decision = action, !.confirmed = TRUE, !.status = "active"]
      OBVIOUS
    <3>2. ProgressShape(s.m["approval"]) /\ "approval" \in Keys
      BY DEF Shape, Keys
    <3>3. ProgressShape(q) /\ q.request = id /\ q.decision = action /\ q.confirmed = TRUE
      BY <3>1, <3>2 DEF ProgressShape
    <3>4. t = Normalize(Put(s, "approval", q))
      BY <1>1, <1>6, <3>1 DEF DecisionConfirmed, MayRecord, Put
    <3> QED BY <1>1, <3>2, <3>3, <3>4, Records, RecordedMission DEF SameProgress
  <2>2. /\ OnlyMission(n, t, "approval")
        /\ n.m["approval"].request = id /\ n.m["approval"].decision = action
        /\ n.m["approval"].confirmed = t.m["approval"].confirmed
        /\ n.m["approval"].outcome = IF action = "approve" THEN "safe-approved" ELSE "safe-rejected"
    BY <1>5, <2>1 DEF SettledAs
  <2>3. OnlyMission(n, s, "approval")
    BY <2>1, <2>2, OnlyMissionJoins
  <2> QED BY <1>2, <1>6, <2>1, <2>2, <2>3 DEF DecidedAs
<1>7. CASE s.m["approval"].request \notin {0, id}
  <2>1. t = s
    BY <1>1, <1>7 DEF DecisionConfirmed, MayRecord
  <2>2. n = t
    BY <1>1, <1>7, <2>1 DEF ApprovalSettled
  <2> QED BY <1>2, <2>1, <2>2 DEF DecidedAs
<1> QED BY <1>6, <1>7

\* The blocked violation id whose reason was decrypted.
ReasonedAs(s, n, id) ==
    \/ n = s
    \/ /\ OnlyMission(n, s, "violation") /\ s.m["violation"].request \in {0, id}
       /\ n.m["violation"].request = id /\ n.m["violation"].outcome = "blocked" /\ n.m["violation"].reason = TRUE

LEMMA ReasonedIs ==
    ASSUME NEW s, Shape(s), NEW id PROVE ReasonedAs(s, ReasonDecrypted(ViolationBlocked(s, id), id), id)
<1>1. PICK t, n : t = ViolationBlocked(s, id) /\ n = ReasonDecrypted(t, id)
  OBVIOUS
<1>2. BlockedAs(s, t, id)
  BY <1>1, BlockedIs
<1>3. Shape(t)
  BY <1>2 DEF BlockedAs, OnlyMission
<1>4. DecryptedAs(t, n, id)
  BY <1>1, <1>3, DecryptedIs
<1>5. CASE s.m["violation"].request \in {0, id}
  <2>1. OnlyMission(t, s, "violation") /\ t.m["violation"].request = id /\ t.m["violation"].outcome = "blocked"
    <3>1. PICK q : q = [s.m["violation"] EXCEPT !.request = id, !.outcome = "blocked"]
      OBVIOUS
    <3>2. ProgressShape(s.m["violation"]) /\ "violation" \in Keys
      BY DEF Shape, Keys
    <3>3. ProgressShape(q) /\ q.request = id /\ q.outcome = "blocked"
      BY <3>1, <3>2 DEF ProgressShape
    <3>4. t = Normalize(Put(s, "violation", q))
      <4>1. Put(s, "violation", q) = [s EXCEPT !.m["violation"].request = id, !.m["violation"].outcome = "blocked"]
        BY <3>1, <3>2 DEF Put, Shape
      <4> QED BY <1>1, <1>5, <4>1 DEF ViolationBlocked, MayRecord
    <3> QED BY <1>1, <3>2, <3>3, <3>4, Records, RecordedMission DEF SameProgress
  <2>2. /\ OnlyMission(n, t, "violation") /\ n.m["violation"].request = id /\ n.m["violation"].reason = TRUE
        /\ n.m["violation"].outcome = "blocked"
    <3>1. PICK q : q = [t.m["violation"] EXCEPT !.request = id, !.reason = TRUE]
      OBVIOUS
    <3>2. ProgressShape(t.m["violation"]) /\ "violation" \in Keys
      BY <1>3 DEF Shape, Keys
    <3>3. ProgressShape(q) /\ q.request = id /\ q.outcome = "blocked" /\ q.reason = TRUE
      BY <2>1, <3>1, <3>2 DEF ProgressShape
    <3>4. n = Normalize(Put(t, "violation", q))
      <4>1. Put(t, "violation", q) = [t EXCEPT !.m["violation"].request = id, !.m["violation"].reason = TRUE]
        BY <3>1, <3>2, <1>3 DEF Put, Shape
      <4> QED BY <1>1, <2>1, <4>1 DEF ReasonDecrypted, MayRecord
    <3> QED BY <1>1, <1>3, <3>2, <3>3, <3>4, Records, RecordedMission DEF SameProgress
  <2>3. OnlyMission(n, s, "violation")
    BY <2>1, <2>2, OnlyMissionJoins
  <2> QED BY <1>1, <1>5, <2>2, <2>3 DEF ReasonedAs
<1>6. CASE s.m["violation"].request \notin {0, id}
  <2>1. t = s
    BY <1>1, <1>6 DEF ViolationBlocked, MayRecord
  <2>2. n = t
    BY <1>1, <1>6, <2>1 DEF ReasonDecrypted, MayRecord
  <2> QED BY <1>1, <2>1, <2>2 DEF ReasonedAs
<1> QED BY <1>5, <1>6

\* n has the evidence of s.
Evid(n, s) == Shape(n) /\ n.run = s.run /\ \A k \in Keys : SameProgress(n.m[k], s.m[k])

LEMMA EvidSelf == ASSUME NEW s, Shape(s) PROVE Evid(s, s)
BY DEF Evid, SameProgress

LEMMA EvidJoins == ASSUME NEW s, NEW t, NEW u, Evid(t, s), Evid(u, t) PROVE Evid(u, s)
BY DEF Evid, SameProgress

\* s but for all that is not evidence.
Moved(s, life, r, u, tour, restart) ==
    [run |-> s.run, life |-> life, current |-> s.current, role |-> r, route |-> u, m |-> s.m,
     tour |-> tour, restart |-> restart]

LEMMA MovesKeep ==
    ASSUME NEW s, Shape(s), NEW life, NEW r, NEW u, NEW tour, NEW restart
    PROVE  Evid(Normalize(Moved(s, life, r, u, tour, restart)), s)
<1>1. PICK t, n : t = Moved(s, life, r, u, tour, restart) /\ n = Normalize(t)
  OBVIOUS
<1>2. t = [run |-> s.run, life |-> life, current |-> s.current, role |-> r, route |-> u, m |-> s.m,
           tour |-> tour, restart |-> restart]
  BY <1>1 DEF Moved
<1>3. t.run = s.run /\ t.life = life /\ t.current = s.current /\ t.role = r /\ t.route = u /\ t.m = s.m
      /\ t.tour = tour /\ t.restart = restart
  BY <1>2
<1>4. Shape(t)
  BY <1>2, <1>3 DEF Shape
<1>5. Shape(n) /\ Same(n, t)
  BY <1>1, <1>4, NormalizeKeeps
<1> QED BY <1>1, <1>3, <1>5 DEF Evid, Same, Kept

LEMMA HydrateKeeps == ASSUME NEW s, Shape(s) PROVE Evid(Hydrate(s), s)
<1>1. Evid(Normalize(s), s)
  BY NormalizeKeeps DEF Evid, Same, Kept
<1> QED BY <1>1, EvidSelf DEF Hydrate

LEMMA NavigateKeeps == ASSUME NEW s, Shape(s), NEW u PROVE Evid(Navigate(s, u), s)
<1>1. Moved(s, s.life, s.role, u, s.tour, s.restart) = [s EXCEPT !.route = u]
  BY DEF Moved, Shape
<1> QED BY <1>1, MovesKeep DEF Navigate

LEMMA TourStepKeeps == ASSUME NEW s, Shape(s), NEW step, NEW u, NEW r PROVE Evid(TourStep(s, step, u, r), s)
<1>1. PICK as, tour : as = (IF r = "none" THEN s.role ELSE r)
                      /\ tour = [active |-> TRUE, step |-> step, paused |-> FALSE, route |-> u, role |-> r]
  OBVIOUS
<1>2. PICK t : t = [s EXCEPT !.route = u, !.role = as, !.tour = tour]
  OBVIOUS
<1>3. Moved(s, s.life, as, u, tour, s.restart) = t
  BY <1>2 DEF Moved, Shape
<1>4. TourStep(s, step, u, r) = Normalize(t)
  BY <1>1, <1>2 DEF TourStep
<1> QED BY <1>3, <1>4, MovesKeep

LEMMA ResumeKeeps == ASSUME NEW s, Shape(s) PROVE Evid(ResumeSession(s), s)
<1>1. PICK tour, life, idle :
        /\ tour = [s.tour EXCEPT !.paused = FALSE] /\ life = (IF DemoCompleted(s) THEN "completed" ELSE "active")
        /\ idle = [status |-> "idle", request |-> 0]
  OBVIOUS
<1>2. PICK t : t = [s EXCEPT !.life = life, !.restart = idle, !.tour = tour]
  OBVIOUS
<1>3. Moved(s, life, s.role, s.route, tour, idle) = t
  BY <1>2 DEF Moved, Shape
<1>4. ResumeSession(s) = Normalize(t)
  <2>1. t = [s EXCEPT !.life = life, !.restart = idle, !.tour.paused = FALSE]
    BY <1>1, <1>2 DEF Shape
  <2> QED BY <1>1, <2>1 DEF ResumeSession
<1> QED BY <1>3, <1>4, MovesKeep

LEMMA RequestRestartKeeps == ASSUME NEW s, Shape(s), NEW id PROVE Evid(RequestRestart(s, id), s)
<1>1. PICK restart : restart = [status |-> IF id = 0 THEN "ready" ELSE "cleanup-required", request |-> id]
  OBVIOUS
<1>2. PICK t : t = [s EXCEPT !.life = "paused", !.restart = restart]
  OBVIOUS
<1>3. Moved(s, "paused", s.role, s.route, s.tour, restart) = t
  BY <1>2 DEF Moved, Shape
<1>4. RequestRestart(s, id) = Normalize(t)
  BY <1>1, <1>2 DEF RequestRestart
<1> QED BY <1>3, <1>4, MovesKeep

LEMMA CleanupSucceededKeeps == ASSUME NEW s, Shape(s), NEW id PROVE Evid(CleanupSucceeded(s, id), s)
<1>1. PICK restart : restart = [s.restart EXCEPT !.status = "cleanup-confirmed"]
  OBVIOUS
<1>2. Moved(s, s.life, s.role, s.route, s.tour, restart) = [s EXCEPT !.restart = restart]
  BY DEF Moved, Shape
<1>3. [s EXCEPT !.restart = restart] = [s EXCEPT !.restart.status = "cleanup-confirmed"]
  BY <1>1 DEF Shape
<1>4. CleanupSucceeded(s, id) = s \/ CleanupSucceeded(s, id) = Normalize([s EXCEPT !.restart = restart])
  BY <1>3 DEF CleanupSucceeded
<1> QED BY <1>2, <1>4, MovesKeep, EvidSelf

LEMMA CleanupFailedKeeps == ASSUME NEW s, Shape(s), NEW id PROVE Evid(CleanupFailed(s, id), s)
<1>1. PICK restart, tour : restart = [s.restart EXCEPT !.status = "failed"] /\ tour = [s.tour EXCEPT !.paused = TRUE]
  OBVIOUS
<1>2. PICK t : t = [s EXCEPT !.life = "paused", !.restart = restart, !.tour = tour]
  OBVIOUS
<1>3. Moved(s, "paused", s.role, s.route, tour, restart) = t
  BY <1>2 DEF Moved, Shape
<1>4. CleanupFailed(s, id) = s \/ CleanupFailed(s, id) = Normalize(t)
  <2>1. t = [s EXCEPT !.life = "paused", !.restart.status = "failed", !.tour.paused = TRUE]
    BY <1>1, <1>2 DEF Shape
  <2> QED BY <2>1 DEF CleanupFailed
<1> QED BY <1>3, <1>4, MovesKeep, EvidSelf

\* A new session.
FreshAs(n, run) == Shape(n) /\ n.run = run /\ \A k \in Payments : n.m[k].request = 0

LEMMA CreatedIs == ASSUME NEW run, NEW touring PROVE FreshAs(CreateSession(run, touring), run)
<1>1. PICK m, tour, restart :
        /\ m = [k \in Keys |-> EmptyProgress(IF k = "routine" THEN "ready" ELSE "locked")]
        /\ tour = [active |-> touring, step |-> 0, paused |-> FALSE, route |-> NoRoute, role |-> "none"]
        /\ restart = [status |-> "idle", request |-> 0]
  OBVIOUS
<1>2. PICK n : n = [run |-> run, life |-> "active", current |-> "routine", role |-> "delegate", route |-> Inbox,
                    m |-> m, tour |-> tour, restart |-> restart]
  OBVIOUS
<1>3. n = CreateSession(run, touring)
  BY <1>1, <1>2 DEF CreateSession, MissionKeys, PaymentMissions, Keys
<1>4. n.run = run /\ n.role = "delegate" /\ n.route = Inbox /\ n.m = m /\ n.tour = tour /\ n.restart = restart
      /\ n.life = "active" /\ n.current = "routine"
  BY <1>2
<1>5. ASSUME NEW k \in Keys PROVE ProgressShape(m[k]) /\ m[k].request = 0
  <2>1. PICK st, p : p = EmptyProgress(st) /\ p = m[k]
    BY <1>1
  <2>2. ProgressShape(p) /\ p.request = 0
    BY <2>1 DEF EmptyProgress, ProgressShape
  <2> QED BY <2>1, <2>2
<1>6. m = [k \in Keys |-> m[k]]
  BY <1>1
<1>7. Shape(n)
  BY <1>2, <1>4, <1>5, <1>6 DEF Shape
<1>8. FreshAs(n, run)
  BY <1>4, <1>5, <1>7 DEF FreshAs, Payments, Keys
<1> QED BY Zenon, <1>3, <1>8

LEMMA ConfirmRestartIs ==
    ASSUME NEW s, NEW run PROVE ConfirmRestart(s, run) = s \/ FreshAs(ConfirmRestart(s, run), run)
BY CreatedIs DEF ConfirmRestart

-----------------------------------------------------------------------------
(***************************************************************************)
(* What a poll of the chain tells a session (mission-recovery).            *)
(***************************************************************************)

LEMMA MinimalSubset ==
    ASSUME NEW S, IsFiniteSet(S), NEW T \in SUBSET (SUBSET S), T # {}
    PROVE  \E s \in T : \A t \in T : t \subseteq s => t = s
  <1>1. IsWellFoundedOn(StrictSubsetOrdering(S), FiniteSubsetsOf(S)) /\ FiniteSubsetsOf(S) = SUBSET S
    BY FS_StrictSubsetOrderingWellFounded, FS_FiniteSubsetsOfFinite
  <1>2. \E s \in T : \A t \in T : ~ (<<t, s>> \in StrictSubsetOrdering(S))
    BY <1>1, WFMin
  <1> QED BY <1>2 DEF StrictSubsetOrdering

\* The newest of some requests is one of them.
LEMMA NewestIs ==
    ASSUME NEW n \in Nat, NEW T \in SUBSET (1 .. n)
    PROVE  IF T = {} THEN newest(T) = 0 ELSE newest(T) \in T /\ \A j \in T : newest(T) >= j
<1>1. CASE T = {}
  BY <1>1 DEF newest
<1>2. CASE T # {}
  <2>1. PICK N, U : N = 1 .. n /\ U = {i .. n : i \in T}
    OBVIOUS
  <2>2. IsFiniteSet(N)
    BY <2>1, FS_Interval
  <2>3. \A i \in T : i .. n \subseteq N
    BY <2>1
  <2>4. U \in SUBSET (SUBSET N)
    BY <2>1, <2>3
  <2>5. U # {}
    BY <1>2, <2>1
  <2>6. PICK s \in U : \A t \in U : t \subseteq s => t = s
    BY <2>2, <2>4, <2>5, MinimalSubset
  <2>7. PICK i \in T : s = i .. n
    BY <2>1, <2>6
  <2>8. ASSUME NEW j \in T, ~(i >= j) PROVE FALSE
    <3>1. j .. n \in U /\ j .. n \subseteq s /\ i \in s /\ i \notin j .. n
      BY <2>1, <2>7, <2>8
    <3> QED BY <2>6, <3>1
  <2>9. \E x \in T : \A j \in T : x >= j
    BY <2>8
  <2> QED BY <1>2, <2>9 DEF newest
<1> QED BY <1>1, <1>2

\* What the snapshot S tells mission k of a run: its progress p becomes q.
Told(S, run, k, p, q) ==
    \/ SameProgress(q, p)
    \/ /\ ~Done(k, p) /\ q.request \in RunBound(run, k, S)
       /\ p.request \in {0, q.request} \/ (p.request \in RunBound(run, k, S) /\ p.request < q.request)
       /\ k = "routine" /\ q.outcome = "executed" =>
             (p.request = q.request /\ p.outcome = "executed") \/ S[q.request].state = "executed"
       /\ k = "violation" /\ q.outcome = "blocked" =>
             (p.request = q.request /\ p.outcome = "blocked") \/ S[q.request].state = "blocked"
       /\ k = "approval" /\ q.confirmed => p.request = q.request /\ p.confirmed /\ p.decision = q.decision

LEMMA ToldSame ==
    ASSUME NEW S, NEW run, NEW k \in Payments, NEW p, NEW q, NEW a, NEW b,
           SameProgress(a, p), SameProgress(b, q), Told(S, run, k, p, q)
    PROVE  Told(S, run, k, a, b)
<1>1. Done(k, a) <=> Done(k, p)
  BY DoneSame
<1>2. CASE SameProgress(q, p)
  BY <1>2 DEF SameProgress, Told
<1> QED BY <1>1, <1>2 DEF SameProgress, Told

LEMMA AttemptIs ==
    ASSUME NEW n \in Nat, NEW S, DOMAIN S \subseteq 1 .. n, NEW s, NEW k
    PROVE  LET id == Attempt(s, k, S)
               p == s.m[k]
           IN  id # 0 => /\ id \in RunBound(s.run, k, S)
                         /\ p.request \in {0, id} \/ (p.request \in RunBound(s.run, k, S) /\ p.request < id)
<1>1. PICK C, b, id : C = RunBound(s.run, k, S) /\ b = s.m[k].request /\ id = Attempt(s, k, S)
  OBVIOUS
<1>2. C \in SUBSET (1 .. n)
  BY <1>1 DEF RunBound
<1>3. \A j \in C : j \in Nat
  BY <1>2
<1>4. C # {} => newest(C) \in C /\ \A j \in C : newest(C) >= j
  BY <1>2, NewestIs
<1>5. C = {} => newest(C) = 0
  BY <1>2, NewestIs
<1>6. CASE b = 0
  BY <1>1, <1>4, <1>5, <1>6 DEF Attempt
<1>7. CASE b # 0 /\ b \in C
  <2>1. id = b \/ id = newest(C)
    BY <1>1, <1>7 DEF Attempt
  <2>2. newest(C) \in C /\ newest(C) >= b /\ b \in Nat /\ newest(C) \in Nat
    BY <1>4, <1>7, <1>3
  <2> QED BY <1>1, <1>7, <2>1, <2>2
<1>8. CASE b # 0 /\ b \notin C
  BY <1>1, <1>8 DEF Attempt
<1> QED BY <1>6, <1>7, <1>8

LEMMA MissionToldIs ==
    ASSUME NEW n \in Nat, NEW S, DOMAIN S \subseteq 1 .. n, NEW s, Shape(s), NEW k \in Payments
    PROVE  LET t == ReconcileMission(s, k, S)
           IN  /\ OnlyMission(t, s, k) /\ Told(S, s.run, k, s.m[k], t.m[k])
               /\ ~Complete(s, k) /\ Attempt(s, k, S) # 0 => t.m[k].request = Attempt(s, k, S)
<1>1. PICK id, b, t, p, q : /\ id = Attempt(s, k, S) /\ b = BindRequest(s, k, id, s.m[k].request # 0)
                         /\ t = ReconcileMission(s, k, S) /\ p = s.m[k] /\ q = t.m[k]
  OBVIOUS
<1>2. k \in Keys /\ OnlyMission(s, s, k)
  BY DEF Payments, Keys, OnlyMission, Kept, SameProgress
<1>3. CASE Complete(s, k) \/ id = 0
  <2>1. t = s
    BY <1>1, <1>3 DEF ReconcileMission
  <2> QED BY <1>1, <1>2, <1>3, <2>1 DEF Told, SameProgress
<1>4. CASE ~Complete(s, k) /\ id # 0
  <2>1. /\ id \in RunBound(s.run, k, S)
        /\ p.request \in {0, id} \/ (p.request \in RunBound(s.run, k, S) /\ p.request < id)
    BY <1>1, <1>4, AttemptIs
  <2>2. BoundAs(s, b, k, id, s.m[k].request # 0)
    BY <1>1, <1>2, BoundIs
  <2>3. OnlyMission(b, s, k) /\ b.m[k].request = id
    <3>1. CASE p.request = id
      BY <1>1, <1>2, <1>4, <3>1 DEF BindRequest
    <3>2. CASE p.request # id
      <4>1. PICK replace : replace = (p.request # 0)
        OBVIOUS
      <4>2. p.request = 0 \/ (p.request # id /\ replace)
        BY <3>2, <4>1
      <4>3. BindRequest(s, k, id, replace).m[k].request = id
        BY <1>1, <1>2, <1>4, <4>2, BindTakes
      <4>4. b = BindRequest(s, k, id, replace)
        BY <1>1, <4>1
      <4> QED BY <1>2, <2>2, <4>3, <4>4 DEF BoundAs
    <3> QED BY <3>1, <3>2
  <2>4. \/ SameProgress(b.m[k], p) /\ p.request = id
        \/ b.m[k].outcome = "none" /\ b.m[k].confirmed = FALSE
    <3>1. b = s => SameProgress(b.m[k], p) /\ p.request = id
      BY <1>1, <2>3 DEF SameProgress
    <3> QED BY <2>2, <3>1 DEF BoundAs
  <2>5. Shape(b)
    BY <2>3 DEF OnlyMission
  <2>6. \/ t = b
        \/ k = "routine" /\ S[id].state = "executed" /\ t = RoutineExecuted(b, id)
        \/ k = "violation" /\ S[id].state = "blocked" /\ t = ViolationBlocked(b, id)
        \/ k = "approval" /\ t = ApprovalSettled(b, id, b.m[k].decision)
    BY <1>1, <1>4 DEF ReconcileMission
  <2>7. /\ OnlyMission(t, b, k) /\ q.request = id
        /\ k = "routine" /\ q.outcome = "executed" => b.m[k].outcome = "executed" \/ S[id].state = "executed"
        /\ k = "violation" /\ q.outcome = "blocked" => b.m[k].outcome = "blocked" \/ S[id].state = "blocked"
        /\ k = "approval" => q.confirmed = b.m[k].confirmed /\ q.decision = b.m[k].decision
    <3>1. OnlyMission(b, b, k)
      BY <2>5 DEF OnlyMission, Kept, SameProgress
    <3>2. CASE t = b
      BY <1>1, <2>3, <3>1, <3>2
    <3>3. CASE k = "routine" /\ S[id].state = "executed" /\ t = RoutineExecuted(b, id)
      BY <1>1, <2>3, <2>5, <3>1, <3>3, ExecutedIs DEF ExecutedAs
    <3>4. CASE k = "violation" /\ S[id].state = "blocked" /\ t = ViolationBlocked(b, id)
      BY <1>1, <2>3, <2>5, <3>1, <3>4, BlockedIs DEF BlockedAs
    <3>5. CASE k = "approval" /\ t = ApprovalSettled(b, id, b.m[k].decision)
      BY <1>1, <2>3, <2>5, <3>1, <3>5, SettledIs DEF SettledAs
    <3> QED BY <2>6, <3>2, <3>3, <3>4, <3>5
  <2>8. OnlyMission(t, s, k)
    BY <2>3, <2>7, OnlyMissionJoins
  <2>9. ~Done(k, p)
    BY <1>1, <1>4, CompleteIs
  <2>10. /\ k = "routine" /\ q.outcome = "executed" =>
              (p.request = q.request /\ p.outcome = "executed") \/ S[q.request].state = "executed"
         /\ k = "violation" /\ q.outcome = "blocked" =>
              (p.request = q.request /\ p.outcome = "blocked") \/ S[q.request].state = "blocked"
         /\ k = "approval" /\ q.confirmed => p.request = q.request /\ p.confirmed /\ p.decision = q.decision
    BY <2>4, <2>7 DEF SameProgress
  <2>11. Told(S, s.run, k, p, q)
    BY <2>1, <2>7, <2>9, <2>10 DEF Told
  <2> QED BY <1>1, <2>7, <2>8, <2>11
<1> QED BY <1>3, <1>4

ToldAll(S, s, n) ==
    /\ Shape(n) /\ n.run = s.run
    /\ \A k \in Payments : Told(S, s.run, k, s.m[k], n.m[k])

LEMMA ReconcileIs ==
    ASSUME NEW n \in Nat, NEW S, DOMAIN S \subseteq 1 .. n, NEW s, Shape(s)
    PROVE  ToldAll(S, s, Reconcile(s, S))
<1>1. PICK t, u, v : /\ t = ReconcileMission(s, "routine", S) /\ u = ReconcileMission(t, "approval", S)
                     /\ v = ReconcileMission(u, "violation", S)
  OBVIOUS
<1>2. v = Reconcile(s, S)
  BY <1>1 DEF Reconcile
<1>3. "routine" \in Payments /\ "approval" \in Payments /\ "violation" \in Payments
  BY DEF Payments
<1>4. OnlyMission(t, s, "routine") /\ Told(S, s.run, "routine", s.m["routine"], t.m["routine"])
  BY <1>1, <1>3, MissionToldIs
<1>5. Shape(t) /\ t.run = s.run
  BY <1>4 DEF OnlyMission, Kept
<1>6. OnlyMission(u, t, "approval") /\ Told(S, s.run, "approval", t.m["approval"], u.m["approval"])
  BY <1>1, <1>3, <1>5, MissionToldIs
<1>7. Shape(u) /\ u.run = s.run
  BY <1>5, <1>6 DEF OnlyMission, Kept
<1>8. OnlyMission(v, u, "violation") /\ Told(S, s.run, "violation", u.m["violation"], v.m["violation"])
  BY <1>1, <1>3, <1>7, MissionToldIs
<1>9. Shape(v) /\ v.run = s.run
  BY <1>7, <1>8 DEF OnlyMission, Kept
<1>10. /\ SameProgress(v.m["routine"], u.m["routine"]) /\ SameProgress(u.m["routine"], t.m["routine"])
       /\ SameProgress(s.m["approval"], t.m["approval"]) /\ SameProgress(v.m["approval"], u.m["approval"])
       /\ SameProgress(s.m["violation"], t.m["violation"]) /\ SameProgress(t.m["violation"], u.m["violation"])
  BY <1>4, <1>6, <1>8 DEF OnlyMission, Keys, SameProgress
<1>11. SameProgress(v.m["routine"], t.m["routine"]) /\ SameProgress(s.m["violation"], u.m["violation"])
  BY <1>10 DEF SameProgress
<1>12. /\ SameProgress(s.m["routine"], s.m["routine"]) /\ SameProgress(v.m["violation"], v.m["violation"])
  BY DEF SameProgress
<1>13. Told(S, s.run, "routine", s.m["routine"], v.m["routine"])
  BY <1>3, <1>4, <1>11, <1>12, ToldSame
<1>14. Told(S, s.run, "approval", s.m["approval"], v.m["approval"])
  BY <1>3, <1>6, <1>10, ToldSame
<1>15. Told(S, s.run, "violation", s.m["violation"], v.m["violation"])
  BY <1>3, <1>8, <1>11, <1>12, ToldSame
<1>16. ToldAll(S, s, v)
  BY <1>9, <1>13, <1>14, <1>15 DEF ToldAll, Payments
<1> QED BY <1>2, <1>16

-----------------------------------------------------------------------------
(***************************************************************************)
(* The invariants.                                                         *)
(***************************************************************************)

(* Of every visit.  P stands for the requests, v for the visit.             *)
Mined(P, i) == i \in DOMAIN P /\ P[i].state \in InFlight \cup Terminal
Request(v) ==
    [run : 0 .. v.MaxRuns, mission : Payments \cup {"free"},
     state : {"pool", "reverted"} \cup InFlight \cup Terminal, origin : {"none", "user", "timeout"}]
RequestOK(r) ==
    /\ r.state = "awaiting" => r.mission = "approval"
    /\ r.origin # "none" => r.mission = "approval" /\ r.state \in {"executed", "cancelled"}
    /\ r.origin = "timeout" => r.state = "cancelled"
ReqInv(v, P) == P \in Seq(Request(v)) /\ \A i \in DOMAIN P : RequestOK(P[i])
\* A snapshot S is of the past.
SeenInv(P, S) ==
    \A i \in DOMAIN S :
        /\ Mined(P, i) /\ S[i].run = P[i].run /\ S[i].mission = P[i].mission
        /\ S[i].state \in InFlight \cup Terminal
        /\ S[i].state \in Terminal => S[i] = P[i]
SessInv(v, P, s) ==
    /\ Shape(s) /\ s.run \in 1 .. v.MaxRuns
    /\ \A k \in Payments : s.m[k].request = 0 \/ Mined(P, s.m[k].request)
\* What React renders has the stored evidence; a commit to be saved is of the same run.
CopiesInv(v, P, s, w, e) ==
    /\ SessInv(v, P, s) /\ Evid(w, s)
    /\ e = NoSession \/ (SessInv(v, P, e) /\ e.run = s.run)
TrackInv(v, P, t) ==
    /\ t.tx \in 0 .. Len(P) /\ t.id \in {0, t.tx} /\ (t.id # 0 => Mined(P, t.id))
    /\ t.run \in 0 .. v.MaxRuns /\ (t.tx # 0 => t.mission \in Payments \cup {"free"})
Submission ==
    [at : {"idle", "preflight", "sending", "sent", "waiting"}, tx : Nat,
     mission : Payments \cup {"free", "none"}, run : Nat, replace : BOOLEAN]
OpInv(v, P, o) ==
    /\ o \in Submission /\ (o.at = "idle" => o = Idle)
    /\ (o.tx # 0) <=> o.at \in {"sent", "waiting"}
    /\ o.tx \in 0 .. Len(P) /\ o.run \in 0 .. v.MaxRuns
    /\ o.at # "idle" => o.mission \in Payments \cup {"free"}
\* Every submission, of the mounted page or of one that was left.
Submissions == {op} \cup {away[m] : m \in 1 .. Len(away)}
AwayInv(v, P, w) == w \in Seq(Submission) /\ \A m \in 1 .. Len(w) : OpInv(v, P, w[m])
PageInv(P, a, at, f) ==
    /\ a = 0 \/ Mined(P, a)
    /\ \A i \in at : Mined(P, i)
    /\ f \in {"none", "busy", "recovering"}
CallsInv(P, C) ==
    \A c \in C :
        /\ c = [kind |-> c.kind, id |-> c.id, run |-> c.run, action |-> c.action, shown |-> c.shown]
        /\ Mined(P, c.id)
\* Whatever a Restart knew is settled but for the request it cleans up.
RestartInv(v, P, r, s) ==
    r # NoRestart =>
        /\ r.at = "cleaning" /\ SessInv(v, P, r.cur) /\ r.cur.run = s.run /\ s.run < v.MaxRuns
        /\ \A i \in r.known \ {r.request} : i \in DOMAIN P /\ P[i].state \in Terminal
RunInv ==
    /\ visit \in Visit
    /\ ReqInv(visit, req) /\ SeenInv(req, seen)
    /\ CopiesInv(visit, req, store, view, pend)
    /\ TrackInv(visit, req, track) /\ OpInv(visit, req, op) /\ AwayInv(visit, req, away)
    /\ PageInv(req, active, att, flow) /\ CallsInv(req, calls)
    /\ RestartInv(visit, req, rs, store)

-----------------------------------------------------------------------------
(***************************************************************************)
(* The chain only grows.                                                   *)
(***************************************************************************)

Grows(P, Q) ==
    /\ Len(P) <= Len(Q)
    /\ \A i \in DOMAIN P :
          /\ i \in DOMAIN Q /\ Q[i].run = P[i].run /\ Q[i].mission = P[i].mission
          /\ Mined(P, i) => Mined(Q, i)
          /\ P[i].state \in Terminal \cup {"reverted"} => Q[i] = P[i]
\* Q is P but for request i, which is r.
TurnsInto(P, Q, i, r) ==
    /\ i \in DOMAIN P /\ DOMAIN Q = DOMAIN P /\ Len(Q) = Len(P) /\ Q[i] = r
    /\ \A j \in DOMAIN P \ {i} : Q[j] = P[j]
\* Request i turns to another state, settled by origin.
Turns(P, Q, i, r, st, origin) ==
    /\ i \in DOMAIN P /\ P[i].state \in {"pool"} \cup InFlight
    /\ st \in InFlight \cup Terminal \cup {"reverted"} /\ (P[i].state # "pool" => st # "reverted")
    /\ origin \in {"none", "user", "timeout"}
    /\ r = [P[i] EXCEPT !.state = st, !.origin = origin] /\ RequestOK(r) /\ Q = [P EXCEPT ![i] = r]

LEMMA RequestTurns ==
    ASSUME NEW v, NEW P, ReqInv(v, P), NEW Q, NEW i, NEW r, NEW st, NEW origin, Turns(P, Q, i, r, st, origin)
    PROVE  /\ ReqInv(v, Q) /\ Grows(P, Q) /\ TurnsInto(P, Q, i, r)
           /\ r.state = st /\ r.origin = origin /\ r.mission = P[i].mission /\ r.run = P[i].run
<1>1. /\ i \in DOMAIN P /\ P[i].state \in {"pool"} \cup InFlight
      /\ st \in InFlight \cup Terminal \cup {"reverted"} /\ (P[i].state # "pool" => st # "reverted")
      /\ origin \in {"none", "user", "timeout"}
      /\ r = [P[i] EXCEPT !.state = st, !.origin = origin] /\ RequestOK(r) /\ Q = [P EXCEPT ![i] = r]
  BY DEF Turns
<1>2. P \in Seq(Request(v)) /\ P[i] \in Request(v)
  BY <1>1 DEF ReqInv
<1>3. r \in Request(v) /\ r.state = st /\ r.origin = origin /\ r.mission = P[i].mission /\ r.run = P[i].run
  BY <1>1, <1>2 DEF Request
<1>4. Q \in Seq(Request(v)) /\ DOMAIN Q = DOMAIN P /\ Len(Q) = Len(P) /\ Q[i] = r
      /\ \A j \in DOMAIN P \ {i} : Q[j] = P[j]
  BY <1>1, <1>2, <1>3
<1>5. ReqInv(v, Q)
  BY <1>1, <1>4 DEF ReqInv
<1>6. Grows(P, Q)
  <2>1. Len(P) \in Nat
    BY <1>2
  <2>2. Mined(P, i) => Mined(Q, i)
    BY <1>1, <1>3, <1>4 DEF Mined, InFlight, Terminal
  <2>3. P[i].state \notin Terminal \cup {"reverted"}
    BY <1>1 DEF InFlight, Terminal
  <2>4. \A j \in DOMAIN P \ {i} : Mined(P, j) => Mined(Q, j)
    BY <1>4 DEF Mined
  <2>5. Len(P) <= Len(Q)
    BY <1>4, <2>1
  <2> QED BY <1>1, <1>3, <1>4, <2>2, <2>3, <2>4, <2>5 DEF Grows
<1> QED BY <1>1, <1>3, <1>4, <1>5, <1>6 DEF TurnsInto

LEMMA RequestJoins ==
    ASSUME NEW v, NEW P, ReqInv(v, P), NEW r \in Request(v), RequestOK(r)
    PROVE  LET Q == Append(P, r)
           IN  /\ ReqInv(v, Q) /\ Grows(P, Q) /\ Len(Q) = Len(P) + 1 /\ Len(P) \in Nat
               /\ DOMAIN Q = DOMAIN P \cup {Len(P) + 1} /\ Len(P) + 1 \notin DOMAIN P
               /\ Q[Len(P) + 1] = r /\ \A i \in DOMAIN P : Q[i] = P[i]
<1>1. PICK Q : Q = Append(P, r)
  OBVIOUS
<1>2. P \in Seq(Request(v))
  BY DEF ReqInv
<1>3. /\ Q \in Seq(Request(v)) /\ Len(Q) = Len(P) + 1 /\ Len(P) \in Nat
      /\ DOMAIN Q = DOMAIN P \cup {Len(P) + 1} /\ Len(P) + 1 \notin DOMAIN P
      /\ Q[Len(P) + 1] = r /\ \A i \in DOMAIN P : Q[i] = P[i]
  BY <1>1, <1>2
<1>4. ReqInv(v, Q)
  BY <1>3 DEF ReqInv
<1>5. Grows(P, Q)
  BY <1>3 DEF Grows, Mined
<1> QED BY <1>1, <1>3, <1>4, <1>5

LEMMA MinedGrows == ASSUME NEW P, NEW Q, Grows(P, Q), NEW i, Mined(P, i) PROVE Mined(Q, i)
BY DEF Grows, Mined

LEMMA SeenGrows == ASSUME NEW P, NEW Q, Grows(P, Q), NEW S, SeenInv(P, S) PROVE SeenInv(Q, S)
<1> SUFFICES ASSUME NEW i \in DOMAIN S
             PROVE  /\ Mined(Q, i) /\ S[i].run = Q[i].run /\ S[i].mission = Q[i].mission
                    /\ S[i].state \in InFlight \cup Terminal
                    /\ S[i].state \in Terminal => S[i] = Q[i]
  BY DEF SeenInv
<1>1. /\ Mined(P, i) /\ S[i].run = P[i].run /\ S[i].mission = P[i].mission
      /\ S[i].state \in InFlight \cup Terminal
      /\ S[i].state \in Terminal => S[i] = P[i]
  BY DEF SeenInv
<1>2. i \in DOMAIN P
  BY <1>1 DEF Mined
<1>3. Mined(Q, i) /\ Q[i].run = P[i].run /\ Q[i].mission = P[i].mission
      /\ (P[i].state \in Terminal => Q[i] = P[i])
  BY <1>1, <1>2 DEF Grows
<1> QED BY <1>1, <1>3

LEMMA SessGrows ==
    ASSUME NEW v, NEW P, NEW Q, Grows(P, Q), NEW s, SessInv(v, P, s) PROVE SessInv(v, Q, s)
BY MinedGrows DEF SessInv

LEMMA CopiesGrow ==
    ASSUME NEW v, NEW P, NEW Q, Grows(P, Q), NEW s, NEW w, NEW e, CopiesInv(v, P, s, w, e)
    PROVE  CopiesInv(v, Q, s, w, e)
BY SessGrows DEF CopiesInv

LEMMA TrackGrows ==
    ASSUME NEW v, NEW P, NEW Q, ReqInv(v, P), ReqInv(v, Q), Grows(P, Q), NEW t, TrackInv(v, P, t)
    PROVE  TrackInv(v, Q, t)
<1>1. Len(P) \in Nat /\ Len(Q) \in Nat /\ Len(P) <= Len(Q)
  BY DEF ReqInv, Grows
<1>2. t.tx \in 0 .. Len(Q)
  BY <1>1 DEF TrackInv
<1> QED BY <1>2, MinedGrows DEF TrackInv

LEMMA OpGrows ==
    ASSUME NEW v, NEW P, NEW Q, ReqInv(v, P), ReqInv(v, Q), Grows(P, Q), NEW o, OpInv(v, P, o)
    PROVE  OpInv(v, Q, o)
<1>1. Len(P) \in Nat /\ Len(Q) \in Nat /\ Len(P) <= Len(Q)
  BY DEF ReqInv, Grows
<1>2. o.tx \in 0 .. Len(Q)
  BY <1>1 DEF OpInv
<1> QED BY <1>2 DEF OpInv

LEMMA AwayGrows ==
    ASSUME NEW v, NEW P, NEW Q, ReqInv(v, P), ReqInv(v, Q), Grows(P, Q), NEW w, AwayInv(v, P, w)
    PROVE  AwayInv(v, Q, w)
BY OpGrows DEF AwayInv

LEMMA PageGrows ==
    ASSUME NEW P, NEW Q, Grows(P, Q), NEW a, NEW at, NEW f, PageInv(P, a, at, f) PROVE PageInv(Q, a, at, f)
BY MinedGrows DEF PageInv

LEMMA CallsGrow ==
    ASSUME NEW P, NEW Q, Grows(P, Q), NEW C, CallsInv(P, C) PROVE CallsInv(Q, C)
BY MinedGrows DEF CallsInv

LEMMA RestartGrows ==
    ASSUME NEW v, NEW P, NEW Q, Grows(P, Q), NEW r, NEW s, RestartInv(v, P, r, s) PROVE RestartInv(v, Q, r, s)
<1>1. \A i \in DOMAIN P : P[i].state \in Terminal => i \in DOMAIN Q /\ Q[i].state \in Terminal
  BY DEF Grows
<1> QED BY <1>1, SessGrows DEF RestartInv

LEMMA ChainKeeps ==
    ASSUME RunInv, ReqInv(visit, req'), Grows(req, req'),
           UNCHANGED <<visit, seen, loaded, session, payment, page, calls, rs>>
    PROVE  RunInv'
<1>1. SeenInv(req', seen')
  BY SeenGrows DEF RunInv
<1>2. CopiesInv(visit', req', store', view', pend')
  BY CopiesGrow DEF RunInv, session
<1>3. TrackInv(visit', req', track') /\ OpInv(visit', req', op') /\ AwayInv(visit', req', away')
  BY TrackGrows, OpGrows, AwayGrows DEF RunInv, payment
<1>4. PageInv(req', active', att', flow') /\ CallsInv(req', calls')
  BY PageGrows, CallsGrow DEF RunInv, payment, page
<1>5. RestartInv(visit', req', rs', store')
  BY RestartGrows DEF RunInv, session
<1> QED BY <1>1, <1>2, <1>3, <1>4, <1>5 DEF RunInv

-----------------------------------------------------------------------------
(***************************************************************************)
(* A session that goes on: it keeps its run and what is complete.          *)
(***************************************************************************)

Onward(v, P, s, n) ==
    /\ SessInv(v, P, n) /\ n.run = s.run
    /\ \A k \in Payments : Done(k, s.m[k]) => Done(k, n.m[k]) /\ n.m[k].request = s.m[k].request

LEMMA OnwardSelf == ASSUME NEW v, NEW P, NEW s, SessInv(v, P, s) PROVE Onward(v, P, s, s)
BY DEF Onward

LEMMA OnwardEvid ==
    ASSUME NEW v, NEW P, NEW s, SessInv(v, P, s), NEW n, Evid(n, s) PROVE Onward(v, P, s, n)
<1>1. \A k \in Payments : SameProgress(n.m[k], s.m[k])
  BY DEF Evid, Payments, Keys
<1>2. \A k \in Payments : n.m[k].request = s.m[k].request
  BY <1>1 DEF SameProgress
<1>3. \A k \in Payments : Done(k, n.m[k]) <=> Done(k, s.m[k])
  BY <1>1, DoneSame
<1>4. Shape(n) /\ n.run = s.run
  BY DEF Evid
<1> QED BY <1>2, <1>3, <1>4 DEF Onward, SessInv

LEMMA SameMission ==
    ASSUME NEW v, NEW P, NEW s, SessInv(v, P, s), NEW n, NEW k \in Payments, OnlyMission(n, s, k),
           n.m[k].request = 0 \/ Mined(P, n.m[k].request),
           Done(k, s.m[k]) => Done(k, n.m[k]) /\ n.m[k].request = s.m[k].request
    PROVE  Onward(v, P, s, n)
<1>1. \A j \in Payments \ {k} : SameProgress(n.m[j], s.m[j])
  BY DEF OnlyMission, Payments, Keys
<1>2. \A j \in Payments \ {k} : n.m[j].request = s.m[j].request /\ (Done(j, n.m[j]) <=> Done(j, s.m[j]))
  BY <1>1, DoneSame DEF SameProgress
<1>3. Shape(n) /\ n.run = s.run
  BY DEF OnlyMission, Kept
<1> QED BY <1>2, <1>3 DEF Onward, SessInv

LEMMA MinedIs == ASSUME NEW v, NEW P, ReqInv(v, P), NEW i, Mined(P, i) PROVE i # 0 /\ i \in Nat /\ i \in 1 .. Len(P)
BY DEF Mined, ReqInv

LEMMA OnwardBind ==
    ASSUME NEW v, NEW P, NEW s, SessInv(v, P, s), NEW k \in Payments, NEW id, Mined(P, id), NEW replace
    PROVE  Onward(v, P, s, BindRequest(s, k, id, replace))
<1>1. PICK n : n = BindRequest(s, k, id, replace)
  OBVIOUS
<1>2. BoundAs(s, n, k, id, replace)
  BY <1>1, BoundIs DEF SessInv, Payments, Keys
<1>3. n = s \/ (OnlyMission(n, s, k) /\ n.m[k].request = id /\ ~Done(k, s.m[k]))
  BY <1>2, CompleteIs DEF BoundAs
<1> QED BY <1>1, <1>3, OnwardSelf, SameMission

LEMMA OnwardExecuted ==
    ASSUME NEW v, NEW P, ReqInv(v, P), NEW s, SessInv(v, P, s), NEW id, Mined(P, id)
    PROVE  Onward(v, P, s, RoutineExecuted(s, id))
<1>1. PICK n : n = RoutineExecuted(s, id)
  OBVIOUS
<1>2. ExecutedAs(s, n, id)
  BY <1>1, ExecutedIs DEF SessInv
<1>3. CASE n = s
  BY <1>1, <1>3, OnwardSelf
<1>4. CASE n # s
  <2>1. "routine" \in Payments /\ OnlyMission(n, s, "routine") /\ Mined(P, n.m["routine"].request)
    BY <1>2, <1>4 DEF ExecutedAs, Payments
  <2>2. Done("routine", s.m["routine"]) => Done("routine", n.m["routine"]) /\ n.m["routine"].request = s.m["routine"].request
    BY <1>2, <1>4 DEF ExecutedAs, Done
  <2> QED BY <1>1, <2>1, <2>2, SameMission
<1> QED BY <1>3, <1>4

LEMMA OnwardDecide ==
    ASSUME NEW v, NEW P, NEW s, SessInv(v, P, s), NEW id, Mined(P, id), NEW action \in {"approve", "reject"}
    PROVE  Onward(v, P, s, Decide(s, id, action))
<1>1. PICK n : n = Decide(s, id, action)
  OBVIOUS
<1>2. DecidedAs(s, n, id, action)
  BY <1>1, DecideIs DEF SessInv
<1>3. CASE n = s
  BY <1>1, <1>3, OnwardSelf
<1>4. CASE n # s
  <2>1. "approval" \in Payments /\ OnlyMission(n, s, "approval") /\ Mined(P, n.m["approval"].request)
    BY <1>2, <1>4 DEF DecidedAs, Payments
  <2>2. Done("approval", s.m["approval"]) => Done("approval", n.m["approval"]) /\ n.m["approval"].request = s.m["approval"].request
    BY <1>2, <1>4 DEF DecidedAs, Done
  <2> QED BY <1>1, <2>1, <2>2, SameMission
<1> QED BY <1>3, <1>4

LEMMA OnwardReasoned ==
    ASSUME NEW v, NEW P, NEW s, SessInv(v, P, s), NEW id, Mined(P, id)
    PROVE  Onward(v, P, s, ReasonDecrypted(ViolationBlocked(s, id), id))
<1>1. PICK n : n = ReasonDecrypted(ViolationBlocked(s, id), id)
  OBVIOUS
<1>2. ReasonedAs(s, n, id)
  BY <1>1, ReasonedIs DEF SessInv
<1>3. CASE n = s
  BY <1>1, <1>3, OnwardSelf
<1>4. CASE n # s
  <2>1. "violation" \in Payments /\ OnlyMission(n, s, "violation") /\ Mined(P, n.m["violation"].request)
    BY <1>2, <1>4 DEF ReasonedAs, Payments
  <2>2. Done("violation", s.m["violation"]) => Done("violation", n.m["violation"]) /\ n.m["violation"].request = s.m["violation"].request
    BY <1>2, <1>4 DEF ReasonedAs, Done
  <2> QED BY <1>1, <2>1, <2>2, SameMission
<1> QED BY <1>3, <1>4

LEMMA SeenDomain == ASSUME NEW v, NEW P, ReqInv(v, P), NEW S, SeenInv(P, S) PROVE Len(P) \in Nat /\ DOMAIN S \subseteq 1 .. Len(P)
BY DEF ReqInv, SeenInv, Mined

LEMMA OnwardReconcile ==
    ASSUME NEW v, NEW P, ReqInv(v, P), NEW S, SeenInv(P, S), NEW s, SessInv(v, P, s)
    PROVE  Onward(v, P, s, Reconcile(s, S))
<1>1. PICK n : n = Reconcile(s, S)
  OBVIOUS
<1>2. ToldAll(S, s, n)
  BY <1>1, ReconcileIs, SeenDomain DEF SessInv
<1>3. ASSUME NEW k \in Payments
      PROVE  /\ n.m[k].request = 0 \/ Mined(P, n.m[k].request)
             /\ Done(k, s.m[k]) => Done(k, n.m[k]) /\ n.m[k].request = s.m[k].request
  <2>1. CASE SameProgress(n.m[k], s.m[k])
    BY <2>1, DoneSame DEF SameProgress, SessInv
  <2>2. CASE ~SameProgress(n.m[k], s.m[k])
    <3>1. ~Done(k, s.m[k]) /\ n.m[k].request \in DOMAIN S
      BY <1>2, <2>2 DEF ToldAll, Told, RunBound
    <3> QED BY <3>1 DEF SeenInv
  <2> QED BY <2>1, <2>2
<1> QED BY <1>1, <1>2, <1>3 DEF Onward, SessInv, ToldAll

\* What is derived from the rendered copy might have been derived from the stored session.
LEMMA OnwardCopy ==
    ASSUME NEW v, NEW P, NEW s, NEW w, Evid(w, s), NEW n, Onward(v, P, w, n) PROVE Onward(v, P, s, n)
<1>1. \A k \in Payments : SameProgress(w.m[k], s.m[k])
  BY DEF Evid, Payments, Keys
<1>2. \A k \in Payments : w.m[k].request = s.m[k].request /\ (Done(k, w.m[k]) <=> Done(k, s.m[k]))
  BY <1>1, DoneSame DEF SameProgress
<1> QED BY <1>2 DEF Onward, Evid

LEMMA CopySess ==
    ASSUME NEW v, NEW P, NEW s, SessInv(v, P, s), NEW w, Evid(w, s) PROVE SessInv(v, P, w)
BY OnwardEvid DEF Onward

LEMMA SaveKeeps ==
    ASSUME NEW n, CopiesInv(visit, req, store, view, pend), Onward(visit, req, store, n), Save(n)
    PROVE  CopiesInv(visit, req, store', view', pend') /\ Onward(visit, req, store, store') /\ store' = n
<1>1. store' = n /\ view' = n /\ (pend' = pend \/ pend' = NoSession)
  BY DEF Save
<1>2. SessInv(visit, req, n) /\ n.run = store.run
  BY DEF Onward
<1>3. Evid(view', store')
  BY <1>1, <1>2, EvidSelf DEF SessInv
<1> QED BY <1>1, <1>2, <1>3 DEF CopiesInv

LEMMA SaveForKeeps ==
    ASSUME NEW n, NEW run, CopiesInv(visit, req, store, view, pend), Onward(visit, req, store, n), SaveFor(run, n)
    PROVE  CopiesInv(visit, req, store', view', pend') /\ Onward(visit, req, store, store')
<1>1. CASE run = store.run
  BY <1>1, SaveKeeps DEF SaveFor
<1>2. CASE run # store.run
  BY <1>2, OnwardSelf DEF SaveFor, session, CopiesInv
<1> QED BY <1>1, <1>2

-----------------------------------------------------------------------------
(***************************************************************************)
(* Every step keeps the invariant of every visit.                          *)
(***************************************************************************)

LEMMA StepKeeps ==
    ASSUME RunInv, visit' = visit, req' = req, rs' = rs, store'.run = store.run,
           SeenInv(req, seen'), CopiesInv(visit, req, store', view', pend'),
           TrackInv(visit, req, track'), OpInv(visit, req, op'), AwayInv(visit, req, away'),
           PageInv(req, active', att', flow'), CallsInv(req, calls')
    PROVE  RunInv'
<1>1. RestartInv(visit', req', rs', store')
  BY DEF RunInv, RestartInv
<1> QED BY <1>1 DEF RunInv

Steady == Onward(visit, req, store, store')

LEMMA Facts ==
    ASSUME RunInv
    PROVE  /\ Steady \/ store' # store
           /\ visit.MaxRuns \in Nat \ {0} /\ Shape(store) /\ Shape(view)
           /\ SessInv(visit, req, store) /\ SessInv(visit, req, view)
<1>1. SessInv(visit, req, store) /\ Evid(view, store)
  BY DEF RunInv, CopiesInv
<1>2. SessInv(visit, req, view)
  BY <1>1, CopySess
<1>3. store' = store => Steady
  BY <1>1, OnwardSelf DEF Steady
<1>4. visit.MaxRuns \in Nat \ {0}
  BY DEF RunInv, Visit
<1> QED BY <1>1, <1>2, <1>3, <1>4 DEF SessInv

LEMMA MineTurns ==
    ASSUME RunInv, Mine
    PROVE  \E i, r, st :
              /\ Turns(req, req', i, r, st, req[i].origin) /\ req[i].state = "pool"
              /\ st = IF SlotBusy(req[i].mission) THEN "reverted" ELSE "requested"
              /\ UNCHANGED <<seen, loaded, session, payment, page, calls, rs, faults>>
<1>1. PICK i \in DOMAIN req :
        /\ req[i].state = "pool"
        /\ req' = [req EXCEPT ![i].state = IF SlotBusy(req[i].mission) THEN "reverted" ELSE "requested"]
        /\ UNCHANGED <<seen, loaded, session, payment, page, calls, rs, faults>>
  BY DEF Mine
<1>2. PICK st, r : st = (IF SlotBusy(req[i].mission) THEN "reverted" ELSE "requested")
                   /\ r = [req[i] EXCEPT !.state = st, !.origin = req[i].origin]
  OBVIOUS
<1>3. req[i] \in Request(visit) /\ RequestOK(req[i]) /\ ReqInv(visit, req)
  BY DEF RunInv, ReqInv
<1>4. r = [req[i] EXCEPT !.state = st] /\ r.state = st /\ r.origin = req[i].origin
  BY <1>2, <1>3 DEF Request
<1>5. RequestOK(r)
  BY <1>1, <1>2, <1>3, <1>4 DEF RequestOK, Request
<1>6. req' = [req EXCEPT ![i] = r]
  BY <1>1, <1>2, <1>4
<1>7. Turns(req, req', i, r, st, req[i].origin)
  <2>1. st \in InFlight \cup Terminal \cup {"reverted"} /\ req[i].state \in {"pool"} \cup InFlight
    BY <1>1, <1>2 DEF InFlight
  <2>2. req[i].origin \in {"none", "user", "timeout"}
    BY <1>3 DEF Request
  <2> QED BY <1>1, <1>2, <1>5, <1>6, <2>1, <2>2 DEF Turns
<1> QED BY <1>1, <1>2, <1>7

LEMMA FinalizeTurns ==
    ASSUME RunInv, Finalize
    PROVE  \E i, r, st :
              /\ Turns(req, req', i, r, st, req[i].origin) /\ req[i].state = "requested"
              /\ UNCHANGED <<seen, loaded, session, payment, page, calls, rs, faults>>
<1>1. PICK i, st :
        /\ i \in DOMAIN req
        /\ req[i].state = "requested"
        /\ st \in {CASE req[i].mission = "approval" -> "awaiting" [] req[i].mission = "violation" -> "blocked"
                        [] OTHER -> "executed", "expired"}
        /\ req' = [req EXCEPT ![i].state = st]
        /\ UNCHANGED <<seen, loaded, session, payment, page, calls, rs, faults>>
  BY DEF Finalize
<1>2. PICK r : r = [req[i] EXCEPT !.state = st, !.origin = req[i].origin]
  OBVIOUS
<1>3. req[i] \in Request(visit) /\ RequestOK(req[i]) /\ ReqInv(visit, req)
  BY <1>1 DEF RunInv, ReqInv
<1>4. r = [req[i] EXCEPT !.state = st] /\ r.state = st /\ r.origin = req[i].origin /\ r.mission = req[i].mission
  BY <1>2, <1>3 DEF Request
<1>5. req[i].origin = "none"
  BY <1>1, <1>3 DEF RequestOK, Request
<1>6. RequestOK(r)
  BY <1>1, <1>4, <1>5 DEF RequestOK
<1>7. req' = [req EXCEPT ![i] = r]
  BY <1>1, <1>2, <1>4
<1>8. Turns(req, req', i, r, st, req[i].origin)
  <2>1. st \in InFlight \cup Terminal \cup {"reverted"} /\ st # "reverted" /\ req[i].state \in {"pool"} \cup InFlight
    BY <1>1 DEF InFlight, Terminal
  <2>2. req[i].origin \in {"none", "user", "timeout"}
    BY <1>3 DEF Request
  <2> QED BY <1>1, <1>2, <1>6, <1>7, <2>1, <2>2 DEF Turns
<1> QED BY <1>1, <1>8

LEMMA ServiceTurns ==
    ASSUME RunInv, ServiceActs
    PROVE  \E i, r, st, origin :
              /\ Turns(req, req', i, r, st, origin) /\ req[i].state = "awaiting"
              /\ <<st, origin>> \in {<<"executed", "user">>, <<"cancelled", "user">>, <<"cancelled", "timeout">>}
              /\ UNCHANGED <<seen, loaded, session, payment, page, calls, rs, faults>>
<1>1. PICK i, st, origin :
        /\ i \in DOMAIN req /\ req[i].state = "awaiting" /\ Decided(i, st, origin)
        /\ <<st, origin>> \in {<<"executed", "user">>, <<"cancelled", "user">>, <<"cancelled", "timeout">>}
        /\ UNCHANGED <<seen, loaded, session, payment, page, calls, rs, faults>>
  <2>1. PICK i \in DOMAIN req :
          /\ req[i].state = "awaiting"
          /\ \/ \E c \in calls : c.id = i /\ Decided(i, IF c.action = "approve" THEN "executed" ELSE "cancelled", "user")
             \/ Decided(i, "cancelled", "user")
             \/ Decided(i, "cancelled", "timeout")
    BY DEF ServiceActs
  <2>2. UNCHANGED <<seen, loaded, session, payment, page, calls, rs, faults>>
    BY DEF ServiceActs
  <2>3. Decided(i, "executed", "user") \/ Decided(i, "cancelled", "user") \/ Decided(i, "cancelled", "timeout")
    BY <2>1
  <2> QED BY <2>1, <2>2, <2>3
<1>2. PICK r : r = [req[i] EXCEPT !.state = st, !.origin = origin]
  OBVIOUS
<1>3. req[i] \in Request(visit) /\ RequestOK(req[i]) /\ ReqInv(visit, req)
  BY <1>1 DEF RunInv, ReqInv
<1>4. r.state = st /\ r.origin = origin /\ r.mission = req[i].mission
  BY <1>2, <1>3 DEF Request
<1>5. RequestOK(r)
  BY <1>1, <1>3, <1>4 DEF RequestOK
<1>6. req' = [req EXCEPT ![i] = r]
  BY <1>1, <1>2, <1>3 DEF Decided, ReqInv, Request
<1>7. Turns(req, req', i, r, st, origin)
  <2>1. st \in InFlight \cup Terminal \cup {"reverted"} /\ st # "reverted" /\ req[i].state \in {"pool"} \cup InFlight
        /\ origin \in {"none", "user", "timeout"}
    BY <1>1 DEF InFlight, Terminal
  <2> QED BY <1>1, <1>2, <1>5, <1>6, <2>1 DEF Turns
<1> QED BY <1>1, <1>7

LEMMA ChainTurns ==
    ASSUME RunInv, Mine \/ Finalize \/ ServiceActs
    PROVE  /\ ReqInv(visit, req') /\ Grows(req, req') /\ DOMAIN req' = DOMAIN req /\ Len(req') = Len(req)
           /\ UNCHANGED <<seen, loaded, session, payment, page, calls, rs, faults>>
<1>1. PICK i, r, st, origin :
        /\ Turns(req, req', i, r, st, origin)
        /\ UNCHANGED <<seen, loaded, session, payment, page, calls, rs, faults>>
  BY MineTurns, FinalizeTurns, ServiceTurns
<1>2. ReqInv(visit, req)
  BY DEF RunInv
<1>3. ReqInv(visit, req') /\ Grows(req, req') /\ TurnsInto(req, req', i, r)
  BY <1>1, <1>2, RequestTurns
<1> QED BY <1>1, <1>3 DEF TurnsInto

LEMMA KeptByChain == ASSUME RunInv, visit' = visit, Mine \/ Finalize \/ ServiceActs PROVE RunInv' /\ Steady
BY ChainTurns, ChainKeeps, Facts DEF session

LEMMA KeptByOther == ASSUME RunInv, visit' = visit, OtherVisitor PROVE RunInv' /\ Steady
<1>1. PICK r : r = [run |-> 0, mission |-> "routine", state |-> "requested", origin |-> "none"]
  OBVIOUS
<1>2. r \in Request(visit) /\ RequestOK(r)
  BY <1>1, Facts DEF Request, RequestOK, Payments, InFlight
<1>3. req' = Append(req, r) /\ UNCHANGED <<seen, loaded, session, payment, page, calls, rs, faults>>
  BY <1>1 DEF OtherVisitor
<1>4. ReqInv(visit, req') /\ Grows(req, req')
  BY <1>2, <1>3, RequestJoins DEF RunInv
<1>5. RunInv'
  BY <1>3, <1>4, ChainKeeps
<1> QED BY <1>3, <1>5, Facts DEF session

LEMMA KeptByPoll == ASSUME RunInv, visit' = visit, Poll PROVE RunInv' /\ Steady
<1>1. PICK now : /\ now = [i \in {j \in DOMAIN req : req[j].state \notin {"pool", "reverted"}} |-> req[i]]
                 /\ seen' = now /\ UNCHANGED <<req, session, payment, active, missionOf, att, calls, rs, faults>>
  BY DEF Poll
<1>2. ASSUME NEW i \in DOMAIN now PROVE Mined(req, i) /\ now[i] = req[i]
  <2>1. i \in DOMAIN req /\ req[i].state \notin {"pool", "reverted"} /\ now[i] = req[i]
    BY <1>1
  <2>2. req[i] \in Request(visit)
    BY <2>1 DEF RunInv, ReqInv
  <2> QED BY <2>1, <2>2 DEF Mined, Request
<1>3. SeenInv(req, seen')
  BY <1>1, <1>2 DEF SeenInv, Mined
<1>4. RunInv'
  BY <1>1, <1>3, StepKeeps DEF RunInv, session, payment
<1> QED BY <1>1, <1>4, Facts DEF session

\* The page as it is.
Still == UNCHANGED <<visit, req, rs>>

LEMMA KeptByOp ==
    ASSUME RunInv, Still, UNCHANGED <<chain, session, page, calls>>,
           TrackInv(visit, req, track'), OpInv(visit, req, op'), AwayInv(visit, req, away'),
           flow' \in {"none", "busy", "recovering"}
    PROVE  RunInv' /\ Steady
<1>1. PageInv(req, active', att', flow')
  BY DEF RunInv, PageInv, page
<1>2. RunInv'
  BY <1>1, StepKeeps DEF RunInv, chain, session, Still
<1> QED BY <1>2, Facts DEF session

LEMMA StartIs ==
    ASSUME NEW k \in Payments \cup {"free"}, NEW replace \in BOOLEAN, RunInv, Start(k, replace)
    PROVE  /\ OpInv(visit, req, op') /\ flow' = "busy" /\ op'.at = "preflight" /\ op'.tx = 0 /\ op'.mission = k
           /\ op'.replace = replace /\ op' # Idle
<1>1. op' = [at |-> "preflight", tx |-> 0, mission |-> k, run |-> 0, replace |-> replace]
  BY DEF Start, Idle
<1>2. /\ op'.at = "preflight" /\ op'.tx = 0 /\ op'.mission = k /\ op'.run = 0
      /\ op'.replace = replace /\ Idle.at = "idle" /\ flow' = "busy" /\ op' \in Submission
  BY <1>1 DEF Start, Idle, Submission
<1>3. 0 \in 0 .. Len(req) /\ 0 \in 0 .. visit.MaxRuns
  BY Facts DEF RunInv, ReqInv
<1>4. OpInv(visit, req, op')
  BY <1>2, <1>3 DEF OpInv
<1> QED BY <1>2, <1>4

LEMMA NoTrackIs == ASSUME RunInv PROVE TrackInv(visit, req, NoTrack)
<1>1. Len(req) \in Nat /\ visit.MaxRuns \in Nat
  BY Facts DEF RunInv, ReqInv
<1> QED BY <1>1 DEF TrackInv, NoTrack

LEMMA PaymentsAre == Payments = PaymentMissions
BY DEF Payments, PaymentMissions

LEMMA VisitIs ==
    ASSUME RunInv
    PROVE  visit.Missions \subseteq Payments /\ visit.Split \in BOOLEAN /\ visit.MaxFaults \in Nat /\ visit.LosesHash \in BOOLEAN
           /\ visit.Abandons \in BOOLEAN /\ visit.FreePlay \in BOOLEAN /\ visit.Shared \in BOOLEAN
BY PaymentsAre DEF RunInv, Visit

\* The three outcomes of a click: a submission may begin, a request is bound, or recovered.
Begins(k) ==
    /\ track' \in {track, NoTrack} /\ (track' = track \/ Tracked(k))
    /\ (\E replace \in BOOLEAN : op = Idle /\ Start(k, replace)) \/ UNCHANGED <<op, flow>>
    /\ UNCHANGED <<session, missionOf, due>>
Rebinds(k) ==
    /\ Tracked(k) /\ track.id # 0 /\ Save(BindRequest(store, k, track.id, track.replace))
    /\ UNCHANGED <<track, op, flow, missionOf, due>>
Recovers(k) ==
    /\ Tracked(k) /\ track.id = 0 /\ flow' = "recovering" /\ missionOf' = k
    /\ UNCHANGED <<track, op, session>>

LEMMA ClickIs ==
    ASSUME NEW k, Click(k)
    PROVE  /\ UNCHANGED <<chain, away, active, att, restore, calls, rs, faults>>
           /\ Begins(k) \/ Rebinds(k) \/ Recovers(k)
<1>1. PICK retry \in BOOLEAN : retry = (ActionFor(k) = "retry")
  OBVIOUS
<1>2. PICK old \in BOOLEAN : old = (Tracked(k) /\ retry /\ track.id # 0 /\ track.id = store.m[k].request)
  OBVIOUS
<1>3. /\ UNCHANGED <<chain, away, active, att, restore, calls, rs, faults>>
      /\ \/ /\ ~Tracked(k) \/ old
            /\ track' = IF old THEN NoTrack ELSE track
            /\ IF op = Idle /\ ~BlockingSeen("main") THEN Start(k, retry) ELSE UNCHANGED <<op, flow>>
            /\ UNCHANGED <<session, missionOf, due>>
         \/ Rebinds(k)
         \/ Recovers(k)
  BY <1>1, <1>2 DEF Click, Rebinds, Recovers
<1> QED BY <1>1, <1>2, <1>3 DEF Begins

LEMMA KeptByClick == ASSUME RunInv, visit' = visit, NEW k \in visit.Missions, Click(k) PROVE RunInv' /\ Steady
<1>1. k \in Payments /\ UNCHANGED <<chain, away, active, att, restore, calls, rs, faults>>
  BY ClickIs, VisitIs
<1>2. PageInv(req, active', att', flow) /\ TrackInv(visit, req, track) /\ OpInv(visit, req, op) /\ AwayInv(visit, req, away)
  BY <1>1 DEF RunInv
<1>3. CASE Begins(k)
  <2>1. OpInv(visit, req, op') /\ flow' \in {"none", "busy", "recovering"}
    BY <1>1, <1>2, <1>3, StartIs DEF Begins, PageInv
  <2>2. TrackInv(visit, req, track')
    BY <1>2, <1>3, NoTrackIs DEF Begins
  <2> QED BY <1>1, <1>2, <1>3, <2>1, <2>2, KeptByOp DEF page, Still, chain, Begins
<1>4. CASE Rebinds(k)
  <2>1. Mined(req, track.id)
    BY <1>2, <1>4 DEF TrackInv, Rebinds
  <2>2. Onward(visit, req, store, BindRequest(store, k, track.id, track.replace))
    BY <1>1, <2>1, Facts, OnwardBind
  <2>3. CopiesInv(visit, req, store', view', pend') /\ Steady
    BY <1>4, <2>2, SaveKeeps DEF Steady, RunInv, Rebinds
  <2>4. RunInv'
    BY <1>1, <1>4, <2>3, StepKeeps DEF RunInv, Rebinds, chain, Steady, Onward
  <2> QED BY <2>3, <2>4
<1>5. CASE Recovers(k)
  <2>1. PageInv(req, active', att', flow')
    BY <1>2, <1>5 DEF PageInv, Recovers
  <2>2. RunInv'
    BY <1>1, <1>5, <2>1, StepKeeps DEF RunInv, chain, session, Recovers
  <2> QED BY <1>5, <2>2, Facts DEF session, Recovers
<1> QED BY <1>3, <1>4, <1>5, ClickIs

LEMMA KeptByClickFree == ASSUME RunInv, visit' = visit, ClickFree PROVE RunInv' /\ Steady
<1>1. Start("free", FALSE) /\ UNCHANGED <<chain, session, track, away, page, calls, rs, faults>>
  BY DEF ClickFree
<1>2. OpInv(visit, req, op') /\ flow' = "busy"
  BY <1>1, StartIs
<1> QED BY <1>1, <1>2, KeptByOp DEF RunInv, Still, chain

LEMMA IdleIs == ASSUME RunInv PROVE OpInv(visit, req, Idle)
<1>1. Len(req) \in Nat /\ visit.MaxRuns \in Nat
  BY Facts DEF RunInv, ReqInv
<1> QED BY <1>1 DEF OpInv, Idle, Submission

LEMMA OpIs ==
    ASSUME RunInv, NEW m \in Ops
    PROVE  /\ OpInv(visit, req, Op(m)) /\ Op(m) \in Submission /\ m \in Nat
           /\ m # 0 => m \in 1 .. Len(away)
<1>1. OpInv(visit, req, op) /\ AwayInv(visit, req, away) /\ Len(away) \in Nat
  BY DEF RunInv, AwayInv
<1>2. m \in Nat /\ (m # 0 => m \in 1 .. Len(away))
  BY <1>1 DEF Ops
<1>3. OpInv(visit, req, Op(m))
  BY <1>1, <1>2 DEF Op, AwayInv
<1> QED BY <1>2, <1>3 DEF OpInv

LEMMA BecomesKeeps ==
    ASSUME RunInv, NEW m \in Ops, NEW o, NEW f, Becomes(m, o, f),
           NEW P, OpInv(visit, P, o), OpInv(visit, P, op), AwayInv(visit, P, away)
    PROVE  OpInv(visit, P, op') /\ AwayInv(visit, P, away') /\ flow' \in {flow, f}
<1>1. CASE m = 0
  BY <1>1 DEF Becomes
<1>2. CASE m # 0
  <2>1. away \in Seq(Submission) /\ o \in Submission /\ m \in 1 .. Len(away)
    BY <1>2, OpIs DEF AwayInv, OpInv
  <2>2. away' = [away EXCEPT ![m] = o] /\ op' = op /\ flow' = flow
    BY <1>2 DEF Becomes
  <2>3. away' \in Seq(Submission) /\ Len(away') = Len(away) /\ \A n \in 1 .. Len(away) : away'[n] = IF n = m THEN o ELSE away[n]
    BY <2>1, <2>2
  <2>4. \A n \in 1 .. Len(away') : OpInv(visit, P, away'[n])
    BY <2>3 DEF AwayInv
  <2> QED BY <2>2, <2>3, <2>4 DEF AwayInv
<1> QED BY <1>1, <1>2

LEMMA SubmissionsAre ==
    ASSUME RunInv
    PROVE  (\A m \in Ops : Op(m) \in Submissions) /\ \A o \in Submissions : OpInv(visit, req, o)
<1>1. OpInv(visit, req, op) /\ AwayInv(visit, req, away)
  BY DEF RunInv
<1>2. \A m \in Ops : m = 0 \/ m \in 1 .. Len(away)
  BY OpIs
<1> QED BY <1>1, <1>2 DEF Submissions, Op, AwayInv

LEMMA BecomesIs ==
    ASSUME RunInv, NEW m \in Ops, NEW o, NEW f, Becomes(m, o, f) PROVE Submissions' \subseteq Submissions \cup {o}
<1>1. CASE m = 0
  BY <1>1 DEF Becomes, Submissions
<1>2. CASE m # 0
  <2>1. away \in Seq(Submission) /\ m \in 1 .. Len(away)
    BY <1>2, OpIs DEF RunInv, AwayInv
  <2>2. away' = [away EXCEPT ![m] = o] /\ op' = op
    BY <1>2 DEF Becomes
  <2>3. Len(away') = Len(away) /\ \A n \in 1 .. Len(away) : away'[n] \in {o, away[n]}
    BY <2>1, <2>2
  <2> QED BY <2>2, <2>3 DEF Submissions
<1> QED BY <1>1, <1>2

LEMMA RemountIs ==
    ASSUME RunInv, Remounted PROVE Submissions' \subseteq Submissions \cup {Idle}
<1>1. op' = Idle /\ (away' = away \/ away' = Append(away, op))
  BY DEF Remounted
<1>2. away \in Seq(Submission)
  BY DEF RunInv, AwayInv
<1>3. \A n \in 1 .. Len(away') : away'[n] = op \/ \E k \in 1 .. Len(away) : away'[n] = away[k]
  BY <1>1, <1>2
<1> QED BY <1>1, <1>3 DEF Submissions

LEMMA KeptByOver ==
    ASSUME RunInv, Still, NEW m \in Ops, Over(m), UNCHANGED <<chain, session, track, page, calls>>
    PROVE  RunInv' /\ Steady
<1>1. OpInv(visit, req, op') /\ AwayInv(visit, req, away') /\ flow' \in {flow, "none"}
  BY IdleIs, BecomesKeeps DEF RunInv, Over
<1> QED BY <1>1, KeptByOp DEF RunInv, PageInv

\* A submission is sent under the run that is stored.
Sending(o) == [o EXCEPT !.at = "sending", !.run = store.run]
LEMMA SendingIs ==
    ASSUME RunInv, NEW m \in Ops, Op(m).at = "preflight"
    PROVE  /\ OpInv(visit, req, Sending(Op(m))) /\ Sending(Op(m)).at = "sending" /\ Sending(Op(m)).tx = 0
           /\ Sending(Op(m)).mission = Op(m).mission /\ Sending(Op(m)).run = store.run
           /\ Sending(Op(m)).replace = Op(m).replace
<1>1. PICK o, n : o = Op(m) /\ n = Sending(o)
  OBVIOUS
<1>2. OpInv(visit, req, o) /\ o \in Submission
  BY <1>1, OpIs
<1>3. store.run \in 0 .. visit.MaxRuns /\ store.run \in Nat
  BY Facts DEF SessInv
<1>4. /\ n = [at |-> "sending", tx |-> o.tx, mission |-> o.mission, run |-> store.run, replace |-> o.replace]
      /\ n \in Submission
  BY <1>1, <1>2, <1>3 DEF Sending, Submission
<1>5. n.at = "sending" /\ n.tx = o.tx /\ n.mission = o.mission /\ n.run = store.run /\ n.replace = o.replace
  BY <1>4
<1>6. OpInv(visit, req, n) /\ n.tx = 0
  BY <1>1, <1>2, <1>3, <1>4, <1>5 DEF OpInv
<1> QED BY <1>1, <1>5, <1>6

LEMMA KeptByPreflight == ASSUME RunInv, visit' = visit, NEW m \in Ops, Preflight(m) PROVE RunInv' /\ Steady
<1>1. Op(m).at = "preflight" /\ UNCHANGED <<chain, session, track, page, calls, rs, faults>>
  BY DEF Preflight
<1>2. CASE Becomes(m, Sending(Op(m)), flow)
  <2>1. OpInv(visit, req, op') /\ AwayInv(visit, req, away') /\ flow' = flow
    BY <1>1, <1>2, SendingIs, BecomesKeeps DEF RunInv
  <2> QED BY <1>1, <2>1, KeptByOp DEF RunInv, Still, chain, PageInv
<1>3. CASE Over(m)
  BY <1>1, <1>3, KeptByOver DEF Still, chain
<1> QED BY <1>2, <1>3 DEF Preflight, Sending

\* A broadcast transaction is in the pool.
Broadcasted(o) == [run |-> IF o.mission = "free" THEN 0 ELSE o.run, mission |-> o.mission, state |-> "pool", origin |-> "none"]
Sent(o) == [o EXCEPT !.at = "sent", !.tx = Len(req) + 1]
LEMMA BroadcastIs ==
    ASSUME RunInv, NEW m \in Ops, Op(m).at = "sending", req' = Append(req, Broadcasted(Op(m))),
           Becomes(m, Sent(Op(m)), flow)
    PROVE  /\ ReqInv(visit, req') /\ Grows(req, req') /\ Len(req') = Len(req) + 1 /\ Len(req) \in Nat
           /\ DOMAIN req' = DOMAIN req \cup {Len(req) + 1} /\ Len(req) + 1 \notin DOMAIN req
           /\ req'[Len(req) + 1] = Broadcasted(Op(m)) /\ \A i \in DOMAIN req : req'[i] = req[i]
           /\ Sent(Op(m)).at = "sent" /\ Sent(Op(m)).tx = Len(req) + 1 /\ Sent(Op(m)).mission = Op(m).mission
           /\ Sent(Op(m)).run = Op(m).run /\ Sent(Op(m)).replace = Op(m).replace
           /\ OpInv(visit, req', Sent(Op(m))) /\ OpInv(visit, req', op') /\ AwayInv(visit, req', away') /\ flow' = flow
<1>1. PICK o, r, n : o = Op(m) /\ r = Broadcasted(o) /\ n = Sent(o)
  OBVIOUS
<1>2. OpInv(visit, req, o) /\ o \in Submission /\ o.mission \in Payments \cup {"free"} /\ o.run \in 0 .. visit.MaxRuns
  BY <1>1, OpIs DEF OpInv
<1>3. r \in Request(visit) /\ RequestOK(r)
  BY <1>1, <1>2, Facts DEF Request, RequestOK, Broadcasted
<1>4. /\ ReqInv(visit, req') /\ Grows(req, req') /\ Len(req') = Len(req) + 1 /\ Len(req) \in Nat
      /\ DOMAIN req' = DOMAIN req \cup {Len(req) + 1} /\ Len(req) + 1 \notin DOMAIN req
      /\ req'[Len(req) + 1] = r /\ \A i \in DOMAIN req : req'[i] = req[i]
  BY <1>1, <1>3, RequestJoins DEF RunInv
<1>5. n = [at |-> "sent", tx |-> Len(req) + 1, mission |-> o.mission, run |-> o.run, replace |-> o.replace]
  BY <1>1, <1>2 DEF Submission, Sent
<1>6. /\ n.at = "sent" /\ n.tx = Len(req) + 1 /\ n.mission = o.mission /\ n.run = o.run
      /\ n.replace = o.replace /\ n \in Submission
  BY <1>2, <1>4, <1>5 DEF Submission
<1>7. Len(req) + 1 \in 0 .. Len(req') /\ Len(req) + 1 # 0
  BY <1>4
<1>8. OpInv(visit, req', n)
  BY <1>2, <1>6, <1>7 DEF OpInv
<1>9. OpInv(visit, req', op) /\ AwayInv(visit, req', away)
  BY <1>4, OpGrows, AwayGrows DEF RunInv
<1>10. OpInv(visit, req', op') /\ AwayInv(visit, req', away') /\ flow' = flow
  BY <1>1, <1>8, <1>9, BecomesKeeps
<1> QED BY <1>1, <1>4, <1>6, <1>8, <1>10

LEMMA KeptByBroadcast == ASSUME RunInv, visit' = visit, NEW m \in Ops, Broadcast(m) PROVE RunInv' /\ Steady
<1>1. Op(m).at = "sending" /\ UNCHANGED <<seen, loaded, session, track, page, calls, rs, faults>>
  BY DEF Broadcast
<1>2. CASE Over(m) /\ UNCHANGED req
  BY <1>1, <1>2, KeptByOver DEF Still, chain
<1>3. CASE req' = Append(req, Broadcasted(Op(m))) /\ Becomes(m, Sent(Op(m)), flow)
  <2>1. ReqInv(visit, req') /\ Grows(req, req') /\ OpInv(visit, req', op') /\ AwayInv(visit, req', away') /\ flow' = flow
    BY <1>1, <1>3, BroadcastIs
  <2>2. SeenInv(req', seen')
    BY <1>1, <2>1, SeenGrows DEF RunInv
  <2>3. CopiesInv(visit', req', store', view', pend')
    BY <1>1, <2>1, CopiesGrow DEF RunInv, session
  <2>4. TrackInv(visit', req', track')
    BY <1>1, <2>1, TrackGrows DEF RunInv
  <2>5. PageInv(req', active', att', flow') /\ CallsInv(req', calls')
    BY <1>1, <2>1, PageGrows, CallsGrow DEF RunInv, page
  <2>6. RestartInv(visit', req', rs', store')
    BY <1>1, <2>1, RestartGrows DEF RunInv, session
  <2> QED BY <1>1, <2>1, <2>2, <2>3, <2>4, <2>5, <2>6, Facts DEF RunInv, session
<1> QED BY <1>2, <1>3 DEF Broadcast, Broadcasted, Sent

\* The hash of a broadcast transaction is known.
Waiting(o) == [o EXCEPT !.at = "waiting"]
Pointer(o) == [tx |-> o.tx, id |-> 0, mission |-> o.mission, run |-> o.run, replace |-> o.replace]
LEMMA WaitingIs ==
    ASSUME RunInv, NEW m \in Ops, Op(m).at = "sent"
    PROVE  /\ OpInv(visit, req, Waiting(Op(m))) /\ Waiting(Op(m)).at = "waiting" /\ Waiting(Op(m)).tx = Op(m).tx
           /\ Waiting(Op(m)).mission = Op(m).mission /\ Waiting(Op(m)).run = Op(m).run
           /\ Waiting(Op(m)).replace = Op(m).replace
           /\ TrackInv(visit, req, Pointer(Op(m))) /\ Pointer(Op(m)).tx = Op(m).tx /\ Pointer(Op(m)).id = 0
           /\ Pointer(Op(m)).mission = Op(m).mission /\ Pointer(Op(m)).run = Op(m).run
           /\ Pointer(Op(m)).replace = Op(m).replace
<1>1. PICK o, n, t : o = Op(m) /\ n = Waiting(o) /\ t = Pointer(o)
  OBVIOUS
<1>2. OpInv(visit, req, o) /\ o \in Submission
  BY <1>1, OpIs
<1>3. n = [at |-> "waiting", tx |-> o.tx, mission |-> o.mission, run |-> o.run, replace |-> o.replace] /\ n \in Submission
  BY <1>1, <1>2 DEF Waiting, Submission
<1>4. n.at = "waiting" /\ n.tx = o.tx /\ n.mission = o.mission /\ n.run = o.run /\ n.replace = o.replace
  BY <1>3
<1>5. OpInv(visit, req, n)
  BY <1>1, <1>2, <1>3, <1>4 DEF OpInv
<1>6. t.tx = o.tx /\ t.id = 0 /\ t.mission = o.mission /\ t.run = o.run /\ t.replace = o.replace
  BY <1>1 DEF Pointer
<1>7. TrackInv(visit, req, t)
  BY <1>1, <1>2, <1>6 DEF TrackInv, OpInv
<1> QED BY <1>1, <1>4, <1>5, <1>6, <1>7

LEMMA KeptByAnswer == ASSUME RunInv, visit' = visit, NEW m \in Ops, Answer(m) PROVE RunInv' /\ Steady
<1>1. Op(m).at = "sent" /\ UNCHANGED <<chain, session, active, att, restore, calls, rs>>
  BY DEF Answer
<1>2. OpInv(visit, req, op) /\ AwayInv(visit, req, away) /\ TrackInv(visit, req, track) /\ PageInv(req, active, att, flow)
  BY DEF RunInv
<1>3. /\ TrackInv(visit, req, track') /\ OpInv(visit, req, op') /\ AwayInv(visit, req, away')
      /\ flow' \in {"none", flow}
  <2>1. CASE track' = Pointer(Op(m)) /\ Becomes(m, Waiting(Op(m)), flow)
    BY <1>1, <1>2, <2>1, WaitingIs, BecomesKeeps
  <2>2. CASE Over(m) /\ UNCHANGED <<track, missionOf, due>>
    BY <1>2, <2>2, IdleIs, BecomesKeeps DEF Over
  <2> QED BY <2>1, <2>2 DEF Answer, Pointer, Waiting
<1>4. PageInv(req, active', att', flow')
  BY <1>1, <1>2, <1>3 DEF PageInv
<1>5. RunInv'
  BY <1>1, <1>3, <1>4, StepKeeps DEF RunInv, session, chain
<1> QED BY <1>1, <1>5, Facts DEF session

\* The pointer once the receipt has named the request.
Named(o) == [tx |-> o.tx, id |-> o.tx, mission |-> o.mission, run |-> o.run, replace |-> o.replace]
LEMMA KeptBySettle ==
    ASSUME RunInv, visit' = visit, UNCHANGED <<chain, att, restore, calls, rs, faults>>,
           OpInv(visit, req, op'), AwayInv(visit, req, away'), flow' \in {"none", "busy", "recovering"},
           NEW o, o.tx \in DOMAIN req, req[o.tx].state # "pool", o.mission \in Payments \cup {"free"},
           o.run \in 0 .. visit.MaxRuns, NEW mounted, Settle(o, mounted)
    PROVE  RunInv' /\ Steady
<1>1. ReqInv(visit, req) /\ PageInv(req, active, att, flow) /\ CallsInv(req, calls) /\ SeenInv(req, seen)
  BY DEF RunInv
<1>2. CASE track' = NoTrack /\ UNCHANGED <<session, active, missionOf, due>>
  <2>1. PageInv(req, active', att', flow')
    BY <1>1, <1>2 DEF PageInv
  <2>2. RunInv'
    BY <1>1, <1>2, <2>1, NoTrackIs, StepKeeps DEF RunInv, session, chain
  <2> QED BY <1>2, <2>2, Facts DEF session
<1>3. CASE req[o.tx].state # "reverted"
  <2>1. track' = Named(o) /\ Bind(o.run, o.mission, o.tx, o.replace) /\ active' \in {o.tx, active}
    BY <1>3 DEF Settle, Follow, Named
  <2>2. Mined(req, o.tx) /\ o.tx \in 0 .. Len(req)
    <3>1. req \in Seq(Request(visit))
      BY <1>1 DEF ReqInv
    <3>2. req[o.tx] \in Request(visit) /\ o.tx \in 0 .. Len(req)
      BY <3>1
    <3> QED BY <1>3, <3>2 DEF Request, Mined
  <2>3. TrackInv(visit, req, track')
    BY <2>1, <2>2 DEF TrackInv, Named
  <2>4. CopiesInv(visit, req, store', view', pend') /\ Steady
    <3>1. CASE o.mission = "free"
      BY <2>1, <3>1, Facts DEF Bind, session, RunInv
    <3>2. CASE o.mission # "free"
      <4>1. Onward(visit, req, store, BindRequest(store, o.mission, o.tx, o.replace))
        BY <2>2, <3>2, Facts, OnwardBind
      <4> QED BY <2>1, <3>2, <4>1, SaveForKeeps DEF Bind, RunInv, Steady
    <3> QED BY <3>1, <3>2
  <2>5. PageInv(req, active', att', flow')
    BY <1>1, <2>1, <2>2 DEF PageInv
  <2>6. RunInv'
    BY <1>1, <2>3, <2>4, <2>5, StepKeeps DEF chain, Steady, Onward
  <2> QED BY <2>4, <2>6
<1> QED BY <1>2, <1>3 DEF Settle

LEMMA SurfaceIs == ASSUME NEW tx PROVE surface(tx) \in {"none", "busy", "recovering"}
BY DEF surface

LEMMA KeptByReceipt == ASSUME RunInv, visit' = visit, NEW m \in Ops, Receipt(m) PROVE RunInv' /\ Steady
<1>1. Op(m).at = "waiting" /\ UNCHANGED <<chain, att, restore, calls, rs, faults>>
  BY DEF Receipt
<1>2. OpInv(visit, req, Op(m)) /\ OpInv(visit, req, op) /\ AwayInv(visit, req, away) /\ PageInv(req, active, att, flow)
  BY OpIs DEF RunInv
<1>3. PICK o : o = Op(m)
  OBVIOUS
<1>4. o.tx \in DOMAIN req /\ o.mission \in Payments \cup {"free"} /\ o.run \in 0 .. visit.MaxRuns
  BY <1>1, <1>2, <1>3 DEF OpInv, RunInv, ReqInv
<1>5. CASE req[o.tx].state # "pool" /\ Settle(o, m = 0) /\ Becomes(m, Idle, surface(o.tx))
  <2>1. OpInv(visit, req, op') /\ AwayInv(visit, req, away') /\ flow' \in {"none", "busy", "recovering"}
    BY <1>2, <1>5, IdleIs, BecomesKeeps, SurfaceIs DEF PageInv
  <2> QED BY <1>1, <1>4, <1>5, <2>1, KeptBySettle
<1>6. CASE Becomes(m, Idle, "recovering") /\ UNCHANGED <<track, session, active, missionOf, due>>
  <2>1. OpInv(visit, req, op') /\ AwayInv(visit, req, away') /\ flow' \in {"none", "busy", "recovering"}
    BY <1>2, <1>6, IdleIs, BecomesKeeps DEF PageInv
  <2>2. PageInv(req, active', att', flow')
    BY <1>1, <1>2, <1>6, <2>1 DEF PageInv
  <2>3. RunInv'
    BY <1>1, <1>6, <2>1, <2>2, StepKeeps DEF RunInv, session, chain
  <2> QED BY <1>6, <2>3, Facts DEF session
<1> QED BY <1>3, <1>5, <1>6 DEF Receipt

LEMMA KeptByRecoverReceipt == ASSUME RunInv, visit' = visit, RecoverReceipt PROVE RunInv' /\ Steady
<1>1. track.tx # 0 /\ req[track.tx].state # "pool" /\ Settle(track, TRUE) /\ flow' = surface(track.tx)
      /\ UNCHANGED <<chain, op, away, att, restore, calls, rs, faults>>
  BY DEF RecoverReceipt
<1>2. OpInv(visit, req, op') /\ AwayInv(visit, req, away') /\ TrackInv(visit, req, track)
  BY <1>1 DEF RunInv
<1>3. track.tx \in DOMAIN req /\ track.mission \in Payments \cup {"free"} /\ track.run \in 0 .. visit.MaxRuns
  BY <1>1, <1>2 DEF TrackInv, RunInv, ReqInv
<1> QED BY <1>1, <1>2, <1>3, SurfaceIs, KeptBySettle

\* Only the session changes.
LEMMA KeptBySession ==
    ASSUME RunInv, visit' = visit, UNCHANGED <<chain, payment, page, calls, rs>>,
           CopiesInv(visit, req, store', view', pend'), store'.run = store.run
    PROVE  RunInv'
BY StepKeeps DEF RunInv, chain, payment, page

LEMMA KeptByNavigates == ASSUME RunInv, visit' = visit, Navigates PROVE RunInv' /\ Steady
<1>1. PICK route : view' = Navigate(view, route)
  BY DEF Navigates
<1>2. UNCHANGED <<chain, store, shown, pend, payment, page, calls, rs, faults>>
  BY DEF Navigates
<1>3. Evid(view', view) /\ Evid(view, store)
  BY <1>1, Facts, NavigateKeeps DEF RunInv, CopiesInv
<1>4. CopiesInv(visit, req, store', view', pend')
  BY <1>2, <1>3, EvidJoins DEF RunInv, CopiesInv
<1> QED BY <1>2, <1>4, KeptBySession, Facts

LEMMA KeptByCommit == ASSUME RunInv, visit' = visit, Commit PROVE RunInv' /\ Steady
<1>1. pend' = view /\ UNCHANGED <<chain, store, view, payment, page, calls, rs, faults>>
  BY DEF Commit
<1>2. SessInv(visit, req, view) /\ view.run = store.run
  BY Facts DEF RunInv, CopiesInv, Evid
<1>3. CopiesInv(visit, req, store', view', pend')
  BY <1>1, <1>2 DEF RunInv, CopiesInv
<1> QED BY <1>1, <1>3, KeptBySession, Facts

LEMMA KeptByEffects == ASSUME RunInv, visit' = visit, Effects PROVE RunInv' /\ store'.run = store.run /\ pend # NoSession
<1>1. PICK s : s = Reconcile(pend, seen) /\ ((store' = s /\ view' = s) \/ UNCHANGED <<store, view>>)
               /\ pend # NoSession /\ pend' = NoSession /\ UNCHANGED <<chain, shown, payment, page, calls, rs, faults>>
  BY DEF Effects
<1>2. SessInv(visit, req, pend) /\ pend.run = store.run /\ ReqInv(visit, req) /\ SeenInv(req, seen)
  BY <1>1 DEF RunInv, CopiesInv
<1>3. Onward(visit, req, pend, s)
  BY <1>1, <1>2, OnwardReconcile
<1>4. SessInv(visit, req, s) /\ s.run = store.run
  BY <1>2, <1>3 DEF Onward
<1>5. Evid(s, s)
  BY <1>4, EvidSelf DEF SessInv
<1>6. CopiesInv(visit, req, store', view', pend') /\ store'.run = store.run
  BY <1>1, <1>4, <1>5 DEF RunInv, CopiesInv
<1> QED BY <1>1, <1>6, KeptBySession

LEMMA KeptByReconcileNow == ASSUME RunInv, visit' = visit, ReconcileNow PROVE RunInv' /\ Steady
<1>1. Save(Reconcile(view, seen)) /\ UNCHANGED <<chain, payment, page, calls, rs, faults>>
  BY DEF ReconcileNow
<1>2. Onward(visit, req, view, Reconcile(view, seen))
  BY Facts, OnwardReconcile DEF RunInv
<1>3. Onward(visit, req, store, Reconcile(view, seen))
  BY <1>2, OnwardCopy DEF RunInv, CopiesInv
<1>4. CopiesInv(visit, req, store', view', pend') /\ Steady
  BY <1>1, <1>3, SaveKeeps DEF RunInv, Steady
<1> QED BY <1>1, <1>4, KeptBySession DEF Steady, Onward

LEMMA KeptByResume == ASSUME RunInv, visit' = visit, Resume PROVE RunInv' /\ Steady
<1>1. PICK n : n = TourStep(ResumeSession(view), view.tour.step, view.route, view.role)
  OBVIOUS
<1>2. Save(n) /\ UNCHANGED <<chain, payment, page, calls, rs, faults>>
  BY <1>1 DEF Resume
<1>3. Evid(ResumeSession(view), view) /\ Evid(view, store)
  BY Facts, ResumeKeeps DEF RunInv, CopiesInv
<1>4. Evid(n, ResumeSession(view))
  BY <1>1, <1>3, TourStepKeeps DEF Evid
<1>5. Evid(n, store)
  BY <1>3, <1>4, EvidJoins
<1>6. Onward(visit, req, store, n)
  BY <1>5, Facts, OnwardEvid
<1>7. CopiesInv(visit, req, store', view', pend') /\ Steady
  BY <1>2, <1>6, SaveKeeps DEF RunInv, Steady
<1> QED BY <1>2, <1>7, KeptBySession DEF Steady, Onward

LEMMA KeptByDecryptReason == ASSUME RunInv, visit' = visit, DecryptReason PROVE RunInv' /\ Steady
<1>1. PICK i \in RunBound(store.run, "violation", seen) :
        Save(ReasonDecrypted(ViolationBlocked(store, i), i)) /\ UNCHANGED <<chain, payment, page, calls, rs, faults>>
  BY DEF DecryptReason
<1>2. Mined(req, i)
  BY DEF RunBound, RunInv, SeenInv
<1>3. Onward(visit, req, store, ReasonDecrypted(ViolationBlocked(store, i), i))
  BY <1>2, Facts, OnwardReasoned
<1>4. CopiesInv(visit, req, store', view', pend') /\ Steady
  BY <1>1, <1>3, SaveKeeps DEF RunInv, Steady
<1> QED BY <1>1, <1>4, KeptBySession DEF Steady, Onward

LEMMA RemountedIs ==
    ASSUME RunInv, Remounted
    PROVE  /\ PageInv(req, active', att', flow') /\ CallsInv(req, calls')
           /\ OpInv(visit, req, op') /\ AwayInv(visit, req, away')
           /\ op = Idle => UNCHANGED <<op, away>>
<1>1. OpInv(visit, req, op) /\ AwayInv(visit, req, away) /\ CallsInv(req, calls)
  BY DEF RunInv
<1>2. op' = Idle /\ OpInv(visit, req, op')
  BY IdleIs DEF Remounted
<1>3. AwayInv(visit, req, away')
  <2>1. away' = away \/ away' = Append(away, op)
    BY DEF Remounted
  <2>2. away \in Seq(Submission) /\ op \in Submission
    BY <1>1 DEF AwayInv, OpInv
  <2> QED BY <1>1, <2>1, <2>2 DEF AwayInv
<1>4. CallsInv(req, calls')
  <2>1. calls' = {[c EXCEPT !.shown = FALSE] : c \in {d \in calls : d.kind = "decide"}}
    BY DEF Remounted
  <2> SUFFICES ASSUME NEW e \in calls'
               PROVE  e = [kind |-> e.kind, id |-> e.id, run |-> e.run, action |-> e.action, shown |-> e.shown]
                      /\ Mined(req, e.id)
    BY DEF CallsInv
  <2>2. PICK c \in calls : e = [c EXCEPT !.shown = FALSE]
    BY <2>1
  <2>3. c = [kind |-> c.kind, id |-> c.id, run |-> c.run, action |-> c.action, shown |-> c.shown] /\ Mined(req, c.id)
    BY <1>1 DEF CallsInv
  <2> QED BY <2>2, <2>3
<1>5. PageInv(req, active', att', flow')
  BY DEF Remounted, PageInv
<1>6. op = Idle => UNCHANGED <<op, away>>
  BY DEF Remounted
<1> QED BY <1>2, <1>3, <1>4, <1>5, <1>6

LEMMA KeptByLeave == ASSUME RunInv, visit' = visit, Leave PROVE RunInv' /\ Steady
<1>1. Remounted /\ UNCHANGED <<chain, session, track, rs>>
  BY DEF Leave
<1>2. PageInv(req, active', att', flow') /\ CallsInv(req, calls') /\ OpInv(visit, req, op') /\ AwayInv(visit, req, away')
  BY <1>1, RemountedIs
<1>3. RunInv'
  BY <1>1, <1>2, StepKeeps DEF RunInv, chain, session
<1> QED BY <1>1, <1>3, Facts DEF session

\* Only what is followed, and the surface.
LEMMA KeptByPage ==
    ASSUME RunInv, visit' = visit, UNCHANGED <<chain, session, op, away, att, calls, rs>>,
           TrackInv(visit, req, track'), active' = 0 \/ Mined(req, active'), flow' \in {"none", "busy", "recovering"}
    PROVE  RunInv' /\ Steady
<1>1. PageInv(req, active', att', flow')
  BY DEF RunInv, PageInv
<1>2. RunInv'
  BY <1>1, StepKeeps DEF RunInv, chain, session
<1> QED BY <1>2, Facts DEF session

LEMMA KeptByContinue == ASSUME RunInv, visit' = visit, Continue PROVE RunInv' /\ Steady
BY KeptByPage DEF RunInv, PageInv, Continue, payment

\* What is followed after a mount was polled.
RestoreTo(a, k) ==
    \/ track.id \in DOMAIN seen /\ track.tx # 0 /\ track.run = store.run /\ a = track.id /\ k = track.mission
    \/ k \in Payments /\ store.m[k].request \in DOMAIN seen /\ a = store.m[k].request
    \/ a \in DOMAIN seen /\ seen[a].state \in InFlight /\ k = "none"

LEMMA RestoreIs ==
    ASSUME Restore
    PROVE  LET mine == track.tx # 0 /\ track.run = store.run IN
           /\ UNCHANGED <<chain, session, op, away, att, calls, rs, faults>> /\ restore' = FALSE
           /\ \/ active # 0 /\ UNCHANGED <<track, flow, active, missionOf, due>>
              \/ /\ active = 0 /\ track' = IF mine THEN track ELSE NoTrack
                 /\ flow' = IF mine /\ track.id = 0 THEN "recovering" ELSE flow
                 /\ \/ RestoreTo(active', missionOf') /\ due' = TRUE
                    \/ /\ UNCHANGED <<active, due>>
                       /\ missionOf' = IF mine /\ track.id = 0 THEN track.mission ELSE missionOf
<1>1. PICK mine, lost : mine = (track.tx # 0 /\ track.run = store.run) /\ lost = (mine /\ track.id = 0)
  OBVIOUS
<1>2. UNCHANGED <<chain, session, op, away, att, calls, rs, faults>> /\ restore' = FALSE
  BY DEF Restore
<1>3. CASE active # 0
  BY <1>2, <1>3 DEF Restore
<1>4. CASE active = 0
  <2>1. track' = (IF mine THEN track ELSE NoTrack) /\ flow' = (IF lost THEN "recovering" ELSE flow)
    BY <1>1, <1>4 DEF Restore
  <2>2. CASE mine /\ track.id \in DOMAIN seen
    <3>1. Follow(track.id, track.mission)
      BY <1>1, <1>4, <2>2 DEF Restore
    <3> QED BY <1>1, <1>2, <1>4, <2>1, <2>2, <3>1 DEF Follow, RestoreTo
  <2>3. CASE ~(mine /\ track.id \in DOMAIN seen) /\ boundSeen # {}
    <3>1. PICK j : /\ j = CHOOSE k \in boundSeen : before(k) \notin boundSeen
                   /\ Follow(store.m[j].request, j)
      BY <1>1, <1>4, <2>3 DEF Restore
    <3>2. boundSeen \subseteq {"routine", "approval", "violation"}
      BY DEF boundSeen, PaymentMissions
    <3>3. before("routine") = "none" /\ before("approval") = "routine" /\ before("violation") = "approval"
      BY DEF before
    <3>4. \E k \in boundSeen : before(k) \notin boundSeen
      BY <2>3, <3>2, <3>3
    <3>5. j \in boundSeen
      BY <3>1, <3>4
    <3> QED BY <1>1, <1>2, <1>4, <2>1, <3>1, <3>2, <3>5 DEF Follow, RestoreTo, boundSeen, Payments
  <2>4. CASE ~(mine /\ track.id \in DOMAIN seen) /\ boundSeen = {} /\ BlockingSeen("main")
    <3>1. PICK j : /\ j = CHOOSE i \in DOMAIN seen : mandate(seen[i].mission) = "main" /\ seen[i].state \in InFlight
                   /\ Follow(j, "none")
      BY <1>1, <1>4, <2>4 DEF Restore
    <3>2. j \in DOMAIN seen /\ seen[j].state \in InFlight
      BY <2>4, <3>1 DEF BlockingSeen
    <3> QED BY <1>1, <1>2, <1>4, <2>1, <3>1, <3>2 DEF Follow, RestoreTo
  <2>5. CASE ~(mine /\ track.id \in DOMAIN seen) /\ boundSeen = {} /\ ~BlockingSeen("main")
    <3>1. UNCHANGED <<active, due>> /\ missionOf' = IF lost THEN track.mission ELSE missionOf
      BY <1>1, <1>4, <2>5 DEF Restore
    <3> QED BY <1>1, <1>2, <1>4, <2>1, <3>1
  <2> QED BY <2>2, <2>3, <2>4, <2>5
<1> QED BY <1>3, <1>4

LEMMA KeptByRestore == ASSUME RunInv, visit' = visit, Restore PROVE RunInv' /\ Steady
<1>1. UNCHANGED <<chain, session, op, away, att, calls, rs, faults>> /\ track' \in {track, NoTrack} /\ flow' \in {flow, "recovering"}
      /\ (active' = active \/ RestoreTo(active', missionOf'))
  BY RestoreIs
<1>2. TrackInv(visit, req, track') /\ flow' \in {"none", "busy", "recovering"}
  BY <1>1, NoTrackIs DEF RunInv, PageInv
<1>3. \A i \in DOMAIN seen : Mined(req, i)
  BY DEF RunInv, SeenInv
<1>4. active' = 0 \/ Mined(req, active')
  BY <1>1, <1>3 DEF RunInv, PageInv, RestoreTo
<1> QED BY <1>1, <1>2, <1>4, KeptByPage

LEMMA KeptByAdopt == ASSUME RunInv, visit' = visit, Adopt PROVE RunInv' /\ Steady
<1>1. active' \in DOMAIN seen /\ UNCHANGED <<chain, session, payment, att, restore, calls, rs, faults>>
  BY DEF Adopt, Follow, boundSeen
<1>2. Mined(req, active')
  BY <1>1 DEF RunInv, SeenInv
<1> QED BY <1>1, <1>2, KeptByPage DEF RunInv, payment, PageInv

LEMMA ActionIs == ASSUME NEW id PROVE userAction(id) \in {"approve", "reject"}
BY DEF userAction

LEMMA KeptByBookkeep == ASSUME RunInv, visit' = visit, Bookkeep PROVE RunInv' /\ Steady
<1>1. /\ UNCHANGED <<chain, active, missionOf, att, restore, calls, rs, faults, op, away>>
      /\ \/ UNCHANGED <<session, track, flow>>
         \/ /\ active \in DOMAIN seen /\ track' \in {track, NoTrack} /\ flow' = "none"
            /\ \/ UNCHANGED session
               \/ \E run : SaveFor(run, RoutineExecuted(store, active))
               \/ \E run : SaveFor(run, Decide(store, active, userAction(active)))
  BY DEF Bookkeep, payment
<1>2. CASE UNCHANGED <<session, track, flow>>
  BY <1>1, <1>2, KeptByPage DEF RunInv, PageInv
<1>3. CASE /\ active \in DOMAIN seen /\ track' \in {track, NoTrack} /\ flow' = "none"
           /\ \/ UNCHANGED session
              \/ \E run : SaveFor(run, RoutineExecuted(store, active))
              \/ \E run : SaveFor(run, Decide(store, active, userAction(active)))
  <2>1. Mined(req, active) /\ TrackInv(visit, req, track')
    BY <1>3, NoTrackIs DEF RunInv, SeenInv
  <2>2. Onward(visit, req, store, RoutineExecuted(store, active)) /\ Onward(visit, req, store, Decide(store, active, userAction(active)))
    BY <2>1, Facts, OnwardExecuted, OnwardDecide, ActionIs DEF RunInv
  <2>3. CopiesInv(visit, req, store', view', pend') /\ Steady
    <3>1. CASE UNCHANGED session
      BY <3>1, Facts DEF RunInv, session
    <3>2. CASE \E run : SaveFor(run, RoutineExecuted(store, active)) \/ SaveFor(run, Decide(store, active, userAction(active)))
      BY <2>2, <3>2, SaveForKeeps DEF RunInv, Steady
    <3> QED BY <1>3, <3>1, <3>2
  <2>4. PageInv(req, active', att', flow')
    BY <1>1, <1>3 DEF RunInv, PageInv
  <2>5. RunInv'
    BY <1>1, <2>1, <2>3, <2>4, StepKeeps DEF RunInv, chain, Steady, Onward
  <2> QED BY <2>3, <2>5
<1> QED BY <1>1, <1>2, <1>3

\* A call is made.
LEMMA KeptByCall ==
    ASSUME RunInv, visit' = visit, UNCHANGED <<chain, session, payment, page, rs>>,
           NEW i \in DOMAIN seen, NEW kind, NEW run, NEW action,
           calls' = calls \cup {[kind |-> kind, id |-> i, run |-> run, action |-> action, shown |-> TRUE]}
    PROVE  RunInv' /\ Steady
<1>1. Mined(req, i)
  BY DEF RunInv, SeenInv
<1>2. CallsInv(req, calls')
  BY <1>1 DEF RunInv, CallsInv
<1>3. RunInv'
  BY <1>2, StepKeeps DEF RunInv, chain, session, payment, page
<1> QED BY <1>3, Facts DEF session

LEMMA KeptByChooseDecision == ASSUME RunInv, visit' = visit, ChooseDecision PROVE RunInv' /\ Steady
BY KeptByCall DEF ChooseDecision

LEMMA KeptByAskAttestation == ASSUME RunInv, visit' = visit, AskAttestation PROVE RunInv' /\ Steady
<1>1. RunBound(store.run, "approval", seen) \subseteq DOMAIN seen
  BY DEF RunBound
<1>2. PICK i \in RunBound(store.run, "approval", seen) :
        calls' = calls \cup {[kind |-> "attest", id |-> i, run |-> store.run, action |-> "none", shown |-> TRUE]}
  BY DEF AskAttestation
<1> QED BY <1>1, <1>2, KeptByCall DEF AskAttestation

LEMMA KeptByCalled == ASSUME RunInv, visit' = visit, Called PROVE RunInv' /\ Steady
<1>1. PICK c \in calls : /\ calls' = calls \ {c} /\ att' \in {att, att \cup {c.id}}
                         /\ \/ SaveFor(c.run, Decide(store, c.id, userAction(c.id))) \/ UNCHANGED session
                         /\ UNCHANGED <<chain, payment, active, missionOf, restore, rs, faults>>
  BY DEF Called, Attested
<1>2. Mined(req, c.id) /\ CallsInv(req, calls')
  BY <1>1 DEF RunInv, CallsInv
<1>3. Onward(visit, req, store, Decide(store, c.id, userAction(c.id)))
  BY <1>2, Facts, OnwardDecide, ActionIs
<1>4. CopiesInv(visit, req, store', view', pend') /\ Steady
  <2>1. CASE UNCHANGED session
    BY <2>1, Facts DEF RunInv, session
  <2>2. CASE SaveFor(c.run, Decide(store, c.id, userAction(c.id)))
    BY <1>3, <2>2, SaveForKeeps DEF RunInv, Steady
  <2> QED BY <1>1, <2>1, <2>2
<1>5. PageInv(req, active', att', flow')
  BY <1>1, <1>2 DEF RunInv, PageInv, payment
<1>6. RunInv'
  BY <1>1, <1>2, <1>4, <1>5, StepKeeps DEF RunInv, chain, payment, Steady, Onward
<1> QED BY <1>4, <1>6

LEMMA KeptByReload == ASSUME RunInv, visit' = visit, Reload PROVE RunInv' /\ Steady
<1>1. /\ store' = store /\ view' = Hydrate(store) /\ pend' \in {view', NoSession} /\ seen' = <<>> /\ op' = Idle /\ away' = <<>> /\ flow' = "none"
      /\ track' = track /\ active' = 0 /\ att' = {} /\ calls' = {} /\ rs' = NoRestart /\ req' = req
  BY DEF Reload
<1>2. Evid(view', store)
  BY <1>1, Facts, HydrateKeeps
<1>3. SessInv(visit, req, view') /\ view'.run = store.run
  BY <1>2, Facts, CopySess DEF Evid
<1>4. CopiesInv(visit, req, store', view', pend')
  BY <1>1, <1>2, <1>3, Facts DEF CopiesInv
<1>5. SeenInv(req, seen') /\ CallsInv(req, calls') /\ PageInv(req, active', att', flow') /\ RestartInv(visit, req, rs', store')
  BY <1>1 DEF SeenInv, CallsInv, PageInv, RestartInv
<1>6. OpInv(visit, req, op') /\ AwayInv(visit, req, away') /\ TrackInv(visit, req, track')
  BY <1>1, IdleIs DEF RunInv, AwayInv
<1>7. RunInv'
  BY <1>1, <1>4, <1>5, <1>6 DEF RunInv
<1> QED BY <1>1, <1>7, Facts

\* The requests known of a run that await the Safe.
Awaiting(s) == {i \in Known(s) : stateOf(i) = "awaiting"}

LEMMA KnownIs ==
    ASSUME RunInv, Restartable(view)
    PROVE  /\ \A i \in Known(view) : Mined(req, i) /\ (i \in Awaiting(view) \/ req[i].state \in Terminal)
           /\ \A i \in Awaiting(view) : i = newest(Awaiting(view))
           /\ Awaiting(view) = {} <=> newest(Awaiting(view)) = 0
<1>1. SessInv(visit, req, view) /\ ReqInv(visit, req) /\ SeenInv(req, seen) /\ TrackInv(visit, req, track)
  BY Facts DEF RunInv
<1>2. ASSUME NEW i \in Known(view)
      PROVE  Mined(req, i) /\ (i \in Awaiting(view) \/ req[i].state \in Terminal)
  <2>1. Mined(req, i)
    <3>1. i # 0
      BY DEF Known
    <3>2. CASE \E k \in PaymentMissions : i = view.m[k].request
      BY <1>1, <3>1, <3>2, PaymentsAre DEF SessInv
    <3>3. CASE i = track.id
      BY <1>1, <3>1, <3>3 DEF TrackInv
    <3>4. CASE \E k \in PaymentMissions : i \in RunBound(view.run, k, seen)
      BY <1>1, <3>4 DEF RunBound, SeenInv
    <3> QED BY <3>1, <3>2, <3>3, <3>4 DEF Known
  <2>2. stateOf(i) # "requested"
    BY DEF Restartable
  <2>3. stateOf(i) = "awaiting" => i \in Awaiting(view)
    BY DEF Awaiting
  <2>4. CASE i \in DOMAIN seen
    BY <1>1, <2>2, <2>3, <2>4 DEF stateOf, SeenInv, InFlight
  <2>5. CASE i \notin DOMAIN seen
    BY <2>1, <2>2, <2>3, <2>5 DEF stateOf, Mined, InFlight
  <2> QED BY <2>1, <2>4, <2>5
<1>3. Len(req) \in Nat /\ Awaiting(view) \in SUBSET (1 .. Len(req)) /\ IsFiniteSet(Awaiting(view))
  <2>1. Len(req) \in Nat /\ DOMAIN req = 1 .. Len(req)
    BY <1>1 DEF ReqInv
  <2>2. Awaiting(view) \in SUBSET (1 .. Len(req))
    BY <1>2, <2>1 DEF Awaiting, Mined
  <2>3. IsFiniteSet(1 .. Len(req))
    BY <2>1, FS_Interval
  <2> QED BY <2>1, <2>2, <2>3, FS_Subset
<1>4. IF Awaiting(view) = {} THEN newest(Awaiting(view)) = 0
      ELSE newest(Awaiting(view)) \in Awaiting(view) /\ \A j \in Awaiting(view) : newest(Awaiting(view)) >= j
  BY <1>3, NewestIs
<1>5. ASSUME NEW i \in Awaiting(view), NEW j \in Awaiting(view), i # j PROVE FALSE
  <2>1. Cardinality(Awaiting(view)) <= 1
    BY DEF Restartable, Awaiting
  <2>2. {i, j} \subseteq Awaiting(view)
    OBVIOUS
  <2>3. IsFiniteSet({j}) /\ Cardinality({j}) = 1
    BY FS_Singleton
  <2>4. Cardinality({j} \cup {i}) = 2 /\ {j} \cup {i} = {i, j}
    BY <1>5, <2>3, FS_AddElement
  <2>5. Cardinality({i, j}) <= Cardinality(Awaiting(view)) /\ Cardinality(Awaiting(view)) \in Nat
    BY <1>3, <2>2, FS_Subset, FS_CardinalityType
  <2> QED BY <2>1, <2>4, <2>5
<1>6. 0 \notin Awaiting(view)
  BY <1>3
<1> QED BY <1>2, <1>4, <1>5, <1>6

LEMMA KnownSame == ASSUME RunInv PROVE Known(view) = Known(store)
<1>1. view.run = store.run /\ \A k \in Payments : view.m[k].request = store.m[k].request
  BY DEF RunInv, CopiesInv, Evid, SameProgress, Keys, Payments
<1>2. \A k \in PaymentMissions : view.m[k].request = store.m[k].request
  BY <1>1, PaymentsAre
<1>3. {view.m[k].request : k \in PaymentMissions} = {store.m[k].request : k \in PaymentMissions}
  BY <1>2
<1> QED BY <1>1, <1>3 DEF Known

LEMMA RenewedIs ==
    ASSUME RunInv, visit' = visit, UNCHANGED chain, pend = NoSession, rs' = NoRestart, NEW cur, SessInv(visit, req, cur),
           cur.run = store.run, store.run < visit.MaxRuns, Renewed(cur)
    PROVE  RunInv' /\ (store'.run = store.run => Evid(store', cur))
<1>1. PICK n : n = ConfirmRestart(cur, cur.run + 1) /\ Save(n) /\ track' = NoTrack /\ Remounted
  BY DEF Renewed
<1>2. visit.MaxRuns \in Nat \ {0} /\ store.run \in 1 .. visit.MaxRuns
  BY Facts DEF SessInv
<1>3. n = cur \/ FreshAs(n, store.run + 1)
  BY <1>1, ConfirmRestartIs
<1>4. SessInv(visit, req, n)
  BY <1>2, <1>3 DEF FreshAs, SessInv
<1>5. store' = n /\ view' = n /\ pend' = NoSession
  BY <1>1 DEF Save
<1>6. Evid(n, n)
  BY <1>4, EvidSelf DEF SessInv
<1>7. CopiesInv(visit, req, store', view', pend')
  BY <1>4, <1>5, <1>6 DEF CopiesInv
<1>8. /\ PageInv(req, active', att', flow') /\ CallsInv(req, calls') /\ OpInv(visit, req, op') /\ AwayInv(visit, req, away')
      /\ TrackInv(visit, req, track')
  BY <1>1, RemountedIs, NoTrackIs
<1>9. RunInv'
  BY <1>7, <1>8 DEF RunInv, chain, RestartInv
<1>10. store'.run = store.run => n = cur
  BY <1>2, <1>3, <1>5 DEF FreshAs
<1> QED BY <1>5, <1>6, <1>9, <1>10

LEMMA KeptByRestartBegin ==
    ASSUME RunInv, visit' = visit, RestartBegin
    PROVE  RunInv' /\ RestartLeavesNothingKnown /\ (store'.run = store.run => Steady)
<1>1. PICK request, cur :
        /\ request = newest(Awaiting(view)) /\ cur = RequestRestart(view, request)
        /\ \/ request = 0 /\ Renewed(cur) /\ UNCHANGED rs
           \/ /\ request # 0 /\ Save(cur) /\ UNCHANGED <<payment, page, calls>>
              /\ rs' = [at |-> "cleaning", cur |-> cur, request |-> request, known |-> Known(view)]
  BY DEF RestartBegin, Awaiting
<1>2. pend = NoSession /\ rs = NoRestart /\ view.run < visit.MaxRuns /\ Restartable(view) /\ UNCHANGED <<chain, faults>>
  BY DEF RestartBegin, Quiet
<1>3. Evid(cur, view) /\ Evid(view, store)
  BY <1>1, Facts, RequestRestartKeeps DEF RunInv, CopiesInv
<1>4. Evid(cur, store) /\ view.run = store.run /\ cur.run = store.run
  BY <1>3, EvidJoins DEF Evid
<1>5. Onward(visit, req, store, cur) /\ SessInv(visit, req, cur)
  BY <1>4, Facts, OnwardEvid DEF Onward
<1>6. CASE request = 0
  <2>1. Renewed(cur) /\ rs' = NoRestart
    BY <1>1, <1>2, <1>6
  <2>2. RunInv' /\ (store'.run = store.run => Evid(store', cur))
    BY <1>2, <1>4, <1>5, <2>1, RenewedIs
  <2>3. store'.run = store.run => Steady
    BY <1>4, <2>2, Facts, EvidJoins, OnwardEvid DEF Steady
  <2>4. \A i \in Known(store) : req[i].state \notin InFlight
    BY <1>1, <1>2, <1>6, KnownIs, KnownSame DEF Terminal, InFlight
  <2>5. RestartLeavesNothingKnown
    BY <1>2, <2>4 DEF RestartLeavesNothingKnown
  <2> QED BY <2>2, <2>3, <2>5
<1>7. CASE request # 0
  <2>1. /\ Save(cur) /\ UNCHANGED <<payment, page, calls>>
        /\ rs' = [at |-> "cleaning", cur |-> cur, request |-> request, known |-> Known(view)]
    BY <1>1, <1>7
  <2>2. CopiesInv(visit, req, store', view', pend') /\ Steady /\ store' = cur
    BY <1>5, <2>1, SaveKeeps DEF RunInv, Steady
  <2>3. \A i \in Known(view) \ {request} : i \in DOMAIN req /\ req[i].state \in Terminal
    BY <1>1, <1>2, KnownIs DEF Mined
  <2>4. RestartInv(visit, req, rs', store')
    <3>1. rs'.at = "cleaning" /\ rs'.cur = cur /\ rs'.known = Known(view) /\ rs'.request = request
      BY <2>1
    <3> QED BY <1>2, <1>4, <1>5, <2>2, <2>3, <3>1 DEF RestartInv
  <2>5. RunInv'
    BY <1>2, <2>1, <2>2, <2>4 DEF RunInv, chain, payment, page
  <2>6. store'.run = store.run
    BY <1>4, <2>2
  <2> QED BY <2>2, <2>5, <2>6 DEF RestartLeavesNothingKnown
<1> QED BY <1>6, <1>7

LEMMA KeptByRestartEnds ==
    ASSUME RunInv, visit' = visit, RestartEnds
    PROVE  RunInv' /\ RestartLeavesNothingKnown /\ rs.at # "idle"
<1>1. pend = NoSession /\ rs.at = "cleaning" /\ rs' = NoRestart /\ UNCHANGED <<chain, faults>>
  BY DEF RestartEnds, Quiet
<1>2. rs # NoRestart
  BY <1>1 DEF NoRestart
<1>3. /\ SessInv(visit, req, rs.cur) /\ rs.cur.run = store.run /\ store.run < visit.MaxRuns
      /\ \A i \in rs.known \ {rs.request} : i \in DOMAIN req /\ req[i].state \in Terminal
  BY <1>2 DEF RunInv, RestartInv
<1>4. CASE req[rs.request].state = "cancelled" /\ Renewed(CleanupSucceeded(rs.cur, rs.request))
  <2>1. PICK cur : cur = CleanupSucceeded(rs.cur, rs.request)
    OBVIOUS
  <2>2. Evid(cur, rs.cur)
    BY <1>3, <2>1, CleanupSucceededKeeps DEF SessInv
  <2>3. SessInv(visit, req, cur) /\ cur.run = store.run
    BY <1>3, <2>2, CopySess DEF Evid
  <2>4. RunInv'
    BY <1>1, <1>3, <1>4, <2>1, <2>3, RenewedIs
  <2>5. \A i \in rs.known : req[i].state \notin InFlight
    BY <1>3, <1>4 DEF Terminal, InFlight
  <2> QED BY <1>1, <1>2, <2>4, <2>5 DEF RestartLeavesNothingKnown
<1>5. CASE Save(CleanupFailed(rs.cur, rs.request)) /\ UNCHANGED <<payment, page, calls>>
  <2>1. PICK n : n = CleanupFailed(rs.cur, rs.request)
    OBVIOUS
  <2>2. Evid(n, rs.cur)
    BY <1>3, <2>1, CleanupFailedKeeps DEF SessInv
  <2>3. SessInv(visit, req, n) /\ n.run = store.run
    BY <1>3, <2>2, CopySess DEF Evid
  <2>4. store' = n /\ view' = n /\ pend' = NoSession
    BY <1>1, <1>5, <2>1 DEF Save
  <2>5. CopiesInv(visit, req, store', view', pend')
    BY <2>3, <2>4, EvidSelf DEF CopiesInv, SessInv
  <2>6. RunInv'
    BY <1>1, <1>5, <2>5 DEF RunInv, chain, payment, page, RestartInv
  <2>7. store'.run = store.run
    BY <2>3, <2>4
  <2> QED BY <1>1, <2>6, <2>7 DEF RestartLeavesNothingKnown
<1> QED BY <1>4, <1>5 DEF RestartEnds

LEMMA RunInit == ASSUME Init PROVE RunInv
<1>1. visit \in Visit /\ visit.MaxRuns \in Nat \ {0}
  BY GuidedRunAssumption DEF Init, Visit
<1>2. FreshAs(store, 1)
  BY CreatedIs DEF Init
<1>3. SessInv(visit, req, store) /\ Evid(store, store)
  BY <1>1, <1>2, EvidSelf DEF FreshAs, SessInv
<1>4. CopiesInv(visit, req, store, view, pend)
  BY <1>3 DEF Init, CopiesInv
<1>5. req = <<>> /\ Len(req) = 0 /\ DOMAIN req = {} /\ req \in Seq(Request(visit)) /\ DOMAIN seen = {}
  BY DEF Init
<1>6. ReqInv(visit, req) /\ SeenInv(req, seen)
  BY <1>5 DEF ReqInv, SeenInv
<1>7. TrackInv(visit, req, track) /\ OpInv(visit, req, op) /\ AwayInv(visit, req, away)
  BY <1>1, <1>5 DEF Init, TrackInv, OpInv, AwayInv, NoTrack, Idle, Submission
<1>8. PageInv(req, active, att, flow) /\ CallsInv(req, calls) /\ RestartInv(visit, req, rs, store)
  BY DEF Init, PageInv, CallsInv, RestartInv
<1> QED BY <1>1, <1>4, <1>6, <1>7, <1>8 DEF RunInv

\* What a step does to the session.
Steps == RestartLeavesNothingKnown /\ (rs.at = "idle" /\ pend = NoSession /\ store'.run = store.run => Steady)

LEMMA SteadySteps == ASSUME Steady PROVE Steps
BY DEF Steady, Onward, Steps, RestartLeavesNothingKnown

LEMMA RunNext == ASSUME RunInv, Next PROVE RunInv' /\ Steps
<1>1. visit' = visit
  BY DEF Next
<1>2. CASE Mine \/ Finalize \/ ServiceActs \/ OtherVisitor \/ Poll
  BY <1>1, <1>2, KeptByChain, KeptByOther, KeptByPoll, SteadySteps
<1>3. CASE ClickFree \/ \E k \in visit.Missions : Click(k)
  BY <1>1, <1>3, KeptByClick, KeptByClickFree, SteadySteps
<1>4. CASE RecoverReceipt \/ \E m \in Ops : Preflight(m) \/ Broadcast(m) \/ Answer(m) \/ Receipt(m)
  BY <1>1, <1>4, KeptByPreflight, KeptByBroadcast, KeptByAnswer, KeptByReceipt, KeptByRecoverReceipt, SteadySteps
<1>5. CASE Commit \/ ReconcileNow \/ Restore \/ Bookkeep \/ Navigates \/ Adopt \/ Continue \/ Leave
  BY <1>1, <1>5, KeptByCommit, KeptByReconcileNow, KeptByRestore, KeptByBookkeep, KeptByNavigates, KeptByAdopt,
     KeptByContinue, KeptByLeave, SteadySteps
<1>6. CASE ChooseDecision \/ AskAttestation \/ Called \/ DecryptReason \/ Resume \/ Reload
  BY <1>1, <1>6, KeptByChooseDecision, KeptByAskAttestation, KeptByCalled, KeptByDecryptReason, KeptByResume,
     KeptByReload, SteadySteps
<1>7. CASE Effects
  BY <1>1, <1>7, KeptByEffects DEF Steps, RestartLeavesNothingKnown
<1>8. CASE RestartBegin
  BY <1>1, <1>8, KeptByRestartBegin DEF Steps
<1>9. CASE RestartEnds
  BY <1>1, <1>9, KeptByRestartEnds DEF Steps
<1> QED BY <1>2, <1>3, <1>4, <1>5, <1>6, <1>7, <1>8, <1>9 DEF Next

LEMMA RunStutters == ASSUME RunInv, UNCHANGED <<visit, vars>> PROVE RunInv'
BY DEF RunInv, vars, chain, session, payment, page

(* The types, of every visit.                                              *)
LEMMA TypesHold == ASSUME RunInv PROVE GuidedRunTypeOK
<1>1. /\ ReqInv(visit, req) /\ SeenInv(req, seen) /\ TrackInv(visit, req, track) /\ OpInv(visit, req, op)
      /\ PageInv(req, active, att, flow) /\ SessInv(visit, req, store) /\ SessInv(visit, req, view)
  BY Facts DEF RunInv
<1>2. \A i : Mined(req, i) => i \in DOMAIN req /\ i \in 0 .. Len(req)
  BY <1>1 DEF Mined, ReqInv
<1>3. \A i \in DOMAIN req : req[i].state \in {"pool", "reverted"} \cup InFlight \cup Terminal
                             /\ req[i].run \in 0..visit.MaxRuns /\ req[i].origin \in {"none", "user", "timeout"}
  <2>1. \A i \in DOMAIN req : req[i] \in Request(visit)
    BY <1>1 DEF ReqInv
  <2> QED BY <2>1 DEF Request
<1>4. DOMAIN seen \subseteq DOMAIN req /\ att \subseteq DOMAIN req /\ active \in 0..Len(req)
  <2>1. 0 \in 0 .. Len(req)
    BY <1>1 DEF ReqInv
  <2> QED BY <1>1, <1>2, <2>1 DEF SeenInv, PageInv
<1>5. \A s \in {store, view} : \A k \in PaymentMissions : s.m[k].request \in 0..Len(req)
  <2>1. 0 \in 0 .. Len(req)
    BY <1>1 DEF ReqInv
  <2> QED BY <1>1, <1>2, <2>1, PaymentsAre DEF SessInv
<1>6. track.tx \in 0..Len(req) /\ track.id \in {0, track.tx}
  BY <1>1 DEF TrackInv
<1>7. (\A m \in Ops : (Op(m).tx # 0) <=> Op(m).at \in {"sent", "waiting"}) /\ flow \in {"none", "busy", "recovering"}
  BY <1>1, OpIs DEF OpInv, PageInv
<1> QED BY <1>3, <1>4, <1>5, <1>6, <1>7 DEF GuidedRunTypeOK

LEMMA RunHolds == Spec => []RunInv
<1>1. RunInv /\ [Next]_<<visit, vars>> => RunInv'
  BY RunNext, RunStutters
<1> QED BY RunInit, <1>1, PTL DEF Spec

(* A Restart leaves nothing it knows of in flight, and a complete mission      *)
(* stays so while neither a Restart nor a save is under way (restartDemo,      *)
(* demo-session.ts 278).                                                       *)
THEOREM GuidedStepsHold == Spec => GuidedSteps
<1> DEFINE Step == RestartLeavesNothingKnown /\ (rs.at = "idle" /\ pend = NoSession => TerminalStays)
<1>1. RunInv /\ Next => Step
  <2> SUFFICES ASSUME RunInv, Next PROVE Step
    OBVIOUS
  <2>1. Steps
    BY RunNext
  <2>2. ASSUME Steady PROVE TerminalStays
    <3>1. \A k \in Payments : (Complete(store, k) <=> Done(k, store.m[k])) /\ (Complete(store', k) <=> Done(k, store'.m[k]))
      BY CompleteIs
    <3> QED BY <2>2, <3>1, PaymentsAre DEF Steady, Onward, TerminalStays
  <2> QED BY <2>1, <2>2 DEF Steps, TerminalStays
<1>2. RunInv /\ [Next]_<<visit, vars>> => [Step]_<<visit, vars>>
  BY <1>1
<1> QED BY RunHolds, <1>2, PTL DEF Spec, GuidedSteps

-----------------------------------------------------------------------------
(* Of a visit of one run, alone on its mandates: true evidence.             *)
EvOf(P, k, p) ==
    p.request # 0 =>
        /\ P[p.request].mission = k
        /\ k = "routine" /\ p.outcome = "executed" => P[p.request].state = "executed"
        /\ k = "violation" /\ p.outcome = "blocked" => P[p.request].state = "blocked"
        /\ k = "approval" /\ p.confirmed =>
              P[p.request].origin = "user"
              /\ P[p.request].state = IF p.decision = "approve" THEN "executed" ELSE "cancelled"
Ev(P, s) == \A k \in Payments : EvOf(P, k, s.m[k])
OwnOf(P, o) ==
    /\ o.tx # 0 => P[o.tx].mission = o.mission
    /\ o.at \in {"sending", "sent", "waiting"} => o.run = 1
Owned(P, O) == \A o \in O : OwnOf(P, o)
OwnInv ==
    /\ rs = NoRestart
    /\ Ev(req, store) /\ (pend # NoSession => Ev(req, pend))
    /\ \A i \in DOMAIN req : req[i].mission # "free" => req[i].run = 1
    /\ track.tx # 0 => req[track.tx].mission = track.mission /\ track.run = 1
    /\ Owned(req, Submissions)

(* Missions in order.                                                       *)
rank(k) == CASE k = "routine" -> 1 [] k = "approval" -> 2 [] OTHER -> 3
Past(s, k) == \A j \in Payments : rank(j) < rank(k) => Complete(s, j)
OrderInv ==
    /\ pend = NoSession
    /\ \A i \in DOMAIN req : req[i].mission \in Payments /\ Past(store, req[i].mission)
    /\ \A o \in Submissions : o # Idle => o.mission \in Payments /\ Past(store, o.mission)
    /\ missionOf \in Payments \cup {"none"}

(* Payments of a mission one after the other.                               *)
Dead(P, i) == P[i].state \in {"expired", "reverted"} \/ P[i].origin = "timeout"
Follows(P, s, o, t) ==
    \A i \in DOMAIN P :
        /\ ~Dead(P, i) => i \in {o.tx, t.tx, s.m[P[i].mission].request}
        /\ P[i].state # "reverted" => i \in {o.tx, t.tx} \/ s.m[P[i].mission].request # 0
Pays(P, s, o, t) ==
    o # Idle =>
        /\ \A i \in DOMAIN P : rank(P[i].mission) <= rank(o.mission)
        /\ o.at \in {"preflight", "sending"} => \A i \in DOMAIN P : P[i].mission = o.mission => Dead(P, i)
        /\ o.at \in {"preflight", "sending", "sent"} /\ t.tx # 0 => t.mission # o.mission
        /\ o.tx # 0 => o.tx = Len(P)
        /\ o.at = "waiting" =>
              /\ t.tx \in {0, o.tx}
              /\ t.tx = 0 => \/ P[o.tx].state = "reverted"
                             \/ s.m[o.mission].request # 0 /\ (Dead(P, o.tx) \/ s.m[o.mission].request = o.tx)
        /\ o.replace \/ \A i \in DOMAIN P : P[i].mission = o.mission /\ i # o.tx => P[i].state = "reverted"
Points(P, s, t) ==
    t.tx # 0 =>
        /\ \A i \in DOMAIN P : P[i].mission = t.mission => i <= t.tx
        /\ t.id = 0 /\ ~t.replace => \A i \in DOMAIN P : P[i].mission = t.mission /\ i # t.tx => P[i].state = "reverted"
        /\ t.id # 0 => s.m[t.mission].request = t.id
Single(P) == \A i, j \in DOMAIN P : i < j /\ P[i].mission = P[j].mission => Dead(P, i)
OnceOf(P, s, o, t) == Single(P) /\ Follows(P, s, o, t) /\ Pays(P, s, o, t) /\ Points(P, s, t)
OnceInv == away = <<>> /\ OnceOf(req, store, op, track)

(* The first mission, with free payments beside it.                         *)
Routines(P) == {i \in DOMAIN P : P[i].mission = "routine"}
Bound(s) == s.m["routine"].request
\* The stored session does not know of the payment, or will not.
Loose(P, S, s, e) == Bound(s) = 0 \/ (e # NoSession /\ Bound(e) = 0 /\ Routines(P) \cap DOMAIN S = {})
\* Somebody watches a request that was not polled yet: its submission, or the page that
\* recovers its receipt or follows it.
Held(i, t, f, a) == t.tx = i /\ (t.id # 0 => f # "none" /\ a = i)
Watched(i, o, t, f, a) ==
    \/ o.tx = i /\ (o.at = "waiting" => Held(i, t, f, a))
    \/ o = Idle /\ Held(i, t, f, a) /\ (t.id = 0 => f = "recovering")
Tidy(P, S, s, o, t, f, a) ==
    /\ \A i \in Routines(P) : P[i].state # "reverted"
    /\ \A i, j \in Routines(P) : i < j => P[i].state \in Terminal
    /\ o.at \in {"preflight", "sending"} /\ o.mission = "routine" => \A i \in Routines(P) : P[i].state \in Terminal
    /\ \A i \in Routines(P) \ DOMAIN S : Watched(i, o, t, f, a)
    /\ Bound(s) # 0 => (o = Idle \/ o.tx = Bound(s)) /\ f # "none" /\ a = Bound(s) /\ t.id = Bound(s)
\* A free payment is not followed as the routine one, but while that is recovered.
Apart(P, t, a, k) ==
    a # 0 /\ P[a].mission = "free" /\ k = "routine" => t.tx # 0 /\ t.id = 0 /\ t.mission = "routine"
FirstOp(o, t) ==
    /\ o.at # "idle" => o.mission \in {"routine", "free"}
    /\ o.at = "waiting" => t.tx = 0 \/ (t.tx = o.tx /\ t.mission = o.mission)
FirstInv ==
    /\ faults = 0 /\ calls = {} /\ away = <<>> /\ FirstOp(op, track)
    /\ \A i \in DOMAIN req : req[i].mission \in {"routine", "free"}
    /\ \A i \in DOMAIN seen : seen[i].state # "awaiting"
    /\ Loose(req, seen, store, pend) =>
          Apart(req, track, active, missionOf) /\ Tidy(req, seen, store, op, track, flow, active)

-----------------------------------------------------------------------------
(***************************************************************************)
(* What a session records stays true.                                      *)
(***************************************************************************)

LEMMA EvGrows ==
    ASSUME NEW v, NEW P, NEW Q, ReqInv(v, P), Grows(P, Q), NEW s, SessInv(v, P, s), Ev(P, s) PROVE Ev(Q, s)
<1> SUFFICES ASSUME NEW k \in Payments PROVE EvOf(Q, k, s.m[k])
  BY DEF Ev
<1>1. PICK r, p : p = s.m[k] /\ r = p.request
  OBVIOUS
<1>2. CASE r # 0
  <2>1. Mined(P, r) /\ EvOf(P, k, p)
    BY <1>1, <1>2 DEF SessInv, Ev
  <2>2. RequestOK(P[r]) /\ Q[r].mission = P[r].mission /\ (P[r].state \in Terminal => Q[r] = P[r])
    BY <2>1 DEF ReqInv, Mined, Grows
  <2> QED BY <1>1, <1>2, <2>1, <2>2 DEF EvOf, RequestOK, Terminal
<1> QED BY <1>1, <1>2 DEF EvOf

LEMMA EvSame == ASSUME NEW P, NEW k, NEW p, NEW q, SameProgress(q, p), EvOf(P, k, p) PROVE EvOf(P, k, q)
BY DEF SameProgress, EvOf

LEMMA EvCopy == ASSUME NEW P, NEW s, NEW n, Evid(n, s), Ev(P, s) PROVE Ev(P, n)
<1>1. \A k \in Payments : SameProgress(n.m[k], s.m[k])
  BY DEF Evid, Payments, Keys
<1> QED BY <1>1, EvSame DEF Ev

LEMMA EvMission ==
    ASSUME NEW P, NEW s, NEW n, NEW k, OnlyMission(n, s, k), Ev(P, s), EvOf(P, k, n.m[k]) PROVE Ev(P, n)
<1>1. \A j \in Payments \ {k} : SameProgress(n.m[j], s.m[j])
  BY DEF OnlyMission, Payments, Keys
<1> QED BY <1>1, EvSame DEF Ev

LEMMA EvBind ==
    ASSUME NEW P, NEW s, Shape(s), Ev(P, s), NEW k \in Payments, NEW id, P[id].mission = k, NEW replace
    PROVE  Ev(P, BindRequest(s, k, id, replace))
<1>1. PICK n : n = BindRequest(s, k, id, replace)
  OBVIOUS
<1>2. BoundAs(s, n, k, id, replace)
  BY <1>1, BoundIs DEF Payments, Keys
<1>3. n = s \/ (OnlyMission(n, s, k) /\ EvOf(P, k, n.m[k]))
  BY <1>2 DEF BoundAs, EvOf
<1> QED BY <1>1, <1>3, EvMission

LEMMA EvExecuted ==
    ASSUME NEW P, NEW s, Shape(s), Ev(P, s), NEW id, P[id].mission = "routine", P[id].state = "executed"
    PROVE  Ev(P, RoutineExecuted(s, id))
<1>1. PICK n : n = RoutineExecuted(s, id)
  OBVIOUS
<1>2. ExecutedAs(s, n, id)
  BY <1>1, ExecutedIs
<1>3. n = s \/ (OnlyMission(n, s, "routine") /\ EvOf(P, "routine", n.m["routine"]))
  BY <1>2 DEF ExecutedAs, EvOf
<1> QED BY <1>1, <1>3, EvMission

LEMMA EvDecide ==
    ASSUME NEW P, NEW s, Shape(s), Ev(P, s), NEW id, RequestOK(P[id]), P[id].origin = "user", NEW action,
           action = IF P[id].state = "executed" THEN "approve" ELSE "reject"
    PROVE  Ev(P, Decide(s, id, action))
<1>1. PICK n : n = Decide(s, id, action)
  OBVIOUS
<1>2. DecidedAs(s, n, id, action)
  BY <1>1, DecideIs
<1>3. n = s \/ (OnlyMission(n, s, "approval") /\ EvOf(P, "approval", n.m["approval"]))
  BY <1>2 DEF DecidedAs, EvOf, RequestOK
<1> QED BY <1>1, <1>3, EvMission

LEMMA EvReasoned ==
    ASSUME NEW P, NEW s, Shape(s), Ev(P, s), NEW id, P[id].mission = "violation", P[id].state = "blocked"
    PROVE  Ev(P, ReasonDecrypted(ViolationBlocked(s, id), id))
<1>1. PICK n : n = ReasonDecrypted(ViolationBlocked(s, id), id)
  OBVIOUS
<1>2. ReasonedAs(s, n, id)
  BY <1>1, ReasonedIs
<1>3. n = s \/ (OnlyMission(n, s, "violation") /\ EvOf(P, "violation", n.m["violation"]))
  BY <1>2 DEF ReasonedAs, EvOf
<1> QED BY <1>1, <1>3, EvMission

LEMMA EvReconcile ==
    ASSUME NEW v, NEW P, ReqInv(v, P), NEW S, SeenInv(P, S), NEW s, Shape(s), Ev(P, s) PROVE Ev(P, Reconcile(s, S))
<1>1. PICK n : n = Reconcile(s, S)
  OBVIOUS
<1>2. ToldAll(S, s, n)
  BY <1>1, ReconcileIs, SeenDomain
<1>3. ASSUME NEW k \in Payments PROVE EvOf(P, k, n.m[k])
  <2>1. PICK p, q : p = s.m[k] /\ q = n.m[k]
    OBVIOUS
  <2>2. Told(S, s.run, k, p, q) /\ EvOf(P, k, p)
    BY <1>2, <2>1 DEF ToldAll, Ev
  <2>3. CASE SameProgress(q, p)
    BY <2>1, <2>2, <2>3, EvSame
  <2>4. CASE ~SameProgress(q, p)
    <3>1. PICK r : r = q.request
      OBVIOUS
    <3>2. /\ r \in RunBound(s.run, k, S)
          /\ k = "routine" /\ q.outcome = "executed" => (p.request = r /\ p.outcome = "executed") \/ S[r].state = "executed"
          /\ k = "violation" /\ q.outcome = "blocked" => (p.request = r /\ p.outcome = "blocked") \/ S[r].state = "blocked"
          /\ k = "approval" /\ q.confirmed => p.request = r /\ p.confirmed /\ p.decision = q.decision
      BY <2>2, <2>4, <3>1 DEF Told
    <3>3. r \in DOMAIN S /\ S[r].mission = k
      BY <3>2 DEF RunBound
    <3>4. Mined(P, r) /\ P[r].mission = k /\ (S[r].state \in Terminal => P[r] = S[r])
      BY <3>3 DEF SeenInv
    <3> QED BY <2>1, <2>2, <3>1, <3>2, <3>4 DEF EvOf, Terminal
  <2> QED BY <2>3, <2>4
<1> QED BY <1>1, <1>3 DEF Ev

\* The actions that save.
LEMMA EvSave ==
    ASSUME OwnInv, NEW n, Ev(req, n), Save(n) PROVE Ev(req, store') /\ (pend' # NoSession => Ev(req, pend'))
BY DEF OwnInv, Save

LEMMA EvSaveFor ==
    ASSUME OwnInv, NEW n, NEW run, Ev(req, n), SaveFor(run, n) PROVE Ev(req, store') /\ (pend' # NoSession => Ev(req, pend'))
<1>1. CASE run = store.run
  BY <1>1, EvSave DEF SaveFor
<1>2. CASE run # store.run
  BY <1>2 DEF SaveFor, session, OwnInv
<1> QED BY <1>1, <1>2

LEMMA EvUnsaved ==
    ASSUME OwnInv, UNCHANGED session PROVE Ev(req, store') /\ (pend' # NoSession => Ev(req, pend'))
BY DEF OwnInv, session

\* The visit of one run, alone on its mandates.
Own == RunInv /\ OwnVisit /\ OwnInv

LEMMA OwnFacts ==
    ASSUME Own
    PROVE  /\ store.run = 1 /\ view.run = 1 /\ Shape(store) /\ Shape(view) /\ Ev(req, view)
           /\ \A i \in DOMAIN req : RequestOK(req[i])
           /\ (track.tx # 0 => track.tx \in DOMAIN req) /\ (\A o \in Submissions : o.tx # 0 => o.tx \in DOMAIN req)
           /\ rs = NoRestart /\ ReqInv(visit, req) /\ SeenInv(req, seen)
<1>1. store.run = 1 /\ view.run = 1
  BY Facts DEF Own, OwnVisit, SessInv
<1>2. Shape(store) /\ Shape(view) /\ Ev(req, view)
  BY Facts, EvCopy DEF Own, OwnInv, RunInv, CopiesInv
<1>3. /\ ReqInv(visit, req) /\ TrackInv(visit, req, track) /\ SeenInv(req, seen)
      /\ \A o \in Submissions : OpInv(visit, req, o)
  BY SubmissionsAre DEF Own, RunInv
<1>4. (track.tx # 0 => track.tx \in DOMAIN req) /\ (\A o \in Submissions : o.tx # 0 => o.tx \in DOMAIN req)
  BY <1>3 DEF TrackInv, OpInv, ReqInv
<1> QED BY <1>1, <1>2, <1>3, <1>4 DEF ReqInv, Own, OwnInv

OwnTrack(t) == t.tx # 0 => req[t.tx].mission = t.mission /\ t.run = 1

LEMMA OwnKeeps ==
    ASSUME Own, req' = req, rs' = NoRestart, Ev(req, store'), pend' # NoSession => Ev(req, pend'),
           OwnTrack(track'), Owned(req, Submissions')
    PROVE  OwnInv'
BY DEF Own, OwnInv, OwnTrack, Owned

LEMMA OwnIs ==
    ASSUME Own
    PROVE  /\ OwnTrack(track) /\ OwnTrack(NoTrack) /\ OwnOf(req, Idle) /\ Owned(req, Submissions)
           /\ \A m \in Ops : OwnOf(req, Op(m))
BY SubmissionsAre DEF Own, OwnInv, OwnTrack, Owned, OwnOf, NoTrack, Idle

LEMMA OwnSubmits ==
    ASSUME Own, NEW o, OwnOf(req, o), Submissions' \subseteq Submissions \cup {o} PROVE Owned(req, Submissions')
BY OwnIs DEF Owned

LEMMA OwnSame == ASSUME Own, UNCHANGED <<op, away>> PROVE Owned(req, Submissions')
BY OwnIs DEF Submissions

LEMMA OwnGrows ==
    ASSUME Own, Grows(req, req') PROVE Owned(req', Submissions)
<1>1. \A i \in DOMAIN req : req'[i].mission = req[i].mission
  BY DEF Grows
<1> QED BY <1>1, OwnIs, OwnFacts DEF Owned, OwnOf

LEMMA OwnByChain == ASSUME Own, Mine \/ Finalize \/ ServiceActs PROVE OwnInv'
<1>1. /\ Grows(req, req') /\ DOMAIN req' = DOMAIN req
      /\ UNCHANGED <<seen, loaded, session, payment, page, calls, rs, faults>>
  BY ChainTurns DEF Own
<1>2. \A i \in DOMAIN req : req'[i].mission = req[i].mission /\ req'[i].run = req[i].run
  BY <1>1 DEF Grows
<1>3. SessInv(visit, req, store) /\ ReqInv(visit, req) /\ (pend # NoSession => SessInv(visit, req, pend))
  BY Facts DEF Own, RunInv, CopiesInv
<1>4. Ev(req', store) /\ (pend # NoSession => Ev(req', pend))
  BY <1>1, <1>3, EvGrows DEF Own, OwnInv
<1>5. Owned(req', Submissions')
  BY <1>1, OwnGrows DEF Submissions, payment
<1> QED BY <1>1, <1>2, <1>4, <1>5, OwnFacts DEF Own, OwnInv, session, payment

LEMMA OwnByStart ==
    ASSUME Own, NEW k \in Payments \cup {"free"}, NEW replace \in BOOLEAN, Start(k, replace), away' = away
    PROVE  Owned(req, Submissions')
<1>1. op'.at = "preflight" /\ op'.tx = 0
  BY StartIs DEF Own
<1> QED BY <1>1, OwnSubmits DEF OwnOf, Submissions

LEMMA OwnByClick == ASSUME Own, NEW k \in visit.Missions, Click(k) PROVE OwnInv'
<1>1. k \in Payments /\ UNCHANGED <<chain, away, active, att, restore, calls, rs, faults>>
  BY VisitIs, ClickIs DEF Own
<1>2. CASE Begins(k)
  <2>1. Owned(req, Submissions') /\ OwnTrack(track')
    BY <1>1, <1>2, OwnByStart, OwnSame, OwnIs DEF Begins
  <2> QED BY <1>1, <1>2, <2>1, OwnKeeps, EvUnsaved, OwnFacts DEF Own, chain, Begins
<1>3. CASE Rebinds(k)
  <2>1. req[track.id].mission = k
    BY <1>3, OwnIs DEF Rebinds, Tracked, OwnTrack, Own, RunInv, TrackInv
  <2>2. Ev(req, BindRequest(store, k, track.id, track.replace))
    BY <1>1, <2>1, OwnFacts, EvBind DEF Own, OwnInv
  <2>3. Ev(req, store') /\ (pend' # NoSession => Ev(req, pend'))
    BY <1>3, <2>2, EvSave DEF Own, Rebinds
  <2> QED BY <1>1, <1>3, <2>3, OwnKeeps, OwnIs, OwnSame, OwnFacts DEF chain, Rebinds
<1>4. CASE Recovers(k)
  BY <1>1, <1>4, OwnKeeps, OwnIs, OwnSame, EvUnsaved, OwnFacts DEF Own, chain, Recovers
<1> QED BY <1>2, <1>3, <1>4, ClickIs

LEMMA OwnByClickFree == ASSUME Own, ClickFree PROVE OwnInv'
<1>1. Start("free", FALSE) /\ UNCHANGED <<chain, session, track, away, page, calls, rs, faults>>
  BY DEF ClickFree
<1>2. Owned(req, Submissions')
  BY <1>1, OwnByStart
<1> QED BY <1>1, <1>2, OwnKeeps, OwnIs, EvUnsaved, OwnFacts DEF Own, chain

LEMMA OwnByOver ==
    ASSUME Own, NEW m \in Ops, NEW f, Becomes(m, Idle, f) PROVE Owned(req, Submissions')
BY BecomesIs, OwnSubmits, OwnIs DEF Own

LEMMA OwnByPreflight == ASSUME Own, NEW m \in Ops, Preflight(m) PROVE OwnInv'
<1>1. Op(m).at = "preflight" /\ UNCHANGED <<chain, session, track, page, calls, rs, faults>>
  BY DEF Preflight
<1>2. Owned(req, Submissions')
  <2>1. CASE Becomes(m, Sending(Op(m)), flow)
    <3>1. OwnOf(req, Sending(Op(m)))
      BY <1>1, SendingIs, OwnFacts DEF Own, OwnOf
    <3> QED BY <2>1, <3>1, BecomesIs, OwnSubmits DEF Own
  <2>2. CASE Over(m)
    BY <2>2, OwnByOver DEF Over
  <2> QED BY <2>1, <2>2 DEF Preflight, Sending
<1> QED BY <1>1, <1>2, OwnKeeps, OwnIs, EvUnsaved, OwnFacts DEF Own, chain

LEMMA OwnByBroadcast == ASSUME Own, NEW m \in Ops, Broadcast(m) PROVE OwnInv'
<1>1. Op(m).at = "sending" /\ UNCHANGED <<seen, loaded, session, track, page, calls, rs, faults>>
  BY DEF Broadcast
<1>2. CASE Over(m) /\ UNCHANGED req
  <2>1. Owned(req, Submissions')
    BY <1>2, OwnByOver DEF Over
  <2> QED BY <1>1, <1>2, <2>1, OwnKeeps, OwnIs, EvUnsaved, OwnFacts DEF Own
<1>3. CASE req' = Append(req, Broadcasted(Op(m))) /\ Becomes(m, Sent(Op(m)), flow)
  <2>1. PICK o, r, n : o = Op(m) /\ r = Broadcasted(o) /\ n = Sent(o)
    OBVIOUS
  <2>2. /\ Grows(req, req') /\ DOMAIN req' = DOMAIN req \cup {Len(req) + 1}
        /\ req'[Len(req) + 1] = r /\ \A i \in DOMAIN req : req'[i] = req[i]
        /\ n.tx = Len(req) + 1 /\ n.mission = o.mission /\ n.run = o.run
    BY <1>1, <1>3, <2>1, BroadcastIs DEF Own
  <2>3. o.run = 1 /\ r.mission = o.mission /\ (o.mission # "free" => r.run = 1)
    BY <1>1, <2>1, OwnIs DEF OwnOf, Broadcasted
  <2>4. SessInv(visit, req, store) /\ ReqInv(visit, req) /\ (pend # NoSession => SessInv(visit, req, pend))
    BY Facts DEF Own, RunInv, CopiesInv
  <2>5. Ev(req', store) /\ (pend # NoSession => Ev(req', pend))
    BY <2>2, <2>4, EvGrows DEF Own, OwnInv
  <2>6. OwnOf(req', n) /\ Owned(req', Submissions)
    BY <2>2, <2>3, OwnGrows DEF OwnOf
  <2>7. Owned(req', Submissions')
    BY <1>3, <2>1, <2>6, BecomesIs DEF Own, Owned
  <2>8. track.tx # 0 => req'[track.tx].mission = track.mission /\ track.run = 1
    BY <2>2, OwnFacts DEF Own, OwnInv
  <2> QED BY <1>1, <2>2, <2>3, <2>5, <2>7, <2>8, OwnFacts DEF Own, OwnInv, session
<1> QED BY <1>2, <1>3 DEF Broadcast, Broadcasted, Sent

LEMMA OwnByAnswer == ASSUME Own, NEW m \in Ops, Answer(m) PROVE OwnInv'
<1>1. Op(m).at = "sent" /\ UNCHANGED <<chain, session, active, att, restore, calls, rs>>
  BY DEF Answer
<1>2. OwnTrack(track') /\ Owned(req, Submissions')
  <2>1. CASE track' = Pointer(Op(m)) /\ Becomes(m, Waiting(Op(m)), flow)
    <3>1. PICK o, n : o = Op(m) /\ n = Waiting(o)
      OBVIOUS
    <3>2. /\ n.tx = o.tx /\ n.mission = o.mission /\ n.run = o.run /\ o.run = 1 /\ OwnOf(req, o)
          /\ track'.tx = o.tx /\ track'.mission = o.mission /\ track'.run = o.run
      BY <1>1, <2>1, <3>1, WaitingIs, OwnIs DEF Own, OwnOf
    <3>3. OwnOf(req, n) /\ OwnTrack(track')
      BY <3>2 DEF OwnOf, OwnTrack
    <3> QED BY <2>1, <3>1, <3>3, BecomesIs, OwnSubmits DEF Own
  <2>2. CASE Over(m) /\ UNCHANGED <<track, missionOf, due>>
    BY <2>2, OwnByOver, OwnIs DEF Over
  <2> QED BY <2>1, <2>2 DEF Answer, Pointer, Waiting
<1> QED BY <1>1, <1>2, OwnKeeps, EvUnsaved, OwnFacts DEF Own, chain

LEMMA OwnBySettle ==
    ASSUME Own, UNCHANGED <<chain, rs>>, Owned(req, Submissions'), NEW o, o.mission \in Payments \cup {"free"},
           o.run = 1, req[o.tx].mission = o.mission, NEW mounted, Settle(o, mounted)
    PROVE  OwnInv'
<1>1. CASE track' = NoTrack /\ UNCHANGED session
  BY <1>1, OwnKeeps, OwnIs, EvUnsaved, OwnFacts DEF Own, chain
<1>2. CASE req[o.tx].state # "reverted"
  <2>1. track' = Named(o) /\ Bind(1, o.mission, o.tx, o.replace)
    BY <1>2 DEF Settle, Named
  <2>2. OwnTrack(track')
    BY <2>1 DEF OwnTrack, Named
  <2>3. Ev(req, store') /\ (pend' # NoSession => Ev(req, pend'))
    <3>1. CASE o.mission = "free"
      BY <2>1, <3>1, EvUnsaved DEF Bind, Own
    <3>2. CASE o.mission # "free"
      <4>1. Ev(req, BindRequest(store, o.mission, o.tx, o.replace))
        BY <3>2, EvBind, OwnFacts DEF Own, OwnInv
      <4> QED BY <2>1, <3>2, <4>1, EvSaveFor DEF Bind, Own
    <3> QED BY <3>1, <3>2
  <2> QED BY <2>2, <2>3, OwnKeeps, OwnIs, OwnFacts DEF chain
<1> QED BY <1>1, <1>2 DEF Settle

LEMMA OwnByReceipt == ASSUME Own, NEW m \in Ops, Receipt(m) PROVE OwnInv'
<1>1. PICK o : o = Op(m)
  OBVIOUS
<1>2. o.at = "waiting" /\ UNCHANGED <<chain, att, restore, calls, rs, faults>>
  BY <1>1 DEF Receipt
<1>3. OpInv(visit, req, o) /\ OwnOf(req, o)
  BY <1>1, OpIs, OwnIs DEF Own
<1>4. o.mission \in Payments \cup {"free"} /\ o.run = 1 /\ req[o.tx].mission = o.mission
  BY <1>2, <1>3 DEF OwnOf, OpInv
<1>5. CASE Settle(o, m = 0) /\ Becomes(m, Idle, surface(o.tx))
  BY <1>2, <1>4, <1>5, OwnByOver, OwnBySettle
<1>6. CASE Becomes(m, Idle, "recovering") /\ UNCHANGED <<track, session, active, missionOf, due>>
  BY <1>2, <1>6, OwnByOver, OwnKeeps, OwnIs, EvUnsaved, OwnFacts DEF Own, chain
<1> QED BY <1>1, <1>5, <1>6 DEF Receipt

LEMMA OwnByRecoverReceipt == ASSUME Own, RecoverReceipt PROVE OwnInv'
<1>1. track.tx # 0 /\ Settle(track, TRUE) /\ UNCHANGED <<chain, op, away, rs>>
  BY DEF RecoverReceipt
<1>2. track.mission \in Payments \cup {"free"} /\ track.run = 1 /\ req[track.tx].mission = track.mission
  BY <1>1, OwnIs DEF OwnTrack, Own, RunInv, TrackInv
<1> QED BY <1>1, <1>2, OwnSame, OwnBySettle

LEMMA OwnBySession ==
    ASSUME Own, UNCHANGED <<chain, payment, rs>>, Ev(req, store'), pend' # NoSession => Ev(req, pend')
    PROVE  OwnInv'
BY OwnKeeps, OwnIs, OwnSame, OwnFacts DEF chain, payment

LEMMA OwnByCopies == ASSUME Own, Navigates \/ Commit \/ Effects PROVE OwnInv'
<1>1. UNCHANGED <<chain, payment, rs>>
  BY DEF Navigates, Commit, Effects
<1>2. CASE Navigates
  BY <1>1, <1>2, OwnBySession DEF Navigates, Own, OwnInv
<1>3. CASE Commit
  BY <1>1, <1>3, OwnBySession, OwnFacts DEF Commit, Own, OwnInv
<1>4. CASE Effects
  <2>1. PICK s : s = Reconcile(pend, seen) /\ store' \in {s, store} /\ pend # NoSession /\ pend' = NoSession
    BY <1>4 DEF Effects
  <2>2. Shape(pend) /\ Ev(req, pend)
    BY <2>1 DEF Own, OwnInv, RunInv, CopiesInv, SessInv
  <2>3. Ev(req, s)
    BY <2>1, <2>2, EvReconcile, OwnFacts
  <2> QED BY <1>1, <2>1, <2>3, OwnBySession DEF Own, OwnInv
<1> QED BY <1>2, <1>3, <1>4

LEMMA OwnByReconcileNow == ASSUME Own, ReconcileNow PROVE OwnInv'
<1>1. Save(Reconcile(view, seen)) /\ UNCHANGED <<chain, payment, page, calls, rs, faults>>
  BY DEF ReconcileNow
<1>2. Ev(req, Reconcile(view, seen))
  BY EvReconcile, OwnFacts
<1> QED BY <1>1, <1>2, OwnBySession, EvSave DEF Own

LEMMA OwnByResume == ASSUME Own, Resume PROVE OwnInv'
<1>1. PICK n : n = TourStep(ResumeSession(view), view.tour.step, view.route, view.role)
  OBVIOUS
<1>2. Save(n) /\ UNCHANGED <<chain, payment, page, calls, rs, faults>>
  BY <1>1 DEF Resume
<1>3. Evid(ResumeSession(view), view)
  BY OwnFacts, ResumeKeeps
<1>4. Evid(n, ResumeSession(view))
  BY <1>1, <1>3, TourStepKeeps DEF Evid
<1>5. Ev(req, n)
  BY <1>3, <1>4, EvCopy, OwnFacts
<1> QED BY <1>2, <1>5, OwnBySession, EvSave DEF Own

LEMMA OwnByDecryptReason == ASSUME Own, DecryptReason PROVE OwnInv'
<1>1. PICK i \in RunBound(store.run, "violation", seen) :
        seen[i].state = "blocked"
        /\ Save(ReasonDecrypted(ViolationBlocked(store, i), i)) /\ UNCHANGED <<chain, payment, page, calls, rs, faults>>
  BY DEF DecryptReason
<1>2. req[i].mission = "violation" /\ req[i].state = "blocked"
  BY <1>1, OwnFacts DEF RunBound, SeenInv, Terminal
<1>3. Ev(req, ReasonDecrypted(ViolationBlocked(store, i), i))
  BY <1>2, EvReasoned, OwnFacts DEF Own, OwnInv
<1> QED BY <1>1, <1>3, OwnBySession, EvSave DEF Own

LEMMA OwnByCalled == ASSUME Own, Called PROVE OwnInv'
<1>1. PICK c \in calls :
        /\ UNCHANGED <<chain, payment, active, missionOf, restore, rs, faults>>
        /\ \/ req[c.id].origin = "user" /\ SaveFor(c.run, Decide(store, c.id, userAction(c.id)))
           \/ UNCHANGED session
  BY DEF Called
<1>2. CASE req[c.id].origin = "user" /\ SaveFor(c.run, Decide(store, c.id, userAction(c.id)))
  <2>1. RequestOK(req[c.id])
    BY OwnFacts DEF Own, RunInv, CallsInv, Mined
  <2>2. Ev(req, Decide(store, c.id, userAction(c.id)))
    BY <1>2, <2>1, EvDecide, OwnFacts DEF Own, OwnInv, userAction
  <2> QED BY <1>1, <1>2, <2>2, OwnBySession, EvSaveFor DEF Own
<1>3. CASE UNCHANGED session
  BY <1>1, <1>3, OwnBySession, EvUnsaved DEF Own
<1> QED BY <1>1, <1>2, <1>3

LEMMA OwnByRest ==
    ASSUME Own, Poll \/ Restore \/ Adopt \/ Continue \/ Leave \/ ChooseDecision \/ AskAttestation \/ Reload
    PROVE  OwnInv'
<1>1. req' = req /\ rs' = NoRestart /\ store' = store
  BY RestoreIs, OwnFacts DEF Poll, Adopt, Continue, Leave, ChooseDecision, AskAttestation, Reload, chain, session
<1>2. track' \in {track, NoTrack}
  BY RestoreIs DEF Poll, Adopt, Continue, Leave, ChooseDecision, AskAttestation, Reload, payment
<1>3. Owned(req, Submissions')
  <2>1. CASE Leave
    BY <2>1, RemountIs, OwnSubmits, OwnIs DEF Leave, Own
  <2>2. CASE Reload
    <3>1. op' = Idle /\ away' = <<>>
      BY <2>2 DEF Reload
    <3>2. Submissions' \subseteq {Idle}
      BY <3>1 DEF Submissions
    <3> QED BY <3>2, OwnIs DEF Owned
  <2>3. CASE ~Leave /\ ~Reload
    <3>1. UNCHANGED <<op, away>>
      BY <2>3, RestoreIs DEF Poll, Adopt, Continue, ChooseDecision, AskAttestation, payment
    <3> QED BY <3>1, OwnSame
  <2> QED BY <2>1, <2>2, <2>3
<1>4. pend' # NoSession => Ev(req, pend')
  <2>1. CASE Reload
    <3>1. pend' \in {Hydrate(store), NoSession}
      BY <2>1 DEF Reload
    <3>2. Ev(req, Hydrate(store))
      BY OwnFacts, HydrateKeeps, EvCopy DEF Own, OwnInv
    <3> QED BY <3>1, <3>2
  <2>2. CASE ~Reload
    <3>1. pend' = pend
      BY <2>2, RestoreIs DEF Poll, Adopt, Continue, Leave, ChooseDecision, AskAttestation, session
    <3> QED BY <3>1 DEF Own, OwnInv
  <2> QED BY <2>1, <2>2
<1> QED BY <1>1, <1>2, <1>3, <1>4, OwnKeeps, OwnIs DEF Own, OwnInv

\* Whom the bookkeeping is for, and what it records.
Owner ==
    LET owners == {j \in PaymentMissions : store.m[j].request = active} IN
    IF active # 0 /\ owners # {} THEN CHOOSE x \in owners : TRUE ELSE "none"
OwnerOr(k) == IF Owner # "none" THEN Owner ELSE k
BookRun == IF Owner # "none" \/ track.tx = 0 THEN store.run ELSE track.run
Tracking == IF missionOf = "none" /\ track.id = active THEN track.mission ELSE missionOf
RoutinePaid == seen[active].state = "executed" /\ OwnerOr(Tracking) = "routine"
DecisionMade == active \in att /\ req[active].origin = "user" /\ OwnerOr(Tracking) = "approval"

LEMMA BookkeepIs ==
    ASSUME Bookkeep
    PROVE  IF \/ active \notin DOMAIN seen \/ seen[active].state \notin Terminal
              \/ (track.tx # 0 /\ track.run # store.run) \/ ~TracksLatest(Owner)
           THEN UNCHANGED <<session, payment>>
           ELSE /\ IF RoutinePaid THEN SaveFor(BookRun, RoutineExecuted(store, active))
                   ELSE IF DecisionMade THEN SaveFor(BookRun, Decide(store, active, userAction(active)))
                   ELSE UNCHANGED session
                /\ track' = IF RoutinePaid \/ DecisionMade \/ OwnerOr(Tracking) = "free" THEN NoTrack ELSE track
                /\ flow' = "none" /\ UNCHANGED <<op, away>>
BY DEF Bookkeep, Owner, OwnerOr, Tracking, BookRun, RoutinePaid, DecisionMade

LEMMA OwnerIs ==
    /\ Owner # "none" => Owner \in Payments /\ store.m[Owner].request = active
    /\ Owner = "none" /\ active # 0 => \A j \in Payments : store.m[j].request # active
<1>1. PICK owners : owners = {j \in PaymentMissions : store.m[j].request = active}
  OBVIOUS
<1>2. Owner = IF active # 0 /\ owners # {} THEN CHOOSE x \in owners : TRUE ELSE "none"
  BY <1>1 DEF Owner
<1>3. active # 0 /\ owners # {} => Owner \in owners
  BY <1>2
<1>4. "none" \notin owners
  BY <1>1 DEF PaymentMissions
<1> QED BY <1>1, <1>2, <1>3, <1>4, PaymentsAre

\* The bookkeeping takes no other payment for the routine one.
RoutineKnown ==
    active \in DOMAIN seen /\ missionOf = "routine" =>
        req[active].mission = "routine" \/ store.m["routine"].request # 0 \/ (track.tx # 0 /\ track.id = 0)

LEMMA OwnByBookkeep == ASSUME Own, RoutineKnown, Bookkeep PROVE OwnInv'
<1>1. UNCHANGED <<chain, active, missionOf, att, restore, calls, rs, faults, op, away>> /\ track' \in {track, NoTrack}
  BY DEF Bookkeep, payment
<1>2. PICK k, mission, run, routine, decided :
        /\ k = Owner /\ mission = OwnerOr(Tracking) /\ run = BookRun
        /\ routine = RoutinePaid /\ decided = DecisionMade
  OBVIOUS
<1>3. CASE UNCHANGED session
  BY <1>1, <1>3, OwnKeeps, OwnIs, OwnSame, EvUnsaved, OwnFacts DEF chain, Own
<1>4. CASE ~UNCHANGED session
  <2>1. /\ active \in DOMAIN seen /\ TracksLatest(k)
        /\ \/ routine /\ SaveFor(run, RoutineExecuted(store, active))
           \/ decided /\ SaveFor(run, Decide(store, active, userAction(active)))
    BY <1>2, <1>4, BookkeepIs
  <2>2. Mined(req, active) /\ RequestOK(req[active]) /\ (seen[active].state \in Terminal => req[active] = seen[active])
    BY <2>1, OwnFacts DEF SeenInv, Mined
  <2>3. active # 0
    BY <2>2, MinedIs, OwnFacts
  <2>4. k # "none" => k \in Payments /\ store.m[k].request = active /\ req[active].mission = k
    BY <1>2, <2>3, OwnerIs DEF Own, OwnInv, Ev, EvOf
  <2>5. k = "none" => \A j \in Payments : store.m[j].request # active
    BY <1>2, <2>3, OwnerIs
  <2>6. CASE routine /\ SaveFor(run, RoutineExecuted(store, active))
    <3>1. req[active].state = "executed"
      BY <1>2, <2>2, <2>6 DEF Terminal, RoutinePaid
    <3>2. CASE req[active].mission = "routine"
      <4>1. Ev(req, RoutineExecuted(store, active))
        BY <3>1, <3>2, EvExecuted, OwnFacts DEF Own, OwnInv
      <4> QED BY <1>1, <2>6, <4>1, EvSaveFor, OwnKeeps, OwnIs, OwnSame, OwnFacts DEF chain, Own
    <3>3. CASE req[active].mission # "routine"
      <4>1. k = "none" /\ missionOf = "routine"
        <5>1. k = "none" /\ Tracking = "routine"
          BY <1>2, <2>4, <2>6, <3>3 DEF RoutinePaid, OwnerOr
        <5>2. track.id = active => req[active].mission = track.mission
          BY <2>3, OwnIs DEF OwnTrack, Own, RunInv, TrackInv
        <5> QED BY <3>3, <5>1, <5>2 DEF Tracking
      <4>2. ~(track.tx # 0 /\ track.id = 0)
        BY <2>1, <2>3, <4>1 DEF TracksLatest
      <4>3. store.m["routine"].request \notin {0, active}
        BY <2>1, <2>5, <3>3, <4>1, <4>2 DEF RoutineKnown, Payments
      <4>4. RoutineExecuted(store, active) = store
        BY <4>3 DEF RoutineExecuted, MayRecord
      <4> QED BY <1>1, <2>6, <4>4, EvSaveFor, OwnKeeps, OwnIs, OwnSame, OwnFacts DEF chain, Own, OwnInv
    <3> QED BY <3>2, <3>3
  <2>7. CASE decided /\ SaveFor(run, Decide(store, active, userAction(active)))
    <3>1. Ev(req, Decide(store, active, userAction(active)))
      BY <1>2, <2>2, <2>7, EvDecide, OwnFacts DEF Own, OwnInv, userAction, DecisionMade
    <3> QED BY <1>1, <2>7, <3>1, EvSaveFor, OwnKeeps, OwnIs, OwnSame, OwnFacts DEF chain, Own
  <2> QED BY <2>1, <2>6, <2>7
<1> QED BY <1>3, <1>4

LEMMA NoOthers ==
    ASSUME Own
    PROVE  /\ ~OtherVisitor /\ ~RestartBegin /\ ~RestartEnds
           /\ (InOrder => ~ClickFree)
<1>1. ~OtherVisitor
  BY DEF OtherVisitor, Own, OwnVisit
<1>2. ~RestartBegin
  BY OwnFacts DEF RestartBegin, Own, OwnVisit
<1>3. ~RestartEnds
  BY OwnFacts DEF RestartEnds, NoRestart
<1>4. InOrder => ~ClickFree
  BY DEF ClickFree, InOrder
<1> QED BY <1>1, <1>2, <1>3, <1>4

LEMMA OwnNext == ASSUME Own, RoutineKnown, Next PROVE OwnInv'
<1>1. CASE Mine \/ Finalize \/ ServiceActs \/ \E k \in visit.Missions : Click(k)
  BY <1>1, OwnByChain, OwnByClick
<1>2. CASE ClickFree \/ RecoverReceipt \/ \E m \in Ops : Preflight(m) \/ Broadcast(m) \/ Answer(m) \/ Receipt(m)
  BY <1>2, OwnByClickFree, OwnByPreflight, OwnByBroadcast, OwnByAnswer, OwnByReceipt, OwnByRecoverReceipt
<1>3. CASE Commit \/ Effects \/ ReconcileNow \/ Navigates \/ DecryptReason \/ Called \/ Resume
  BY <1>3, OwnByCopies, OwnByReconcileNow, OwnByDecryptReason, OwnByCalled, OwnByResume
<1>4. CASE Poll \/ Restore \/ Adopt \/ Continue \/ Leave \/ ChooseDecision \/ AskAttestation \/ Reload \/ Bookkeep
  BY <1>4, OwnByRest, OwnByBookkeep
<1> QED BY <1>1, <1>2, <1>3, <1>4, NoOthers DEF Next

\* The evidence of the stored session is true.
LEMMA OwnEvidence == ASSUME Own PROVE EvidenceIsTrue
<1> SUFFICES ASSUME NEW k \in Payments, Complete(store, k)
             PROVE  LET p == store.m[k]
                        r == req[p.request]
                    IN  /\ r.run = store.run /\ r.mission = k
                        /\ CASE k = "routine" -> r.state = "executed"
                             [] k = "violation" -> r.state = "blocked"
                             [] OTHER -> r.origin = "user" /\ r.state = IF p.decision = "approve" THEN "executed" ELSE "cancelled"
  BY PaymentsAre DEF EvidenceIsTrue
<1>1. Done(k, store.m[k]) /\ EvOf(req, k, store.m[k])
  BY CompleteIs DEF Own, OwnInv, Ev
<1>2. store.m[k].request # 0
  BY <1>1 DEF Done
<1>3. store.m[k].request \in DOMAIN req
  BY <1>2, Facts DEF Own, SessInv, Mined
<1>4. req[store.m[k].request].mission = k /\ req[store.m[k].request].run = store.run
  BY <1>1, <1>2, <1>3, OwnFacts DEF EvOf, Own, OwnInv, Payments
<1>5. CASE k = "routine"
  BY <1>1, <1>2, <1>4, <1>5 DEF EvOf, Done
<1>6. CASE k = "violation"
  BY <1>1, <1>2, <1>4, <1>6 DEF EvOf, Done
<1>7. CASE k = "approval"
  BY <1>1, <1>2, <1>4, <1>7 DEF EvOf, Done
<1> QED BY <1>5, <1>6, <1>7 DEF Payments

-----------------------------------------------------------------------------
(***************************************************************************)
(* Missions in order.                                                      *)
(***************************************************************************)

\* Other actions than those of the chain, of the payment pipeline and of Restart.
Views == Commit \/ Effects \/ ReconcileNow \/ Restore \/ Bookkeep \/ Navigates \/ Adopt \/ Continue \/ Leave
Answers == ChooseDecision \/ AskAttestation \/ Called \/ DecryptReason \/ Resume \/ Reload

LEMMA ViewsAre ==
    ASSUME Views
    PROVE  /\ UNCHANGED <<req, rs>> /\ track' \in {track, NoTrack}
           /\ Leave \/ UNCHANGED <<op, away>>
<1>1. UNCHANGED <<req, rs>> /\ track' \in {track, NoTrack}
  BY RestoreIs DEF Views, Commit, Effects, ReconcileNow, Bookkeep, Navigates, Adopt, Continue, Leave, chain, payment
<1>2. Leave \/ UNCHANGED <<op, away>>
  BY RestoreIs DEF Views, Commit, Effects, ReconcileNow, Bookkeep, Navigates, Adopt, Continue, payment
<1> QED BY <1>1, <1>2

LEMMA AnswersAre ==
    ASSUME Answers
    PROVE  req' = req /\ track' = track /\ (UNCHANGED <<op, away>> \/ (op' = Idle /\ away' = <<>>))
BY DEF Answers, ChooseDecision, AskAttestation, Called, DecryptReason, Resume, Reload, chain, payment

\* Without a race between a commit and its save there is none to do.
LEMMA NoneToSave == ASSUME ~visit.Split, pend = NoSession, Next PROVE pend' = NoSession
<1>1. CASE Mine \/ Finalize \/ ServiceActs \/ OtherVisitor \/ Poll
  BY <1>1 DEF Mine, Finalize, ServiceActs, OtherVisitor, Poll, session
<1>2. CASE ClickFree \/ \E k \in visit.Missions : Click(k)
  BY <1>2, ClickIs DEF ClickFree, Begins, Rebinds, Recovers, session, Save
<1>3. CASE RecoverReceipt \/ \E m \in Ops : Preflight(m) \/ Broadcast(m) \/ Answer(m) \/ Receipt(m)
  BY <1>3 DEF Preflight, Broadcast, Answer, Receipt, RecoverReceipt, Settle, Bind, SaveFor, Save, session
<1>4. CASE Views
  <2>1. CASE Bookkeep
    BY <2>1, BookkeepIs DEF session, SaveFor, Save
  <2>2. CASE ~Bookkeep
    BY <1>4, <2>2, RestoreIs DEF Views, Commit, Effects, ReconcileNow, Navigates, Adopt, Continue, Leave, session, SaveFor, Save
  <2> QED BY <2>1, <2>2
<1>5. CASE Answers
  BY <1>5 DEF Answers, ChooseDecision, AskAttestation, Called, DecryptReason, Resume, Reload, session, SaveFor, Save
<1>6. CASE RestartBegin \/ RestartEnds
  BY <1>6 DEF RestartBegin, RestartEnds, Renewed, Save
<1> QED BY <1>1, <1>2, <1>3, <1>4, <1>5, <1>6 DEF Next, Views, Answers

LEMMA OwnSteady == ASSUME Own, Next, pend = NoSession PROVE RunInv' /\ Steady /\ store'.run = 1 /\ visit' = visit
<1>1. RunInv' /\ Steps /\ visit' = visit
  BY RunNext DEF Own, Next
<1>2. store'.run \in 1 .. visit.MaxRuns
  BY <1>1 DEF RunInv, CopiesInv, SessInv
<1>3. store'.run = 1 /\ rs.at = "idle"
  BY <1>2, OwnFacts DEF Own, OwnVisit, NoRestart
<1> QED BY <1>1, <1>3, OwnFacts DEF Steps

LEMMA PastStays == ASSUME Steady, NEW k, Past(store, k) PROVE Past(store', k)
<1>1. \A j \in Payments : Complete(store, j) => Complete(store', j)
  BY CompleteIs DEF Steady, Onward
<1> QED BY <1>1 DEF Past

LEMMA RankIs == rank("routine") = 1 /\ rank("approval") = 2 /\ rank("violation") = 3
BY DEF rank

LEMMA OrderRequests ==
    ASSUME Own, InOrder, OrderInv, Next, NEW i \in DOMAIN req'
    PROVE  \/ i \in DOMAIN req /\ req'[i].mission = req[i].mission
           \/ \E o \in Submissions : o # Idle /\ req'[i].mission = o.mission
<1>1. CASE Mine \/ Finalize \/ ServiceActs
  BY <1>1, ChainTurns DEF Own, Grows
<1>2. CASE \E m \in Ops : Broadcast(m) /\ req' # req
  <2>1. PICK m \in Ops : Broadcast(m) /\ req' # req
    BY <1>2
  <2>2. PICK o, r : o = Op(m) /\ r = Broadcasted(o)
    OBVIOUS
  <2>3. o.at = "sending" /\ o \in Submissions
    BY <2>1, <2>2, SubmissionsAre DEF Broadcast, Own
  <2>4. req' = Append(req, r) /\ Becomes(m, Sent(o), flow)
    BY <2>1, <2>2 DEF Broadcast, Broadcasted, Sent
  <2>5. /\ DOMAIN req' = DOMAIN req \cup {Len(req) + 1} /\ req'[Len(req) + 1] = r /\ \A j \in DOMAIN req : req'[j] = req[j]
    BY <2>2, <2>3, <2>4, BroadcastIs DEF Own
  <2>6. o # Idle /\ r.mission = o.mission
    BY <2>2, <2>3 DEF Idle, Broadcasted
  <2> QED BY <2>3, <2>5, <2>6
<1>3. CASE req' = req
  BY <1>3
<1>4. ~OtherVisitor
  BY NoOthers
<1>5. Poll \/ ClickFree \/ (\E k \in visit.Missions : Click(k)) \/ RecoverReceipt \/ RestartBegin \/ RestartEnds => req' = req
  BY DEF Poll, ClickFree, Click, RecoverReceipt, RestartBegin, RestartEnds, chain
<1>6. (\E m \in Ops : Preflight(m) \/ Answer(m) \/ Receipt(m)) => req' = req
  BY DEF Preflight, Answer, Receipt, chain
<1>7. Views \/ Answers => req' = req
  BY ViewsAre, AnswersAre
<1> QED BY <1>1, <1>2, <1>3, <1>4, <1>5, <1>6, <1>7 DEF Next, Views, Answers

\* A mission is open once those before it are complete.
LEMMA UnlockedIs ==
    ASSUME Own, InOrder, OrderInv, NEW k \in visit.Missions, Offered(k) PROVE k \in Payments /\ Past(store, k)
<1>1. k \in Payments /\ before(k) \in visit.Missions \cup {"none"}
  BY VisitIs DEF Own, InOrder
<1>2. CASE k = "routine"
  BY <1>2, RankIs DEF Past, Payments
<1>3. CASE k = "approval"
  <2>1. Complete(store, "routine")
    BY <1>1, <1>3 DEF Offered, Unlocked, before
  <2> QED BY <1>3, <2>1, RankIs DEF Past, Payments
<1>4. CASE k = "violation"
  <2>1. Complete(store, "approval")
    BY <1>1, <1>4 DEF Offered, Unlocked, before
  <2>2. "approval" \in Payments /\ "routine" \in Payments
    BY DEF Payments
  <2>3. store.m["approval"].request # 0 /\ EvOf(req, "approval", store.m["approval"])
    BY <2>1, <2>2, CompleteIs DEF Done, Own, OwnInv, Ev
  <2>4. store.m["approval"].request \in DOMAIN req
    BY <2>2, <2>3, Facts DEF Own, SessInv, Mined
  <2>5. req[store.m["approval"].request].mission = "approval"
    BY <2>3 DEF EvOf
  <2>6. Past(store, "approval")
    BY <2>4, <2>5 DEF OrderInv
  <2>7. Complete(store, "routine")
    BY <2>2, <2>6, RankIs DEF Past
  <2> QED BY <1>4, <2>1, <2>7, RankIs DEF Past, Payments
<1> QED BY <1>1, <1>2, <1>3, <1>4 DEF Payments

LEMMA OrderOp ==
    ASSUME Own, InOrder, OrderInv, Next, NEW o \in Submissions', o # Idle
    PROVE  o.mission \in Payments /\ Past(store, o.mission)
<1>1. \A n \in Submissions : n # Idle => n.mission \in Payments /\ Past(store, n.mission)
  BY DEF OrderInv
<1>2. CASE UNCHANGED <<op, away>>
  BY <1>1, <1>2 DEF Submissions
<1>3. CASE \E k \in visit.Missions : Click(k)
  <2>1. PICK k \in visit.Missions : Click(k)
    BY <1>3
  <2>2. k \in Payments /\ Past(store, k)
    BY <2>1, UnlockedIs DEF Click
  <2>3. UNCHANGED <<op, away>> \/ (away' = away /\ \E replace \in BOOLEAN : Start(k, replace))
    BY <2>1, ClickIs DEF Begins, Rebinds, Recovers
  <2>4. CASE away' = away /\ \E replace \in BOOLEAN : Start(k, replace)
    <3>1. op'.mission = k
      BY <2>2, <2>4, StartIs DEF Own
    <3>2. o \in Submissions \/ o = op'
      BY <2>4 DEF Submissions
    <3> QED BY <1>1, <2>2, <3>1, <3>2
  <2> QED BY <1>2, <2>3, <2>4
<1>4. CASE \E m \in Ops : Preflight(m) \/ Broadcast(m) \/ Answer(m) \/ Receipt(m)
  <2>1. PICK m \in Ops : Preflight(m) \/ Broadcast(m) \/ Answer(m) \/ Receipt(m)
    BY <1>4
  <2>2. PICK p : p = Op(m)
    OBVIOUS
  <2>3. p \in Submissions /\ p # Idle
    BY <2>1, <2>2, SubmissionsAre DEF Own, Preflight, Broadcast, Answer, Receipt, Idle
  <2>4. PICK n, f : Becomes(m, n, f) /\ (n = Idle \/ n.mission = p.mission)
    <3>1. CASE Preflight(m)
      BY <2>2, <3>1, SendingIs DEF Preflight, Sending, Over, Own
    <3>2. CASE Broadcast(m)
      <4>1. CASE req' = Append(req, Broadcasted(p)) /\ Becomes(m, Sent(p), flow)
        BY <2>2, <3>2, <4>1, BroadcastIs DEF Broadcast, Own
      <4>2. CASE Over(m)
        BY <4>2 DEF Over
      <4> QED BY <2>2, <3>2, <4>1, <4>2 DEF Broadcast, Broadcasted, Sent
    <3>3. CASE Answer(m)
      BY <2>2, <3>3, WaitingIs DEF Answer, Waiting, Over, Own
    <3>4. CASE Receipt(m)
      BY <3>4 DEF Receipt
    <3> QED BY <2>1, <3>1, <3>2, <3>3, <3>4
  <2>5. o \in Submissions \/ o = n
    BY <2>4, BecomesIs DEF Own
  <2> QED BY <1>1, <2>3, <2>4, <2>5
<1>5. CASE Leave
  <2>1. o \in Submissions
    BY <1>5, RemountIs DEF Leave, Own
  <2> QED BY <1>1, <2>1
<1>6. CASE op' = Idle /\ away' = <<>>
  BY <1>6 DEF Submissions
<1>7. Views => Leave \/ UNCHANGED <<op, away>>
  BY ViewsAre
<1>8. Answers => UNCHANGED <<op, away>> \/ (op' = Idle /\ away' = <<>>)
  BY AnswersAre
<1>9. ~ClickFree /\ ~OtherVisitor /\ ~RestartBegin /\ ~RestartEnds
  BY NoOthers
<1>10. Mine \/ Finalize \/ ServiceActs \/ Poll \/ RecoverReceipt => UNCHANGED <<op, away>>
  BY DEF Mine, Finalize, ServiceActs, Poll, RecoverReceipt, payment
<1> QED BY <1>2, <1>3, <1>4, <1>5, <1>6, <1>7, <1>8, <1>9, <1>10 DEF Next, Views, Answers

LEMMA OrderFollows == ASSUME Own, InOrder, OrderInv, Next PROVE missionOf' \in Payments \cup {"none"}
<1>1. missionOf \in Payments \cup {"none"} /\ \A i \in DOMAIN req : req[i].mission \in Payments
  BY DEF OrderInv
<1>2. track.tx # 0 => track.mission \in Payments
  BY <1>1, OwnFacts, OwnIs DEF OwnTrack
<1>3. \A m \in Ops : Op(m) # Idle => Op(m).mission \in Payments
  BY SubmissionsAre DEF OrderInv, Own
<1>4. CASE \E k \in visit.Missions : Click(k)
  BY <1>1, <1>4, VisitIs, ClickIs DEF Begins, Rebinds, Recovers, Own
<1>5. CASE \E m \in Ops : Answer(m)
  <2>1. PICK m \in Ops : Answer(m)
    BY <1>5
  <2>2. Op(m).at = "sent" /\ missionOf' \in {missionOf, IF m = 0 THEN op.mission ELSE missionOf}
    BY <2>1 DEF Answer
  <2>3. m = 0 => op # Idle /\ Op(m) = op
    BY <2>2 DEF Op, Idle
  <2> QED BY <1>1, <1>3, <2>2, <2>3
<1>6. CASE \E m \in Ops : Receipt(m)
  <2>1. PICK m \in Ops : Receipt(m)
    BY <1>6
  <2>2. Op(m) # Idle
    BY <2>1 DEF Receipt, Idle
  <2>3. missionOf' \in {missionOf, Op(m).mission}
    BY <2>1 DEF Receipt, Settle, Follow
  <2> QED BY <1>1, <1>3, <2>2, <2>3
<1>7. CASE RecoverReceipt
  BY <1>1, <1>2, <1>7 DEF RecoverReceipt, Settle, Follow
<1>8. CASE Restore
  <2>1. missionOf' \in {missionOf, track.mission} \/ RestoreTo(active', missionOf')
    BY <1>8, RestoreIs
  <2>2. missionOf' = track.mission => track.tx # 0 \/ missionOf' = missionOf \/ RestoreTo(active', missionOf')
    BY <1>8, RestoreIs
  <2> QED BY <1>1, <1>2, <2>1, <2>2 DEF RestoreTo
<1>9. CASE Adopt
  BY <1>9, PaymentsAre DEF Adopt, Follow, boundSeen
<1>10. Continue \/ Leave \/ Reload => missionOf' \in {missionOf, "none"}
  BY DEF Continue, Leave, Remounted, Reload
<1>11. Mine \/ Finalize \/ ServiceActs \/ Poll \/ (\E m \in Ops : Preflight(m) \/ Broadcast(m)) => missionOf' = missionOf
  BY DEF Mine, Finalize, ServiceActs, Poll, Preflight, Broadcast, page
<1>12. Commit \/ Effects \/ ReconcileNow \/ Bookkeep \/ Navigates \/ ChooseDecision \/ AskAttestation
         \/ Called \/ DecryptReason \/ Resume => missionOf' = missionOf
  BY DEF Commit, Effects, ReconcileNow, Bookkeep, Navigates, ChooseDecision, AskAttestation, Called, DecryptReason,
         Resume, page
<1>13. ~ClickFree /\ ~OtherVisitor /\ ~RestartBegin /\ ~RestartEnds
  BY NoOthers
<1> QED BY <1>1, <1>4, <1>5, <1>6, <1>7, <1>8, <1>9, <1>10, <1>11, <1>12, <1>13 DEF Next

LEMMA OrderNext == ASSUME Own, InOrder, OrderInv, Next PROVE OrderInv' /\ Steady /\ RunInv'
<1>1. Steady /\ RunInv' /\ pend' = NoSession
  BY OwnSteady, NoneToSave DEF OrderInv, InOrder
<1>2. \A k : Past(store, k) => Past(store', k)
  BY <1>1, PastStays
<1>3. ASSUME NEW i \in DOMAIN req' PROVE req'[i].mission \in Payments /\ Past(store', req'[i].mission)
  BY <1>2, OrderRequests DEF OrderInv
<1>4. \A o \in Submissions' : o # Idle => o.mission \in Payments /\ Past(store', o.mission)
  BY <1>2, OrderOp
<1> QED BY <1>1, <1>3, <1>4, OrderFollows DEF OrderInv

LEMMA OrderKnows == ASSUME Own, InOrder, OrderInv PROVE RoutineKnown
<1> SUFFICES ASSUME active \in DOMAIN seen, req[active].mission # "routine" PROVE store.m["routine"].request # 0
  BY DEF RoutineKnown
<1>1. active \in DOMAIN req
  BY OwnFacts DEF SeenInv, Mined
<1>2. req[active].mission \in Payments /\ Past(store, req[active].mission)
  BY <1>1 DEF OrderInv
<1>3. "routine" \in Payments /\ rank("routine") < rank(req[active].mission)
  BY <1>2, RankIs DEF Payments
<1> QED BY <1>2, <1>3, CompleteIs DEF Past, Done

-----------------------------------------------------------------------------
(***************************************************************************)
(* A mission is paid for once.                                             *)
(***************************************************************************)

Ord == Own /\ InOrder /\ OrderInv
Once == Ord /\ OnceInv

LEMMA OrdFacts ==
    ASSUME Ord
    PROVE  /\ Len(req) \in Nat /\ DOMAIN req = 1 .. Len(req)
           /\ \A i \in DOMAIN req : /\ i \in Nat /\ i # 0 /\ i <= Len(req) /\ req[i].mission \in Payments
                                    /\ RequestOK(req[i]) /\ Past(store, req[i].mission)
           /\ op # Idle => op.mission \in Payments /\ Past(store, op.mission)
           /\ track.tx # 0 => /\ track.tx \in DOMAIN req /\ req[track.tx].mission = track.mission
                              /\ track.mission \in Payments /\ track.run = 1
           /\ track.id \in {0, track.tx}
           /\ op.tx # 0 => op.tx \in DOMAIN req /\ req[op.tx].mission = op.mission
           /\ (op.tx # 0) <=> op.at \in {"sent", "waiting"}
           /\ op.at = "idle" <=> op = Idle
           /\ store.run = 1
<1>1. ReqInv(visit, req) /\ TrackInv(visit, req, track) /\ OpInv(visit, req, op)
  BY DEF Ord, Own, RunInv
<1>2. Len(req) \in Nat /\ DOMAIN req = 1 .. Len(req)
  BY <1>1 DEF ReqInv
<1>3. \A i \in DOMAIN req : /\ req[i].mission \in Payments /\ RequestOK(req[i]) /\ Past(store, req[i].mission)
                            /\ i \in Nat /\ i # 0 /\ i <= Len(req)
  BY <1>1, <1>2 DEF ReqInv, Ord, OrderInv
<1>4. track.tx # 0 => /\ track.tx \in DOMAIN req /\ req[track.tx].mission = track.mission /\ track.run = 1
  BY OwnFacts, OwnIs DEF Ord, OwnTrack
<1>5. op.tx # 0 => op.tx \in DOMAIN req /\ req[op.tx].mission = op.mission
  BY OwnFacts, OwnIs DEF Ord, Owned, OwnOf, Submissions
<1>6. op.at = "idle" <=> op = Idle
  BY <1>1 DEF OpInv, Idle
<1>7. (op.tx # 0) <=> op.at \in {"sent", "waiting"}
  BY <1>1 DEF OpInv
<1>8. op # Idle => op.mission \in Payments /\ Past(store, op.mission)
  BY DEF Ord, OrderInv, Submissions
<1>9. track.id \in {0, track.tx}
  BY <1>1 DEF TrackInv
<1>10. store.run = 1
  BY OwnFacts DEF Ord
<1> QED BY <1>2, <1>3, <1>4, <1>5, <1>6, <1>7, <1>8, <1>9, <1>10

\* Nobody left the page while its submission ran: the only one is the page's own.
LEMMA AloneIs ==
    ASSUME away = <<>>, NEW m \in Ops
    PROVE  m = 0 /\ Op(m) = op /\ \A o, f : Becomes(m, o, f) => op' = o /\ flow' = f /\ away' = <<>>
<1>1. m = 0
  BY DEF Ops
<1> QED BY <1>1 DEF Op, Becomes

LEMMA BoundTo ==
    ASSUME Ord, NEW k \in Payments, store.m[k].request # 0
    PROVE  LET r == store.m[k].request
           IN  /\ r \in DOMAIN req /\ req[r].mission = k /\ req[r].state \notin {"pool", "reverted"}
               /\ Complete(store, k) => ~Dead(req, r)
<1>1. PICK r : r = store.m[k].request
  OBVIOUS
<1>2. Mined(req, r)
  BY <1>1, Facts DEF Ord, Own, SessInv
<1>3. EvOf(req, k, store.m[k])
  BY DEF Ord, Own, OwnInv, Ev
<1>4. r \in DOMAIN req /\ req[r].mission = k /\ req[r].state \notin {"pool", "reverted"}
  BY <1>1, <1>2, <1>3 DEF Mined, EvOf, InFlight, Terminal
<1>5. RequestOK(req[r])
  BY <1>4, OrdFacts
<1>6. ASSUME Complete(store, k) PROVE ~Dead(req, r)
  <2>1. Done(k, store.m[k])
    BY <1>6, CompleteIs
  <2> QED BY <1>1, <1>3, <1>4, <1>5, <2>1 DEF Done, EvOf, Dead, RequestOK, Payments
<1> QED BY <1>1, <1>4, <1>6

\* What is dead stays so.
LEMMA DeadStays ==
    ASSUME NEW P, NEW Q, Grows(P, Q), NEW i \in DOMAIN P, RequestOK(P[i]), Dead(P, i) PROVE Dead(Q, i)
BY DEF Grows, Dead, RequestOK, Terminal

LEMMA OnceGrows ==
    ASSUME Once, Grows(req, req'), DOMAIN req' = DOMAIN req, Len(req') = Len(req), UNCHANGED <<store, op, away, track>>
    PROVE  OnceInv'
<1>1. \A i \in DOMAIN req : /\ req'[i].mission = req[i].mission
                            /\ Dead(req, i) => Dead(req', i)
                            /\ req[i].state = "reverted" => req'[i].state = "reverted"
  BY OrdFacts, DeadStays DEF Grows, Once
<1>2. Single(req') /\ Follows(req', store, op, track)
  BY <1>1 DEF Once, OnceInv, OnceOf, Single, Follows
<1>3. Pays(req', store, op, track)
  BY <1>1, OrdFacts DEF Once, OnceInv, OnceOf, Pays
<1>4. Points(req', store, track)
  BY <1>1 DEF Once, OnceInv, OnceOf, Points
<1> QED BY <1>2, <1>3, <1>4 DEF Once, OnceInv, OnceOf

\* From session s to n a mission is bound to newer requests only.
Moves(s, n) ==
    \A k \in Payments :
        \/ n.m[k].request = s.m[k].request
        \/ /\ n.m[k].request \in DOMAIN req /\ req[n.m[k].request].mission = k
           /\ s.m[k].request = 0 \/ s.m[k].request < n.m[k].request

LEMMA OnceMoves == ASSUME Once, NEW n, Moves(store, n) PROVE OnceOf(req, n, op, track)
<1>1. Single(req) /\ Follows(req, store, op, track) /\ Pays(req, store, op, track) /\ Points(req, store, track)
  BY DEF Once, OnceInv, OnceOf
<1>2. ASSUME NEW k \in Payments, n.m[k].request # store.m[k].request, store.m[k].request # 0
      PROVE  /\ store.m[k].request < n.m[k].request /\ Dead(req, store.m[k].request)
             /\ n.m[k].request \in DOMAIN req /\ req[n.m[k].request].mission = k
  <2>1. n.m[k].request \in DOMAIN req /\ req[n.m[k].request].mission = k /\ store.m[k].request < n.m[k].request
    BY <1>2 DEF Moves
  <2>2. store.m[k].request \in DOMAIN req /\ req[store.m[k].request].mission = k
    BY <1>2, BoundTo DEF Once
  <2> QED BY <1>1, <2>1, <2>2 DEF Single
<1>3. \A k \in Payments : store.m[k].request # 0 => n.m[k].request # 0
  BY OrdFacts DEF Moves, Once
<1>4. Follows(req, n, op, track)
  <2> SUFFICES ASSUME NEW i \in DOMAIN req
               PROVE  /\ ~Dead(req, i) => i \in {op.tx, track.tx, n.m[req[i].mission].request}
                      /\ req[i].state # "reverted" => i \in {op.tx, track.tx} \/ n.m[req[i].mission].request # 0
    BY DEF Follows
  <2>1. req[i].mission \in Payments /\ i # 0
    BY OrdFacts DEF Once
  <2> QED BY <1>1, <1>2, <1>3, <2>1 DEF Follows
<1>5. Points(req, n, track)
  <2>1. CASE track.tx # 0 /\ track.id # 0
    <3>1. track.mission \in Payments /\ track.id = track.tx
      BY <2>1, OrdFacts DEF Once
    <3>2. store.m[track.mission].request = track.id /\ \A i \in DOMAIN req : req[i].mission = track.mission => i <= track.tx
      BY <1>1, <2>1 DEF Points
    <3>3. track.tx \in Nat /\ \A i \in DOMAIN req : i \in Nat
      BY <2>1, OrdFacts DEF Once
    <3>4. n.m[track.mission].request = track.id
      <4>1. n.m[track.mission].request # store.m[track.mission].request => FALSE
        BY <1>2, <2>1, <3>1, <3>2, <3>3
      <4> QED BY <3>2, <4>1
    <3> QED BY <1>1, <3>4 DEF Points
  <2>2. CASE ~(track.tx # 0 /\ track.id # 0)
    BY <1>1, <2>2 DEF Points
  <2> QED BY <2>1, <2>2
<1>6. Pays(req, n, op, track)
  <2>1. CASE op.at = "waiting" /\ track.tx = 0
    <3>1. op # Idle /\ op.mission \in Payments /\ op.tx # 0 /\ op.tx \in DOMAIN req /\ op.tx \in Nat
      BY <2>1, OrdFacts DEF Once
    <3>2. \/ req[op.tx].state = "reverted"
          \/ /\ store.m[op.mission].request # 0 /\ op.tx = Len(req)
             /\ Dead(req, op.tx) \/ store.m[op.mission].request = op.tx
      BY <1>1, <2>1, <3>1 DEF Pays
    <3>3. req[op.tx].state = "reverted" \/ (store.m[op.mission].request # 0 /\ (Dead(req, op.tx) \/ n.m[op.mission].request = op.tx))
      BY <1>2, <3>1, <3>2
    <3> QED BY <1>1, <1>3, <3>1, <3>2, <3>3 DEF Pays
  <2>2. CASE ~(op.at = "waiting" /\ track.tx = 0)
    BY <1>1, <2>2 DEF Pays
  <2> QED BY <2>1, <2>2
<1> QED BY <1>1, <1>4, <1>5, <1>6 DEF OnceOf

LEMMA MovesSelf == ASSUME NEW s PROVE Moves(s, s)
BY DEF Moves

LEMMA MovesEvid == ASSUME NEW s, NEW n, Evid(n, s) PROVE Moves(s, n)
BY DEF Moves, Evid, SameProgress, Payments, Keys

LEMMA MovesMission ==
    ASSUME NEW s, NEW n, NEW k \in Payments, OnlyMission(n, s, k),
           n.m[k].request \in DOMAIN req, req[n.m[k].request].mission = k,
           s.m[k].request \in {0, n.m[k].request} \/ s.m[k].request < n.m[k].request
    PROVE  Moves(s, n)
<1>1. \A j \in Payments \ {k} : n.m[j].request = s.m[j].request
  BY DEF OnlyMission, Payments, Keys, SameProgress
<1> QED BY <1>1 DEF Moves

LEMMA MovesReconcile == ASSUME Ord, NEW s, Shape(s) PROVE Moves(s, Reconcile(s, seen))
<1>1. PICK n : n = Reconcile(s, seen)
  OBVIOUS
<1>2. ReqInv(visit, req) /\ SeenInv(req, seen)
  BY OwnFacts DEF Ord
<1>3. ToldAll(seen, s, n)
  BY <1>1, <1>2, ReconcileIs, SeenDomain
<1>4. ASSUME NEW k \in Payments
      PROVE  \/ n.m[k].request = s.m[k].request
             \/ /\ n.m[k].request \in DOMAIN req /\ req[n.m[k].request].mission = k
                /\ s.m[k].request = 0 \/ s.m[k].request < n.m[k].request
  <2>1. Told(seen, s.run, k, s.m[k], n.m[k])
    BY <1>3 DEF ToldAll
  <2>2. CASE n.m[k].request \in RunBound(s.run, k, seen)
    BY <1>2, <2>1, <2>2 DEF Told, RunBound, SeenInv, Mined, SameProgress
  <2>3. CASE SameProgress(n.m[k], s.m[k])
    BY <2>3 DEF SameProgress
  <2> QED BY <2>1, <2>2, <2>3 DEF Told
<1> QED BY <1>1, <1>4 DEF Moves

LEMMA MovesExecuted ==
    ASSUME Ord, NEW id, req[id].mission = "routine", id \in DOMAIN req PROVE Moves(store, RoutineExecuted(store, id))
<1>1. PICK n : n = RoutineExecuted(store, id)
  OBVIOUS
<1>2. ExecutedAs(store, n, id)
  BY <1>1, ExecutedIs, OwnFacts DEF Ord
<1>3. "routine" \in Payments
  BY DEF Payments
<1>4. n # store => Moves(store, n)
  BY <1>2, <1>3, MovesMission DEF ExecutedAs
<1> QED BY <1>1, <1>4, MovesSelf

LEMMA MovesDecide ==
    ASSUME Ord, NEW id, req[id].mission = "approval", id \in DOMAIN req, NEW action PROVE Moves(store, Decide(store, id, action))
<1>1. PICK n : n = Decide(store, id, action)
  OBVIOUS
<1>2. DecidedAs(store, n, id, action)
  BY <1>1, DecideIs, OwnFacts DEF Ord
<1>3. "approval" \in Payments
  BY DEF Payments
<1>4. n # store => Moves(store, n)
  BY <1>2, <1>3, MovesMission DEF DecidedAs
<1> QED BY <1>1, <1>4, MovesSelf

LEMMA MovesReasoned ==
    ASSUME Ord, NEW id, req[id].mission = "violation", id \in DOMAIN req
    PROVE  Moves(store, ReasonDecrypted(ViolationBlocked(store, id), id))
<1>1. PICK n : n = ReasonDecrypted(ViolationBlocked(store, id), id)
  OBVIOUS
<1>2. ReasonedAs(store, n, id)
  BY <1>1, ReasonedIs, OwnFacts DEF Ord
<1>3. "violation" \in Payments
  BY DEF Payments
<1>4. n # store => Moves(store, n)
  BY <1>2, <1>3, MovesMission DEF ReasonedAs
<1> QED BY <1>1, <1>4, MovesSelf

\* A mission is bound to the last of its requests.
LEMMA MovesBind ==
    ASSUME Ord, NEW k \in Payments, NEW id, id \in DOMAIN req, req[id].mission = k, NEW replace,
           \A i \in DOMAIN req : req[i].mission = k => i <= id
    PROVE  Moves(store, BindRequest(store, k, id, replace))
<1>1. PICK n : n = BindRequest(store, k, id, replace)
  OBVIOUS
<1>2. BoundAs(store, n, k, id, replace)
  BY <1>1, BoundIs, OwnFacts DEF Ord, Payments, Keys
<1>3. store.m[k].request # 0 => store.m[k].request <= id /\ store.m[k].request \in Nat
  BY BoundTo, OrdFacts
<1>4. id \in Nat
  BY OrdFacts
<1>5. n # store => Moves(store, n)
  BY <1>2, <1>3, <1>4, MovesMission DEF BoundAs
<1> QED BY <1>1, <1>5, MovesSelf

LEMMA OnceSave ==
    ASSUME Once, NEW n, NEW run, Moves(store, n), SaveFor(run, n) \/ Save(n) \/ UNCHANGED store, UNCHANGED <<req, op, away, track>>
    PROVE  OnceInv'
<1>1. store' \in {n, store}
  BY DEF SaveFor, Save, session
<1>2. Moves(store, store')
  BY <1>1, MovesSelf
<1> QED BY <1>2, OnceMoves DEF Once, OnceInv

LEMMA OnceByChain == ASSUME Once, Mine \/ Finalize \/ ServiceActs PROVE OnceInv'
BY ChainTurns, OnceGrows DEF Once, Ord, Own, session, payment

\* The pointer is cleared when the session is bound to what it points to.
LEMMA OnceClears ==
    ASSUME Once, NEW n, Moves(store, n), track.tx # 0 => store.m[track.mission].request = track.tx
    PROVE  OnceOf(req, n, op, NoTrack)
<1>1. Single(req) /\ Follows(req, n, op, track) /\ Pays(req, n, op, track) /\ Points(req, n, track)
  BY OnceMoves DEF OnceOf
<1>2. NoTrack.tx = 0 /\ NoTrack.id = 0
  BY DEF NoTrack
<1>3. ASSUME track.tx # 0
      PROVE  /\ track.tx \in DOMAIN req /\ req[track.tx].mission = track.mission /\ track.mission \in Payments
             /\ n.m[track.mission].request = track.tx
  <2>1. track.tx \in DOMAIN req /\ req[track.tx].mission = track.mission /\ track.mission \in Payments
    BY <1>3, OrdFacts DEF Once
  <2>2. \A i \in DOMAIN req : req[i].mission = track.mission => i <= track.tx /\ i \in Nat
    BY <1>1, <1>3, OrdFacts DEF Points, Once
  <2>3. CASE n.m[track.mission].request # track.tx
    <3>1. PICK j : j = n.m[track.mission].request
      OBVIOUS
    <3>2. j \in DOMAIN req /\ req[j].mission = track.mission /\ track.tx < j
      BY <1>3, <2>1, <2>3, <3>1 DEF Moves
    <3> QED BY <2>1, <2>2, <3>2
  <2> QED BY <2>1, <2>3
<1>4. Follows(req, n, op, NoTrack)
  <2> SUFFICES ASSUME NEW i \in DOMAIN req
               PROVE  /\ ~Dead(req, i) => i \in {op.tx, NoTrack.tx, n.m[req[i].mission].request}
                      /\ req[i].state # "reverted" => i \in {op.tx, NoTrack.tx} \/ n.m[req[i].mission].request # 0
    BY DEF Follows
  <2>1. i # 0
    BY OrdFacts DEF Once
  <2>2. i = track.tx => n.m[req[i].mission].request = i
    BY <1>3, <2>1
  <2> QED BY <1>1, <2>1, <2>2 DEF Follows
<1>5. Pays(req, n, op, NoTrack)
  <2>1. CASE op.at = "waiting" /\ track.tx # 0
    <3>1. op # Idle /\ op.tx \in DOMAIN req /\ req[op.tx].mission = op.mission /\ op.tx # 0
      BY <2>1, OrdFacts DEF Idle, Once
    <3>2. track.tx = op.tx
      BY <1>1, <2>1, <3>1 DEF Pays
    <3>3. n.m[op.mission].request = op.tx
      BY <1>3, <2>1, <3>1, <3>2
    <3> QED BY <1>1, <1>2, <3>1, <3>3 DEF Pays
  <2>2. CASE ~(op.at = "waiting" /\ track.tx # 0)
    BY <1>1, <1>2, <2>2 DEF Pays
  <2> QED BY <2>1, <2>2
<1> QED BY <1>1, <1>2, <1>4, <1>5 DEF OnceOf, Points

\* What an action leaves of the choice to pay again.
LEMMA ClickPays ==
    ASSUME Once, NEW k \in visit.Missions, Click(k)
    PROVE  /\ k \in Payments /\ UNCHANGED <<req, away>> /\ ~Complete(store, k) /\ Past(store, k)
           /\ \A i \in DOMAIN req : rank(req[i].mission) <= rank(k)
           /\ store.m[k].request # 0 => Dead(req, store.m[k].request)
           /\ ActionFor(k) = "submit" => store.m[k].request = 0
<1>1. k \in Payments /\ UNCHANGED <<req, away>> /\ ActionFor(k) \in {"submit", "retry"} /\ Offered(k)
  BY VisitIs DEF Click, Once, Ord, Own, chain
<1>2. ~Complete(store, k) /\ Past(store, k)
  BY <1>1, UnlockedIs DEF ActionFor, Once, Ord
<1>3. ASSUME NEW i \in DOMAIN req PROVE rank(req[i].mission) <= rank(k)
  <2>1. req[i].mission \in Payments /\ Past(store, req[i].mission)
    BY OrdFacts DEF Once
  <2>2. ~(rank(k) < rank(req[i].mission))
    BY <1>1, <1>2, <2>1 DEF Past
  <2> QED BY <1>1, <2>1, <2>2, RankIs DEF Payments
<1>4. PICK id, st : id = store.m[k].request /\ st = (IF id \in DOMAIN seen THEN seen[id].state ELSE "unknown")
  OBVIOUS
<1>5. ActionFor(k) = "submit" => id = 0
  BY <1>4 DEF ActionFor
<1>6. ASSUME id # 0 PROVE Dead(req, id)
  <2>1. (k = "approval" /\ req[id].origin = "timeout") \/ st = "expired"
    BY <1>1, <1>2, <1>4, <1>6 DEF ActionFor
  <2>2. st = "expired" => req[id].state = "expired"
    BY <1>4, OwnFacts DEF SeenInv, Terminal, Once, Ord
  <2> QED BY <2>1, <2>2 DEF Dead
<1> QED BY <1>1, <1>2, <1>3, <1>4, <1>5, <1>6

\* A click that starts the payment.
Pressed(k, retry) ==
    LET old == Tracked(k) /\ retry /\ track.id # 0 /\ track.id = store.m[k].request IN
    /\ ~Tracked(k) \/ old
    /\ track' = IF old THEN NoTrack ELSE track
    /\ (op = Idle /\ Start(k, retry)) \/ UNCHANGED <<op, flow>>
    /\ UNCHANGED session

LEMMA PressedIs ==
    ASSUME NEW k, Click(k) PROVE Pressed(k, ActionFor(k) = "retry") \/ Rebinds(k) \/ Recovers(k)
<1>1. PICK retry \in BOOLEAN : retry = (ActionFor(k) = "retry")
  OBVIOUS
<1>2. Pressed(k, retry) \/ Rebinds(k) \/ Recovers(k)
  BY <1>1 DEF Click, Pressed, Rebinds, Recovers
<1> QED BY <1>1, <1>2

LEMMA OnceByClick == ASSUME Once, NEW k \in visit.Missions, Click(k) PROVE OnceInv'
<1>1. /\ k \in Payments /\ UNCHANGED <<req, away>> /\ ~Complete(store, k) /\ Past(store, k)
      /\ \A i \in DOMAIN req : rank(req[i].mission) <= rank(k)
      /\ store.m[k].request # 0 => Dead(req, store.m[k].request)
      /\ ActionFor(k) = "submit" => store.m[k].request = 0
  BY ClickPays
<1>2. /\ Single(req) /\ Follows(req, store, op, track) /\ Points(req, store, track) /\ away = <<>>
      /\ ActionFor(k) \in {"submit", "retry"}
  BY <1>1 DEF Once, OnceInv, OnceOf, Click
<1>3. PICK retry \in BOOLEAN : retry = (ActionFor(k) = "retry")
  OBVIOUS
<1>4. CASE op = Idle /\ Start(k, retry) /\ ~Tracked(k) /\ UNCHANGED <<track, session>>
  <2>1. op.tx = 0 /\ op'.at = "preflight" /\ op'.tx = 0 /\ op'.mission = k /\ op'.replace = retry
    BY <1>1, <1>4, StartIs DEF Once, Ord, Own, Idle
  <2>2. track.tx # 0 => track.mission # k
    BY <1>4, OrdFacts DEF Tracked, Once
  <2>3. ASSUME NEW i \in DOMAIN req, req[i].mission = k PROVE Dead(req, i)
    BY <1>1, <1>2, <2>1, <2>2, <2>3, OrdFacts DEF Follows, Once
  <2>4. ASSUME NEW i \in DOMAIN req, req[i].mission = k, ~retry PROVE req[i].state = "reverted"
    BY <1>1, <1>2, <1>3, <2>1, <2>2, <2>4, OrdFacts DEF Follows, Once
  <2>5. Pays(req, store, op', track)
    BY <1>1, <2>1, <2>2, <2>3, <2>4 DEF Pays
  <2>6. Follows(req, store, op', track)
    BY <1>2, <2>1 DEF Follows
  <2> QED BY <1>1, <1>2, <1>4, <2>5, <2>6 DEF OnceInv, OnceOf, session
<1>5. CASE op = Idle /\ Start(k, TRUE) /\ Tracked(k) /\ track.id # 0 /\ track.id = store.m[k].request /\ track' = NoTrack
           /\ UNCHANGED session
  <2>1. op.tx = 0 /\ op'.at = "preflight" /\ op'.tx = 0 /\ op'.mission = k /\ op'.replace = TRUE
    BY <1>1, <1>5, StartIs DEF Once, Ord, Own, Idle
  <2>2. NoTrack.tx = 0 /\ track.id = track.tx /\ track.mission = k /\ req[track.tx].mission = k
    BY <1>5, OrdFacts DEF NoTrack, Tracked, Once
  <2>3. Follows(req, store, op', NoTrack)
    <3> SUFFICES ASSUME NEW i \in DOMAIN req
                 PROVE  /\ ~Dead(req, i) => i \in {op'.tx, NoTrack.tx, store.m[req[i].mission].request}
                        /\ req[i].state # "reverted" => i \in {op'.tx, NoTrack.tx} \/ store.m[req[i].mission].request # 0
      BY DEF Follows
    <3>1. i = track.tx => store.m[req[i].mission].request = i /\ i # 0
      BY <1>5, <2>2
    <3> QED BY <1>2, <2>1, <2>2, <3>1, OrdFacts DEF Follows, Once
  <2>4. ASSUME NEW i \in DOMAIN req, req[i].mission = k PROVE Dead(req, i)
    <3>1. ~Dead(req, i) => i = store.m[k].request /\ i # 0
      BY <2>1, <2>2, <2>3, <2>4, OrdFacts DEF Follows, Once
    <3> QED BY <1>1, <3>1
  <2>5. Pays(req, store, op', NoTrack)
    BY <1>1, <2>1, <2>2, <2>4 DEF Pays
  <2>6. Points(req, store, NoTrack)
    BY <2>2 DEF Points
  <2> QED BY <1>1, <1>2, <1>5, <2>3, <2>5, <2>6 DEF OnceInv, OnceOf, session
<1>6. CASE Rebinds(k)
  <2>1. track.tx # 0 /\ track.mission = k /\ track.id # 0
    BY <1>6 DEF Rebinds, Tracked
  <2>2. store.m[k].request = track.id
    BY <1>2, <2>1 DEF Points
  <2>3. BindRequest(store, k, track.id, track.replace) = store
    BY <2>1, <2>2 DEF BindRequest
  <2> QED BY <1>1, <1>6, <2>3, OnceSave, MovesSelf DEF Rebinds
<1>7. CASE UNCHANGED <<track, op, session>>
  BY <1>1, <1>7 DEF Once, OnceInv, session
<1>8. CASE track' = NoTrack /\ track.id # 0 /\ track.id = store.m[k].request /\ Tracked(k) /\ UNCHANGED <<op, session>>
  <2>1. store.m[track.mission].request = track.tx
    BY <1>8, OrdFacts DEF Tracked, Once
  <2> QED BY <1>1, <1>2, <1>8, <2>1, OnceClears, MovesSelf DEF OnceInv, session
<1>9. CASE Pressed(k, retry)
  BY <1>4, <1>5, <1>7, <1>8, <1>9 DEF Pressed
<1> QED BY <1>3, <1>6, <1>7, <1>9, PressedIs DEF Recovers

\* The payment at hand goes on, with the same request and mission.
LEMMA OnceGoesOn ==
    ASSUME Once, UNCHANGED <<req, store, away>>, track' = track \/ (track.tx = 0 /\ track' = NoTrack),
           op' = Idle \/ op # Idle, op'.tx = op.tx, op' # Idle => op'.mission = op.mission /\ op'.replace = op.replace,
           op' # Idle => op'.at = op.at \/ (op.at = "preflight" /\ op'.at = "sending")
    PROVE  OnceInv'
<1>1. Single(req) /\ Follows(req, store, op, track) /\ Pays(req, store, op, track) /\ Points(req, store, track)
  BY DEF Once, OnceInv, OnceOf
<1>2. track'.tx = track.tx /\ (track.tx = 0 => track'.id = 0) /\ (track.tx # 0 => track' = track)
  BY OrdFacts DEF NoTrack, Once
<1>3. Follows(req, store, op', track') /\ Points(req, store, track')
  BY <1>1, <1>2 DEF Follows, Points
<1>4. Pays(req, store, op', track')
  <2>1. CASE op' = Idle
    BY <2>1 DEF Pays
  <2>2. CASE op' # Idle
    <3>1. op # Idle /\ op'.mission = op.mission /\ op'.replace = op.replace /\ op'.tx = op.tx
          /\ (op'.at = op.at \/ (op.at = "preflight" /\ op'.at = "sending"))
      BY <2>2
    <3>2. track'.tx # 0 => track' = track
      BY <1>2
    <3>3. CASE op'.at = op.at
      BY <1>1, <1>2, <3>1, <3>3 DEF Pays
    <3>4. CASE op.at = "preflight" /\ op'.at = "sending"
      BY <1>1, <1>2, <3>1, <3>4 DEF Pays
    <3> QED BY <3>1, <3>3, <3>4
  <2> QED BY <2>1, <2>2
<1> QED BY <1>1, <1>3, <1>4 DEF Once, OnceInv, OnceOf

LEMMA OnceByPreflight == ASSUME Once, NEW m \in Ops, Preflight(m) PROVE OnceInv'
<1>1. m = 0 /\ Op(m) = op /\ \A o, f : Becomes(m, o, f) => op' = o /\ away' = away
  BY AloneIs DEF Once, OnceInv
<1>2. op.at = "preflight" /\ UNCHANGED <<chain, session, track, page, calls, rs, faults>>
  BY <1>1 DEF Preflight
<1>3. op.tx = 0 /\ op # Idle
  BY <1>2, OrdFacts DEF Once, Idle
<1>4. CASE Becomes(m, Sending(op), flow)
  <2>1. op' = Sending(op) /\ away' = away
    BY <1>1, <1>4
  <2>2. Sending(op).at = "sending" /\ Sending(op).tx = 0 /\ Sending(op).mission = op.mission /\ Sending(op).replace = op.replace
    BY <1>1, <1>2, SendingIs DEF Once, Ord, Own
  <2> QED BY <1>2, <1>3, <2>1, <2>2, OnceGoesOn DEF chain, session
<1>5. CASE Over(m)
  BY <1>1, <1>2, <1>3, <1>5, OnceGoesOn DEF chain, session, Idle, Over
<1> QED BY <1>1, <1>4, <1>5 DEF Preflight, Sending

LEMMA OnceByBroadcast == ASSUME Once, NEW m \in Ops, Broadcast(m) PROVE OnceInv'
<1> DEFINE r == Broadcasted(op)
<1>0. m = 0 /\ Op(m) = op /\ \A o, f : Becomes(m, o, f) => op' = o /\ away' = <<>>
  BY AloneIs DEF Once, OnceInv
<1>1. op.at = "sending" /\ UNCHANGED <<seen, loaded, session, track, page, calls, rs, faults>>
  BY <1>0 DEF Broadcast
<1>2. op.tx = 0 /\ op # Idle
  BY <1>1, OrdFacts DEF Once, Idle
<1>3. CASE Over(m) /\ UNCHANGED req
  BY <1>0, <1>1, <1>2, <1>3, OnceGoesOn DEF session, Over, Idle, Once, OnceInv
<1>4. CASE req' = Append(req, r) /\ Becomes(m, Sent(op), flow)
  <2>2. PICK new : new = Len(req) + 1
    OBVIOUS
  <2>1. op' = Sent(op) /\ away' = <<>>
    BY <1>0, <1>4
  <2>3. /\ Grows(req, req') /\ Len(req') = new /\ Len(req) \in Nat /\ new \in Nat
        /\ DOMAIN req' = DOMAIN req \cup {new} /\ new \notin DOMAIN req
        /\ req'[new] = r /\ \A i \in DOMAIN req : req'[i] = req[i]
        /\ op'.at = "sent" /\ op'.tx = new /\ op'.mission = op.mission /\ op'.replace = op.replace
    BY <1>0, <1>1, <1>4, <2>1, <2>2, BroadcastIs DEF Once, Ord, Own
  <2>4. r.mission = op.mission
    BY DEF Broadcasted
  <2> HIDE DEF r
  <2>5. Single(req) /\ Follows(req, store, op, track) /\ Pays(req, store, op, track) /\ Points(req, store, track)
    BY DEF Once, OnceInv, OnceOf
  <2>6. /\ \A i \in DOMAIN req : rank(req[i].mission) <= rank(op.mission)
        /\ \A i \in DOMAIN req : req[i].mission = op.mission => Dead(req, i)
        /\ track.tx # 0 => track.mission # op.mission
        /\ op.replace \/ \A i \in DOMAIN req : req[i].mission = op.mission /\ i # op.tx => req[i].state = "reverted"
    BY <1>1, <1>2, <2>5 DEF Pays
  <2>7. \A i \in DOMAIN req : (Dead(req', i) <=> Dead(req, i)) /\ i # 0 /\ i \in Nat /\ i <= Len(req)
    BY <2>3, OrdFacts DEF Dead, Once
  <2>8. Single(req')
    <3> SUFFICES ASSUME NEW i \in DOMAIN req', NEW j \in DOMAIN req', i < j, req'[i].mission = req'[j].mission PROVE Dead(req', i)
      BY DEF Single
    <3>1. i \in DOMAIN req
      BY <2>2, <2>3, <2>7
    <3>2. CASE j = new
      BY <2>3, <2>4, <2>6, <2>7, <3>1, <3>2
    <3>3. CASE j \in DOMAIN req
      BY <2>3, <2>5, <2>7, <3>1, <3>3 DEF Single
    <3> QED BY <2>3, <3>2, <3>3
  <2>9. Follows(req', store, op', track)
    <3> SUFFICES ASSUME NEW i \in DOMAIN req'
                 PROVE  /\ ~Dead(req', i) => i \in {op'.tx, track.tx, store.m[req'[i].mission].request}
                        /\ req'[i].state # "reverted" => i \in {op'.tx, track.tx} \/ store.m[req'[i].mission].request # 0
      BY DEF Follows
    <3>1. CASE i = new
      BY <2>3, <3>1
    <3>2. CASE i \in DOMAIN req
      BY <1>2, <2>3, <2>5, <2>7, <3>2 DEF Follows
    <3> QED BY <2>3, <3>1, <3>2
  <2>10. Pays(req', store, op', track)
    <3>1. \A i \in DOMAIN req' : rank(req'[i].mission) <= rank(op.mission)
      <4>1. rank(op.mission) \in Nat
        BY <1>2, OrdFacts, RankIs DEF Once, Payments
      <4> QED BY <2>3, <2>4, <2>6, <4>1
    <3>2. op.replace \/ \A i \in DOMAIN req' : req'[i].mission = op.mission /\ i # new => req'[i].state = "reverted"
      BY <1>2, <2>3, <2>6, <2>7
    <3> QED BY <2>3, <2>6, <3>1, <3>2 DEF Pays
  <2>11. Points(req', store, track)
    BY <2>3, <2>4, <2>5, <2>6 DEF Points
  <2> QED BY <1>1, <2>1, <2>8, <2>9, <2>10, <2>11 DEF OnceInv, OnceOf, session
<1> QED BY <1>0, <1>3, <1>4 DEF Broadcast, Broadcasted, Sent

\* A tracked payment of a complete mission is the one it is bound to.
LEMMA TrackedIsBound ==
    ASSUME Once, track.tx # 0, Complete(store, track.mission) PROVE store.m[track.mission].request = track.tx
<1>1. track.mission \in Payments /\ track.tx \in DOMAIN req /\ req[track.tx].mission = track.mission
  BY OrdFacts DEF Once
<1>2. store.m[track.mission].request # 0
  BY <1>1, CompleteIs DEF Done
<1>3. PICK b : b = store.m[track.mission].request
  OBVIOUS
<1>4. b \in DOMAIN req /\ req[b].mission = track.mission /\ ~Dead(req, b)
  BY <1>1, <1>2, <1>3, BoundTo DEF Once
<1>5. b <= track.tx /\ ~(b < track.tx)
  BY <1>1, <1>4 DEF Once, OnceInv, OnceOf, Points, Single
<1>6. b \in Nat /\ track.tx \in Nat
  BY <1>1, <1>4, OrdFacts DEF Once
<1> QED BY <1>3, <1>5, <1>6

LEMMA OnceByAnswer == ASSUME Once, ~visit.LosesHash, NEW m \in Ops, Answer(m) PROVE OnceInv'
<1>0. m = 0 /\ Op(m) = op /\ \A o, f : Becomes(m, o, f) => op' = o /\ away' = <<>>
  BY AloneIs DEF Once, OnceInv
<1>1. op.at = "sent" /\ UNCHANGED <<chain, session, active, att, restore, calls, rs>>
  BY <1>0 DEF Answer
<1>2. track' = Pointer(op) /\ Becomes(m, Waiting(op), flow)
  BY <1>0 DEF Answer, Pointer, Waiting
<1>3. op' = Waiting(op) /\ away' = <<>>
  BY <1>0, <1>2
<1>4. op'.at = "waiting" /\ op'.tx = op.tx /\ op'.mission = op.mission /\ op'.replace = op.replace
  BY <1>0, <1>1, <1>3, WaitingIs DEF Once, Ord, Own
<1>5. track'.tx = op.tx /\ track'.id = 0 /\ track'.mission = op.mission /\ track'.replace = op.replace
  BY <1>2 DEF Pointer
<1>6. op # Idle /\ op.tx # 0 /\ op.tx \in DOMAIN req /\ req[op.tx].mission = op.mission /\ op.mission \in Payments
      /\ Past(store, op.mission)
  BY <1>1, OrdFacts DEF Once, Idle
<1>7. Single(req) /\ Follows(req, store, op, track) /\ Pays(req, store, op, track) /\ Points(req, store, track)
  BY DEF Once, OnceInv, OnceOf
<1>8. /\ \A i \in DOMAIN req : rank(req[i].mission) <= rank(op.mission)
      /\ track.tx # 0 => track.mission # op.mission
      /\ op.tx = Len(req)
      /\ op.replace \/ \A i \in DOMAIN req : req[i].mission = op.mission /\ i # op.tx => req[i].state = "reverted"
  BY <1>1, <1>6, <1>7 DEF Pays
<1>9. ASSUME track.tx # 0 PROVE store.m[track.mission].request = track.tx
  <2>1. track.tx \in DOMAIN req /\ req[track.tx].mission = track.mission /\ track.mission \in Payments
    BY <1>9, OrdFacts DEF Once
  <2>2. rank(track.mission) < rank(op.mission)
    BY <1>6, <1>8, <1>9, <2>1, RankIs DEF Payments
  <2>3. Complete(store, track.mission)
    BY <1>6, <2>1, <2>2 DEF Past
  <2> QED BY <1>9, <2>3, TrackedIsBound
<1>10. Follows(req, store, op', track')
  <2> SUFFICES ASSUME NEW i \in DOMAIN req
               PROVE  /\ ~Dead(req, i) => i \in {op'.tx, track'.tx, store.m[req[i].mission].request}
                      /\ req[i].state # "reverted" => i \in {op'.tx, track'.tx} \/ store.m[req[i].mission].request # 0
    BY DEF Follows
  <2>1. i = track.tx => store.m[req[i].mission].request = i /\ i # 0
    BY <1>9, OrdFacts DEF Once
  <2> QED BY <1>4, <1>5, <1>7, <2>1 DEF Follows
<1>11. Pays(req, store, op', track')
  BY <1>4, <1>5, <1>6, <1>8 DEF Pays
<1>12. Points(req, store, track')
  <2>1. \A i \in DOMAIN req : i <= op.tx
    BY <1>8, OrdFacts DEF Once
  <2> QED BY <1>5, <1>8, <2>1 DEF Points
<1> QED BY <1>1, <1>3, <1>7, <1>10, <1>11, <1>12 DEF OnceInv, OnceOf, chain, session

\* The last request of a mission is bound once it is on its way.
LEMMA BindLast ==
    ASSUME Once, NEW k \in Payments, NEW id \in DOMAIN req, req[id].mission = k, NEW replace,
           \A i \in DOMAIN req : req[i].mission = k => i <= id,
           replace \/ \A i \in DOMAIN req : req[i].mission = k /\ i # id => req[i].state = "reverted"
    PROVE  BindRequest(store, k, id, replace).m[k].request = id
<1>1. PICK b : b = store.m[k].request
  OBVIOUS
<1>2. b # 0 => /\ b \in DOMAIN req /\ req[b].mission = k /\ req[b].state # "reverted"
               /\ Complete(store, k) => ~Dead(req, b)
  BY <1>1, BoundTo DEF Once
<1>3. CASE b = id
  BY <1>1, <1>3, OrdFacts DEF BindRequest, Once
<1>4. CASE b # id /\ Complete(store, k)
  <2>1. b # 0
    BY <1>1, <1>4, CompleteIs DEF Done
  <2>2. b < id
    BY <1>2, <1>4, <2>1, OrdFacts DEF Once
  <2> QED BY <1>2, <1>4, <2>1, <2>2 DEF Once, OnceInv, OnceOf, Single
<1>5. CASE b # id /\ ~Complete(store, k)
  <2>1. b = 0 \/ replace
    BY <1>2, <1>5
  <2>2. k \in Keys
    BY DEF Payments, Keys
  <2> QED BY <1>1, <1>5, <2>1, <2>2, BindTakes, OwnFacts DEF Once, Ord
<1> QED BY <1>3, <1>4, <1>5

LEMMA OnceSettles ==
    ASSUME Once, UNCHANGED <<req, away>>, NEW o, NEW mounted, o.tx \in DOMAIN req, o.mission \in Payments, o.run = 1,
           req[o.tx].mission = o.mission, \A i \in DOMAIN req : req[i].mission = o.mission => i <= o.tx,
           o.replace \/ \A i \in DOMAIN req : req[i].mission = o.mission /\ i # o.tx => req[i].state = "reverted",
           op' = Idle \/ (op' = op /\ track.tx = o.tx /\ track.mission = o.mission),
           {op.tx, track.tx} \subseteq {0, o.tx, op'.tx}, Settle(o, mounted)
    PROVE  OnceInv'
<1>1. /\ Single(req) /\ Follows(req, store, op, track) /\ o.mission # "free" /\ store.run = 1
      /\ away' = <<>> /\ Pays(req, store, op, track) /\ o.tx # 0
  BY OrdFacts DEF Once, OnceInv, OnceOf, Payments
<1>2. CASE req[o.tx].state = "reverted"
  <2>1. track' = NoTrack /\ store' = store
    BY <1>2 DEF Settle, session
  <2>2. Follows(req, store, op', NoTrack)
    <3> SUFFICES ASSUME NEW i \in DOMAIN req
                 PROVE  /\ ~Dead(req, i) => i \in {op'.tx, NoTrack.tx, store.m[req[i].mission].request}
                        /\ req[i].state # "reverted" => i \in {op'.tx, NoTrack.tx} \/ store.m[req[i].mission].request # 0
      BY DEF Follows
    <3>1. i # 0 /\ (~Dead(req, i) => i # o.tx) /\ (req[i].state # "reverted" => i # o.tx)
      BY <1>2, OrdFacts DEF Once, Dead
    <3> QED BY <1>1, <3>1 DEF Follows
  <2>3. Pays(req, store, op', NoTrack)
    <3>1. op' # Idle => op' = op /\ op # Idle /\ track.tx = o.tx
      OBVIOUS
    <3>2. op' # Idle /\ op.at = "waiting" => req[op.tx].state = "reverted"
      BY <1>1, <1>2, <3>1 DEF Pays
    <3> QED BY <1>1, <3>1, <3>2 DEF Pays, NoTrack
  <2> QED BY <1>1, <2>1, <2>2, <2>3 DEF OnceInv, OnceOf, Points, NoTrack
<1>3. CASE req[o.tx].state # "reverted"
  <2>1. PICK n : n = BindRequest(store, o.mission, o.tx, o.replace)
    OBVIOUS
  <2>2. store' = n /\ track' = Named(o)
    BY <1>1, <1>3, <2>1 DEF Settle, Bind, SaveFor, Save, Named
  <2>3. track'.tx = o.tx /\ track'.id = o.tx /\ track'.mission = o.mission
    BY <2>2 DEF Named
  <2>4. n.m[o.mission].request = o.tx
    BY <2>1, BindLast
  <2>5. Moves(store, n)
    BY <2>1, MovesBind DEF Once
  <2>6. Follows(req, n, op, track) /\ Pays(req, n, op, track)
    BY <2>5, OnceMoves DEF OnceOf
  <2>7. Follows(req, n, op', track')
    <3> SUFFICES ASSUME NEW i \in DOMAIN req
                 PROVE  /\ ~Dead(req, i) => i \in {op'.tx, track'.tx, n.m[req[i].mission].request}
                        /\ req[i].state # "reverted" => i \in {op'.tx, track'.tx} \/ n.m[req[i].mission].request # 0
      BY DEF Follows
    <3>1. i # 0
      BY OrdFacts DEF Once
    <3> QED BY <2>3, <2>6, <3>1 DEF Follows
  <2>8. Points(req, n, track')
    BY <2>3, <2>4, OrdFacts DEF Points, Once
  <2>9. Pays(req, n, op', track')
    <3>1. op' # Idle => op' = op /\ op # Idle /\ track.tx = o.tx /\ track.mission = o.mission
      OBVIOUS
    <3>2. op' # Idle => /\ track'.tx = track.tx /\ track'.mission = track.mission /\ track.tx # 0
      BY <1>1, <2>3, <3>1
    <3> QED BY <2>6, <3>1, <3>2 DEF Pays
  <2> QED BY <1>1, <2>2, <2>7, <2>8, <2>9 DEF OnceInv, OnceOf
<1> QED BY <1>2, <1>3

\* Who waited for the receipt leaves it to the pointer, or to the session.
LEMMA OnceLeft ==
    ASSUME Once, op.at = "waiting", op' = Idle, away' = <<>>, UNCHANGED <<req, store, track>> PROVE OnceInv'
<1>1. Single(req) /\ Follows(req, store, op, track) /\ Pays(req, store, op, track) /\ Points(req, store, track)
  BY DEF Once, OnceInv, OnceOf
<1>2. op # Idle /\ op.tx \in DOMAIN req /\ req[op.tx].mission = op.mission
  BY OrdFacts DEF Once, Idle
<1>3. /\ track.tx \in {0, op.tx}
      /\ track.tx = 0 => \/ req[op.tx].state = "reverted"
                         \/ store.m[op.mission].request # 0 /\ (Dead(req, op.tx) \/ store.m[op.mission].request = op.tx)
  BY <1>1, <1>2 DEF Pays
<1>4. Follows(req, store, Idle, track)
  <2> SUFFICES ASSUME NEW i \in DOMAIN req
               PROVE  /\ ~Dead(req, i) => i \in {Idle.tx, track.tx, store.m[req[i].mission].request}
                      /\ req[i].state # "reverted" => i \in {Idle.tx, track.tx} \/ store.m[req[i].mission].request # 0
    BY DEF Follows
  <2> QED BY <1>1, <1>2, <1>3 DEF Follows, Dead
<1> QED BY <1>1, <1>4 DEF OnceInv, OnceOf, Pays

LEMMA OnceByReceipt == ASSUME Once, NEW m \in Ops, Receipt(m) PROVE OnceInv'
<1>0. m = 0 /\ Op(m) = op /\ \A o, f : Becomes(m, o, f) => op' = o /\ away' = <<>>
  BY AloneIs DEF Once, OnceInv
<1>1. op.at = "waiting" /\ op' = Idle /\ away' = <<>> /\ UNCHANGED <<chain, att, restore, calls, rs, faults>>
  BY <1>0 DEF Receipt
<1>2. UNCHANGED req /\ op # Idle /\ op.tx # 0 /\ op.tx \in DOMAIN req /\ req[op.tx].mission = op.mission /\ op.mission \in Payments
  BY <1>1, OrdFacts DEF chain, Once, Idle
<1>3. op.run = 1
  BY <1>0, <1>1, OwnIs DEF OwnOf, Once, Ord
<1>4. /\ op.tx = Len(req) /\ track.tx \in {0, op.tx} /\ away = <<>>
      /\ op.replace \/ \A i \in DOMAIN req : req[i].mission = op.mission /\ i # op.tx => req[i].state = "reverted"
  BY <1>1, <1>2 DEF Once, OnceInv, OnceOf, Pays
<1>5. \A i \in DOMAIN req : i <= op.tx
  BY <1>4, OrdFacts DEF Once
<1>6. CASE Settle(op, m = 0)
  <2>1. {op.tx, track.tx} \subseteq {0, op.tx, op'.tx}
    BY <1>4
  <2> QED BY <1>1, <1>2, <1>3, <1>4, <1>5, <1>6, <2>1, OnceSettles
<1>7. CASE UNCHANGED <<track, session>>
  BY <1>1, <1>2, <1>7, OnceLeft DEF session
<1> QED BY <1>0, <1>6, <1>7 DEF Receipt

LEMMA OnceByRecoverReceipt == ASSUME Once, RecoverReceipt PROVE OnceInv'
<1>1. /\ track.tx # 0 /\ track.id = 0 /\ Settle(track, TRUE)
      /\ UNCHANGED <<chain, op, away, att, restore, calls, rs, faults>>
  BY DEF RecoverReceipt
<1>2. UNCHANGED req /\ track.tx \in DOMAIN req /\ req[track.tx].mission = track.mission /\ track.mission \in Payments /\ track.run = 1
  BY <1>1, OrdFacts DEF chain, Once
<1>3. /\ \A i \in DOMAIN req : req[i].mission = track.mission => i <= track.tx
      /\ track.replace \/ \A i \in DOMAIN req : req[i].mission = track.mission /\ i # track.tx => req[i].state = "reverted"
  BY <1>1 DEF Once, OnceInv, OnceOf, Points
<1>4. {op.tx, track.tx} \subseteq {0, track.tx, op'.tx} /\ op' = op
  BY <1>1
<1> QED BY <1>1, <1>2, <1>3, <1>4, OnceSettles

\* What only records evidence.
LEMMA OnceByReconcile == ASSUME Once, ReconcileNow \/ Resume \/ DecryptReason PROVE OnceInv'
<1>1. UNCHANGED <<chain, payment>>
  BY DEF ReconcileNow, Resume, DecryptReason
<1>2. Shape(view) /\ Evid(view, store)
  BY OwnFacts DEF Once, Ord, Own, RunInv, CopiesInv
<1>3. ASSUME NEW n, Moves(view, n) PROVE Moves(store, n)
  <2>1. \A k \in Payments : view.m[k].request = store.m[k].request
    BY <1>2 DEF Evid, SameProgress, Payments, Keys
  <2> QED BY <1>3, <2>1 DEF Moves
<1>4. CASE ReconcileNow
  <2>1. Moves(store, Reconcile(view, seen))
    BY <1>2, <1>3, MovesReconcile DEF Once
  <2> QED BY <1>1, <1>4, <2>1, OnceSave DEF ReconcileNow, chain, payment
<1>5. CASE Resume
  <2>1. PICK t, n : t = ResumeSession(view) /\ n = TourStep(t, view.tour.step, view.route, view.role)
    OBVIOUS
  <2>2. Evid(t, view) /\ Evid(n, t)
    BY <1>2, <2>1, ResumeKeeps, TourStepKeeps DEF Evid
  <2>3. Moves(store, n)
    BY <1>3, <2>2, EvidJoins, MovesEvid
  <2> QED BY <1>1, <1>5, <2>1, <2>3, OnceSave DEF Resume, chain, payment
<1>6. CASE DecryptReason
  <2>1. PICK i \in RunBound(store.run, "violation", seen) : Save(ReasonDecrypted(ViolationBlocked(store, i), i))
    BY <1>6 DEF DecryptReason
  <2>2. i \in DOMAIN req /\ req[i].mission = "violation"
    BY OwnFacts DEF RunBound, SeenInv, Mined, Once, Ord
  <2>3. Moves(store, ReasonDecrypted(ViolationBlocked(store, i), i))
    BY <2>2, MovesReasoned DEF Once
  <2> QED BY <1>1, <2>1, <2>3, OnceSave DEF chain, payment
<1> QED BY <1>4, <1>5, <1>6

LEMMA OnceByCalled == ASSUME Once, Called PROVE OnceInv'
<1>1. PICK c \in calls :
        /\ UNCHANGED <<chain, payment, active, missionOf, restore, rs, faults>>
        /\ \/ req[c.id].origin = "user" /\ SaveFor(c.run, Decide(store, c.id, userAction(c.id)))
           \/ UNCHANGED session
  BY DEF Called
<1>2. CASE req[c.id].origin = "user" /\ SaveFor(c.run, Decide(store, c.id, userAction(c.id)))
  <2>1. c.id \in DOMAIN req /\ RequestOK(req[c.id])
    BY OwnFacts DEF Once, Ord, Own, RunInv, CallsInv, Mined
  <2>2. Moves(store, Decide(store, c.id, userAction(c.id)))
    BY <1>2, <2>1, MovesDecide DEF RequestOK, Once
  <2> QED BY <1>1, <1>2, <2>2, OnceSave DEF chain, payment
<1>3. CASE UNCHANGED session
  BY <1>1, <1>3 DEF Once, OnceInv, chain, payment, session
<1> QED BY <1>1, <1>2, <1>3

LEMMA OnceByBookkeep == ASSUME Once, Bookkeep PROVE OnceInv'
<1>1. UNCHANGED <<chain, active, missionOf, att, restore, calls, rs, faults, op, away>>
  BY DEF Bookkeep, payment
<1>2. CASE UNCHANGED <<session, payment>>
  BY <1>1, <1>2 DEF Once, OnceInv, chain, session, payment
<1>3. CASE ~UNCHANGED <<session, payment>>
  <2>1. /\ active \in DOMAIN seen /\ seen[active].state \in Terminal /\ TracksLatest(Owner)
        /\ IF RoutinePaid THEN SaveFor(BookRun, RoutineExecuted(store, active))
           ELSE IF DecisionMade THEN SaveFor(BookRun, Decide(store, active, userAction(active)))
           ELSE UNCHANGED session
        /\ track' = IF RoutinePaid \/ DecisionMade \/ OwnerOr(Tracking) = "free" THEN NoTrack ELSE track
    BY <1>3, BookkeepIs
  <2>2. /\ Mined(req, active) /\ RequestOK(req[active]) /\ req[active] = seen[active]
        /\ active \in DOMAIN req /\ req[active].mission \in Payments /\ active # 0
    BY <2>1, OwnFacts, OrdFacts DEF SeenInv, Mined, Once, Ord
  <2>3. Owner # "none" => Owner \in Payments /\ store.m[Owner].request = active /\ req[active].mission = Owner
    BY <2>2, OwnerIs DEF Once, Ord, Own, OwnInv, Ev, EvOf
  <2>4. Owner = "none" => \A j \in Payments : store.m[j].request # active
    BY <2>2, OwnerIs
  <2>5. OwnerOr(Tracking) # "free"
    <3>1. track.id = active => track.mission \in Payments
      BY <2>2, OrdFacts DEF Once
    <3> QED BY <2>3, <3>1 DEF OwnerOr, Tracking, Once, Ord, OrderInv, Payments
  <2>6. PICK n : /\ store' \in {store, n} /\ Moves(store, n)
    <3>1. CASE RoutinePaid /\ req[active].mission = "routine"
      <4>1. Moves(store, RoutineExecuted(store, active))
        BY <2>2, <3>1, MovesExecuted DEF Once
      <4> QED BY <2>1, <3>1, <4>1 DEF SaveFor, Save, session
    <3>2. CASE RoutinePaid /\ req[active].mission # "routine"
      <4>1. Past(store, req[active].mission)
        BY <2>2, OrdFacts DEF Once
      <4>2. Complete(store, "routine")
        BY <2>2, <3>2, <4>1, RankIs DEF Past, Payments
      <4>3. store.m["routine"].request \notin {0, active}
        BY <2>3, <2>4, <3>2, <4>2, CompleteIs DEF Done, Payments, RoutinePaid, OwnerOr
      <4>4. RoutineExecuted(store, active) = store
        BY <4>3 DEF RoutineExecuted, MayRecord
      <4> QED BY <2>1, <3>2, <4>4, MovesSelf DEF SaveFor, Save, session
    <3>3. CASE ~RoutinePaid /\ DecisionMade
      <4>1. Moves(store, Decide(store, active, userAction(active)))
        BY <2>2, <3>3, MovesDecide DEF Once, DecisionMade, RequestOK
      <4> QED BY <2>1, <3>3, <4>1 DEF SaveFor, Save, session
    <3>4. CASE ~RoutinePaid /\ ~DecisionMade
      BY <2>1, <3>4, MovesSelf DEF session
    <3> QED BY <3>1, <3>2, <3>3, <3>4
  <2>7. Moves(store, store')
    BY <2>6, MovesSelf
  <2>8. CASE track' = track
    BY <1>1, <2>7, <2>8, OnceMoves DEF Once, OnceInv, chain
  <2>9. CASE track' = NoTrack /\ (RoutinePaid \/ DecisionMade)
    <3>1. ~Dead(req, active)
      BY <2>2, <2>9 DEF Dead, RoutinePaid, DecisionMade, RequestOK
    <3>2. ASSUME track.tx # 0 PROVE store.m[track.mission].request = track.tx
      <4>1. track.tx \in DOMAIN req /\ req[track.tx].mission = track.mission /\ track.id \in {0, track.tx}
        BY <3>2, OrdFacts DEF Once
      <4>2. Points(req, store, track) /\ Single(req)
        BY DEF Once, OnceInv, OnceOf
      <4>3. CASE track.id # 0
        BY <3>2, <4>1, <4>2, <4>3 DEF Points
      <4>4. CASE track.id = 0
        <5>1. Owner # "none" /\ track.mission = Owner
          BY <2>1, <2>2, <3>2, <4>4 DEF TracksLatest
        <5>2. active <= track.tx /\ ~(active < track.tx)
          BY <2>2, <2>3, <3>1, <3>2, <4>1, <4>2, <5>1 DEF Points, Single
        <5>3. active \in Nat /\ track.tx \in Nat
          BY <2>2, <4>1, OrdFacts DEF Once
        <5> QED BY <2>3, <5>1, <5>2, <5>3
      <4> QED BY <4>3, <4>4
    <3> QED BY <1>1, <2>7, <2>9, <3>2, OnceClears DEF Once, OnceInv, chain
  <2> QED BY <2>1, <2>5, <2>8, <2>9
<1> QED BY <1>2, <1>3

\* The page turns: the payment itself is as it was, or the page lost sight of it.
LEMMA OnceByPage ==
    ASSUME Once, ~visit.LosesHash, ~visit.Abandons,
           Poll \/ Restore \/ Adopt \/ Continue \/ Leave \/ ChooseDecision \/ AskAttestation \/ Reload
    PROVE  OnceInv'
<1>1. OpInv(visit, req, op)
  BY DEF Once, Ord, Own, RunInv
<1>2. CASE Poll \/ Adopt \/ Continue \/ ChooseDecision \/ AskAttestation
  BY <1>2 DEF Once, OnceInv, Poll, Adopt, Continue, ChooseDecision, AskAttestation, chain, session, payment
<1>3. CASE Restore
  <2>1. UNCHANGED <<chain, session, op, away>> /\ (track' = track \/ (track' = NoTrack /\ ~(track.tx # 0 /\ track.run = store.run)))
    BY <1>3, RestoreIs
  <2>2. track' = track \/ (track.tx = 0 /\ track' = NoTrack)
    BY <2>1, OrdFacts DEF Once
  <2>3. UNCHANGED <<req, store, away>>
    BY <2>1 DEF chain, session
  <2>4. op' = Idle \/ op # Idle
    BY <2>1
  <2>5. op'.tx = op.tx /\ op'.at = op.at /\ op'.mission = op.mission /\ op'.replace = op.replace
    BY <2>1
  <2> QED BY <2>2, <2>3, <2>4, <2>5, OnceGoesOn
<1>4. CASE Leave
  <2>1. UNCHANGED <<req, store, track, op, away>>
    BY <1>4, RemountedIs DEF Leave, chain, session, Once, Ord, Own
  <2> QED BY <2>1 DEF Once, OnceInv
<1>5. CASE Reload
  <2>1. UNCHANGED <<req, store, track>> /\ op' = Idle /\ away' = <<>>
    BY <1>5 DEF Reload
  <2>4. op.at # "sent" /\ away = <<>>
    <3>1. 0 \in Ops /\ Op(0) = op /\ away = <<>>
      BY DEF Ops, Op, Once, OnceInv
    <3> QED BY <1>5, <3>1 DEF Reload
  <2>2. CASE op.at = "waiting"
    BY <2>1, <2>2, <2>4, OnceLeft
  <2>3. CASE op.at # "waiting"
    <3>1. op.tx = 0 /\ op'.tx = 0
      BY <1>1, <2>1, <2>3, <2>4 DEF OpInv, Idle
    <3> QED BY <2>1, <2>4, <3>1, OnceGoesOn
  <2> QED BY <2>2, <2>3
<1> QED BY <1>2, <1>3, <1>4, <1>5

LEMMA OnceNext == ASSUME Once, ~visit.LosesHash, ~visit.Abandons, Next PROVE OnceInv'
<1>1. pend = NoSession /\ ~visit.Split
  BY DEF Once, Ord, OrderInv, InOrder
<1>2. ~Commit /\ ~Effects /\ ~Navigates
  BY <1>1 DEF Commit, Effects, Navigates
<1>3. CASE Mine \/ Finalize \/ ServiceActs \/ \E k \in visit.Missions : Click(k)
  BY <1>3, OnceByChain, OnceByClick
<1>4. CASE RecoverReceipt \/ \E m \in Ops : Preflight(m) \/ Broadcast(m) \/ Answer(m) \/ Receipt(m)
  BY <1>4, OnceByPreflight, OnceByBroadcast, OnceByAnswer, OnceByReceipt, OnceByRecoverReceipt
<1>5. CASE ReconcileNow \/ Resume \/ DecryptReason \/ Called \/ Bookkeep
  BY <1>5, OnceByReconcile, OnceByCalled, OnceByBookkeep
<1>6. CASE Poll \/ Restore \/ Adopt \/ Continue \/ Leave \/ ChooseDecision \/ AskAttestation \/ Reload
  BY <1>6, OnceByPage
<1>7. ~OtherVisitor /\ ~RestartBegin /\ ~RestartEnds /\ ~ClickFree
  BY NoOthers DEF Once, Ord
<1> QED BY <1>2, <1>3, <1>4, <1>5, <1>6, <1>7 DEF Next

LEMMA OnceIsOne == ASSUME Once PROVE OneAttempt
<1>1. \A i \in DOMAIN req : i \in Nat
  BY OrdFacts DEF Once
<1>2. Single(req)
  BY DEF Once, OnceInv, OnceOf
<1> SUFFICES ASSUME NEW i \in DOMAIN req, NEW j \in DOMAIN req, req[i].mission = req[j].mission, ~Dead(req, i), ~Dead(req, j)
             PROVE  i = j
  BY DEF OneAttempt, Dead
<1>3. ~(i < j) /\ ~(j < i)
  BY <1>2 DEF Single
<1> QED BY <1>1, <1>3

-----------------------------------------------------------------------------
(***************************************************************************)
(* The first mission, with free payments beside it.                        *)
(***************************************************************************)

First == Own /\ RoutineOnly /\ FirstInv

LEMMA MandatesAre == mandate("routine") = "main" /\ mandate("free") = "free"
BY DEF mandate

LEMMA FirstFacts ==
    ASSUME First
    PROVE  /\ Len(req) \in Nat /\ DOMAIN req = 1 .. Len(req)
           /\ \A i \in DOMAIN req : /\ i \in Nat /\ i # 0 /\ req[i].mission \in {"routine", "free"} /\ RequestOK(req[i])
                                    /\ req[i].mission = "routine" => req[i].run = 1
           /\ \A i \in DOMAIN seen : /\ i \in DOMAIN req /\ seen[i].mission = req[i].mission /\ seen[i].run = req[i].run
                                     /\ seen[i].state \in InFlight \cup Terminal /\ (seen[i].state \in Terminal => seen[i] = req[i])
           /\ track.tx # 0 => track.tx \in DOMAIN req /\ req[track.tx].mission = track.mission /\ track.run = 1
           /\ track.id \in {0, track.tx}
           /\ op.tx # 0 => op.tx \in DOMAIN req /\ req[op.tx].mission = op.mission
           /\ (op.tx # 0) <=> op.at \in {"sent", "waiting"}
           /\ op.at = "idle" <=> op = Idle
           /\ store.run = 1 /\ Bound(view) = Bound(store)
           /\ active # 0 => active \in DOMAIN req
           /\ Bound(store) # 0 => Bound(store) \in DOMAIN req /\ req[Bound(store)].mission = "routine"
           /\ visit.Missions = {"routine"} /\ ~Fault /\ away = <<>>
<1>1. /\ ReqInv(visit, req) /\ SeenInv(req, seen) /\ TrackInv(visit, req, track) /\ OpInv(visit, req, op)
      /\ PageInv(req, active, att, flow)
  BY DEF First, Own, RunInv
<1>2. Len(req) \in Nat /\ DOMAIN req = 1 .. Len(req)
  BY <1>1 DEF ReqInv
<1>3. \A i \in DOMAIN req : /\ i \in Nat /\ i # 0 /\ req[i].mission \in {"routine", "free"} /\ RequestOK(req[i])
                            /\ req[i].mission = "routine" => req[i].run = 1
  BY <1>2, OwnFacts DEF First, FirstInv, Own, OwnInv
<1>4. \A i \in DOMAIN seen : /\ i \in DOMAIN req /\ seen[i].mission = req[i].mission /\ seen[i].run = req[i].run
                             /\ seen[i].state \in InFlight \cup Terminal /\ (seen[i].state \in Terminal => seen[i] = req[i])
  BY <1>1 DEF SeenInv, Mined
<1>5. /\ track.tx # 0 => track.tx \in DOMAIN req /\ req[track.tx].mission = track.mission /\ track.run = 1
      /\ track.id \in {0, track.tx}
  BY <1>1, OwnFacts DEF TrackInv, First, Own, OwnInv
<1>6. /\ op.tx # 0 => op.tx \in DOMAIN req /\ req[op.tx].mission = op.mission
      /\ (op.tx # 0) <=> op.at \in {"sent", "waiting"}
      /\ op.at = "idle" <=> op = Idle
  BY <1>1, OwnFacts, OwnIs DEF OpInv, First, OwnOf, Owned, Submissions, Idle
<1>7. Bound(view) = Bound(store) /\ store.run = 1
  <2>1. Evid(view, store)
    BY DEF First, Own, RunInv, CopiesInv
  <2> QED BY <2>1, OwnFacts DEF First, Evid, SameProgress, Keys, Bound
<1>8. active # 0 => active \in DOMAIN req
  BY <1>1 DEF PageInv, Mined
<1>9. Bound(store) # 0 => Bound(store) \in DOMAIN req /\ req[Bound(store)].mission = "routine"
  <2>1. "routine" \in Payments /\ SessInv(visit, req, store) /\ Ev(req, store)
    BY Facts DEF First, Own, OwnInv, Payments
  <2> QED BY <2>1 DEF SessInv, Mined, Bound, Ev, EvOf
<1>10. visit.Missions = {"routine"} /\ ~Fault /\ away = <<>>
  BY DEF First, RoutineOnly, FirstInv, Fault
<1> QED BY <1>2, <1>3, <1>4, <1>5, <1>6, <1>7, <1>8, <1>9, <1>10

LEMMA FirstKnows == ASSUME First PROVE RoutineKnown
<1> SUFFICES ASSUME active \in DOMAIN seen, missionOf = "routine", req[active].mission # "routine", store.m["routine"].request = 0
             PROVE  track.tx # 0 /\ track.id = 0
  BY DEF RoutineKnown
<1>1. active # 0 /\ req[active].mission = "free"
  BY FirstFacts
<1>2. Apart(req, track, active, missionOf)
  BY DEF First, FirstInv, Loose, Bound
<1> QED BY <1>1, <1>2 DEF Apart

\* While it is loose, the routine payments are in order.
LEMMA Loosely ==
    ASSUME First, Loose(req, seen, store, pend)
    PROVE  Apart(req, track, active, missionOf) /\ Tidy(req, seen, store, op, track, flow, active)
BY DEF First, FirstInv

LEMMA FirstStays ==
    ASSUME First, UNCHANGED <<req, seen, away, calls, faults>>, FirstOp(op', track'),
           Loose(req, seen, store', pend') =>
              Apart(req, track', active', missionOf') /\ Tidy(req, seen, store', op', track', flow', active')
    PROVE  FirstInv'
BY DEF First, FirstInv

LEMMA LooseWas ==
    ASSUME NEW s, NEW e, e \in {pend, NoSession}, Bound(s) = 0 => Bound(store) = 0, Loose(req, seen, s, e)
    PROVE  Loose(req, seen, store, pend)
BY DEF Loose

\* A session that is bound to no routine payment after reconciliation was shown none.
LEMMA AttemptFinds ==
    ASSUME NEW n \in Nat, NEW S, DOMAIN S \subseteq 1 .. n, NEW s, NEW k, s.m[k].request = 0, RunBound(s.run, k, S) # {}
    PROVE  Attempt(s, k, S) # 0
<1>1. PICK C : C = RunBound(s.run, k, S)
  OBVIOUS
<1>2. C \in SUBSET (1 .. n) /\ C # {}
  BY <1>1 DEF RunBound
<1>3. newest(C) \in C
  BY <1>2, NewestIs
<1>4. newest(C) # 0 /\ 0 \notin C
  BY <1>2, <1>3
<1> QED BY <1>1, <1>4 DEF Attempt

LEMMA ReconcileBinds ==
    ASSUME NEW n \in Nat, NEW S, DOMAIN S \subseteq 1 .. n, NEW s, Shape(s), Bound(Reconcile(s, S)) = 0
    PROVE  Bound(s) = 0 /\ RunBound(s.run, "routine", S) = {}
<1>1. PICK t, u, v : /\ t = ReconcileMission(s, "routine", S) /\ u = ReconcileMission(t, "approval", S)
                     /\ v = ReconcileMission(u, "violation", S)
  OBVIOUS
<1>2. v = Reconcile(s, S)
  BY <1>1 DEF Reconcile
<1>3. "routine" \in Payments /\ "approval" \in Payments /\ "violation" \in Payments /\ "routine" \in Keys
  BY DEF Payments, Keys
<1>4. OnlyMission(t, s, "routine") /\ Told(S, s.run, "routine", s.m["routine"], t.m["routine"])
  BY <1>1, <1>3, MissionToldIs
<1>5. OnlyMission(u, t, "approval") /\ Shape(t)
  BY <1>1, <1>3, <1>4, MissionToldIs DEF OnlyMission
<1>6. OnlyMission(v, u, "violation")
  BY <1>1, <1>3, <1>5, MissionToldIs DEF OnlyMission
<1>7. Bound(v) = Bound(t)
  BY <1>3, <1>5, <1>6 DEF OnlyMission, SameProgress, Bound
<1>8. Bound(t) = 0
  BY <1>2, <1>7
<1>9. Bound(s) = 0
  BY <1>4, <1>8 DEF Told, SameProgress, RunBound, Bound
<1>10. ASSUME RunBound(s.run, "routine", S) # {} PROVE FALSE
  <2>1. PICK id : id = Attempt(s, "routine", S) /\ id # 0
    BY <1>9, <1>10, AttemptFinds DEF Bound
  <2>2. ~Complete(s, "routine")
    BY <1>3, <1>9, CompleteIs DEF Done, Bound
  <2>3. t.m["routine"].request = id
    BY <1>1, <1>3, <2>1, <2>2, MissionToldIs
  <2> QED BY <1>8, <2>1, <2>3 DEF Bound
<1> QED BY <1>9, <1>10

\* The chain. No routine payment reverts on another one.
LEMMA FirstGrows ==
    ASSUME First, Grows(req, req'), DOMAIN req' = DOMAIN req, UNCHANGED <<seen, session, payment, page, calls, faults>>,
           Loose(req, seen, store, pend) => \A i \in Routines(req) : req'[i].state # "reverted"
    PROVE  FirstInv'
<1>1. \A i \in DOMAIN req : req'[i].mission = req[i].mission /\ (req[i].state \in Terminal => req'[i] = req[i])
  BY DEF Grows
<1>2. Routines(req') = Routines(req) /\ Routines(req) \subseteq DOMAIN req
  BY <1>1 DEF Routines
<1>3. \A i \in DOMAIN req' : req'[i].mission \in {"routine", "free"}
  BY <1>1, FirstFacts
<1>4. ASSUME Loose(req, seen, store, pend)
      PROVE  Apart(req', track, active, missionOf) /\ Tidy(req', seen, store, op, track, flow, active)
  <2>1. Apart(req, track, active, missionOf) /\ Tidy(req, seen, store, op, track, flow, active)
    BY <1>4, Loosely
  <2>2. Apart(req', track, active, missionOf)
    BY <1>1, <2>1, FirstFacts DEF Apart
  <2>3. \A i, j \in Routines(req) : i < j => req'[i].state \in Terminal
    BY <1>1, <1>2, <2>1 DEF Tidy
  <2>4. op.at \in {"preflight", "sending"} /\ op.mission = "routine" => \A i \in Routines(req) : req'[i].state \in Terminal
    BY <1>1, <1>2, <2>1 DEF Tidy
  <2> QED BY <1>2, <1>4, <2>1, <2>2, <2>3, <2>4 DEF Tidy
<1>5. Loose(req', seen', store', pend') => Loose(req, seen, store, pend)
  BY <1>2 DEF Loose, session
<1> QED BY <1>3, <1>4, <1>5 DEF First, FirstInv, session, payment, page

LEMMA FirstByChain == ASSUME First, Mine \/ Finalize \/ ServiceActs PROVE FirstInv'
<1>1. /\ Grows(req, req') /\ DOMAIN req' = DOMAIN req
      /\ UNCHANGED <<seen, loaded, session, payment, page, calls, rs, faults>>
  BY ChainTurns DEF First, Own
<1>2. ~ServiceActs
  BY FirstFacts DEF ServiceActs, RequestOK
<1>3. ASSUME Loose(req, seen, store, pend), NEW i \in Routines(req) PROVE req'[i].state # "reverted"
  <2>1. i \in DOMAIN req /\ req[i].mission = "routine"
    BY DEF Routines
  <2>2. Tidy(req, seen, store, op, track, flow, active)
    BY <1>3, Loosely
  <2>3. req[i].state # "reverted"
    BY <2>2 DEF Tidy
  <2>4. CASE req'[i] = req[i]
    BY <2>3, <2>4
  <2>5. CASE req'[i] # req[i] /\ Finalize
    <3>1. PICK j, st : j \in DOMAIN req /\ req' = [req EXCEPT ![j].state = st] /\ st # "reverted"
      BY <2>5 DEF Finalize
    <3> QED BY <2>1, <2>3, <2>5, <3>1
  <2>6. CASE req'[i] # req[i] /\ Mine
    <3>1. PICK j, r, st : /\ Turns(req, req', j, r, st, req[j].origin) /\ req[j].state = "pool"
                          /\ st = IF SlotBusy(req[j].mission) THEN "reverted" ELSE "requested"
      BY <2>6, MineTurns DEF First, Own
    <3>2. r.state = st /\ TurnsInto(req, req', j, r)
      BY <3>1, RequestTurns DEF First, Own, RunInv
    <3>3. j = i /\ req'[i] = r
      BY <2>1, <2>6, <3>2 DEF TurnsInto
    <3>4. ASSUME SlotBusy("routine") PROVE FALSE
      <4>1. PICK h \in DOMAIN req : mandate(req[h].mission) = "main" /\ req[h].state \in InFlight
        BY <3>4, MandatesAre DEF SlotBusy
      <4>2. h \in Routines(req) /\ h \in Nat /\ i \in Nat
        BY <2>1, <4>1, MandatesAre, FirstFacts DEF Routines
      <4>3. h # i /\ req[h].state \notin Terminal /\ req[i].state \notin Terminal
        BY <3>1, <3>3, <4>1 DEF InFlight, Terminal
      <4> QED BY <2>2, <4>2, <4>3 DEF Tidy
    <3> QED BY <2>1, <3>1, <3>2, <3>3, <3>4
  <2> QED BY <1>2, <2>4, <2>5, <2>6
<1> QED BY <1>1, <1>3, FirstGrows

LEMMA FirstByPoll == ASSUME First, Poll PROVE FirstInv'
<1>1. PICK now : now = [i \in {j \in DOMAIN req : req[j].state \notin {"pool", "reverted"}} |-> req[i]]
  OBVIOUS
<1>2. /\ pend = NoSession /\ seen' = now
      /\ UNCHANGED <<req, session, payment, active, missionOf, att, calls, rs, faults>>
  BY <1>1 DEF Poll, Quiet
<1>3. SeenInv(req, seen)
  BY DEF First, Own, RunInv
<1>4. DOMAIN seen \subseteq DOMAIN now
  BY <1>1, <1>3 DEF SeenInv, Mined, InFlight, Terminal
<1>5. \A i \in DOMAIN now : now[i].state # "awaiting"
  BY <1>1, FirstFacts DEF RequestOK
<1>6. Loose(req, now, store, pend) => Loose(req, seen, store, pend)
  BY <1>2 DEF Loose
<1>7. ASSUME Tidy(req, seen, store, op, track, flow, active) PROVE Tidy(req, now, store, op, track, flow, active)
  BY <1>4, <1>7 DEF Tidy
<1> QED BY <1>2, <1>5, <1>6, <1>7 DEF First, FirstInv, session, payment

\* The session alone.
LEMMA FirstSame ==
    ASSUME First, UNCHANGED <<req, seen, op, away, track, flow, active, missionOf, calls, faults>>,
           Loose(req, seen, store', pend') => Loose(req, seen, store, pend) /\ Bound(store') \in {0, Bound(store)}
    PROVE  FirstInv'
<1>1. FirstOp(op', track')
  BY DEF First, FirstInv
<1>2. ASSUME Loose(req, seen, store', pend')
      PROVE  Apart(req, track', active', missionOf') /\ Tidy(req, seen, store', op', track', flow', active')
  BY <1>2, Loosely DEF Tidy
<1> QED BY <1>1, <1>2, FirstStays

LEMMA FirstBySession == ASSUME First, Commit \/ Effects \/ ReconcileNow \/ Navigates \/ Resume PROVE FirstInv'
<1>1. UNCHANGED <<req, seen, op, away, track, flow, active, missionOf, calls, faults>>
  BY DEF Commit, Effects, ReconcileNow, Navigates, Resume, chain, payment, page
<1>2. Shape(view) /\ Shape(store) /\ view.run = 1 /\ Bound(view) = Bound(store)
  BY OwnFacts, FirstFacts DEF First
<1>3. PICK n \in Nat : DOMAIN seen \subseteq 1 .. n
  BY SeenDomain DEF First, Own, RunInv
<1>4. CASE Commit
  <2>1. store' = store /\ pend' = view
    BY <1>4 DEF Commit
  <2> QED BY <1>1, <1>2, <2>1, FirstSame DEF Loose
<1>5. CASE Navigates
  BY <1>1, <1>5, FirstSame DEF Navigates
<1>6. CASE ReconcileNow
  <2>1. store' = Reconcile(view, seen)
    BY <1>6 DEF ReconcileNow, Save
  <2>2. pend' = NoSession
    BY <1>6 DEF ReconcileNow, Save
  <2>3. Loose(req, seen, store', pend') => Bound(store') = 0
    BY <2>2 DEF Loose
  <2>4. Bound(store') = 0 => Bound(store) = 0
    BY <1>2, <1>3, <2>1, ReconcileBinds
  <2> QED BY <1>1, <2>3, <2>4, FirstSame DEF Loose
<1>7. CASE Resume
  <2>1. PICK t, n1 : t = ResumeSession(view) /\ n1 = TourStep(t, view.tour.step, view.route, view.role)
    OBVIOUS
  <2>2. store' = n1 /\ pend' \in {pend, NoSession}
    BY <1>7, <2>1 DEF Resume, Save
  <2>3. Evid(t, view) /\ Evid(n1, t)
    BY <1>2, <2>1, ResumeKeeps, TourStepKeeps DEF Evid
  <2>4. Bound(n1) = Bound(view)
    BY <2>3 DEF Evid, SameProgress, Keys, Bound
  <2>5. Loose(req, seen, store', pend') => Loose(req, seen, store, pend)
    BY <1>2, <2>2, <2>4, LooseWas
  <2> QED BY <1>1, <1>2, <2>2, <2>4, <2>5, FirstSame
<1>8. CASE Effects
  <2>1. pend # NoSession /\ pend' = NoSession /\ store' = Reconcile(pend, seen)
    BY <1>8 DEF Effects
  <2>2. Shape(pend) /\ pend.run = 1
    BY <2>1, OwnFacts DEF First, Own, RunInv, CopiesInv, SessInv
  <2>3. ASSUME Loose(req, seen, store', pend') PROVE Loose(req, seen, store, pend) /\ Bound(store') = 0
    <3>1. Bound(store') = 0
      BY <2>1, <2>3 DEF Loose
    <3>2. Bound(pend) = 0 /\ RunBound(1, "routine", seen) = {}
      BY <1>3, <2>1, <2>2, <3>1, ReconcileBinds
    <3>3. \A i \in DOMAIN seen : i \notin Routines(req)
      BY <3>2, FirstFacts DEF RunBound, Routines
    <3> QED BY <2>1, <3>1, <3>2, <3>3 DEF Loose
  <2> QED BY <1>1, <2>3, FirstSame
<1> QED BY <1>4, <1>5, <1>6, <1>7, <1>8

\* Who watches an unseen payment.
LEMMA WatchedIs ==
    ASSUME First, Loose(req, seen, store, pend), NEW i \in Routines(req), i \notin DOMAIN seen
    PROVE  /\ Watched(i, op, track, flow, active) /\ i \in DOMAIN req /\ req[i].mission = "routine" /\ i # 0
           /\ op # Idle => op.tx = i
           /\ op = Idle => Held(i, track, flow, active) /\ (track.id = 0 => flow = "recovering")
<1>1. i \in DOMAIN req /\ req[i].mission = "routine" /\ i # 0
  BY FirstFacts DEF Routines
<1>2. Watched(i, op, track, flow, active)
  BY Loosely DEF Tidy
<1>3. Idle.tx = 0
  BY DEF Idle
<1> QED BY <1>1, <1>2, <1>3 DEF Watched

\* Nothing is unseen before a submission is broadcast.
LEMMA NoneUnseen ==
    ASSUME First, Loose(req, seen, store, pend), op.tx = 0, op # Idle \/ flow = "none"
    PROVE  Routines(req) \subseteq DOMAIN seen
<1>1. ASSUME NEW i \in Routines(req), i \notin DOMAIN seen PROVE FALSE
  <2>1. op = Idle /\ i # 0 /\ Held(i, track, flow, active) /\ (track.id = 0 => flow = "recovering")
    BY <1>1, WatchedIs
  <2> QED BY <2>1 DEF Held
<1> QED BY <1>1

LEMMA OtherUnseen ==
    ASSUME First, Loose(req, seen, store, pend), op.tx # 0
    PROVE  \A i \in Routines(req) \ DOMAIN seen : i = op.tx
<1>1. op # Idle
  BY DEF Idle
<1> QED BY <1>1, WatchedIs

LEMMA FirstByClick == ASSUME First, NEW k \in visit.Missions, Click(k) PROVE FirstInv'
<1>1. k = "routine" /\ k \in Payments /\ k \in Keys
  BY FirstFacts DEF Payments, Keys
<1>2. pend = NoSession /\ UNCHANGED <<chain, away, active, att, restore, calls, rs, faults>> /\ FirstOp(op, track)
  BY DEF Click, Quiet, First, FirstInv
<1>3. Loose(req, seen, store, pend) <=> Bound(store) = 0
  BY <1>2 DEF Loose
<1>4. CASE op = Idle /\ ~BlockingSeen("main") /\ ~Tracked(k) /\ Start(k, ActionFor(k) = "retry") /\ UNCHANGED <<track, session, missionOf>>
  <2>1. op'.at = "preflight" /\ op'.tx = 0 /\ op'.mission = "routine" /\ op' # Idle
    BY <1>1, <1>4, StartIs DEF First, Own
  <2>2. FirstOp(op', track')
    BY <2>1 DEF FirstOp
  <2>3. ASSUME Loose(req, seen, store, pend)
        PROVE  Apart(req, track', active', missionOf') /\ Tidy(req, seen, store', op', track', flow', active')
    <3>1. Routines(req) \subseteq DOMAIN seen
      <4>1. ASSUME NEW i \in Routines(req), i \notin DOMAIN seen PROVE FALSE
        <5>1. track.tx = i /\ req[i].mission = "routine" /\ i # 0
          BY <1>4, <2>3, <4>1, WatchedIs DEF Held
        <5> QED BY <1>1, <1>4, <5>1, FirstFacts DEF Tracked
      <4> QED BY <4>1
    <3>2. ASSUME NEW i \in Routines(req) PROVE req[i].state \in Terminal
      <4>1. i \in DOMAIN seen /\ mandate(seen[i].mission) = "main"
        BY <3>1, FirstFacts, MandatesAre DEF Routines
      <4>2. seen[i].state \notin InFlight
        BY <1>4, <4>1 DEF BlockingSeen
      <4> QED BY <4>1, <4>2, FirstFacts
    <3>3. Apart(req, track, active, missionOf) /\ Tidy(req, seen, store, op, track, flow, active)
      BY <2>3, Loosely
    <3> QED BY <1>2, <1>3, <1>4, <2>1, <2>3, <3>1, <3>2, <3>3 DEF Tidy, session
  <2> QED BY <1>2, <1>4, <2>2, <2>3, FirstStays DEF session, chain
<1>5. CASE UNCHANGED <<track, op, flow, session, missionOf>>
  BY <1>2, <1>5, FirstSame DEF session, chain
<1>6. CASE /\ track.id # 0 /\ track.id = store.m[k].request /\ track' = NoTrack /\ UNCHANGED <<session, missionOf>>
           /\ Start(k, ActionFor(k) = "retry") \/ UNCHANGED op
  <2>1. ~Loose(req, seen, store', pend')
    BY <1>1, <1>3, <1>6 DEF Bound, session
  <2>2. track'.tx = 0
    BY <1>6 DEF NoTrack
  <2>3. op' = op \/ (op'.at = "preflight" /\ op'.mission = k)
    BY <1>1, <1>6, StartIs DEF First, Own
  <2>4. FirstOp(op', track')
    BY <1>1, <1>2, <2>2, <2>3 DEF FirstOp
  <2> QED BY <1>2, <2>1, <2>4, FirstStays DEF chain
<1>7. CASE Rebinds(k)
  <2>1. PICK n : n = BindRequest(store, k, track.id, track.replace)
    OBVIOUS
  <2>2. store' = n /\ pend' = NoSession
    BY <1>2, <1>7, <2>1 DEF Save, Rebinds
  <2>3. BoundAs(store, n, k, track.id, track.replace) /\ Shape(store)
    BY <1>1, <2>1, BoundIs, OwnFacts DEF First
  <2>4. Bound(store) = 0 => Bound(n) = track.id
    <3>1. Bound(store) = 0 => ~Complete(store, k)
      BY <1>1, CompleteIs DEF Done, Bound
    <3> QED BY <1>1, <2>1, <2>3, <3>1, BindTakes DEF Bound
  <2>5. Bound(n) # 0
    BY <1>1, <1>7, <2>3, <2>4 DEF BoundAs, Bound, Rebinds
  <2>6. ~Loose(req, seen, store', pend')
    BY <2>2, <2>5 DEF Loose
  <2>7. FirstOp(op', track')
    BY <1>2, <1>7 DEF Rebinds
  <2> QED BY <1>2, <2>6, <2>7, FirstStays DEF chain
<1>8. CASE Recovers(k)
  <2>1. Tracked(k) /\ track.id = 0 /\ flow' = "recovering" /\ missionOf' = k /\ UNCHANGED <<track, op, session, active>>
    BY <1>2, <1>8 DEF Recovers
  <2>2. ASSUME Loose(req, seen, store, pend)
        PROVE  Apart(req, track', active', missionOf') /\ Tidy(req, seen, store', op', track', flow', active')
    <3>1. Apart(req, track', active', missionOf')
      BY <1>1, <2>1 DEF Apart, Tracked
    <3>2. ASSUME NEW i \in Routines(req) \ DOMAIN seen PROVE Watched(i, op', track', flow', active')
      BY <2>1, <2>2, <3>2, WatchedIs DEF Watched, Held
    <3> QED BY <1>3, <2>1, <2>2, <3>1, <3>2, Loosely DEF Tidy, session
  <2> QED BY <1>2, <2>1, <2>2, FirstStays DEF session, chain
<1>9. Rebinds(k) \/ Recovers(k) \/ (/\ UNCHANGED <<session, missionOf>>
        /\ \/ ~Tracked(k) /\ track' = track
           \/ track.id # 0 /\ track.id = store.m[k].request /\ track' = NoTrack
        /\ \/ op = Idle /\ ~BlockingSeen("main") /\ Start(k, ActionFor(k) = "retry")
           \/ UNCHANGED <<op, flow>>)
  BY DEF Click, Rebinds, Recovers
<1> QED BY <1>4, <1>5, <1>6, <1>7, <1>8, <1>9

LEMMA FirstByClickFree == ASSUME First, ClickFree PROVE FirstInv'
<1>1. /\ op = Idle /\ op.tx = 0 /\ flow = "none" /\ pend = NoSession /\ Start("free", FALSE)
      /\ UNCHANGED <<chain, session, track, away, page, calls, rs, faults>>
  BY DEF ClickFree, Quiet, Idle
<1>2. op'.at = "preflight" /\ op'.tx = 0 /\ op'.mission = "free"
  BY <1>1, StartIs DEF First, Own
<1>3. FirstOp(op', track')
  BY <1>2 DEF FirstOp
<1>4. ASSUME Loose(req, seen, store, pend)
      PROVE  Apart(req, track', active', missionOf') /\ Tidy(req, seen, store', op', track', flow', active')
  BY <1>1, <1>2, <1>4, Loosely, NoneUnseen DEF Tidy, session, page, Loose
<1> QED BY <1>1, <1>3, <1>4, FirstStays DEF session, chain

\* A submission that ends before its broadcast leaves all as it was.
LEMMA FirstByOver ==
    ASSUME First, op.tx = 0, op # Idle, pend = NoSession, op' = Idle, UNCHANGED <<req, seen, away, session, track, page, calls, faults>>
    PROVE  FirstInv'
<1>1. FirstOp(op', track') /\ op'.tx = 0 /\ op'.at = "idle"
  BY DEF FirstOp, Idle
<1>2. ASSUME Loose(req, seen, store, pend)
      PROVE  Apart(req, track', active', missionOf') /\ Tidy(req, seen, store', op', track', flow', active')
  <2>1. Bound(store) = 0
    BY <1>2 DEF Loose
  <2> QED BY <1>1, <1>2, <2>1, Loosely, NoneUnseen DEF Tidy, session, page
<1> QED BY <1>1, <1>2, FirstStays DEF session

LEMMA FirstByPreflight == ASSUME First, NEW m \in Ops, Preflight(m) PROVE FirstInv'
<1>1. m = 0 /\ Op(m) = op /\ \A o, f : Becomes(m, o, f) => op' = o /\ flow' = f /\ away' = away
  BY AloneIs DEF First, FirstInv
<1>2. op.at = "preflight" /\ pend = NoSession /\ UNCHANGED <<chain, session, track, page, calls, rs, faults>>
  BY <1>1 DEF Preflight, Quiet
<1>3. op.tx = 0 /\ op # Idle /\ FirstOp(op, track)
  BY <1>2, FirstFacts DEF First, FirstInv, Idle
<1>4. CASE Becomes(m, Sending(op), flow)
  <2>1. op' = Sending(op) /\ UNCHANGED <<flow, away>>
    BY <1>1, <1>4
  <2>2. op'.at = "sending" /\ op'.tx = 0 /\ op'.mission = op.mission
    BY <1>1, <1>2, <2>1, SendingIs DEF First, Own
  <2>3. FirstOp(op', track')
    BY <1>2, <1>3, <2>2 DEF FirstOp
  <2>4. ASSUME Loose(req, seen, store, pend)
        PROVE  Apart(req, track', active', missionOf') /\ Tidy(req, seen, store', op', track', flow', active')
    <3>1. Bound(store) = 0
      BY <1>2, <2>4 DEF Loose
    <3> QED BY <1>2, <1>3, <2>1, <2>2, <2>4, <3>1, Loosely, NoneUnseen DEF Tidy, session, page
  <2> QED BY <1>2, <2>1, <2>3, <2>4, FirstStays DEF session, chain
<1>5. CASE Over(m)
  BY <1>1, <1>2, <1>3, <1>5, FirstByOver DEF Over, chain
<1> QED BY <1>1, <1>4, <1>5 DEF Preflight, Sending

LEMMA FirstByBroadcast == ASSUME First, NEW m \in Ops, Broadcast(m) PROVE FirstInv'
<1>0. m = 0 /\ Op(m) = op /\ \A o, f : Becomes(m, o, f) => op' = o /\ flow' = f /\ away' = away
  BY AloneIs DEF First, FirstInv
<1>1. op.at = "sending" /\ pend = NoSession /\ UNCHANGED <<seen, loaded, session, track, page, calls, rs, faults>>
  BY <1>0 DEF Broadcast, Quiet
<1>2. op.tx = 0 /\ op # Idle /\ FirstOp(op, track) /\ op.mission \in {"routine", "free"} /\ away = <<>>
  BY <1>1, FirstFacts DEF First, FirstInv, FirstOp, Idle
<1>3. ASSUME Loose(req, seen, store, pend)
      PROVE  /\ Tidy(req, seen, store, op, track, flow, active) /\ Apart(req, track, active, missionOf)
             /\ Routines(req) \subseteq DOMAIN seen /\ Bound(store) = 0
  BY <1>1, <1>2, <1>3, Loosely, NoneUnseen DEF Loose
<1>4. CASE Over(m) /\ UNCHANGED req
  BY <1>0, <1>1, <1>2, <1>4, FirstByOver DEF Over
<1>5. CASE req' = Append(req, Broadcasted(op)) /\ Becomes(m, Sent(op), flow)
  <2>1. PICK r : r = Broadcasted(op)
    OBVIOUS
  <2>2. PICK l : l = Len(req) + 1 /\ l \in Nat
    BY FirstFacts
  <2>3. op' = Sent(op) /\ UNCHANGED <<flow, away>>
    BY <1>0, <1>5
  <2>4. /\ DOMAIN req' = DOMAIN req \cup {l} /\ req'[l] = r /\ \A i \in DOMAIN req : req'[i] = req[i] /\ i < l
        /\ op'.tx = l /\ op'.mission = op.mission /\ op'.at = "sent" /\ l # 0
    BY <1>0, <1>1, <1>5, <2>1, <2>2, <2>3, BroadcastIs, FirstFacts DEF First, Own
  <2>5. r.mission = op.mission /\ r.state = "pool"
    BY <2>1 DEF Broadcasted
  <2>6. FirstOp(op', track') /\ \A i \in DOMAIN req' : req'[i].mission \in {"routine", "free"}
    BY <1>2, <2>4, <2>5, FirstFacts DEF FirstOp
  <2>7. /\ Routines(req) \subseteq DOMAIN req /\ Routines(req) \subseteq Routines(req') /\ Routines(req') \subseteq Routines(req) \cup {l}
        /\ l \in Routines(req') => op.mission = "routine"
    BY <2>4, <2>5 DEF Routines
  <2>8. ASSUME Loose(req', seen, store, pend)
        PROVE  Apart(req', track, active, missionOf) /\ Tidy(req', seen, store, op', track, flow', active)
    <3>1. Loose(req, seen, store, pend)
      BY <1>1, <2>8 DEF Loose
    <3>2. Apart(req', track, active, missionOf)
      BY <1>3, <2>4, <3>1, FirstFacts DEF Apart
    <3>3. \A i \in Routines(req') : req'[i].state # "reverted"
      BY <1>3, <2>4, <2>5, <2>7, <3>1 DEF Tidy
    <3>4. ASSUME NEW i \in Routines(req'), NEW j \in Routines(req'), i < j PROVE req'[i].state \in Terminal
      <4>1. CASE i = l
        BY <2>2, <2>4, <2>7, <3>4, <4>1, FirstFacts
      <4>2. CASE i # l /\ j # l
        BY <1>3, <2>4, <2>7, <3>1, <3>4, <4>2 DEF Tidy
      <4>3. CASE i # l /\ j = l
        BY <1>1, <1>3, <2>4, <2>7, <3>1, <4>3 DEF Tidy
      <4> QED BY <4>1, <4>2, <4>3
    <3>5. \A i \in Routines(req') \ DOMAIN seen : Watched(i, op', track, flow', active)
      BY <1>3, <2>4, <2>7, <3>1 DEF Watched
    <3> QED BY <1>3, <2>4, <3>1, <3>2, <3>3, <3>4, <3>5 DEF Tidy
  <2> QED BY <1>1, <1>2, <2>3, <2>6, <2>8 DEF First, FirstInv, session, page
<1> QED BY <1>0, <1>4, <1>5 DEF Broadcast, Broadcasted, Sent

LEMMA FirstByAnswer == ASSUME First, NEW m \in Ops, Answer(m) PROVE FirstInv'
<1>0. m = 0 /\ Op(m) = op /\ \A o, f : Becomes(m, o, f) => op' = o /\ flow' = f /\ away' = away
  BY AloneIs DEF First, FirstInv
<1>1. op.at = "sent" /\ pend = NoSession /\ UNCHANGED <<chain, session, active, att, restore, calls, rs>>
  BY <1>0 DEF Answer, Quiet
<1>2. op # Idle /\ op.tx # 0 /\ FirstOp(op, track)
  BY <1>1, FirstFacts DEF First, FirstInv, Idle
<1>3. track' = Pointer(op) /\ Becomes(m, Waiting(op), flow) /\ missionOf' = op.mission /\ UNCHANGED faults
  BY <1>0, FirstFacts DEF Answer, Pointer, Waiting
<1>4. op' = Waiting(op) /\ UNCHANGED <<flow, away>>
  BY <1>0, <1>3
<1>5. /\ op'.at = "waiting" /\ op'.tx = op.tx /\ op'.mission = op.mission
      /\ track'.tx = op.tx /\ track'.id = 0 /\ track'.mission = op.mission
  BY <1>0, <1>1, <1>3, <1>4, WaitingIs DEF First, Own
<1>6. FirstOp(op', track')
  BY <1>1, <1>2, <1>5 DEF FirstOp
<1>7. ASSUME Loose(req, seen, store, pend)
      PROVE  Apart(req, track', active', missionOf') /\ Tidy(req, seen, store', op', track', flow', active')
  <2>1. /\ Tidy(req, seen, store, op, track, flow, active) /\ Bound(store) = 0
        /\ \A i \in Routines(req) \ DOMAIN seen : i = op.tx
    BY <1>1, <1>2, <1>7, Loosely, OtherUnseen DEF Loose
  <2>2. Apart(req, track', active', missionOf')
    BY <1>2, <1>3, <1>5 DEF Apart
  <2>3. \A i \in Routines(req) \ DOMAIN seen : Watched(i, op', track', flow', active')
    BY <1>5, <2>1 DEF Watched, Held
  <2> QED BY <1>1, <1>5, <2>1, <2>2, <2>3 DEF Tidy, session
<1> QED BY <1>1, <1>3, <1>4, <1>6, <1>7, FirstStays DEF session, chain

\* A receipt leaves no routine payment unseen but one that is followed.
LEMMA FirstSettles ==
    ASSUME First, UNCHANGED <<chain, away, calls, faults>>, NEW o, NEW mounted, mounted, Settle(o, mounted), flow' = surface(o.tx),
           o.tx \in DOMAIN req, o.mission \in {"routine", "free"}, req[o.tx].mission = o.mission, o.run = 1,
           op' = Idle \/ (op' = op /\ track.tx # 0), track.tx \in {0, o.tx},
           Loose(req, seen, store, pend) => Bound(store) \in {0, o.tx},
           Loose(req, seen, store, pend) /\ op' = Idle => \A i \in Routines(req) \ DOMAIN seen : i = o.tx
    PROVE  FirstInv'
<1>1. UNCHANGED <<req, seen>> /\ o.tx # 0 /\ FirstOp(op, track)
  BY FirstFacts DEF chain, First, FirstInv
<1>2. track.tx # 0 => track.tx = o.tx /\ track.mission = o.mission
  BY FirstFacts
<1>3. ASSUME Loose(req, seen, store, pend), o.mission = "free" PROVE Bound(store) = 0
  BY <1>3, FirstFacts
<1>4. op' # Idle => op' = op /\ op # Idle /\ track.tx = o.tx /\ track.mission = o.mission
  BY <1>2
<1>5. ASSUME Loose(req, seen, store, pend), o.mission = "free", NEW i \in Routines(req) \ DOMAIN seen,
             NEW t, NEW f, NEW a
      PROVE  Watched(i, op', t, f, a)
  <2>1. i # o.tx /\ i \in Routines(req) /\ i \notin DOMAIN seen
    BY <1>5 DEF Routines
  <2>2. op' # Idle /\ op' = op /\ op # Idle /\ track.tx = o.tx
    BY <1>4, <1>5, <2>1
  <2>3. op.tx = i /\ Watched(i, op, track, flow, active)
    BY <1>5, <2>1, <2>2, WatchedIs
  <2> QED BY <2>1, <2>2, <2>3 DEF Watched, Held
<1>6. CASE req[o.tx].state = "reverted"
  <2>1. track' = NoTrack /\ UNCHANGED <<session, active, missionOf>>
    BY <1>6 DEF Settle
  <2>2. FirstOp(op', track')
    BY <1>1, <1>4, <2>1 DEF FirstOp, Idle, NoTrack
  <2>3. ASSUME Loose(req, seen, store, pend)
        PROVE  Apart(req, track', active', missionOf') /\ Tidy(req, seen, store', op', track', flow', active')
    <3>1. Apart(req, track, active, missionOf) /\ Tidy(req, seen, store, op, track, flow, active)
      BY <2>3, Loosely
    <3>2. o.mission = "free"
      BY <1>6, <3>1 DEF Tidy, Routines
    <3>3. ~(active # 0 /\ req[active].mission = "free" /\ missionOf = "routine")
      BY <1>2, <3>1, <3>2 DEF Apart
    <3>4. Bound(store) = 0 /\ \A i \in Routines(req) \ DOMAIN seen : Watched(i, op', track', flow', active')
      BY <1>3, <1>5, <2>3, <3>2
    <3>5. op'.at \in {"preflight", "sending"} => op' = op
      BY DEF Idle
    <3> QED BY <2>1, <3>1, <3>3, <3>4, <3>5 DEF Apart, Tidy, session
  <2> QED BY <1>1, <2>2, <2>3, <2>1, FirstStays DEF session
<1>7. CASE req[o.tx].state # "reverted"
  <2>1. track' = Named(o) /\ Bind(1, o.mission, o.tx, o.replace) /\ flow' = "busy" /\ active' = o.tx /\ missionOf' = o.mission
    BY <1>7 DEF Settle, Named, surface, Follow
  <2>2. track'.tx = o.tx /\ track'.id = o.tx /\ track'.mission = o.mission
    BY <2>1 DEF Named
  <2>3. FirstOp(op', track')
    BY <1>1, <1>2, <1>4, <2>2 DEF FirstOp, Idle
  <2>4. op'.at \in {"preflight", "sending"} => op' = op
    BY DEF Idle
  <2>5. Apart(req, track', active', missionOf')
    BY <2>1 DEF Apart
  <2>6. CASE o.mission = "free"
    <3>1. UNCHANGED session
      BY <2>1, <2>6 DEF Bind
    <3>2. ASSUME Loose(req, seen, store, pend) PROVE Tidy(req, seen, store', op', track', flow', active')
      BY <1>3, <1>5, <2>4, <2>6, <3>1, <3>2, Loosely DEF Tidy, session
    <3> QED BY <1>1, <2>3, <2>5, <3>1, <3>2, FirstStays DEF session
  <2>7. CASE o.mission = "routine"
    <3>1. PICK n : n = BindRequest(store, "routine", o.tx, o.replace)
      OBVIOUS
    <3>2. store' = n /\ pend' \in {pend, NoSession}
      BY <2>1, <2>7, <3>1, FirstFacts DEF Bind, SaveFor, Save
    <3>3. "routine" \in Payments /\ "routine" \in Keys
      BY DEF Payments, Keys
    <3>4. BoundAs(store, n, "routine", o.tx, o.replace) /\ Shape(store)
      BY <3>1, <3>3, BoundIs, OwnFacts DEF First
    <3>5. Bound(store) = 0 => Bound(n) = o.tx
      <4>1. Bound(store) = 0 => ~Complete(store, "routine")
        BY <3>3, CompleteIs DEF Done, Bound
      <4> QED BY <3>1, <3>3, <3>4, <4>1, BindTakes DEF Bound
    <3>6. Bound(n) # 0
      BY <1>1, <3>4, <3>5 DEF BoundAs, Bound
    <3>7. ASSUME Loose(req, seen, store', pend') PROVE Tidy(req, seen, store', op', track', flow', active')
      <4>1. Loose(req, seen, store, pend) /\ Routines(req) \cap DOMAIN seen = {}
        BY <3>2, <3>6, <3>7, LooseWas DEF Loose
      <4>2. Bound(store') = o.tx
        BY <3>2, <3>4, <3>5, <4>1 DEF BoundAs, Bound
      <4>3. Tidy(req, seen, store, op, track, flow, active)
        BY <4>1, Loosely
      <4>4. op' # Idle => op'.tx = o.tx
        <5>1. o.tx \in Routines(req) /\ o.tx \notin DOMAIN seen
          BY <2>7, <4>1 DEF Routines
        <5> QED BY <1>4, <4>1, <5>1, WatchedIs
      <4>5. ASSUME NEW i \in Routines(req) \ DOMAIN seen PROVE Watched(i, op', track', flow', active')
        <5>1. CASE op' = Idle
          <6>1. i = o.tx
            BY <4>1, <4>5, <5>1
          <6> QED BY <1>1, <2>1, <2>2, <5>1, <6>1 DEF Watched, Held
        <5>2. CASE op' # Idle
          <6>1. i = op.tx /\ i = o.tx
            BY <1>4, <4>1, <4>4, <4>5, <5>2, WatchedIs
          <6> QED BY <1>4, <2>1, <2>2, <5>2, <6>1 DEF Watched, Held
        <5> QED BY <5>1, <5>2
      <4> QED BY <2>1, <2>2, <2>4, <4>2, <4>3, <4>4, <4>5 DEF Tidy
    <3> QED BY <1>1, <2>3, <2>5, <3>7, FirstStays
  <2> QED BY <2>6, <2>7
<1> QED BY <1>6, <1>7

LEMMA FirstByReceipt == ASSUME First, NEW m \in Ops, Receipt(m) PROVE FirstInv'
<1>0. m = 0 /\ Op(m) = op /\ \A o, f : Becomes(m, o, f) => op' = o /\ flow' = f /\ away' = away
  BY AloneIs DEF First, FirstInv
<1>1. op.at = "waiting" /\ op' = Idle /\ UNCHANGED <<chain, away, att, restore, calls, rs, faults>>
  BY <1>0 DEF Receipt
<1>2. op # Idle /\ op.tx # 0 /\ op.tx \in DOMAIN req /\ req[op.tx].mission = op.mission
  BY <1>1, FirstFacts DEF Idle
<1>3. op.mission \in {"routine", "free"} /\ track.tx \in {0, op.tx} /\ op.run = 1
  BY <1>0, <1>1, OwnIs DEF First, FirstInv, FirstOp, OwnOf
<1>4. ASSUME Loose(req, seen, store, pend)
      PROVE  /\ Tidy(req, seen, store, op, track, flow, active) /\ Apart(req, track, active, missionOf)
             /\ Bound(store) \in {0, op.tx} /\ \A i \in Routines(req) \ DOMAIN seen : i = op.tx
  BY <1>2, <1>4, Loosely, OtherUnseen DEF Tidy
<1>5. CASE Settle(op, m = 0) /\ flow' = surface(op.tx)
  <2>1. PICK mounted \in BOOLEAN : mounted = (m = 0)
    OBVIOUS
  <2>2. mounted /\ Settle(op, mounted)
    BY <1>0, <1>5, <2>1
  <2> QED BY <1>1, <1>2, <1>3, <1>4, <1>5, <2>2, FirstSettles
<1>6. CASE flow' = "recovering" /\ UNCHANGED <<track, session, active, missionOf, due>>
  <2>1. FirstOp(op', track')
    BY <1>1 DEF FirstOp, Idle
  <2>2. ASSUME Loose(req, seen, store, pend)
        PROVE  Apart(req, track', active', missionOf') /\ Tidy(req, seen, store', op', track', flow', active')
    <3>1. ASSUME NEW i \in Routines(req) \ DOMAIN seen PROVE Watched(i, op', track', flow', active')
      <4>1. Watched(i, op, track, flow, active)
        BY <2>2, <3>1, WatchedIs
      <4>2. Held(i, track, flow, active)
        BY <1>1, <1>2, <4>1 DEF Watched
      <4> QED BY <1>1, <1>6, <4>2 DEF Watched, Held
    <3>2. op'.at = "idle"
      BY <1>1 DEF Idle
    <3> QED BY <1>1, <1>4, <1>6, <2>2, <3>1, <3>2 DEF Tidy, session
  <2> QED BY <1>1, <1>6, <2>1, <2>2, FirstStays DEF session, chain
<1> QED BY <1>0, <1>5, <1>6 DEF Receipt

LEMMA FirstByRecoverReceipt == ASSUME First, RecoverReceipt PROVE FirstInv'
<1>1. /\ flow = "recovering" /\ track.tx # 0 /\ track.id = 0 /\ Settle(track, TRUE) /\ flow' = surface(track.tx)
      /\ UNCHANGED <<chain, op, away, att, restore, calls, rs, faults>>
  BY DEF RecoverReceipt
<1>2. track.tx \in DOMAIN req /\ req[track.tx].mission = track.mission /\ track.mission \in {"routine", "free"} /\ track.run = 1
  BY <1>1, FirstFacts
<1>3. ASSUME Loose(req, seen, store, pend) PROVE Bound(store) = 0
  BY <1>1, <1>3, Loosely DEF Tidy
<1>4. ASSUME Loose(req, seen, store, pend), op' = Idle, NEW i \in Routines(req) \ DOMAIN seen PROVE i = track.tx
  BY <1>1, <1>4, WatchedIs DEF Held
<1> QED BY <1>1, <1>2, <1>3, <1>4, FirstSettles

\* The page. What is followed leaves nothing it ought to watch.
LEMMA FirstByRestore == ASSUME First, Restore PROVE FirstInv'
<1>1. PICK mine : mine = (track.tx # 0 /\ track.run = store.run)
  OBVIOUS
<1>2. mine <=> track.tx # 0
  BY <1>1, FirstFacts
<1>3. UNCHANGED <<chain, session, op, away, att, calls, rs, faults>> /\ FirstOp(op, track)
  BY RestoreIs DEF First, FirstInv
<1>4. CASE UNCHANGED <<track, flow, active, missionOf, due>>
  BY <1>3, <1>4, FirstSame DEF chain, session
<1>5. CASE ~UNCHANGED <<track, flow, active, missionOf, due>>
  <2>1. /\ active = 0 /\ track' = (IF mine THEN track ELSE NoTrack)
        /\ flow' = (IF mine /\ track.id = 0 THEN "recovering" ELSE flow)
        /\ RestoreTo(active', missionOf') \/ active' = 0
    BY <1>1, <1>5, RestoreIs
  <2>2. FirstOp(op', track')
    BY <1>2, <1>3, <2>1 DEF FirstOp, NoTrack
  <2>3. ASSUME Loose(req, seen, store, pend)
        PROVE  Apart(req, track', active', missionOf') /\ Tidy(req, seen, store', op', track', flow', active')
    <3>1. Tidy(req, seen, store, op, track, flow, active)
      BY <2>3, Loosely
    <3>2. Bound(store) = 0
      BY <2>1, <3>1 DEF Tidy
    <3>3. Apart(req, track', active', missionOf')
      <4>1. \A j \in Payments : store.m[j].request # 0 => req[store.m[j].request].mission = j
        BY DEF First, Own, OwnInv, Ev, EvOf
      <4>2. 0 \notin DOMAIN seen
        BY FirstFacts
      <4>3. RestoreTo(active', missionOf') => missionOf' = "none" \/ req[active'].mission = missionOf'
        BY <4>1, <4>2, FirstFacts DEF RestoreTo
      <4> QED BY <2>1, <4>3 DEF Apart
    <3>4. ASSUME NEW i \in Routines(req) \ DOMAIN seen PROVE Watched(i, op', track', flow', active')
      <4>1. Watched(i, op, track, flow, active) /\ i # 0
        BY <2>3, <3>4, WatchedIs
      <4>2. CASE op.tx = i /\ op.at # "waiting"
        BY <1>3, <4>2 DEF Watched
      <4>3. CASE Held(i, track, flow, active) /\ (op.tx = i \/ op = Idle)
        <5>1. track.tx = i /\ track.id = 0
          BY <2>1, <4>1, <4>3 DEF Held
        <5>2. track' = track /\ flow' = "recovering"
          BY <1>2, <2>1, <4>1, <5>1
        <5> QED BY <1>3, <4>3, <5>1, <5>2 DEF Watched, Held
      <4> QED BY <4>1, <4>2, <4>3 DEF Watched
    <3> QED BY <1>3, <3>1, <3>2, <3>3, <3>4 DEF Tidy, session
  <2> QED BY <1>3, <2>2, <2>3, FirstStays DEF chain, session
<1> QED BY <1>4, <1>5

LEMMA FirstByBookkeep == ASSUME First, Bookkeep, OwnInv' PROVE FirstInv'
<1>1. UNCHANGED <<chain, active, missionOf, att, restore, calls, rs, faults, op, away>> /\ FirstOp(op, track)
  BY DEF Bookkeep, payment, First, FirstInv
<1>2. CASE UNCHANGED <<session, payment>>
  BY <1>1, <1>2, FirstSame DEF chain, session, payment
<1>3. CASE ~UNCHANGED <<session, payment>>
  <2>1. /\ active \in DOMAIN seen /\ seen[active].state \in Terminal /\ TracksLatest(Owner)
        /\ IF RoutinePaid THEN SaveFor(BookRun, RoutineExecuted(store, active))
           ELSE IF DecisionMade THEN SaveFor(BookRun, Decide(store, active, userAction(active)))
           ELSE UNCHANGED session
        /\ track' = (IF RoutinePaid \/ DecisionMade \/ OwnerOr(Tracking) = "free" THEN NoTrack ELSE track)
        /\ flow' = "none"
    BY <1>3, BookkeepIs
  <2>2. active # 0 /\ active \in DOMAIN req /\ req[active].mission \in {"routine", "free"} /\ RequestOK(req[active])
    BY <2>1, FirstFacts
  <2>3. ~DecisionMade
    BY <2>2 DEF DecisionMade, RequestOK
  <2>4. /\ Owner # "none" => store.m[Owner].request = active
        /\ Bound(store) # 0 => req[Bound(store)].mission = "routine"
    BY OwnerIs, FirstFacts
  <2>5. FirstOp(op', track')
    BY <1>1, <2>1 DEF FirstOp, NoTrack
  <2>6. store' = store \/ store' = RoutineExecuted(store, active)
    BY <2>1, <2>3 DEF SaveFor, Save, session
  <2>7. pend' \in {pend, NoSession}
    BY <2>1, <2>3 DEF SaveFor, Save, session
  <2>8. ExecutedAs(store, RoutineExecuted(store, active), active)
    BY ExecutedIs, OwnFacts DEF First
  <2>9. Bound(store') # Bound(store) => Bound(store) = 0 /\ Bound(store') = active
    BY <2>2, <2>6, <2>8 DEF ExecutedAs, Bound
  <2>10. Bound(store') # 0 => req[Bound(store')].mission = "routine"
    BY <1>1 DEF OwnInv, Ev, EvOf, Bound, Payments, chain
  <2>11. ASSUME Loose(req, seen, store', pend')
         PROVE  Apart(req, track', active', missionOf') /\ Tidy(req, seen, store', op', track', flow', active')
    <3>1. Loose(req, seen, store, pend)
      BY <2>2, <2>7, <2>9, <2>11, LooseWas
    <3>2. Apart(req, track, active, missionOf) /\ Tidy(req, seen, store, op, track, flow, active)
      BY <3>1, Loosely
    <3>3. Bound(store') = 0
      <4> SUFFICES ASSUME Bound(store') # 0 PROVE FALSE
        OBVIOUS
      <4>1. Routines(req) \cap DOMAIN seen = {}
        BY <2>11 DEF Loose
      <4>2. Bound(store') = active
        BY <2>9, <3>2 DEF Tidy
      <4> QED BY <2>1, <2>2, <2>10, <4>1, <4>2 DEF Routines
    <3>4. Bound(store) = 0
      BY <2>2, <2>9, <3>3
    <3>5. ~(track.tx # 0 /\ track.id = 0 /\ track.mission = "routine")
      BY <2>1, <2>2, <2>4, <3>4 DEF TracksLatest, Bound
    <3>6. Apart(req, track', active', missionOf')
      BY <1>1, <3>2, <3>5 DEF Apart
    <3>7. ASSUME NEW i \in Routines(req) \ DOMAIN seen PROVE Watched(i, op', track', flow', active')
      <4>1. /\ i # 0 /\ req[i].mission = "routine" /\ i # active /\ Watched(i, op, track, flow, active)
        BY <2>1, <3>1, <3>7, WatchedIs
      <4>2. ~Held(i, track, flow, active)
        BY <2>2, <3>5, <4>1, FirstFacts DEF Held
      <4>3. op.tx = i /\ op.at # "waiting"
        BY <4>1, <4>2 DEF Watched
      <4> QED BY <1>1, <4>3 DEF Watched
    <3> QED BY <1>1, <3>2, <3>3, <3>6, <3>7 DEF Tidy
  <2> QED BY <1>1, <2>5, <2>11, FirstStays DEF chain
<1> QED BY <1>2, <1>3

LEMMA FirstByAdopt == ASSUME First, Adopt PROVE FirstInv'
<1>1. /\ pend = NoSession /\ active = 0 /\ UNCHANGED <<chain, session, payment, att, restore, calls, rs, faults>>
      /\ store.current \in boundSeen /\ Follow(store.m[store.current].request, store.current)
  BY DEF Adopt, Quiet
<1>2. PICK k : k = store.current /\ k \in Payments /\ store.m[k].request \in DOMAIN seen
  BY <1>1, PaymentsAre DEF boundSeen
<1>3. active' = store.m[k].request /\ missionOf' = k
  BY <1>1, <1>2 DEF Follow
<1>4. FirstOp(op', track')
  BY <1>1 DEF First, FirstInv, payment
<1>5. ASSUME Loose(req, seen, store, pend)
      PROVE  Apart(req, track', active', missionOf') /\ Tidy(req, seen, store', op', track', flow', active')
  <2>1. Tidy(req, seen, store, op, track, flow, active) /\ Bound(store) = 0
    BY <1>1, <1>5, Loosely DEF Loose
  <2>2. k # "routine"
    BY <1>2, <2>1, FirstFacts DEF Bound
  <2>3. \A i \in Routines(req) \ DOMAIN seen : Watched(i, op, track, flow, active')
    BY <1>1, <1>5, WatchedIs DEF Watched, Held
  <2> QED BY <1>1, <1>3, <2>1, <2>2, <2>3 DEF Apart, Tidy, payment, session
<1> QED BY <1>1, <1>4, <1>5, FirstStays DEF chain, session, payment

LEMMA FirstByContinue == ASSUME First, Continue PROVE FirstInv'
<1>1. /\ pend = NoSession /\ active \in DOMAIN seen /\ active' = 0
      /\ UNCHANGED <<chain, session, payment, calls, rs, faults>>
  BY DEF Continue, Quiet
<1>2. FirstOp(op', track')
  BY <1>1 DEF First, FirstInv, payment
<1>3. ASSUME Loose(req, seen, store, pend)
      PROVE  Apart(req, track', active', missionOf') /\ Tidy(req, seen, store', op', track', flow', active')
  <2>1. Tidy(req, seen, store, op, track, flow, active) /\ Bound(store) = 0
    BY <1>1, <1>3, Loosely DEF Loose
  <2>2. \A i \in Routines(req) \ DOMAIN seen : Watched(i, op, track, flow, active')
    BY <1>1, <1>3, WatchedIs DEF Watched, Held
  <2> QED BY <1>1, <2>1, <2>2 DEF Apart, Tidy, payment, session
<1> QED BY <1>1, <1>2, <1>3, FirstStays DEF chain, session, payment

\* What such a visitor has no occasion for.
LEMMA FirstNever ==
    ASSUME First
    PROVE  ~Leave /\ ~Reload /\ ~ChooseDecision /\ ~AskAttestation /\ ~Called /\ ~DecryptReason
<1>1. ~Leave /\ ~Reload
  BY FirstFacts DEF Leave, Reload
<1>2. ~ChooseDecision /\ ~Called
  BY DEF First, FirstInv, ChooseDecision, Called
<1>3. ~AskAttestation
  BY FirstFacts DEF AskAttestation, RunBound
<1>4. ~DecryptReason
  BY FirstFacts DEF DecryptReason, RunBound
<1> QED BY <1>1, <1>2, <1>3, <1>4

LEMMA FirstNext == ASSUME First, Next, OwnInv' PROVE FirstInv'
<1>1. CASE Mine \/ Finalize \/ ServiceActs \/ Poll \/ \E k \in visit.Missions : Click(k)
  BY <1>1, FirstByChain, FirstByPoll, FirstByClick
<1>2. CASE ClickFree \/ RecoverReceipt \/ \E m \in Ops : Preflight(m) \/ Broadcast(m) \/ Answer(m) \/ Receipt(m)
  BY <1>2, FirstByClickFree, FirstByPreflight, FirstByBroadcast, FirstByAnswer, FirstByReceipt, FirstByRecoverReceipt
<1>3. CASE Commit \/ Effects \/ ReconcileNow \/ Navigates \/ Resume
  BY <1>3, FirstBySession
<1>4. CASE Restore \/ Bookkeep \/ Adopt \/ Continue
  BY <1>4, FirstByRestore, FirstByBookkeep, FirstByAdopt, FirstByContinue
<1>5. ~OtherVisitor /\ ~RestartBegin /\ ~RestartEnds
  BY NoOthers DEF First
<1> QED BY <1>1, <1>2, <1>3, <1>4, <1>5, FirstNever DEF Next

-----------------------------------------------------------------------------
(***************************************************************************)
(* The guided visit is safe.                                               *)
(***************************************************************************)

GuidedInv ==
    /\ RunInv
    /\ InOrder \/ RoutineOnly => OwnInv
    /\ InOrder => OrderInv
    /\ InOrder /\ ~visit.LosesHash /\ ~visit.Abandons => OnceInv
    /\ RoutineOnly => FirstInv

LEMMA GuidedInit == ASSUME Init PROVE GuidedInv
<1>1. RunInv
  BY RunInit
<1>2. req = <<>> /\ DOMAIN req = {} /\ DOMAIN seen = {} /\ pend = NoSession /\ op = Idle /\ away = <<>> /\ track = NoTrack
      /\ active = 0 /\ missionOf = "none" /\ calls = {} /\ rs = NoRestart /\ faults = 0 /\ flow = "none"
  BY DEF Init
<1>3. op.tx = 0 /\ op.at = "idle" /\ track.tx = 0 /\ track.id = 0
  BY <1>2 DEF Idle, NoTrack
<1>4. \A k \in Payments : store.m[k].request = 0
  BY CreatedIs DEF Init, FreshAs, Payments, Keys
<1>5. Submissions = {Idle}
  BY <1>2 DEF Submissions
<1>6. OwnInv /\ OrderInv
  BY <1>2, <1>3, <1>4, <1>5 DEF OwnInv, OrderInv, Ev, EvOf, Owned, OwnOf
<1>7. OnceInv
  BY <1>2, <1>3 DEF OnceInv, OnceOf, Single, Follows, Pays, Points
<1>8. FirstInv
  <2>1. FirstOp(op, track)
    BY <1>3 DEF FirstOp
  <2>2. Apart(req, track, active, missionOf)
    BY <1>2 DEF Apart
  <2>3. Tidy(req, seen, store, op, track, flow, active)
    BY <1>2, <1>3, <1>4 DEF Tidy, Routines, Bound, Payments
  <2> QED BY <1>2, <2>1, <2>2, <2>3 DEF FirstInv
<1> QED BY <1>1, <1>6, <1>7, <1>8 DEF GuidedInv

LEMMA GuidedNext == ASSUME GuidedInv, Next PROVE GuidedInv'
<1>1. visit' = visit /\ RunInv'
  BY RunNext DEF GuidedInv, Next
<1>2. ASSUME InOrder PROVE OwnInv' /\ OrderInv' /\ (~visit.LosesHash /\ ~visit.Abandons => OnceInv')
  <2>1. Own /\ OrderInv /\ (~visit.LosesHash /\ ~visit.Abandons => OnceInv)
    BY <1>2 DEF GuidedInv, Own, InOrder
  <2>2. OwnInv' /\ OrderInv'
    BY <1>2, <2>1, OrderKnows, OwnNext, OrderNext
  <2>3. ~visit.LosesHash /\ ~visit.Abandons => OnceInv'
    BY <1>2, <2>1, OnceNext DEF Once, Ord
  <2> QED BY <2>2, <2>3
<1>3. ASSUME RoutineOnly PROVE OwnInv' /\ FirstInv'
  <2>1. First
    BY <1>3 DEF GuidedInv, Own, RoutineOnly, First
  <2>2. OwnInv'
    BY <2>1, FirstKnows, OwnNext DEF First
  <2> QED BY <2>1, <2>2, FirstNext
<1>4. InOrder' = InOrder /\ RoutineOnly' = RoutineOnly
  BY <1>1 DEF InOrder, RoutineOnly, OwnVisit
<1> QED BY <1>1, <1>2, <1>3, <1>4 DEF GuidedInv

LEMMA GuidedStutters == ASSUME GuidedInv, UNCHANGED <<visit, vars>> PROVE GuidedInv'
<1>1. UNCHANGED <<visit, req, seen, store, view, pend, track, op, away, flow, active, missionOf, calls, rs, faults>>
  BY DEF vars, chain, session, payment, page
<1>2. RunInv'
  BY RunStutters DEF GuidedInv
<1>3. OwnInv' = OwnInv /\ OrderInv' = OrderInv /\ OnceInv' = OnceInv /\ FirstInv' = FirstInv
  BY <1>1 DEF OwnInv, OrderInv, OnceInv, FirstInv, Submissions
<1>4. InOrder' = InOrder /\ RoutineOnly' = RoutineOnly
  BY <1>1 DEF InOrder, RoutineOnly, OwnVisit
<1> QED BY <1>1, <1>2, <1>3, <1>4 DEF GuidedInv

(* The states of a guided visit are safe: the variables have their types; in a  *)
(* visit of one run on its own mandates, what the session counts as complete    *)
(* really happened; and missions paid in order are paid for once                *)
(* (completeMission, mission-recovery.ts, handleScenario).                      *)
THEOREM GuidedRunIsSafe == Spec => []GuidedRunSafe
<1>1. GuidedInv /\ [Next]_<<visit, vars>> => GuidedInv'
  BY GuidedNext, GuidedStutters
<1>2. GuidedInv => GuidedRunSafe
  <2> SUFFICES ASSUME GuidedInv PROVE GuidedRunSafe
    OBVIOUS
  <2>1. GuidedRunTypeOK
    BY TypesHold DEF GuidedInv
  <2>2. InOrder \/ RoutineOnly => EvidenceIsTrue
    BY OwnEvidence DEF GuidedInv, Own, InOrder, RoutineOnly
  <2>3. InOrder /\ ~visit.LosesHash /\ ~visit.Abandons => OneAttempt
    BY OnceIsOne DEF GuidedInv, Once, Ord, Own, InOrder
  <2> QED BY <2>1, <2>2, <2>3 DEF GuidedRunSafe
<1> QED BY GuidedInit, <1>1, <1>2, PTL DEF Spec
=============================================================================
