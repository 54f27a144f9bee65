---- MODULE AuditReview ----
(* The auditor's page (app/src/views/AuditorView.tsx): which packets it lists,  *)
(* what is unlocked and judged, and the gate that completes the audit mission   *)
(* of the session (DemoSession).  An effect sees the reviews on display,        *)
(* which for one frame are still those of the packet shown before.             *)
EXTENDS DemoSession

CONSTANTS
    Contents,     \* packet |-> the requests it discloses; the first packets of the run
    Foreign,      \* packets of other runs granted to the same demo auditor
    Handles,      \* encrypted values of a packet
    MaxFaults     \* failed unlocks and failed reads of the packet index

VARIABLES
    chain,        \* packets on the chain
    ses,          \* the stored demo session
    open, index,  \* the page is mounted; its packet index: "loading", "ready", "failed"
    listed,       \* the packets that index holds
    selected,     \* the packet of the hash, 0: none
    values,       \* packet |-> handles decrypted in this mount
    unlocking,    \* the packet Unlock is working through, 0: none
    reviews, fresh,   \* the verdicts on display; they belong to the packet shown
    stored,       \* packet |-> verdicts in the browser's storage
    gate,         \* bundles completed in this mount
    opened, judged,   \* ghosts: packets once fully decrypted, requests once judged
    faults

vars == <<chain, ses, open, index, listed, selected, values, unlocking, reviews, fresh, stored, gate, opened, judged, faults>>
ghosts == <<opened, judged>>

Packets == DOMAIN Contents
RunPackets == Packets \ Foreign
RunRequests == 1..3
\* Ids begin at 1; a packet of the run discloses requests of the run.
ReviewAssumption ==
    /\ Packets \subseteq Nat \ {0} /\ Foreign \subseteq Packets
    /\ \A p \in RunPackets : Contents[p] \subseteq RunRequests
    /\ Handles \in Nat \ {0} /\ MaxFaults \in Nat
AllRequests == UNION {Contents[p] : p \in Packets}
NoReviews == [r \in AllRequests |-> "none"]

(***************************************************************************)
(* What a render derives.                                                  *)
(***************************************************************************)
\* The packet on display; a named packet that is not listed is not replaced.
ShownFor(sel, list) ==
    IF sel # 0 THEN list \cap {sel}
    ELSE {p \in list : \A q \in list : q <= p}
Shown == ShownFor(selected, listed)

\* activeBundle: the session's packets that the index holds.
Bundle(s, list, shown) == s.m["audit"].packets \cap list
RunComplete(s) == 0 \notin RequestIds(s)

\* One packet of the bundle: decrypted, terminal (every request of a run is) and judged.
Ready(p, vals, verdicts) == vals[p] = Handles /\ \A r \in Contents[p] : verdicts[r] # "none"
Verdicts(p, shown, revs) == IF p \in shown THEN revs ELSE stored[p]

\* bundleGateReady: all bound packets are listed, they cover exactly the session's
\* scope, and each is ready.
GateReady(s, list, shown, vals, revs) ==
    LET bundle == Bundle(s, list, shown)
        scope == UNION {Contents[p] : p \in bundle}
    IN  /\ shown # {} /\ RunComplete(s) /\ bundle # {}
        /\ s.m["audit"].packets \subseteq list
        /\ scope = s.m["audit"].included
        /\ \A p \in bundle : Ready(p, vals, Verdicts(p, shown, revs))

\* The verdicts completeMission records: a request judged in two packets is
\* flagged if either flags it.
Judgement(bundle, shown, revs) ==
    LET said(r) == {Verdicts(p, shown, revs)[r] : p \in {p \in bundle : r \in Contents[p]}}
    IN  [r \in UNION {Contents[p] : p \in bundle} |-> IF "flagged" \in said(r) THEN "flagged"
                                                     ELSE IF "reviewed" \in said(r) THEN "reviewed" ELSE "none"]

\* The completion effect, after a frame that shows list, vals and revs.
Effect(s, list, sel, vals, revs, done) ==
    \E now \in {s}, shown \in {ShownFor(sel, list)} :
        \E bundle \in {Bundle(now, list, shown)}, fires \in {GateReady(now, list, shown, vals, revs)} :
            /\ IF fires /\ bundle \notin done
               THEN \E scope \in {(UNION {Contents[p] : p \in bundle}) \cap RequestIds(now)} :
                        /\ ses' = AuditReviewed(now, bundle, scope, Judgement(bundle, shown, revs), TRUE)
                        /\ gate' = done \cup {bundle}
               ELSE ses' = now /\ gate' = done
            /\ listed' = list /\ selected' = sel /\ values' = vals /\ reviews' = revs
Unchanged == UNCHANGED <<chain, open, index, unlocking, fresh, stored, ghosts, faults>>

(***************************************************************************)
(* The disclosure, from the builder.                                       *)
(***************************************************************************)
Grant(p) ==
    /\ p \notin chain /\ chain' = chain \cup {p}
    /\ UNCHANGED <<ses, open, index, listed, selected, values, unlocking, reviews, fresh, stored, gate, ghosts, faults>>
\* The builder's answer records the packet in the session; the auditor's page, if
\* it is open, renders with it.
Record(p) ==
    /\ p \in chain \cap RunPackets /\ p \notin ses.m["audit"].packets
    /\ Effect(PacketsCreated(ses, {p}, Contents[p]), listed, selected, values, reviews, IF open THEN gate ELSE {})
    /\ Unchanged

(***************************************************************************)
(* The page.                                                               *)
(***************************************************************************)
NothingDecrypted == [p \in Packets |-> 0]
Open(p) ==
    /\ ~open /\ open' = TRUE /\ index' = "loading" /\ fresh' = TRUE /\ unlocking' = 0
    /\ Effect(ses, {}, p, NothingDecrypted, NoReviews, {})
    /\ UNCHANGED <<chain, stored, ghosts, faults>>
\* A mount reads the index once; the read may fail, and nothing reads it again.
LoadIndex ==
    /\ open /\ index = "loading" /\ index' = "ready" /\ fresh' = FALSE
    /\ Effect(ses, chain, selected, values, reviews, gate)
    /\ UNCHANGED <<chain, open, unlocking, stored, ghosts, faults>>
LoadFails ==
    /\ open /\ index = "loading" /\ faults < MaxFaults
    /\ index' = "failed" /\ faults' = faults + 1
    /\ UNCHANGED <<chain, ses, open, listed, selected, values, unlocking, reviews, fresh, stored, gate, ghosts>>
\* The effect of a changed packet, flushed before anything else can be clicked.
LoadReviews ==
    /\ open /\ ~fresh /\ fresh' = TRUE
    /\ \E revs \in {IF Shown = {} THEN NoReviews ELSE stored[CHOOSE p \in Shown : TRUE]} :
           Effect(ses, listed, selected, values, revs, gate)
    /\ UNCHANGED <<chain, open, index, unlocking, stored, ghosts, faults>>
Select(p) ==
    /\ open /\ fresh /\ p \in listed /\ p # selected /\ fresh' = FALSE
    /\ Effect(ses, listed, p, values, reviews, gate)
    /\ UNCHANGED <<chain, open, index, unlocking, stored, ghosts, faults>>

StartUnlock ==
    /\ open /\ fresh /\ unlocking = 0
    /\ \E p \in Shown : values[p] < Handles /\ unlocking' = p
    /\ UNCHANGED <<chain, ses, open, index, listed, selected, values, reviews, fresh, stored, gate, ghosts, faults>>
\* Decrypts one handle after the other, whatever packet is shown meanwhile.
Decrypt ==
    /\ unlocking # 0 /\ fresh
    /\ \E vals \in {[values EXCEPT ![unlocking] = @ + 1]} :
           /\ Effect(ses, listed, selected, vals, reviews, gate)
           /\ opened' = IF vals[unlocking] = Handles THEN opened \cup {unlocking} ELSE opened
           /\ unlocking' = IF vals[unlocking] = Handles THEN 0 ELSE unlocking
    /\ UNCHANGED <<chain, open, index, fresh, stored, judged, faults>>
DecryptFails ==
    /\ unlocking # 0 /\ faults < MaxFaults
    /\ unlocking' = 0 /\ faults' = faults + 1
    /\ UNCHANGED <<chain, ses, open, index, listed, selected, values, reviews, fresh, stored, gate, ghosts>>

\* mutant: the verdict joins whatever is on display
JudgeStale(p, r) ==
    /\ open /\ p \in Shown /\ values[p] = Handles /\ r \in Contents[p]
    /\ \E verdict \in {"reviewed", "flagged"} \ {reviews[r]} :
           \E revs \in {[reviews EXCEPT ![r] = verdict]} :
               /\ Effect(ses, listed, selected, values, revs, gate)
               /\ stored' = [stored EXCEPT ![p] = revs]
    /\ judged' = judged \cup {r}
    /\ UNCHANGED <<chain, open, index, unlocking, fresh, opened, faults>>
Judge(p, r) ==
    /\ open /\ fresh /\ p \in Shown /\ values[p] = Handles /\ r \in Contents[p]
    /\ \E verdict \in {"reviewed", "flagged"} \ {reviews[r]} :
           \E revs \in {[reviews EXCEPT ![r] = verdict]} :
               /\ Effect(ses, listed, selected, values, revs, gate)
               /\ stored' = [stored EXCEPT ![p] = revs]
    /\ judged' = judged \cup {r}
    /\ UNCHANGED <<chain, open, index, unlocking, fresh, opened, faults>>

\* Another page, or a reload: storage stays, the mount is gone.
Leave ==
    /\ open /\ open' = FALSE /\ index' = "loading" /\ unlocking' = 0 /\ fresh' = TRUE
    /\ listed' = {} /\ selected' = 0 /\ values' = NothingDecrypted /\ reviews' = NoReviews /\ gate' = {}
    /\ UNCHANGED <<chain, ses, stored, ghosts, faults>>

Settled == LET s == CreateSession(1, TRUE)
           IN  ReasonDecrypted(ViolationBlocked(ApprovalSettled(DecisionConfirmed(
                   RoutineExecuted(s, 1), 2, "approve"), 2, "approve"), 3), 3)
Init ==
    /\ chain = Foreign /\ ses = Settled
    /\ open = FALSE /\ index = "loading" /\ listed = {} /\ selected = 0
    /\ values = NothingDecrypted /\ unlocking = 0 /\ reviews = NoReviews /\ fresh = TRUE
    /\ stored = [p \in Packets |-> NoReviews] /\ gate = {}
    /\ opened = {} /\ judged = {} /\ faults = 0

Disclose == \E p \in RunPackets : Grant(p) \/ Record(p)
ToOpen == \E p \in Packets \cup {0} : Open(p)
ToSelect == \E p \in Packets : Select(p)
ToJudge == \E p \in Packets : \E r \in Contents[p] : Judge(p, r)
Next == \/ Disclose \/ ToOpen \/ ToSelect \/ ToJudge
        \/ LoadIndex \/ LoadFails \/ LoadReviews \/ StartUnlock \/ Decrypt \/ DecryptFails \/ Leave
Spec == Init /\ [][Next]_vars

\* The guided auditor opens the page, goes to a packet of the bundle that is not
\* ready, unlocks it and judges what is not judged, and reopens the page only
\* when a packet of the run is missing from it.
Missing == open /\ index # "loading" /\ ~(ses.m["audit"].packets \subseteq listed)
Attend(p) == Select(p) /\ p \in ses.m["audit"].packets /\ ~Ready(p, values, stored[p])
             /\ (\A q \in Shown : q \in ses.m["audit"].packets => Ready(q, values, reviews))
FirstVerdict(p, r) == Judge(p, r) /\ reviews[r] = "none"
GuidedNext == \/ Disclose \/ ToOpen \/ LoadIndex \/ LoadFails \/ LoadReviews \/ StartUnlock \/ Decrypt \/ DecryptFails
              \/ (\E p \in Packets : Attend(p) \/ \E r \in Contents[p] : FirstVerdict(p, r))
              \/ (Missing /\ Leave)
GuidedSpec == Init /\ [][GuidedNext]_vars /\ WF_vars(GuidedNext)

(***************************************************************************)
(* Properties                                                              *)
(***************************************************************************)
\* The shape of the state: values stay within a packet's handles, and a request
\* is judged under a packet only.
ReviewTypeOK ==
    /\ chain \subseteq Packets /\ listed \subseteq chain /\ selected \in Packets \cup {0}
    /\ values \in [Packets -> 0..Handles] /\ unlocking \in Packets \cup {0}
    /\ fresh \in BOOLEAN /\ faults \in 0..MaxFaults
    /\ \A p \in Packets : \A r \in AllRequests \ Contents[p] : stored[p][r] = "none"

\* A complete audit is earned: every packet of the bundle was decrypted in full
\* and every disclosed request judged after its packet was open, although packets
\* of the run may be added at any moment and reviews outlive the page
\* (AuditorView.tsx 250-297).
AuditEarned ==
    Complete(ses, "audit") =>
        /\ ses.m["audit"].packets \subseteq opened
        /\ ses.m["audit"].included \subseteq judged
        /\ ses.m["audit"].included = UNION {Contents[p] : p \in ses.m["audit"].packets}

\* The session's verdicts come from the auditor's: a request the session holds as
\* flagged was flagged in some packet by the time the audit completed, and none
\* outside the disclosed scope is judged.
NoForeignVerdict ==
    ses.m["audit"].reviewed \cup ses.m["audit"].flagged \subseteq judged \cap RunRequests

\* The safety of the auditor's page.
ReviewSafe == ReviewTypeOK /\ AuditEarned /\ NoForeignVerdict
====
