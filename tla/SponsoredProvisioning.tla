------------------------ MODULE SponsoredProvisioning ------------------------
(***************************************************************************)
(* The gate in front of sponsored provisioning: a wallet proves that it    *)
(* owns an address by signing a single-use challenge, the request passes   *)
(* the one-at-a-time gate, and quota is taken and written to the journal   *)
(* before anything is spent.  What provision then does on the chain is     *)
(* module MandateRefresh; here it succeeds or fails.  One action runs from *)
(* one await to the next.                                                  *)
(***************************************************************************)
EXTENDS Naturals, FiniteSets

CONSTANTS
    Applicants,         \* addresses
    Posts,              \* the POSTs to /api/provision that may be under way
    dailyCap, DAY,      \* the rolling daily cap and its length in ticks
    subjectWindow,      \* ticks between two attempts for one address
    ttl, maxPending,    \* life and number of pending challenges
    MaxChallenges,      \* bound on the challenges issued
    MaxFaults,          \* bound on crashes, failed writes and failed calls
    MaxTime             \* bound on the clock, which starts at DAY

\* The window of an address is within the day the journal remembers: an hour, in the server.
GateBounds ==
    /\ Applicants # {}
    /\ dailyCap \in Nat \ {0} /\ DAY \in Nat \ {0} /\ subjectWindow \in Nat \ {0}
    /\ ttl \in Nat \ {0} /\ maxPending \in Nat \ {0}
    /\ MaxChallenges \in Nat /\ MaxFaults \in Nat /\ MaxTime \in Nat
    /\ subjectWindow <= DAY /\ DAY <= MaxTime

VARIABLES
    now,
    pending,        \* applicant -> its pending challenge and expiry, id 0 for none
    issued,         \* the challenges issued so far
    post,           \* what each POST is doing
    inFlight,       \* whether a provisioning is under way
    mem, disk,      \* the quota journal's entries in memory and in the file
    healthy,
    active,         \* the applicants with an active mandate
    accepted,       \* accepted proofs: challenge, applicant, signer, by which POST run
    attempts,       \* what was sponsored, as it was counted: applicant, time and challenge
    faults

vars == <<now, pending, issued, post, inFlight, mem, disk, healthy, active,
          accepted, attempts, faults>>

NoChallenge == [id |-> 0, expires |-> 0]
Idle == [pc |-> "idle", who |-> CHOOSE a \in Applicants : TRUE, id |-> 0,
         signer |-> CHOOSE a \in Applicants : TRUE, at |-> 0, snapshot |-> {}]
Pcs  == {"idle", "recover", "existing", "write", "rename", "provision"}
Entry == [subject : Applicants, at : 0 .. MaxTime]

Init ==
    /\ now = DAY
    /\ pending = [a \in Applicants |-> NoChallenge] /\ issued = 0
    /\ post = [p \in Posts |-> Idle] /\ inFlight = FALSE
    /\ mem = {} /\ disk = {} /\ healthy = TRUE
    /\ active = {} /\ accepted = {} /\ attempts = {}
    /\ faults = 0

Fault == faults < MaxFaults /\ faults' = faults + 1
quota == <<mem, disk, healthy>>
history == <<accepted, attempts>>

-----------------------------------------------------------------------------
(* The quota journal                                                       *)

activeEntries == {e \in mem : e.at > now - DAY}

\* Both rules: the window of the address, then the daily cap.
Allowed(a) ==
    /\ ~ \E e \in activeEntries : e.subject = a /\ e.at > now - subjectWindow
    /\ Cardinality(activeEntries) < dailyCap

\* consume up to its first await: the entry is counted in memory.
Consumed(a) == mem' = activeEntries \cup {[subject |-> a, at |-> now]}

\* load, on start: what the file says of the last day.
Loaded == mem' = {e \in disk : e.at > now - DAY} /\ healthy' = TRUE

-----------------------------------------------------------------------------
(* The challenges                                                          *)

\* purge: expired challenges are gone.
Live(a) == pending[a].id # 0 /\ pending[a].expires > now
Purged == [a \in Applicants |-> IF Live(a) THEN pending[a] ELSE NoChallenge]
PendingCount == Cardinality({a \in Applicants : Live(a)})

\* /api/provision-challenge answers while the quota is healthy and has room.
Operational == healthy /\ Cardinality(activeEntries) < dailyCap

\* The pending challenge of the address again, or a new one if there is capacity.
Issue(a) ==
    /\ Operational
    /\ IF Live(a) \/ PendingCount >= maxPending
       THEN pending' = Purged /\ UNCHANGED issued
       ELSE /\ issued < MaxChallenges
            /\ issued' = issued + 1
            /\ pending' = [Purged EXCEPT ![a] = [id |-> issued + 1, expires |-> now + ttl]]
    /\ UNCHANGED <<now, post, inFlight, quota, active, history, faults>>

\* mutant: it is spent with the answer
SpendLater(a) == pending' = Purged

\* The challenge is spent before the signature is looked at.
Spend(a) == pending' = [Purged EXCEPT ![a] = NoChallenge]

\* POST /api/provision: a proof for the address, signed by whoever signed it.
Verify(p, a, id, signer) ==
    /\ post[p].pc = "idle"
    /\ Live(a) /\ pending[a].id = id
    /\ Spend(a)
    /\ post' = [post EXCEPT ![p] = [Idle EXCEPT !.pc = "recover", !.who = a, !.id = id,
                                                !.signer = signer]]
    /\ UNCHANGED <<now, issued, inFlight, quota, active, history, faults>>

\* Any other proof is refused.
Refuse(a, id) ==
    /\ ~(Live(a) /\ pending[a].id = id)
    /\ pending' = Purged
    /\ UNCHANGED <<now, issued, post, inFlight, quota, active, history, faults>>

SignedByApplicant(p) == post[p].signer = post[p].who

Recovered(p) ==
    /\ post[p].pc = "recover"
    /\ IF SignedByApplicant(p)
       THEN /\ post' = [post EXCEPT ![p].pc = "existing"]
            /\ accepted' = accepted \cup {[id |-> post[p].id, post |-> p]}
       ELSE post' = [post EXCEPT ![p] = Idle] /\ UNCHANGED accepted
    /\ UNCHANGED <<now, pending, issued, inFlight, quota, active, attempts, faults>>

-----------------------------------------------------------------------------
(* The gate                                                                *)

GateOpen == ~inFlight

\* The answer to the read of the active mandate, and what follows at once: a
\* mandate is reused; otherwise the gate is closed and quota is taken.
Existing(p) ==
    /\ post[p].pc = "existing"
    /\ LET a == post[p].who IN
       \/ /\ a \notin active /\ GateOpen /\ healthy /\ Allowed(a)
          /\ inFlight' = TRUE
          /\ Consumed(a)
          /\ post' = [post EXCEPT ![p].pc = "write", ![p].at = now]
          /\ UNCHANGED faults
       \/ /\ a \in active \/ ~GateOpen \/ ~healthy \/ ~Allowed(a)
          /\ post' = [post EXCEPT ![p] = Idle]
          /\ UNCHANGED <<inFlight, mem, faults>>
       \/ /\ Fault
          /\ post' = [post EXCEPT ![p] = Idle]
          /\ UNCHANGED <<inFlight, mem>>
    /\ UNCHANGED <<now, pending, issued, disk, healthy, active, history>>

\* persist writes the state of that moment to a temporary file,
Write(p) ==
    /\ post[p].pc = "write"
    /\ \/ /\ post' = [post EXCEPT ![p].pc = "rename", ![p].snapshot = mem]
          /\ UNCHANGED <<inFlight, healthy, faults>>
       \/ /\ Fault /\ healthy' = FALSE
          /\ inFlight' = FALSE
          /\ post' = [post EXCEPT ![p] = Idle]
    /\ UNCHANGED <<now, pending, issued, mem, disk, active, history>>

Renamed(p) == disk' = post[p].snapshot

\* and puts it in place.  A failure stops all sponsoring, whether or not the file
\* was replaced.
Rename(p) ==
    /\ post[p].pc = "rename"
    /\ \/ /\ Renamed(p)
          /\ post' = [post EXCEPT ![p].pc = "provision"]
          /\ attempts' = attempts \cup {[subject |-> post[p].who, at |-> post[p].at, id |-> post[p].id]}
          /\ UNCHANGED <<inFlight, healthy, faults>>
       \/ /\ Fault /\ healthy' = FALSE
          /\ disk' \in {disk, post[p].snapshot}
          /\ inFlight' = FALSE
          /\ post' = [post EXCEPT ![p] = Idle]
          /\ UNCHANGED attempts
    /\ UNCHANGED <<now, pending, issued, mem, active, accepted>>

GateReopened == inFlight' = FALSE

\* provision activates a mandate or fails; either way the gate opens again.
Provision(p) ==
    /\ post[p].pc = "provision"
    /\ \/ active' = active \cup {post[p].who} /\ UNCHANGED faults
       \/ Fault /\ UNCHANGED active
    /\ GateReopened
    /\ post' = [post EXCEPT ![p] = Idle]
    /\ UNCHANGED <<now, pending, issued, quota, history>>

-----------------------------------------------------------------------------

\* The process restarts: challenges, gate and jobs were in memory.
Crash ==
    /\ Fault
    /\ pending' = [a \in Applicants |-> NoChallenge]
    /\ post' = [p \in Posts |-> Idle] /\ inFlight' = FALSE
    /\ Loaded
    /\ UNCHANGED <<now, issued, disk, active, history>>

\* A mandate runs out or is retired.
Retire(a) ==
    /\ a \in active /\ active' = active \ {a}
    /\ UNCHANGED <<now, pending, issued, post, inFlight, quota, history, faults>>

Tick ==
    /\ now < MaxTime /\ now' = now + 1
    /\ UNCHANGED <<pending, issued, post, inFlight, quota, active, history, faults>>

PostStep(p) ==
    Recovered(p) \/ Existing(p) \/ Write(p) \/ Rename(p) \/ Provision(p)

Next ==
    \/ \E a \in Applicants : Issue(a) \/ Retire(a)
    \/ \E a \in Applicants, id \in 0 .. MaxChallenges : Refuse(a, id)
    \/ \E p \in Posts, a, s \in Applicants, id \in 1 .. issued : Verify(p, a, id, s)
    \/ \E p \in Posts : PostStep(p)
    \/ Crash \/ Tick

Spec == Init /\ [][Next]_vars

-----------------------------------------------------------------------------
(* Properties                                                              *)

GateTypeOK ==
    /\ now \in DAY .. MaxTime /\ issued \in 0 .. MaxChallenges
    /\ pending \in [Applicants -> [id : 0 .. issued, expires : 0 .. MaxTime + ttl]]
    /\ \A p \in Posts : /\ post[p].pc \in Pcs /\ post[p].id \in 0 .. issued
                        /\ post[p].who \in Applicants /\ post[p].signer \in Applicants
                        /\ post[p].at \in 0 .. MaxTime /\ post[p].snapshot \subseteq Entry
    /\ inFlight \in BOOLEAN /\ healthy \in BOOLEAN
    /\ mem \subseteq Entry /\ disk \subseteq Entry /\ active \subseteq Applicants
    /\ accepted \subseteq [id : 1 .. MaxChallenges, post : Posts] 
    /\ attempts \subseteq [subject : Applicants, at : 0 .. MaxTime, id : 1 .. MaxChallenges]
    /\ faults \in 0 .. MaxFaults

\* A crash, a failed write or a failed provisioning never reopens the budget: of any
\* day, no more attempts were sponsored than the cap allows.
CapOutlivesCrashes ==
    \A t \in DAY .. now :
        Cardinality({e \in attempts : t - DAY < e.at /\ e.at <= t}) <= dailyCap

\* Nor the window of an address.
WindowOutlivesCrashes ==
    \A e, f \in attempts :
        e # f /\ e.subject = f.subject /\ e.at <= f.at => f.at >= e.at + subjectWindow

\* What is being sponsored is in the file, so that a crash now would not forget it.
CountedBeforeSpent ==
    \A e \in attempts : e.at > now - DAY => [subject |-> e.subject, at |-> e.at] \in disk

\* A challenge is accepted at most once, however many POSTs carry it at the same time.
ChallengeAcceptedOnce ==
    \A x, y \in accepted : x.id = y.id => x = y

\* Nothing is sponsored for an address that did not sign a challenge itself.
OnlyOwnersSponsored ==
    \A p \in Posts :
        post[p].pc \in {"existing", "write", "rename", "provision"} =>
            post[p].signer = post[p].who

\* The safety of the gate.
GateSafe ==
    /\ GateTypeOK /\ CapOutlivesCrashes /\ WindowOutlivesCrashes /\ CountedBeforeSpent
    /\ ChallengeAcceptedOnce /\ OnlyOwnersSponsored
=============================================================================
