---- MODULE NoxRead ----
(* Reading the clear value of Nox handles: a click gets the account's handle     *)
(* client (app/src/nox.ts 71-88), waits until the gateway calls every handle     *)
(* resolved and then retries the decrypt until the path behind has caught up     *)
(* (scripts/lib/nox-consistency.ts).  Time is the time since the wait began.     *)
EXTENDS Naturals, FiniteSets

CONSTANTS
    Handles,
    Timeout, ReadTimeout,      \* deadlines of the two waits
    Interval,                  \* the pause between two attempts
    RequestTimeout,            \* of one question to the gateway
    Latency,                   \* of a gateway and a read path that are well
    MaxFaults                  \* outages, refused prompts and cancelled waits

DurationsAssumption ==
    /\ {Timeout, ReadTimeout, Interval, RequestTimeout, Latency} \subseteq Nat \ {0}
    /\ Latency < RequestTimeout /\ RequestTimeout < Timeout
    /\ Handles # {}

VARIABLES
    resolved, caughtUp, down,  \* the network: resolved handles, the read path, an outage
    client,                    \* clientCache's entry
    phase, at,                 \* what the click waits for; where its loop is
    elapsed, clock,            \* since the wait began; since the attempt or the pause did
    pause,                     \* length of the pause
    asked, well,               \* when the attempt began, and whether the network was well then
    since,                     \* when the network got well for this wait, Never
    aborted,                   \* the caller's signal
    outcome,                   \* of the last click
    faults

network == <<resolved, caughtUp, down>>
loop == <<phase, at, elapsed, clock, pause, asked, well>>
vars == <<network, client, loop, since, aborted, outcome, faults>>

Limit == IF phase = "read" THEN ReadTimeout ELSE Timeout
Never == Timeout + ReadTimeout + RequestTimeout + 1
Least(a, b) == IF a < b THEN a ELSE b
Fault == faults < MaxFaults /\ faults' = faults + 1
Well(p) == ~down /\ resolved = Handles /\ (p = "read" => caughtUp)

(***************************************************************************)
(* The loop of retryPropagation.                                           *)
(***************************************************************************)
Enter(p) ==
    /\ phase' = p /\ at' = "check" /\ elapsed' = 0 /\ clock' = 0 /\ pause' = 0 /\ asked' = 0 /\ well' = FALSE
    /\ since' = IF Well(p) THEN 0 ELSE Never
End(result) ==
    /\ phase' = "idle" /\ at' = "check" /\ elapsed' = 0 /\ clock' = 0 /\ pause' = 0 /\ asked' = 0 /\ well' = FALSE
    /\ since' = Never /\ outcome' = result
\* The pause does not reach past the deadline, so that the last attempt begins by then.
Pause == Least(Interval, Limit - elapsed)
Expired == elapsed >= Limit
Failed ==
    IF Expired THEN End("timeout")
    ELSE /\ at' = "asleep" /\ clock' = 0 /\ pause' = Pause
         /\ UNCHANGED <<phase, elapsed, asked, well, since, outcome>>
Attempt ==
    /\ phase \in {"resolution", "read"} /\ at = "check"
    /\ IF aborted THEN End("aborted")
       ELSE /\ at' = "asking" /\ clock' = 0 /\ asked' = elapsed /\ well' = Well(phase)
            /\ UNCHANGED <<phase, elapsed, pause, since, outcome>>
    /\ UNCHANGED <<network, client, aborted, faults>>
Wake ==
    /\ at = "asleep" /\ clock = pause
    /\ at' = "check"
    /\ UNCHANGED <<network, client, phase, elapsed, clock, pause, asked, well, since, aborted, outcome, faults>>
Abort ==
    /\ phase \in {"resolution", "read"} /\ ~aborted /\ Fault
    /\ aborted' = TRUE
    /\ UNCHANGED <<network, client, loop, since, outcome>>

(***************************************************************************)
(* The click: handleClientFor, waitResolved, retryNoxRead.                 *)
(***************************************************************************)
Click ==
    /\ phase = "idle" /\ outcome # "shown"
    /\ Enter("client") /\ aborted' = FALSE
    /\ UNCHANGED <<network, client, outcome, faults>>
ClientEnds(ok) ==
    /\ phase = "client"
    /\ ok \in (IF client = "failed" THEN {FALSE} ELSE IF client = "ready" THEN {TRUE} ELSE IF down THEN {TRUE, FALSE} ELSE {TRUE})
    /\ client' = IF ok THEN "ready" ELSE "none"
    /\ IF ok THEN Enter("resolution") /\ UNCHANGED outcome ELSE End("client")
    /\ UNCHANGED <<network, aborted, faults>>
Asking(p) == phase = p /\ at = "asking"
\* mutant: one resolved handle stands for all
AnswersAny ==
    /\ Asking("resolution")
    /\ \E seen \in SUBSET resolved :
        /\ well => seen = resolved
        /\ IF seen # {} THEN Enter("read") /\ UNCHANGED outcome ELSE Failed
    /\ UNCHANGED <<network, client, aborted, faults>>
\* The gateway may answer from a replica that lags, except once it was well when asked.
Answers ==
    /\ Asking("resolution")
    /\ \E seen \in SUBSET resolved :
        /\ well => seen = resolved
        /\ IF Handles \subseteq seen THEN Enter("read") /\ UNCHANGED outcome ELSE Failed
    /\ UNCHANGED <<network, client, aborted, faults>>
\* No answer in time, an error status, an answer that is not understood, or the caller's
\* signal, which cancels the question.
AskFails ==
    /\ Asking("resolution") /\ (clock = RequestTimeout \/ aborted \/ (down /\ ~well))
    /\ Failed
    /\ UNCHANGED <<network, client, aborted, faults>>
Decrypts ==
    /\ Asking("read") /\ caughtUp
    /\ End("shown")
    /\ UNCHANGED <<network, client, aborted, faults>>
DecryptFails ==
    /\ Asking("read") /\ ~well
    /\ Failed
    /\ UNCHANGED <<network, client, aborted, faults>>
\* The user refuses the signature: not a matter of propagation, so no second prompt.
Refuses ==
    /\ Asking("read") /\ Fault
    /\ End("refused")
    /\ UNCHANGED <<network, client, aborted>>

(***************************************************************************)
(* The network and time.                                                   *)
(***************************************************************************)
GotWell(now) == since' = IF now THEN (IF since = Never THEN elapsed ELSE since) ELSE Never
Waiting == phase \in {"resolution", "read"}
Resolve(h) ==
    /\ h \notin resolved
    /\ resolved' = resolved \cup {h}
    /\ UNCHANGED <<caughtUp, down, client, loop, aborted, outcome, faults>>
    /\ GotWell(Waiting /\ Well(phase)')
CatchUp ==
    /\ resolved = Handles /\ ~caughtUp
    /\ caughtUp' = TRUE
    /\ UNCHANGED <<resolved, down, client, loop, aborted, outcome, faults>>
    /\ GotWell(Waiting /\ Well(phase)')
Outage ==
    /\ ~down /\ Fault
    /\ down' = TRUE /\ well' = FALSE
    /\ GotWell(FALSE)
    /\ UNCHANGED <<resolved, caughtUp, client, phase, at, elapsed, clock, pause, asked, aborted, outcome>>
Recover ==
    /\ down
    /\ down' = FALSE
    /\ UNCHANGED <<resolved, caughtUp, client, loop, aborted, outcome, faults>>
    /\ GotWell(Waiting /\ Well(phase)')
\* Time stands still while something that takes none is due. A read has no timeout of
\* its own; elapsed stops counting past every deadline.
Tick ==
    /\ \/ at = "asleep" /\ clock < pause
       \/ at = "asking" /\ clock < (IF well THEN Latency ELSE RequestTimeout)
    /\ clock' = clock + 1 /\ elapsed' = elapsed + 1
    /\ UNCHANGED <<network, client, phase, at, pause, asked, well, since, aborted, outcome, faults>>

Init ==
    /\ resolved = {} /\ caughtUp = FALSE /\ down = FALSE /\ client = "none"
    /\ phase = "idle" /\ at = "check" /\ elapsed = 0 /\ clock = 0 /\ pause = 0 /\ asked = 0 /\ well = FALSE
    /\ since = Never /\ aborted = FALSE /\ outcome = "none" /\ faults = 0

Next ==
    \/ Click \/ (\E ok \in BOOLEAN : ClientEnds(ok)) \/ Attempt \/ Wake \/ Abort
    \/ Answers \/ AskFails \/ Decrypts \/ DecryptFails \/ Refuses
    \/ (\E h \in Handles : Resolve(h)) \/ CatchUp \/ Outage \/ Recover \/ Tick

Spec == Init /\ [][Next]_vars

\* The user clicks again until the value is shown, timers fire, every call ends, the
\* TEE resolves the handles, the read path follows and an outage ends.
Fairness ==
    /\ WF_vars(Click) /\ WF_vars(\E ok \in BOOLEAN : ClientEnds(ok)) /\ WF_vars(Attempt) /\ WF_vars(Wake)
    /\ WF_vars(Answers \/ AskFails) /\ WF_vars(Decrypts \/ DecryptFails) /\ WF_vars(Tick)
    /\ WF_vars(\E h \in Handles : Resolve(h)) /\ WF_vars(CatchUp) /\ WF_vars(Recover)
FairSpec == Spec /\ Fairness

(***************************************************************************)
(* Properties.                                                             *)
(***************************************************************************)
NoxTypeOK ==
    /\ resolved \subseteq Handles /\ caughtUp \in BOOLEAN /\ down \in BOOLEAN
    /\ (caughtUp => resolved = Handles)
    /\ client \in {"none", "ready"}
    /\ phase \in {"idle", "client", "resolution", "read"} /\ at \in {"check", "asking", "asleep"}
    /\ elapsed \in 0..(Limit + RequestTimeout) /\ clock \in 0..elapsed /\ pause \in 0..Interval
    /\ outcome \in {"none", "shown", "timeout", "refused", "aborted", "client"}

\* No attempt begins past the wait's deadline, however the pauses fall: the last one begins
\* exactly at it (nox-consistency.ts 161-186).
AsksByTheDeadline == at = "asking" => asked <= Limit

\* The decrypt, which asks the user to sign, is attempted only when the gateway knows every
\* handle, in one answer, as resolved (nox-consistency.ts 276-313).
ReadsWhatIsResolved == phase = "read" => resolved = Handles

\* A wait for resolution gives up only when the gateway was not well for good, early enough
\* for one question before the deadline: what resolves in time is noticed.
GivesUpWithReason ==
    outcome' = "timeout" /\ phase = "resolution" /\ phase' = "idle" /\ ~aborted
        => since + RequestTimeout >= Timeout

\* The safety of a read.
ReadSafe == NoxTypeOK /\ AsksByTheDeadline /\ ReadsWhatIsResolved
====
