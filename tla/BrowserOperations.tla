---- MODULE BrowserOperations ----
(* What the browser does at the same time: operations that hold resources       *)
(* (operation-lock.ts, App.run), the shared read of the chain (App.tsx 541-612) *)
(* and the effect of the payment page that has a ready decision published and   *)
(* follows it (DelegateView.tsx 602-657).                                       *)
EXTENDS Naturals, FiniteSets

CONSTANTS
    Ids,         \* request ids, from 1
    MaxRounds,   \* refreshes of one follow-up (30)
    MaxFaults    \* failed reads, lost and refused calls, failed operations

RoundsAssumption == MaxRounds \in Nat \ {0} /\ MaxFaults \in Nat /\ 0 \notin Ids

VARIABLES
    req,         \* the chain: request |-> "none", "pending", "ready", "published"
    asked,       \* requests the courier was asked for
    snap, load,  \* what the pages see, and the read under way
    held, running, busy,    \* resource |-> operation; operations; the global label is shown
    track,       \* the request the page follows, 0: none
    due,         \* the dependencies of the finalize effect changed
    finalizing, waiting,    \* finalizingRef and whether finalizeRetryAt lies ahead
    follow, rounds,         \* request |-> where its follow-up is; its refreshes
    faults

chain == <<req, asked>>
reading == <<snap, load>>
ops == <<held, running, busy>>
page == <<track, due, finalizing, waiting>>
vars == <<chain, reading, ops, page, follow, rounds, faults>>

Finalize(i) == <<"finalize", i>>
Submit == <<"submit", 0>>
Policy == <<"policy", 0>>      \* any operation with a global label
Ops == {Submit, Policy} \cup {Finalize(i) : i \in Ids}
Wallet == <<"wallet", 0>>
Mandate == <<"mandate", 0>>
Needs == [op \in Ops |-> IF op = Submit THEN {Wallet, Mandate} ELSE IF op = Policy THEN {Wallet} ELSE {op}]
Resources == UNION {Needs[op] : op \in Ops}
NoOp == <<"none", 0>>
NoLock == [id |-> 0, old |-> FALSE]
Idle == [on |-> FALSE, read |-> FALSE, seen |-> [i \in Ids |-> "none"]]
Fault == faults < MaxFaults /\ faults' = faults + 1

(***************************************************************************)
(* OperationCoordinator and run.                                           *)
(***************************************************************************)
Blocked(op) == \E r \in Needs[op] : held[r] # NoOp
Begin(op) ==
    /\ ~Blocked(op)
    /\ held' = [r \in Resources |-> IF r \in Needs[op] THEN op ELSE held[r]]
    /\ running' = running \cup {op} /\ busy' = (busy \/ op = Policy)
\* refresh: the read under way is joined.
Refresh == load' = IF load.on THEN load ELSE [Idle EXCEPT !.on = TRUE]
\* A success refreshes; success or not, the resources are given back.
End(op, ok) ==
    /\ held' = [r \in Resources |-> IF held[r] = op THEN NoOp ELSE held[r]]
    /\ running' = running \ {op}
    /\ busy' = (busy /\ op # Policy)
    /\ IF ok THEN Refresh ELSE UNCHANGED load

(***************************************************************************)
(* The shared read.                                                        *)
(***************************************************************************)
Poll == /\ ~load.on /\ Refresh /\ UNCHANGED <<chain, snap, ops, page, follow, rounds, faults>>
Read == /\ load.on /\ ~load.read /\ load' = [load EXCEPT !.read = TRUE, !.seen = req]
        /\ UNCHANGED <<chain, snap, ops, page, follow, rounds, faults>>
Resumed == [i \in Ids |-> IF follow[i] = "await" THEN "loop" ELSE follow[i]]
LoadDone == /\ load.read /\ snap' = load.seen /\ load' = Idle /\ due' = TRUE /\ follow' = Resumed
            /\ UNCHANGED <<chain, ops, track, finalizing, waiting, rounds, faults>>
LoadFails == /\ load.on /\ Fault /\ follow' = Resumed /\ load' = Idle
             /\ UNCHANGED <<chain, snap, ops, page, rounds>>

(***************************************************************************)
(* Operations of the user.                                                 *)
(***************************************************************************)
Submittable == {i \in Ids : req[i] = "none" /\ \A j \in Ids : j < i => req[j] = "published"}
StartSubmit == /\ ~due /\ Submittable # {} /\ Begin(Submit) /\ UNCHANGED <<chain, reading, page, follow, rounds, faults>>
\* The receipt binds the new request; a failed submission binds none.
SubmitLands ==
    /\ Submit \in running /\ End(Submit, TRUE)
    /\ \E i \in Submittable : req' = [req EXCEPT ![i] = "pending"] /\ track' = i
    /\ due' = TRUE /\ UNCHANGED <<asked, snap, finalizing, waiting, follow, rounds, faults>>
SubmitFails == /\ Submit \in running /\ Fault /\ End(Submit, FALSE)
               /\ UNCHANGED <<chain, snap, page, follow, rounds>>
StartPolicy == /\ ~due /\ Begin(Policy) /\ due' = TRUE
               /\ UNCHANGED <<chain, reading, track, finalizing, waiting, follow, rounds, faults>>
EndPolicy == /\ Policy \in running /\ due' = TRUE
             /\ \/ End(Policy, TRUE) /\ UNCHANGED faults
                \/ End(Policy, FALSE) /\ Fault
             /\ UNCHANGED <<chain, snap, track, finalizing, waiting, follow, rounds>>

(***************************************************************************)
(* The finalize effect.                                                    *)
(***************************************************************************)
Seen == IF track = 0 THEN "none" ELSE snap[track]
\* A request followed for less than a minute, a global operation, or a failure less
\* than five seconds ago hold the effect back.
HeldBack == (finalizing.id = track /\ ~finalizing.old) \/ busy \/ waiting
Effect ==
    /\ due /\ due' = FALSE
    /\ \/ /\ Seen # "ready"
          /\ finalizing' = IF Seen # "none" /\ finalizing.id = track THEN NoLock ELSE finalizing
          /\ UNCHANGED <<ops, follow, rounds>>
       \/ /\ Seen = "ready" /\ (HeldBack \/ Blocked(Finalize(track)))
          /\ UNCHANGED <<ops, finalizing, follow, rounds>>
       \/ /\ Seen = "ready" /\ ~HeldBack /\ Begin(Finalize(track))
          /\ finalizing' = [id |-> track, old |-> FALSE]
          /\ follow' = [follow EXCEPT ![track] = "ask"] /\ rounds' = [rounds EXCEPT ![track] = 0]
    /\ UNCHANGED <<chain, reading, track, waiting, faults>>
\* A call that is accepted, or whose answer is late or lost, with or without the
\* courier having been reached: the request is followed on the chain.
Ask(i) ==
    /\ follow[i] = "ask" /\ follow' = [follow EXCEPT ![i] = "loop"]
    /\ \/ asked' = asked \cup {i} /\ UNCHANGED faults
       \/ Fault /\ UNCHANGED asked
    /\ UNCHANGED <<req, reading, ops, page, rounds>>
AskRefused(i) ==
    /\ follow[i] = "ask" /\ Fault /\ End(Finalize(i), FALSE)
    /\ follow' = [follow EXCEPT ![i] = "idle"] /\ waiting' = TRUE /\ finalizing' = NoLock
    /\ UNCHANGED <<chain, snap, track, due, rounds>>
Round(i) ==
    /\ follow[i] = "loop" /\ finalizing.id = i /\ rounds[i] < MaxRounds
    /\ rounds' = [rounds EXCEPT ![i] = @ + 1] /\ Refresh /\ follow' = [follow EXCEPT ![i] = "await"]
    /\ UNCHANGED <<chain, snap, ops, page, faults>>
\* The request left its state, another took its place, or the rounds are over.
FollowEnds(i) ==
    /\ follow[i] = "loop" /\ (finalizing.id # i \/ rounds[i] = MaxRounds)
    /\ finalizing' = IF finalizing.id = i THEN NoLock ELSE finalizing
    /\ waiting' = (waiting \/ finalizing.id = i)
    /\ End(Finalize(i), TRUE) /\ follow' = [follow EXCEPT ![i] = "idle"]
    /\ UNCHANGED <<chain, snap, track, due, rounds, faults>>
\* Time passes; nothing is triggered by it.
Minute == /\ finalizing.id # 0 /\ ~finalizing.old /\ finalizing' = [finalizing EXCEPT !.old = TRUE]
          /\ UNCHANGED <<chain, reading, ops, track, due, waiting, follow, rounds, faults>>
RetryTime == /\ waiting /\ waiting' = FALSE
             /\ UNCHANGED <<chain, reading, ops, track, due, finalizing, follow, rounds, faults>>

(***************************************************************************)
(* The TEE and the courier.                                                *)
(***************************************************************************)
Decide(i) == /\ req[i] = "pending" /\ req' = [req EXCEPT ![i] = "ready"]
             /\ UNCHANGED <<asked, reading, ops, page, follow, rounds, faults>>
Publish(i) == /\ req[i] = "ready" /\ i \in asked /\ req' = [req EXCEPT ![i] = "published"]
              /\ UNCHANGED <<asked, reading, ops, page, follow, rounds, faults>>

Init ==
    /\ req = [i \in Ids |-> "none"] /\ asked = {} /\ snap = req /\ load = Idle
    /\ held = [r \in Resources |-> NoOp] /\ running = {} /\ busy = FALSE
    /\ track = 0 /\ due = FALSE /\ finalizing = NoLock /\ waiting = FALSE
    /\ follow = [i \in Ids |-> "idle"] /\ rounds = [i \in Ids |-> 0] /\ faults = 0

Follow == \E i \in Ids : Ask(i) \/ AskRefused(i) \/ Round(i) \/ FollowEnds(i)
World == \E i \in Ids : Decide(i) \/ Publish(i)
Next == \/ Poll \/ Read \/ LoadDone \/ LoadFails
        \/ StartSubmit \/ SubmitLands \/ SubmitFails \/ StartPolicy \/ EndPolicy
        \/ Effect \/ Follow \/ Minute \/ RetryTime \/ World
Spec == Init /\ [][Next]_vars
\* The interval polls, effects follow renders, timers run out, started calls end,
\* and the courier publishes what it was asked for.
FairSpec == Spec /\ WF_vars(Poll) /\ WF_vars(Read) /\ WF_vars(LoadDone) /\ WF_vars(EndPolicy) /\ SF_vars(Effect)
                 /\ WF_vars(RetryTime)
                 /\ \A i \in Ids : WF_vars(Ask(i)) /\ WF_vars(Round(i)) /\ WF_vars(FollowEnds(i)) /\ WF_vars(Publish(i))

(***************************************************************************)
(* Properties                                                              *)
(***************************************************************************)
\* The shape of the state: a request is under finalizingRef only while its
\* operation runs (DelegateView.tsx 621-623).
OperationsTypeOK ==
    /\ req \in [Ids -> {"none", "pending", "ready", "published"}] /\ track \in Ids \cup {0}
    /\ faults \in 0..MaxFaults /\ rounds \in [Ids -> 0..MaxRounds]
    /\ finalizing.id # 0 => Finalize(finalizing.id) \in running
    /\ \A i \in Ids : follow[i] # "idle" <=> Finalize(i) \in running

\* A running operation holds everything it needs until it ends, and nothing stays
\* held after it, whatever fails (operation-lock.ts 32-55).
HoldsItsResources ==
    /\ \A op \in running : \A r \in Needs[op] : held[r] = op
    /\ \A r \in Resources : held[r] = NoOp \/ held[r] \in running

\* The safety of the operations.
OperationsSafe == OperationsTypeOK /\ HoldsItsResources

\* What the page owes its visitor: a ready decision of the request it shows is not
\* published, or a published one not seen (DelegateView.tsx 647, 654-655).
Behind ==
    \E i \in Ids : (track = i /\ req[i] = "ready") \/ (req[i] = "published" /\ snap[i] # "published")
====
