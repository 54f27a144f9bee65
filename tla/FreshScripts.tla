---------------------------- MODULE FreshScripts ----------------------------
(***************************************************************************)
(* The two scripts that run on the controller of FreshRun, smoke-sepolia   *)
(* and e2e-sepolia, and the part of the chain they act on: the treasury,   *)
(* one mandate, four requests of it and an audit packet.                   *)
(***************************************************************************)
EXTENDS Naturals, Sequences

\* The scripts' requests, with the amounts they ask for.
amount == [smoke |-> 25, cancelled |-> 60, executed |-> 60, blocked |-> 500]
Names == DOMAIN amount

autoLimit == 40
budget == 100

Decision(n, c) ==
    IF amount[n] > c.budget THEN "BLOCK" ELSE IF amount[n] > autoLimit THEN "ESCALATE" ELSE "EXECUTE"

Untouched ==
    [treasury |-> "empty", mandate |-> "none", budget |-> budget, payee |-> 0, packets |-> 0,
     decided |-> [n \in Names |-> "none"], state |-> [n \in Names |-> "None"]]

InFlight(c) == \E n \in Names : c.state[n] \in {"Requested", "AwaitingSafeApproval"}

K(op, of) == [op |-> op, of |-> of]

ScriptValid(k, c) ==
    CASE k.op = "faucet"   -> c.treasury = "empty"
      [] k.op = "approve"  -> c.treasury = "tokens"
      [] k.op = "wrap"     -> c.treasury = "approved"
      [] k.op = "propose"  -> TRUE
      [] k.op = "activate" -> c.mandate = "Proposed"
      [] k.op = "request"  -> c.mandate = "Active" /\ c.treasury = "wrapped" /\ ~InFlight(c)
      [] k.op = "finalize" -> c.state[k.of] = "Requested"
      [] k.op = "safe"     -> c.state[k.of] = "AwaitingSafeApproval"
      [] k.op = "packet"   -> \A n \in Names : c.state[n] # "None"
      [] OTHER -> TRUE

\* The budget is taken with the request and given back by a cancellation.
ScriptEffect(k, c) ==
    CASE k.op = "faucet"   -> [c EXCEPT !.treasury = "tokens"]
      [] k.op = "approve"  -> [c EXCEPT !.treasury = "approved"]
      [] k.op = "wrap"     -> [c EXCEPT !.treasury = "wrapped"]
      [] k.op = "propose"  -> [c EXCEPT !.mandate = "Proposed"]
      [] k.op = "activate" -> [c EXCEPT !.mandate = "Active"]
      [] k.op = "request"  ->
            [c EXCEPT !.state[k.of] = "Requested", !.decided[k.of] = Decision(k.of, c),
                      !.budget = IF Decision(k.of, c) = "BLOCK" THEN @ ELSE @ - amount[k.of]]
      [] k.op = "finalize" ->
            [c EXCEPT !.state[k.of] = CASE c.decided[k.of] = "EXECUTE" -> "Executed"
                                        [] c.decided[k.of] = "ESCALATE" -> "AwaitingSafeApproval"
                                        [] OTHER -> "Blocked",
                      !.payee = IF c.decided[k.of] = "EXECUTE" THEN @ + amount[k.of] ELSE @]
      [] k.op = "safe" /\ k.of = "cancelled" ->
            [c EXCEPT !.state[k.of] = "Cancelled", !.budget = @ + amount[k.of]]
      [] k.op = "safe" /\ k.of = "executed" ->
            [c EXCEPT !.state[k.of] = "Executed", !.payee = @ + amount[k.of]]
      [] k.op = "packet"   -> [c EXCEPT !.packets = @ + 1]
      [] OTHER -> c

ScriptReached(k, c) ==
    CASE k.op = "activate" -> c.mandate = "Active"
      [] k.op = "safe" /\ k.of = "cancelled" -> c.state[k.of] = "Cancelled"
      [] k.op = "safe" /\ k.of = "executed" -> c.state[k.of] = "Executed"
      [] OTHER -> FALSE

ScriptPending(k, c) == k.op = "finalize" /\ c.state[k.of] = "Requested"

-----------------------------------------------------------------------------
(* What the scripts do                                                     *)

Do(kd, k) == [kind |-> kd, key |-> k, once |-> FALSE]
Once(kd, k) == [kind |-> kd, key |-> k, once |-> TRUE]

\* smoke: the treasury, ids recorded by value, one payment within the mandate.
FundSteps == << Do("transaction", K("faucet", "smoke")), Do("transaction", K("approve", "smoke")),
                Do("transaction", K("wrap", "smoke")) >>
MandateSteps == << Once("transaction", K("propose", "smoke")), Do("safeAction", K("activate", "smoke")) >>
SmokeRequestSteps == << Once("transaction", K("request", "smoke")) >>
SmokeFinalizeSteps == << Do("finalize", K("finalize", "smoke")) >>
SmokeScript ==
    << Once("check", K("preflight", "smoke")) >> \o FundSteps \o MandateSteps
        \o SmokeRequestSteps \o SmokeFinalizeSteps \o << Do("check", K("complete", "smoke")) >>

\* e2e: requestAndFinalize of each request, then what the Safe does with it.
requestAndFinalize(n) == << Do("transaction", K("request", n)), Do("finalize", K("finalize", n)) >>
CancelledSteps == requestAndFinalize("cancelled")
    \o << Do("safeAction", K("safe", "cancelled")), Do("check", K("complete", "cancelled")) >>
ExecutedSteps == requestAndFinalize("executed")
    \o << Do("safeAction", K("safe", "executed")), Do("check", K("complete", "executed")) >>
BlockedSteps == requestAndFinalize("blocked") \o << Do("check", K("complete", "blocked")) >>
PacketSteps == << Do("transaction", K("packet", "smoke")), Do("check", K("complete", "e2e")) >>
E2EScript ==
    << Once("check", K("preflight", "e2e")) >>
        \o CancelledSteps \o ExecutedSteps \o BlockedSteps \o PacketSteps

\* e2e starts where smoke ends.
AfterSmoke ==
    [Untouched EXCEPT !.treasury = "wrapped", !.mandate = "Active", !.budget = 75, !.payee = 25,
                      !.decided["smoke"] = "EXECUTE", !.state["smoke"] = "Executed"]

\* A confirmed execution of the next request excuses the restored budget.
downstreamE2eAdvanced(s) ==
    s[K("safe", "executed")].hash /\ s[K("safe", "executed")].status \in {"success", "verified"}

SmokeHolds(c) == c.state["smoke"] = "Executed" /\ c.payee = 25
E2EPreflightHolds(c) ==
    c.mandate = "Active" /\ c.state["smoke"] = "Executed" /\ c.packets = 0
        /\ (\A n \in Names \ {"smoke"} : c.state[n] = "None") /\ c.budget = 75 /\ c.payee = 25
CancelledHolds(c, s) == downstreamE2eAdvanced(s) \/ c.budget = 75
ExecutedHolds(c) == c.budget = 15 /\ c.payee = 85
BlockedHolds(c) == c.state["blocked"] = "Blocked" /\ c.budget = 15
SnapshotsHold(c) == c.budget = 15 /\ c.packets > 0

\* The checks of both scripts, by their keys.
ScriptHolds(k, c, s) ==
    CASE k = K("preflight", "smoke") -> c = Untouched
      [] k = K("complete", "smoke")  -> SmokeHolds(c)
      [] k = K("preflight", "e2e")   -> E2EPreflightHolds(c)
      [] k.of = "cancelled" -> CancelledHolds(c, s)
      [] k.of = "executed"  -> ExecutedHolds(c)
      [] k.of = "blocked"   -> BlockedHolds(c)
      [] OTHER -> SnapshotsHold(c)

\* What a complete end-to-end run reports: the four requests in their final states, budget
\* and payee balance to the cent, and a single packet.
Evidence(c) ==
    /\ c.state = [smoke |-> "Executed", cancelled |-> "Cancelled",
                  executed |-> "Executed", blocked |-> "Blocked"]
    /\ c.budget = 15 /\ c.payee = 85 /\ c.packets = 1
=============================================================================
