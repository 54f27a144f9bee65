------------------------------ MODULE FreshRun ------------------------------
(***************************************************************************)
(* The controller under the fresh-deployment scripts: a checkpoint file    *)
(* with a stage per transaction, written before a broadcast, after it and  *)
(* after its receipt, so that a restarted script follows what it sent.     *)
(* What a script does is its sequence of steps; the chain is a parameter.  *)
(***************************************************************************)
EXTENDS Naturals, Sequences, FiniteSets

CONSTANTS
    Script,             \* the steps: kind, key, and once, for what a recorded value skips
    InitialChain,       \* the chain when the script starts
    Valid(_, _),        \* Valid(key, chain): the transaction would not revert
    Effect(_, _),       \* Effect(key, chain): the chain after it
    Reached(_, _),      \* Reached(key, chain): the target state of a Safe execution
    Pending(_, _),      \* Pending(key, chain): what it finalizes is still requested
    Holds(_, _, _),     \* Holds(check, chain, stages): the script's own check passes
    Keeper,             \* whether somebody else finalizes requests too
    MaxFaults           \* bound on crashes and failed calls

Kinds == {"transaction", "finalize", "safeAction", "check"}
Keys == {Script[i].key : i \in DOMAIN Script}

ScriptShape ==
    /\ Script # <<>> /\ Keeper \in BOOLEAN /\ MaxFaults \in Nat
    /\ \A i \in DOMAIN Script : Script[i].kind \in Kinds /\ Script[i].once \in BOOLEAN

VARIABLES
    stages,             \* the checkpoint file: key -> status and whether it has a hash
    values,             \* the checkpoint file: keys whose object ids are recorded
    pos, pc,            \* where the script is
    chain,
    sent,               \* key -> how many transactions were broadcast for it
    unmined,            \* keys with a broadcast that is not mined
    mined,              \* key -> "none", "success" or "reverted"
    faults

file == <<stages, values>>
vars == <<file, pos, pc, chain, sent, unmined, mined, faults>>

NoStage == [status |-> "none", hash |-> FALSE]
Thrown == {"crashed", "failed", "ambiguous", "reverted", "refused", "unbound"}

Init ==
    /\ stages = [k \in Keys |-> NoStage] /\ values = {}
    /\ pos = 1 /\ pc = "enter"
    /\ chain = InitialChain
    /\ sent = [k \in Keys |-> 0] /\ unmined = {} /\ mined = [k \in Keys |-> "none"]
    /\ faults = 0

Fault == faults < MaxFaults /\ faults' = faults + 1
key == Script[pos].key
kind == Script[pos].kind
chainSide == <<chain, sent, unmined, mined>>

\* markCheckpointStage, kept in the file.
Mark(k, status) == stages' = [stages EXCEPT ![k].status = status]

NextStep ==
    IF pos = Len(Script) THEN pc' = "complete" /\ UNCHANGED pos
    ELSE pc' = "enter" /\ pos' = pos + 1
Throw(why) == pc' = why /\ UNCHANGED pos
Goto(where) == pc' = where /\ UNCHANGED pos

-----------------------------------------------------------------------------
(* The start of a step                                                     *)

Tracked(k) == stages[k].status # "none"

\* mutant: a verified preflight is done again
SkippedByValue == Script[pos].once /\ key \in values

\* A recorded value, or a verified preflight, is not done again.
Skipped == Script[pos].once /\ (key \in values \/ stages[key].status = "verified")

Skip ==
    /\ pc = "enter" /\ Skipped
    /\ NextStep /\ UNCHANGED <<file, chainSide, faults>>

\* mutant: a stage without a hash is taken for a fresh one
Resumes(k) == ~stages[k].hash
Fresh(k) == ~Tracked(k)

\* transaction: a known hash is followed, nothing is sent from a stage without one.
EnterTransaction ==
    /\ pc = "enter" /\ ~Skipped
    /\ kind = "transaction" \/ (kind = "finalize" /\ Pending(key, chain))
    /\ \/ stages[key].hash /\ Goto("wait") /\ UNCHANGED stages
       \/ Fresh(key) /\ Mark(key, "preparing") /\ Goto("send")
       \/ ~stages[key].hash /\ ~Fresh(key) /\ Throw("ambiguous") /\ UNCHANGED stages
    /\ UNCHANGED <<values, chainSide, faults>>

\* A request that went on is followed by the hash of its finalization, or not at all.
EnterFinalized ==
    /\ pc = "enter" /\ kind = "finalize" /\ ~Pending(key, chain)
    /\ IF stages[key].hash THEN Goto("wait") ELSE Throw("unbound")
    /\ UNCHANGED <<file, chainSide, faults>>

\* safeAction: the target state decides when there is no hash to follow.
EnterSafeAction ==
    /\ pc = "enter" /\ kind = "safeAction"
    /\ \/ stages[key].hash /\ Goto("wait") /\ UNCHANGED stages
       \/ ~stages[key].hash /\ Reached(key, chain) /\ Mark(key, "verified") /\ NextStep
       \/ /\ ~stages[key].hash /\ ~Reached(key, chain)
          /\ \/ Fresh(key) /\ Mark(key, "preparing") /\ Goto("send")
             \/ ~Fresh(key) /\ Throw("ambiguous") /\ UNCHANGED stages
    /\ UNCHANGED <<values, chainSide, faults>>

\* A check of the script marks its stage, or the script throws.
EnterCheck ==
    /\ pc = "enter" /\ kind = "check" /\ ~Skipped
    /\ IF Holds(key, chain, stages)
       THEN Mark(key, "verified") /\ NextStep
       ELSE Throw("refused") /\ UNCHANGED stages
    /\ UNCHANGED <<values, chainSide, faults>>

-----------------------------------------------------------------------------
(* A broadcast and its receipt                                             *)

Sent(k) ==
    /\ sent' = [sent EXCEPT ![k] = @ + 1]
    /\ unmined' = unmined \cup {k}

\* The estimate must pass before anything is sent; the answer may be lost.
Send ==
    /\ pc = "send"
    /\ \/ Valid(key, chain) /\ Sent(key) /\ Goto("persist") /\ UNCHANGED faults
       \/ Valid(key, chain) /\ Sent(key) /\ Fault /\ Throw("failed")
       \/ Fault /\ Throw("failed") /\ UNCHANGED <<sent, unmined>>
       \/ ~Valid(key, chain) /\ Throw("failed") /\ UNCHANGED <<sent, unmined, faults>>
    /\ UNCHANGED <<file, chain, mined>>

\* recordCheckpointBroadcast
Persist ==
    /\ pc = "persist"
    /\ stages' = [stages EXCEPT ![key] = [status |-> "broadcast", hash |-> TRUE]]
    /\ Goto("wait")
    /\ UNCHANGED <<values, chainSide, faults>>

Succeeded(k) == mined[k] = "success"

\* recordCheckpointReceipt; a Safe execution must have reached its target, and a
\* transaction's object id is recorded.
Confirm ==
    /\ pc = "wait"
    /\ \/ /\ Succeeded(key) /\ (kind = "safeAction" => Reached(key, chain))
          /\ Mark(key, IF kind = "safeAction" THEN "verified" ELSE "success")
          /\ values' = values \cup {key} /\ NextStep /\ UNCHANGED faults
       \/ mined[key] = "reverted" /\ Throw("reverted") /\ UNCHANGED <<file, faults>>
       \/ Fault /\ Throw("failed") /\ UNCHANGED file
    /\ UNCHANGED chainSide

-----------------------------------------------------------------------------

Mine(k) ==
    /\ k \in unmined /\ unmined' = unmined \ {k}
    /\ IF Valid(k, chain)
       THEN chain' = Effect(k, chain) /\ mined' = [mined EXCEPT ![k] = "success"]
       ELSE mined' = [mined EXCEPT ![k] = "reverted"] /\ UNCHANGED chain
    /\ UNCHANGED <<file, pos, pc, sent, faults>>

\* A keeper finalizes what is there to finalize.
KeeperFinalizes(k) ==
    /\ Keeper /\ Pending(k, chain) /\ Valid(k, chain)
    /\ \E i \in DOMAIN Script : Script[i].key = k /\ Script[i].kind = "finalize"
    /\ chain' = Effect(k, chain)
    /\ UNCHANGED <<file, pos, pc, sent, unmined, mined, faults>>

\* The process ends at any point; a file is replaced as a whole.
Crash ==
    /\ pc \notin Thrown \cup {"complete"} /\ Fault
    /\ pc' = "crashed"
    /\ UNCHANGED <<file, pos, chainSide>>

\* The operator runs the script again, finished or not.
Restart ==
    /\ pc \in Thrown \cup {"complete"}
    /\ pos' = 1 /\ pc' = "enter"
    /\ UNCHANGED <<file, chainSide, faults>>

Enter == Skip \/ EnterTransaction \/ EnterFinalized \/ EnterSafeAction \/ EnterCheck
Run == Enter \/ Send \/ Persist \/ Confirm

Next == Run \/ (\E k \in Keys : Mine(k) \/ KeeperFinalizes(k)) \/ Crash \/ Restart

Fairness ==
    /\ WF_vars(Run) /\ WF_vars(Restart)
    /\ WF_vars(\E k \in Keys : Mine(k))
Spec == Init /\ [][Next]_vars /\ Fairness

-----------------------------------------------------------------------------
(* Properties                                                              *)

FreshTypeOK ==
    /\ stages \in [Keys -> [status : {"none", "preparing", "broadcast", "success", "verified"},
                            hash : BOOLEAN]]
    /\ values \subseteq Keys /\ pos \in DOMAIN Script /\ unmined \subseteq Keys
    /\ pc \in Thrown \cup {"enter", "send", "persist", "wait", "complete"}
    /\ mined \in [Keys -> {"none", "success", "reverted"}]

\* However often the script is restarted, it sends no transaction a second time.
NeverSentTwice == \A k \in Keys : sent[k] <= 1

\* What the file says happened did: a hash was sent, a success was mined, a verified
\* Safe execution reached its target.
CheckpointIsTrue ==
    /\ \A k \in Keys :
        /\ stages[k].hash => sent[k] = 1
        /\ stages[k].status = "success" => mined[k] = "success"
    /\ \A i \in DOMAIN Script :
        Script[i].kind = "safeAction" /\ stages[Script[i].key].status = "verified"
            => Reached(Script[i].key, chain)

\* The safety of a script run again and again.
FreshSafe == FreshTypeOK /\ NeverSentTwice /\ CheckpointIsTrue

\* Only the operator can go on: a stage was left in the window between the two writes
\* around a broadcast, or its transaction reverted.
OperatorNeeded ==
    \E k \in Keys : stages[k].status = "preparing" \/ mined[k] = "reverted"
=============================================================================
