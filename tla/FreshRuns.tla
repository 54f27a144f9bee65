------------------------------ MODULE FreshRuns ------------------------------
(***************************************************************************)
(* The two scripts on the controller of FreshRun, one of them in each      *)
(* behaviour: smoke-sepolia on a fresh deployment, and e2e-sepolia after   *)
(* it, where somebody else's keeper finalizes requests too.                *)
(***************************************************************************)
EXTENDS FreshScripts, FiniteSets

CONSTANTS MaxScriptFaults       \* bound on crashes and failed calls

VARIABLES
    script,                     \* which script it is
    stages, values, pos, step, chain, sends, unmined, mined, scriptFaults

ASSUME ScriptFaultsAssumption == MaxScriptFaults \in Nat

Steps == [smoke |-> SmokeScript, e2e |-> E2EScript]
StartsAt == [smoke |-> Untouched, e2e |-> AfterSmoke]
HasKeeper == [smoke |-> FALSE, e2e |-> TRUE]

Of(c) == INSTANCE FreshRun WITH
    Script <- Steps[c], InitialChain <- StartsAt[c], Keeper <- HasKeeper[c],
    Valid <- ScriptValid, Effect <- ScriptEffect, Reached <- ScriptReached,
    Pending <- ScriptPending, Holds <- ScriptHolds,
    MaxFaults <- MaxScriptFaults, pc <- step, sent <- sends, faults <- scriptFaults

scriptVars == <<stages, values, pos, step, chain, sends, unmined, mined, scriptFaults>>

ScriptsInit == \E c \in DOMAIN Steps : script = c /\ Of(c)!Init
ScriptsNext == \E c \in DOMAIN Steps : script = c /\ Of(c)!Next /\ UNCHANGED script
ScriptsSpec == ScriptsInit /\ [][ScriptsNext]_<<script, scriptVars>>

-----------------------------------------------------------------------------
\* However often a script is run again, it sends nothing twice, its file is true, and a
\* complete end-to-end run leaves exactly the evidence it reports.
FreshSafe ==
    /\ \A c \in DOMAIN Steps : script = c => Of(c)!FreshSafe
    /\ script = "e2e" /\ step = "complete" => Evidence(chain)
=============================================================================
