---------------------------- MODULE MCCheckpoints ----------------------------
(***************************************************************************)
(* The programs that keep a checkpoint of what they sent, in one instance: *)
(* the disclosure of the browser and the two fresh-deployment scripts.     *)
(* They share nothing; focus, chosen once, says which of them moves: the   *)
(* disclosure once over one selection with all faults, once over two with  *)
(* one fault, and either script with its faults at any point.              *)
(***************************************************************************)
EXTENDS DisclosureCheckpoint, FreshRuns, TLC

CONSTANTS t1, t2            \* two tabs

VARIABLE focus

\* A selection of two mandates and one of another, in two tabs that may be closed and
\* opened again.
Another == <<"m3">>
TwoSelections == {<<"m1", "m2">>, Another}

ASSUME ScriptConstants == \A c \in DOMAIN Steps : Of(c)!ScriptShape
ASSUME DisclosureConstants == DisclosureBounds

TabSymmetry == Permutations({t1, t2})

-----------------------------------------------------------------------------
CheckpointsInit ==
    /\ focus \in {"scripts", "disclosure", "selections"}
    /\ ScriptsInit /\ (focus # "scripts" => script = "smoke")
    /\ Init

CheckpointsNext ==
    \/ /\ focus = "scripts" /\ ScriptsNext
       /\ UNCHANGED <<focus, vars>>
    \/ /\ Next
       /\ \/ focus = "disclosure" /\ \A t \in Tabs : ck'[t].scope # Another
          \/ focus = "selections" /\ faults' <= 1
       /\ UNCHANGED <<focus, script, scriptVars>>

CheckpointsSpec == CheckpointsInit /\ [][CheckpointsNext]_<<focus, vars, script, scriptVars>>
=============================================================================
