--------------------------- MODULE MCDemoDecision ---------------------------
(***************************************************************************)
(* Small instances of DemoDecision.                                        *)
(***************************************************************************)
EXTENDS DemoDecision

CONSTANTS r1, r2
=============================================================================
