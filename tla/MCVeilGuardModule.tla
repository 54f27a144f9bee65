-------------------------- MODULE MCVeilGuardModule --------------------------
(***************************************************************************)
(* Small instances of VeilGuardModule.                                     *)
(***************************************************************************)
EXTENDS VeilGuardModule

CONSTANTS d1, d2, payee

Draft(d, from, until, to, limit, budget, floor) ==
    [delegate |-> d, validFrom |-> from, validUntil |-> until, recipients |-> to,
     autoLimit |-> limit, budget |-> budget, reserveFloor |-> floor]

\* Policies for two delegates that share the treasury and the escrow, one of them
\* allowed to pay the escrow itself.
TwoDelegateProposals ==
    {Draft(d1, 0, 4, {payee}, 1, 2, 0), Draft(d2, 0, 4, {payee, Module}, 2, 2, 1)}

\* One policy that refuses the amount 2, one that takes it.
ProbingProposals ==
    {Draft(d1, 0, 6, {payee}, 1, 1, 0), Draft(d1, 0, 6, {payee}, 2, 2, 0)}

\* One policy that pays 1 and refuses 2 beside one that escalates 2, and drafts
\* the admission rules refuse.
AuditProposals ==
    {Draft(d1, 0, 4, {payee}, 1, 1, 0), Draft(d1, 0, 4, {payee}, 0, 2, 0),
     Draft(NoOne, 0, 4, {payee}, 1, 2, 0), Draft(d1, 2, 2, {payee}, 1, 2, 0),
     Draft(d1, 0, 4, {}, 1, 2, 0)}
=============================================================================
