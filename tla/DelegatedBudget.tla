--------------------------- MODULE DelegatedBudget ---------------------------
(***************************************************************************)
(* What the policy module promises about a delegated budget, with no slot, *)
(* no clock, no roles and no ciphertext: a mandate is granted a budget     *)
(* once, a spend takes its reserve out of the budget when it is made, and  *)
(* it is settled once, either paid or returned, a returned spend giving    *)
(* back exactly what it took.                                              *)
(***************************************************************************)
EXTENDS Naturals

CONSTANTS Mandates, Spends, Budgets

VARIABLES
    granted,   \* the mandates that have been granted a budget
    budget,    \* mandate -> what is left of its budget
    status,    \* spend -> "free", "held", "paid" or "returned"
    taker,     \* spend -> the mandate it was made under
    held       \* spend -> the amount it took

vars == <<granted, budget, status, taker, held>>

Init ==
    /\ granted = {}
    /\ budget = [m \in Mandates |-> 0]
    /\ status = [s \in Spends |-> "free"]
    /\ taker  = [s \in Spends |-> 0]
    /\ held   = [s \in Spends |-> 0]

Grant(m) ==
    /\ m \notin granted
    /\ granted' = granted \cup {m}
    /\ \E b \in Budgets : budget' = [budget EXCEPT ![m] = b]
    /\ UNCHANGED <<status, taker, held>>

\* A spend the policy refuses is made with a reserve of zero.
Make(s, m) ==
    /\ status[s] = "free"
    /\ m \in granted
    /\ \E a \in 0 .. budget[m] :
          /\ budget' = [budget EXCEPT ![m] = @ - a]
          /\ held' = [held EXCEPT ![s] = a]
    /\ status' = [status EXCEPT ![s] = "held"]
    /\ taker' = [taker EXCEPT ![s] = m]
    /\ UNCHANGED granted

Pay(s) ==
    /\ status[s] = "held"
    /\ status' = [status EXCEPT ![s] = "paid"]
    /\ UNCHANGED <<granted, budget, taker, held>>

Return(s) ==
    /\ status[s] = "held"
    /\ status' = [status EXCEPT ![s] = "returned"]
    /\ budget' = [budget EXCEPT ![taker[s]] = @ + held[s]]
    /\ UNCHANGED <<granted, taker, held>>

Next ==
    \/ \E m \in Mandates : Grant(m)
    \/ \E s \in Spends, m \in Mandates : Make(s, m)
    \/ \E s \in Spends : Pay(s) \/ Return(s)

Spec == Init /\ [][Next]_vars

=============================================================================
