----------------------- MODULE VeilGuardModule_proofs -----------------------
(***************************************************************************)
(* Theorems about VeilGuardModule, for every value of its constants: its   *)
(* types, slots and active mandates; the budget it promises; what it       *)
(* records and who may read it; the money it holds and owes.               *)
(***************************************************************************)
EXTENDS VeilGuardModule, FiniteSetTheorems, TLAPS

-----------------------------------------------------------------------------
(* Sums over sets of requests, for the money.                              *)
(* Induction without an operator parameter: a non-empty family of finite   *)
(* sets has a minimal member, a non-empty set of naturals a least one.     *)

LEMMA MinimalSubset ==
    ASSUME NEW S, IsFiniteSet(S), NEW T \in SUBSET (SUBSET S), T # {}
    PROVE  \E s \in T : \A t \in T : t \subseteq s => t = s
  <1>1. IsWellFoundedOn(StrictSubsetOrdering(S), FiniteSubsetsOf(S)) /\ FiniteSubsetsOf(S) = SUBSET S
    BY FS_StrictSubsetOrderingWellFounded, FS_FiniteSubsetsOfFinite
  <1>2. \E s \in T : \A t \in T : ~ (<<t, s>> \in StrictSubsetOrdering(S))
    BY <1>1, WFMin
  <1> QED BY <1>2 DEF StrictSubsetOrdering

LEMMA LeastNatural ==
    ASSUME NEW T \in SUBSET Nat, T # {}
    PROVE  \E n \in T : \A k \in T : n <= k
  <1>1. PICK m \in T : TRUE
    OBVIOUS
  <1> DEFINE U == {0 .. k : k \in {j \in T : j <= m}}
             F == 0 .. m
  <1>2. IsFiniteSet(F)
    BY FS_Interval
  <1>3. U \in SUBSET (SUBSET F) /\ U # {}
    OBVIOUS
  <1>4. PICK s \in U : \A t \in U : t \subseteq s => t = s
    <2> HIDE DEF U, F
    <2> QED BY <1>2, <1>3, MinimalSubset
  <1>5. PICK n \in T : n <= m /\ s = 0 .. n
    BY <1>4
  <1>6. ASSUME NEW k \in T, k < n PROVE FALSE
    <2>1. 0 .. k \in U /\ 0 .. k \subseteq s /\ n \in s /\ n \notin 0 .. k
      BY <1>5, <1>6
    <2> QED BY <2>1, <1>4
  <1> QED BY <1>6

-----------------------------------------------------------------------------
(* Sums.  MapThenSumSet adds the weight of an element it picks to the sum  *)
(* of the others; Adds says so of a function on the subsets of S.          *)

Pick(s) == CHOOSE x \in s : TRUE

Adds(w, S, g) ==
    g = [s \in SUBSET S |-> IF s = {} THEN 0 ELSE w[Pick(s)] + g[s \ {Pick(s)}]]

SumOver(w, S) == (CHOOSE g : Adds(w, S, g))[S]

LEMMA PickIn == ASSUME NEW s, s # {} PROVE Pick(s) \in s
  BY DEF Pick

LEMMA AddsAt ==
    ASSUME NEW w, NEW S, NEW g, Adds(w, S, g), NEW s \in SUBSET S
    PROVE  g[s] = IF s = {} THEN 0 ELSE w[Pick(s)] + g[s \ {Pick(s)}]
  <1> DEFINE G == [t \in SUBSET S |-> IF t = {} THEN 0 ELSE w[Pick(t)] + g[t \ {Pick(t)}]]
  <1>1. g = G
    BY DEF Adds
  <1>2. G[s] = IF s = {} THEN 0 ELSE w[Pick(s)] + g[s \ {Pick(s)}]
    OBVIOUS
  <1> QED BY <1>1, <1>2

Alike(w, v, R) == \A x \in R : w[x] = v[x]

\* Equal weights make equal sums, also for functions on different domains.
LEMMA AddsAgree ==
    ASSUME NEW S, NEW R, R \subseteq S, IsFiniteSet(R), NEW w, NEW v, Alike(w, v, R),
           NEW g, NEW h, Adds(w, S, g), Adds(v, R, h)
    PROVE  \A s \in SUBSET R : g[s] = h[s]
  <1> DEFINE T == {s \in SUBSET R : g[s] # h[s]}
  <1> SUFFICES ASSUME T # {} PROVE FALSE
    OBVIOUS
  <1>1. T \in SUBSET (SUBSET R)
    OBVIOUS
  <1>2. PICK s \in T : \A t \in T : t \subseteq s => t = s
    <2> HIDE DEF T
    <2> QED BY <1>1, MinimalSubset
  <1>3. s \in SUBSET R /\ s \in SUBSET S /\ g[s] # h[s]
    OBVIOUS
  <1>4. CASE s = {}
    BY <1>3, <1>4, AddsAt
  <1>5. CASE s # {}
    <2>1. Pick(s) \in s
      BY <1>5, PickIn
    <2> DEFINE t == s \ {Pick(s)}
    <2>2. t \in SUBSET R /\ t \subseteq s /\ t # s
      BY <1>3, <2>1
    <2>3. g[t] = h[t]
      BY <1>2, <2>2
    <2>4. g[s] = w[Pick(s)] + g[t] /\ h[s] = v[Pick(s)] + h[t]
      <3> HIDE DEF T
      <3>1. g[s] = w[Pick(s)] + g[t]
        BY <1>3, <1>5, AddsAt
      <3>2. h[s] = v[Pick(s)] + h[t]
        <4>1. s \in SUBSET R
          BY <1>3
        <4>2. h[s] = IF s = {} THEN 0 ELSE v[Pick(s)] + h[s \ {Pick(s)}]
          BY <4>1, AddsAt
        <4> QED BY <1>5, <4>2
      <3> QED BY <3>1, <3>2
    <2>5. w[Pick(s)] = v[Pick(s)]
      BY <1>3, <2>1 DEF Alike
    <2> QED BY <1>3, <2>3, <2>4, <2>5
  <1> QED BY <1>4, <1>5

LEMMA AddsAgreeWhole ==
    ASSUME NEW S, NEW R, R \subseteq S, IsFiniteSet(R), NEW w, NEW v, Alike(w, v, R),
           NEW g, NEW h, Adds(w, S, g), Adds(v, R, h)
    PROVE  g[R] = h[R]
  BY AddsAgree

\* There is such a function: over the sets of at most n elements by induction on n.
LEMMA AddsExists ==
    ASSUME NEW S, IsFiniteSet(S), NEW w, \A x \in S : w[x] \in Nat
    PROVE  \E g \in [SUBSET S -> Nat] : Adds(w, S, g)
  <1> DEFINE Small(n) == {s \in SUBSET S : Cardinality(s) <= n}
             Val(g, s) == IF s = {} THEN 0 ELSE w[Pick(s)] + g[s \ {Pick(s)}]
             Good(n, g) == g \in [Small(n) -> Nat] /\ \A s \in Small(n) : g[s] = Val(g, s)
             Bad == {n \in Nat : ~ \E g : Good(n, g)}
  <1>1. \A s \in SUBSET S : IsFiniteSet(s) /\ Cardinality(s) \in Nat
    BY FS_Subset, FS_CardinalityType
  <1>2. \A s \in SUBSET S : s # {} =>
           /\ Pick(s) \in s /\ w[Pick(s)] \in Nat
           /\ s \ {Pick(s)} \in SUBSET S
           /\ Cardinality(s \ {Pick(s)}) = Cardinality(s) - 1
    <2> SUFFICES ASSUME NEW s \in SUBSET S, s # {}
                 PROVE  /\ Pick(s) \in s /\ w[Pick(s)] \in Nat
                        /\ s \ {Pick(s)} \in SUBSET S
                        /\ Cardinality(s \ {Pick(s)}) = Cardinality(s) - 1
      OBVIOUS
    <2>1. Pick(s) \in s
      BY PickIn
    <2>2. Cardinality(s \ {Pick(s)}) = Cardinality(s) - 1
      BY <1>1, <2>1, FS_RemoveElement
    <2> QED BY <2>1, <2>2
  <1>3. Bad = {}
    <2> SUFFICES ASSUME Bad # {} PROVE FALSE
      OBVIOUS
    <2>1. PICK n \in Bad : \A k \in Bad : n <= k
      <3>1. Bad \in SUBSET Nat
        OBVIOUS
      <3> HIDE DEF Bad
      <3> QED BY <3>1, LeastNatural
    <2>2. n \in Nat
      OBVIOUS
    <2>3. CASE n = 0
      <3> DEFINE g == [s \in Small(0) |-> 0]
      <3>1. \A s \in Small(0) : s = {}
        BY <1>1, FS_EmptySet
      <3>2. Good(0, g)
        BY <3>1
      <3> QED BY <2>1, <2>3, <3>2
    <2>4. CASE n # 0
      <3>1. n - 1 \in Nat /\ n - 1 \notin Bad
        <4> HIDE DEF Bad
        <4> QED BY <2>1, <2>2, <2>4
      <3>2. PICK g : Good(n - 1, g)
        BY <3>1
      <3> DEFINE h == [s \in Small(n) |-> Val(g, s)]
      <3>3. \A s \in Small(n) : s # {} => s \ {Pick(s)} \in Small(n - 1)
        BY <1>1, <1>2, <2>2
      <3>4. \A s \in Small(n) : Val(g, s) \in Nat
        BY <1>2, <3>2, <3>3
      <3>5. \A s \in Small(n - 1) : s \in Small(n) /\ h[s] = g[s]
        BY <1>1, <2>2, <3>2
      <3>6. \A s \in Small(n) : Val(h, s) = Val(g, s)
        BY <3>3, <3>5
      <3>7. Good(n, h)
        BY <3>4, <3>6
      <3> QED BY <2>1, <3>7
    <2> QED BY <2>3, <2>4
  <1>4. PICK g : Good(Cardinality(S), g)
    BY <1>1, <1>3
  <1>5. Small(Cardinality(S)) = SUBSET S
    BY FS_Subset
  <1>6. g = [s \in SUBSET S |-> Val(g, s)]
    BY <1>4, <1>5
  <1> QED BY <1>4, <1>5, <1>6 DEF Adds

\* Every SumOver adds, in Nat.
LEMMA SumOverAdds ==
    ASSUME NEW S, IsFiniteSet(S), NEW w, \A x \in S : w[x] \in Nat
    PROVE  \E g \in [SUBSET S -> Nat] : Adds(w, S, g) /\ SumOver(w, S) = g[S]
  <1>1. PICK h \in [SUBSET S -> Nat] : Adds(w, S, h)
    BY AddsExists
  <1> DEFINE g == CHOOSE f : Adds(w, S, f)
  <1>2. Adds(w, S, g)
    BY <1>1
  <1>3. Alike(w, w, S)
    BY DEF Alike
  <1>4. \A s \in SUBSET S : g[s] = h[s]
    <2> HIDE DEF g
    <2> QED BY <1>1, <1>2, <1>3, AddsAgree
  <1> QED BY <1>1, <1>4 DEF SumOver

\* A sum depends on the weights of its own elements only.
LEMMA SumAgree ==
    ASSUME NEW S, IsFiniteSet(S), NEW w, \A x \in S : w[x] \in Nat, NEW U, S \subseteq U,
           NEW v, Alike(v, w, S), NEW g, Adds(v, U, g)
    PROVE  SumOver(w, S) = g[S]
  <1>1. PICK h : Adds(w, S, h) /\ SumOver(w, S) = h[S]
    BY SumOverAdds
  <1>2. Adds(w, S, h)
    BY <1>1
  <1>3. g[S] = h[S]
    BY <1>2, AddsAgreeWhole
  <1> QED BY <1>1, <1>3

LEMMA SumOfNone == ASSUME NEW w PROVE SumOver(w, {}) = 0
  <1>1. PICK g : Adds(w, {}, g) /\ SumOver(w, {}) = g[{}]
    BY SumOverAdds, FS_EmptySet
  <1> QED BY <1>1, AddsAt

LEMMA SumNatural ==
    ASSUME NEW S, IsFiniteSet(S), NEW w, \A x \in S : w[x] \in Nat
    PROVE  SumOver(w, S) \in Nat
  <1>1. PICK g \in [SUBSET S -> Nat] : SumOver(w, S) = g[S]
    BY SumOverAdds
  <1>2. g[S] \in Nat
    OBVIOUS
  <1> QED BY <1>1, <1>2

LEMMA SumSame ==
    ASSUME NEW S, IsFiniteSet(S), NEW w, NEW v, \A x \in S : w[x] \in Nat, Alike(v, w, S)
    PROVE  SumOver(v, S) = SumOver(w, S)
  <1>1. PICK g : Adds(v, S, g) /\ SumOver(v, S) = g[S]
    BY SumOverAdds DEF Alike
  <1> QED BY <1>1, SumAgree

\* Any element may be taken out first, not only the one that Pick picks.
LEMMA SumTake ==
    ASSUME NEW S, IsFiniteSet(S), NEW w, \A x \in S : w[x] \in Nat, NEW y \in S
    PROVE  SumOver(w, S) = w[y] + SumOver(w, S \ {y})
  <1>1. PICK g \in [SUBSET S -> Nat] : Adds(w, S, g) /\ SumOver(w, S) = g[S]
    BY SumOverAdds
  <1> DEFINE Bad == {t \in SUBSET S : \E x \in t : g[t] # w[x] + g[t \ {x}]}
  <1>2. Bad = {}
    <2> SUFFICES ASSUME Bad # {} PROVE FALSE
      OBVIOUS
    <2>1. PICK t \in Bad : \A u \in Bad : u \subseteq t => u = t
      <3>1. Bad \in SUBSET (SUBSET S)
        OBVIOUS
      <3> HIDE DEF Bad
      <3> QED BY <3>1, MinimalSubset
    <2>2. PICK x \in t : g[t] # w[x] + g[t \ {x}]
      OBVIOUS
    <2> DEFINE c == Pick(t)
    <2>3. t \in SUBSET S /\ c \in t
      BY <2>2, PickIn
    <2>4. g[t] = w[c] + g[t \ {c}]
      <3> HIDE DEF Bad
      <3> QED BY <1>1, <2>2, <2>3, AddsAt
    <2>5. c # x
      BY <2>2, <2>4
    <2>6. t \ {c} \notin Bad /\ t \ {x} \notin Bad
      <3> HIDE DEF Bad
      <3> QED BY <2>1, <2>2, <2>3
    <2>7. /\ g[t \ {c}] = w[x] + g[(t \ {c}) \ {x}]
          /\ g[t \ {x}] = w[c] + g[(t \ {x}) \ {c}]
      BY <2>2, <2>3, <2>5, <2>6
    <2>8. (t \ {c}) \ {x} = (t \ {x}) \ {c}
      OBVIOUS
    <2>9. w[c] \in Nat /\ w[x] \in Nat /\ g[(t \ {c}) \ {x}] \in Nat
      BY <1>1, <2>2, <2>3
    <2> DEFINE a == w[c]
               b == w[x]
               k == g[(t \ {c}) \ {x}]
    <2>10. /\ g[t] = a + (b + k) /\ g[t \ {x}] = a + k
           /\ a \in Nat /\ b \in Nat /\ k \in Nat /\ g[t] # b + g[t \ {x}]
      BY <2>2, <2>4, <2>7, <2>8, <2>9
    <2> HIDE DEF Bad, a, b, k
    <2> QED BY <2>10
  <1>3. g[S] = w[y] + g[S \ {y}]
    BY <1>2
  <1>4. SumOver(w, S \ {y}) = g[S \ {y}]
    <2> DEFINE R == S \ {y}
    <2>1. IsFiniteSet(R) /\ R \in SUBSET S
      BY FS_RemoveElement
    <2>2. \A x \in R : w[x] \in Nat
      OBVIOUS
    <2>3. SumOver(w, R) = g[R]
      <3>1. Alike(w, w, R)
        BY DEF Alike
      <3> HIDE DEF R, Bad
      <3> QED BY <1>1, <2>1, <2>2, <3>1, SumAgree
    <2> QED BY <2>3
  <1> QED BY <1>1, <1>3, <1>4

-----------------------------------------------------------------------------
(* What the requests reserve. *)

Reserves == [r \in RequestIds |-> request[r].reserved.val]
LiveRequests == {r \in RequestIds : Live(r)}

LEMMA SumReservedIsSum == \A S \in SUBSET RequestIds : SumReserved(S) = SumOver(Reserves, S)
  BY PickIn DEF SumReserved, MapThenSumSet, MapThenFoldSet, SumOver, Adds, Pick, Reserves

USE RolesAssumption, BoundsAssumption, TimingAssumption, InputsAssumption

-----------------------------------------------------------------------------
(* Type correctness.  TypeOK alone is not inductive: a refund reads the    *)
(* mandate of a request, so a request that was made names a mandate.       *)

MadeUnderMandate ==
    \A r \in RequestIds : request[r].state # "None" =>
        /\ request[r].mandateId \in MandateIds
        /\ request[r].recipient \in Accounts

TypeInv == TypeOK /\ MadeUnderMandate

LEMMA CipherType ==
    ASSUME NEW k \in HandleKinds, NEW i \in Nat, NEW j \in Nat, NEW v \in Nat
    PROVE  Cipher(<<k, i, j>>, v) \in Ciphers
  BY DEF Cipher, Ciphers, Handles

LEMMA NoMandateType == NoMandate \in Mandate
  <1>1. NoCipher \in Ciphers
    BY CipherType DEF NoCipher, HandleKinds
  <1> QED BY <1>1 DEF NoMandate, Mandate, MandateStates

LEMMA NoRequestType == NoRequest \in Request
  <1>1. NoCipher \in Ciphers
    BY CipherType DEF NoCipher, HandleKinds
  <1> QED BY <1>1 DEF NoRequest, Request, RequestStates

LEMMA InitType == Init => TypeInv
  <1> SUFFICES ASSUME Init PROVE TypeInv
    OBVIOUS
  <1>1. TypeOK
    <2>1. packet \in [PacketIds -> Packet]
      BY DEF Init, NoPacket, Packet
    <2>2. balance \in [Accounts -> Nat]
      BY DEF Init, Accounts
    <2>3. 1 \in 1 .. MaxMandates + 1 /\ 1 \in 1 .. MaxRequests + 1 /\ 1 \in 1 .. MaxPackets + 1
      OBVIOUS
    <2>4. mandate \in [MandateIds -> Mandate] /\ request \in [RequestIds -> Request]
      BY NoMandateType, NoRequestType DEF Init
    <2>5. /\ pendingRequestOf \in [MandateIds -> RequestIds \cup {0}]
          /\ cooldownUntil   \in [Delegates -> Nat]
          /\ activeMandateOf \in [Delegates -> MandateIds \cup {0}]
      BY DEF Init
    <2> QED BY <2>1, <2>2, <2>3, <2>4, <2>5 DEF Init, TypeOK
  <1>2. MadeUnderMandate
    BY DEF Init, MadeUnderMandate, NoMandate, NoRequest
  <1> QED BY <1>1, <1>2 DEF TypeInv

LEMMA TransferType ==
    ASSUME TypeOK, NEW from \in Accounts, NEW to \in Accounts, NEW a \in Nat
    PROVE  Transfer(from, to, a) \in [Accounts -> Nat]
  <1>1. CASE from = to \/ a > balance[from]
    BY <1>1 DEF Transfer, TypeOK
  <1>2. CASE ~(from = to \/ a > balance[from])
    <2>1. balance[from] - a \in Nat /\ balance[to] + a \in Nat
      BY <1>2 DEF TypeOK
    <2> QED BY <1>2, <2>1 DEF Transfer, TypeOK
  <1> QED BY <1>1, <1>2

LEMMA ProposeMandateType ==
    ASSUME TypeInv, NEW p \in Proposals, ProposeMandate(p)
    PROVE  TypeInv'
  <1> DEFINE m == nextMandateId
             M == [delegate |-> p.delegate, validFrom |-> p.validFrom, validUntil |-> p.validUntil,
                   state |-> "Draft", recipients |-> p.recipients,
                   autoLimit    |-> Cipher(<<"autoLimit", m, 0>>, p.autoLimit),
                   budgetLeft   |-> Cipher(<<"budgetLeft", m, 0>>, p.budget),
                   reserveFloor |-> Cipher(<<"reserveFloor", m, 0>>, p.reserveFloor)]
  <1>1. p \in [delegate : Delegates \cup {NoOne}, validFrom : Nat, validUntil : Nat,
               recipients : SUBSET Accounts, autoLimit : Nat, budget : Nat, reserveFloor : Nat]
    OBVIOUS
  <1>2. m \in Nat /\ m \in MandateIds /\ m + 1 \in 1 .. MaxMandates + 1
    BY DEF TypeInv, TypeOK, ProposeMandate, MandateIds
  <1>3. /\ Cipher(<<"autoLimit", m, 0>>, p.autoLimit) \in Ciphers
        /\ Cipher(<<"budgetLeft", m, 0>>, p.budget) \in Ciphers
        /\ Cipher(<<"reserveFloor", m, 0>>, p.reserveFloor) \in Ciphers
    BY <1>1, <1>2, CipherType DEF HandleKinds
  <1>4. M \in Mandate
    BY <1>1, <1>3 DEF Mandate, MandateStates
  <1>5. mandate' = [mandate EXCEPT ![m] = M]
    BY DEF ProposeMandate
  <1>6. mandate' \in [MandateIds -> Mandate]
    BY <1>4, <1>5 DEF TypeInv, TypeOK
  <1>7. PolicyHandles(M) \subseteq Handles
    BY <1>4 DEF PolicyHandles, Mandate, Ciphers
  <1>8. viewers' \subseteq Humans \X Handles
    BY <1>7 DEF ProposeMandate, TypeInv, TypeOK, Humans
  <1>9. TypeOK'
    BY <1>2, <1>6, <1>8 DEF ProposeMandate, TypeInv, TypeOK, adminVars, spendVars,
       packetVars, safeVars
  <1>10. MadeUnderMandate'
    BY DEF ProposeMandate, TypeInv, MadeUnderMandate, spendVars
  <1> QED BY <1>9, <1>10 DEF TypeInv

LEMMA ActivateMandateType ==
    ASSUME TypeInv, NEW m \in MandateIds, ActivateMandate(m)
    PROVE  TypeInv'
  <1> DEFINE prev == activeMandateOf[mandate[m].delegate]
  <1>1. \A i \in MandateIds : \A st \in MandateStates :
           [mandate[i] EXCEPT !.state = st] \in Mandate
    BY DEF TypeInv, TypeOK, Mandate
  <1>2. mandate' = Activated(m, prev)
    BY DEF ActivateMandate
  <1>3. mandate' \in [MandateIds -> Mandate]
    BY <1>1, <1>2 DEF Activated, MandateStates, TypeInv, TypeOK
  <1>4. TypeOK'
    BY <1>3 DEF ActivateMandate, TypeInv, TypeOK, adminVars, spendVars, packetVars, safeVars
  <1>5. MadeUnderMandate'
    BY DEF ActivateMandate, TypeInv, MadeUnderMandate, spendVars
  <1> QED BY <1>4, <1>5 DEF TypeInv

LEMMA RetireMandateType ==
    ASSUME TypeInv, NEW m \in MandateIds, RetireMandate(m)
    PROVE  TypeInv'
  <1>1. mandate' \in [MandateIds -> Mandate]
    BY DEF RetireMandate, TypeInv, TypeOK, Mandate, MandateStates
  <1>2. TypeOK'
    BY <1>1 DEF RetireMandate, TypeInv, TypeOK, adminVars, spendVars, packetVars, safeVars
  <1>3. MadeUnderMandate'
    BY DEF RetireMandate, TypeInv, MadeUnderMandate, spendVars
  <1> QED BY <1>2, <1>3 DEF TypeInv

\* The three outcomes of the policy, told apart by the reason.
LEMMA PolicyOutcome ==
    ASSUME NEW m, NEW a \in Nat, mandate[m].budgetLeft.val \in Nat, balance[Safe] \in Nat,
           mandate[m].reserveFloor.val \in Nat, mandate[m].autoLimit.val \in Nat
    PROVE  /\ BlockedReason(m, a) \in 0 .. 3
           /\ Decision(m, a) \in 1 .. 3
           /\ Reserved(m, a) \in Nat
           /\ Reserved(m, a) <= mandate[m].budgetLeft.val
           /\ Reserved(m, a) <= balance[Safe]
           /\ Reserved(m, a) = IF Decision(m, a) = D_BLOCKED THEN 0 ELSE a
  <1>1. BlockedReason(m, a) \in 0 .. 3
    BY DEF BlockedReason, R_NONE, R_BUDGET, R_BALANCE, R_RESERVE
  <1>2. BlockedReason(m, a) = R_NONE => a <= mandate[m].budgetLeft.val /\ a <= balance[Safe]
    BY DEF BlockedReason, R_NONE, R_BUDGET, R_BALANCE, R_RESERVE
  <1>3. /\ Decision(m, a) \in 1 .. 3
        /\ Decision(m, a) = D_BLOCKED <=> BlockedReason(m, a) # R_NONE
    BY DEF Decision, D_EXECUTE, D_ESCALATE, D_BLOCKED
  <1> QED BY <1>1, <1>2, <1>3 DEF Reserved

LEMMA MandateFields ==
    ASSUME TypeOK, NEW m \in MandateIds
    PROVE  /\ mandate[m] \in Mandate
           /\ mandate[m].autoLimit.val \in Nat /\ mandate[m].autoLimit.handle \in Handles
           /\ mandate[m].budgetLeft.val \in Nat /\ mandate[m].budgetLeft.handle \in Handles
           /\ mandate[m].reserveFloor.val \in Nat /\ mandate[m].reserveFloor.handle \in Handles
  BY DEF TypeOK, Mandate, Ciphers

LEMMA RequestFields ==
    ASSUME TypeOK, NEW r \in RequestIds
    PROVE  /\ request[r] \in Request
           /\ request[r].amount.val \in Nat /\ request[r].amount.handle \in Handles
           /\ request[r].reserved.val \in Nat
           /\ request[r].budgetBefore \in Ciphers
           /\ request[r].budgetBefore.val \in Nat /\ request[r].budgetBefore.handle \in Handles
           /\ request[r].reason.val \in Nat
           /\ request[r].createdAt \in Nat
  BY DEF TypeOK, Request, Ciphers

LEMMA AccountTypes ==
    ASSUME TypeOK
    PROVE  Safe \in Accounts /\ Module \in Accounts /\ Outside \in Accounts /\ balance[Safe] \in Nat
  BY DEF TypeOK, Accounts

\* The record a request is made with.
NewRequest(d, m, to, a, r) ==
    [mandateId |-> m, delegate |-> d, recipient |-> to, createdAt |-> now,
     state |-> "Requested",
     amount       |-> Cipher(<<"amount", r, 0>>, a),
     reserved     |-> Cipher(<<"reserved", r, 0>>, Reserved(m, a)),
     budgetBefore |-> mandate[m].budgetLeft,
     decision     |-> Decision(m, a),
     reason       |-> Cipher(<<"reason", r, 0>>, BlockedReason(m, a))]

LEMMA RequestSpendType ==
    ASSUME TypeInv, NEW d \in Delegates, NEW m \in MandateIds, NEW to \in Accounts,
           NEW a \in Amounts, RequestSpend(d, m, to, a)
    PROVE  TypeInv'
  <1> DEFINE r == nextRequestId
             left == Cipher(<<"budgetLeft", m, r>>, mandate[m].budgetLeft.val - Reserved(m, a))
  <1> USE DEF TypeInv
  <1>0. /\ mandate[m] \in Mandate
        /\ mandate[m].budgetLeft.val \in Nat /\ mandate[m].reserveFloor.val \in Nat
        /\ mandate[m].autoLimit.val \in Nat
        /\ mandate[m].autoLimit.handle \in Handles /\ mandate[m].reserveFloor.handle \in Handles
        /\ Safe \in Accounts /\ Module \in Accounts /\ balance[Safe] \in Nat
    BY MandateFields, AccountTypes
  <1>1. r \in Nat /\ r \in RequestIds /\ r + 1 \in 1 .. MaxRequests + 1
    <2>1. r \in 1 .. MaxRequests + 1 /\ r <= MaxRequests
      BY DEF TypeOK, RequestSpend
    <2> QED BY <2>1 DEF RequestIds
  <1>2. a \in Nat /\ m \in Nat
    BY DEF MandateIds
  <1>3. /\ BlockedReason(m, a) \in 0 .. 3
        /\ Decision(m, a) \in 1 .. 3
        /\ Reserved(m, a) \in Nat
        /\ mandate[m].budgetLeft.val - Reserved(m, a) \in Nat
    BY <1>0, <1>2, PolicyOutcome
  <1>4. /\ left \in Ciphers
        /\ Cipher(<<"amount", r, 0>>, a) \in Ciphers
        /\ Cipher(<<"reserved", r, 0>>, Reserved(m, a)) \in Ciphers
        /\ Cipher(<<"reason", r, 0>>, BlockedReason(m, a)) \in Ciphers
    BY <1>1, <1>2, <1>3, CipherType DEF HandleKinds
  <1>5. NewRequest(d, m, to, a, r) \in Request
    <2>1. now \in Nat /\ mandate[m].budgetLeft \in Ciphers
      BY <1>0 DEF TypeOK, Mandate
    <2> QED BY <1>3, <1>4, <2>1 DEF NewRequest, Request, RequestStates
  <1>6. request' = [request EXCEPT ![r] = NewRequest(d, m, to, a, r)]
    BY DEF RequestSpend, NewRequest
  <1>7. request' \in [RequestIds -> Request]
    BY <1>5, <1>6 DEF TypeOK
  <1>8. mandate' \in [MandateIds -> Mandate]
    <2>1. mandate' = [mandate EXCEPT ![m].budgetLeft = left]
      BY DEF RequestSpend
    <2>2. [mandate[m] EXCEPT !.budgetLeft = left] \in Mandate
      BY <1>0, <1>4 DEF Mandate
    <2> QED BY <2>1, <2>2 DEF TypeOK
  <1>9. balance' \in [Accounts -> Nat]
    <2>1. Transfer(Safe, Module, Reserved(m, a)) \in [Accounts -> Nat]
      BY <1>0, <1>3, TransferType
    <2> QED BY <2>1 DEF RequestSpend
  <1>10. /\ left.handle \in Handles /\ <<"amount", r, 0>> \in Handles
         /\ <<"reason", r, 0>> \in Handles
    BY <1>1, <1>4 DEF Cipher, Ciphers, Handles, HandleKinds
  <1>11. viewers' \subseteq Humans \X Handles
    BY <1>0, <1>10 DEF RequestSpend, TypeOK, Humans
  <1>12. pendingRequestOf' \in [MandateIds -> RequestIds \cup {0}]
    BY <1>1 DEF RequestSpend, TypeOK
  <1>13. TypeOK'
    BY <1>1, <1>7, <1>8, <1>9, <1>11, <1>12 DEF RequestSpend, TypeOK, adminVars, packetVars
  <1>14. MadeUnderMandate'
    BY <1>1, <1>6 DEF MadeUnderMandate, NewRequest, TypeOK
  <1> QED BY <1>13, <1>14

\* A request that only changes its state keeps its type and its mandate.
LEMMA SettledRequestType ==
    ASSUME TypeInv, NEW r \in RequestIds, NEW st \in RequestStates, request[r].state # "None",
           request' = [request EXCEPT ![r].state = st]
    PROVE  request' \in [RequestIds -> Request] /\ MadeUnderMandate'
  <1>1. [request[r] EXCEPT !.state = st] \in Request
    BY DEF TypeInv, TypeOK, Request
  <1>2. request' \in [RequestIds -> Request]
    BY <1>1 DEF TypeInv, TypeOK
  <1>3. \A q \in RequestIds : /\ request'[q].mandateId = request[q].mandateId
                              /\ request'[q].recipient = request[q].recipient
                              /\ q # r => request'[q] = request[q]
    BY DEF TypeInv, TypeOK, Request
  <1>4. MadeUnderMandate'
    BY <1>3 DEF TypeInv, MadeUnderMandate
  <1> QED BY <1>2, <1>4

LEMMA FinalizeType ==
    ASSUME TypeInv, NEW r \in RequestIds, Finalize(r)
    PROVE  TypeInv'
  <1>1. request[r].state = "Requested"
    BY DEF Finalize
  <1>2. \E st \in RequestStates : request' = [request EXCEPT ![r].state = st]
    BY DEF Finalize, FinalizeExecute, FinalizeEscalate, FinalizeBlocked, RequestStates
  <1>3. request' \in [RequestIds -> Request] /\ MadeUnderMandate'
    BY <1>1, <1>2, SettledRequestType
  <1>4. pendingRequestOf' \in [MandateIds -> RequestIds \cup {0}]
    BY DEF Finalize, FinalizeExecute, FinalizeEscalate, FinalizeBlocked, TypeInv, TypeOK
  <1>5. balance' \in [Accounts -> Nat]
    <2>1. Transfer(Module, request[r].recipient, request[r].reserved.val) \in [Accounts -> Nat]
      BY <1>1, TransferType, AccountTypes, RequestFields DEF TypeInv, MadeUnderMandate
    <2> QED BY <2>1 DEF Finalize, FinalizeExecute, FinalizeEscalate, FinalizeBlocked, TypeInv, TypeOK
  <1>6. cooldownUntil' \in [Delegates -> Nat]
    BY DEF Finalize, FinalizeExecute, FinalizeEscalate, FinalizeBlocked, TypeInv, TypeOK
  <1>7. viewers' \subseteq Humans \X Handles
    <2>1. request[r].amount.handle \in Handles
      BY RequestFields DEF TypeInv
    <2> QED BY <2>1 DEF Finalize, FinalizeExecute, FinalizeEscalate, FinalizeBlocked,
                        TypeInv, TypeOK, Humans
  <1>8. TypeOK'
    BY <1>3, <1>4, <1>5, <1>6, <1>7 DEF Finalize, policyVars, adminVars, packetVars, TypeInv, TypeOK
  <1> QED BY <1>3, <1>8 DEF TypeInv

LEMMA ExecuteEscalatedType ==
    ASSUME TypeInv, NEW r \in RequestIds, ExecuteEscalated(r)
    PROVE  TypeInv'
  <1>1. request' \in [RequestIds -> Request] /\ MadeUnderMandate'
    BY SettledRequestType DEF ExecuteEscalated, RequestStates
  <1>2. balance' \in [Accounts -> Nat]
    <2>1. request[r].recipient \in Accounts
      BY DEF ExecuteEscalated, TypeInv, MadeUnderMandate
    <2>2. Transfer(Module, request[r].recipient, request[r].reserved.val) \in [Accounts -> Nat]
      BY <2>1, TransferType, AccountTypes, RequestFields DEF TypeInv
    <2> QED BY <2>2 DEF ExecuteEscalated
  <1>3. TypeOK'
    BY <1>1, <1>2 DEF ExecuteEscalated, policyVars, adminVars, packetVars, TypeInv, TypeOK
  <1> QED BY <1>1, <1>3 DEF TypeInv

LEMMA RefundType ==
    ASSUME TypeInv, NEW r \in RequestIds, NEW st \in RequestStates, request[r].state # "None",
           Refund(r, st)
    PROVE  TypeInv'
  <1> DEFINE m == request[r].mandateId
  <1>1. request' \in [RequestIds -> Request] /\ MadeUnderMandate'
    BY SettledRequestType DEF Refund
  <1>2. m \in MandateIds
    BY DEF TypeInv, MadeUnderMandate
  <1>3. balance' \in [Accounts -> Nat]
    <2>1. Transfer(Module, Safe, request[r].reserved.val) \in [Accounts -> Nat]
      BY TransferType, AccountTypes, RequestFields DEF TypeInv
    <2> QED BY <2>1 DEF Refund
  <1>4. mandate' \in [MandateIds -> Mandate]
    <2>1. request[r].budgetBefore \in Ciphers /\ mandate[m] \in Mandate
      BY <1>2, RequestFields, MandateFields DEF TypeInv
    <2>2. [mandate[m] EXCEPT !.budgetLeft = request[r].budgetBefore] \in Mandate
      BY <2>1 DEF Mandate
    <2>3. mandate' = [mandate EXCEPT ![m].budgetLeft = request[r].budgetBefore]
      BY DEF Refund, RestoredBudget
    <2> QED BY <2>2, <2>3 DEF TypeInv, TypeOK
  <1>5. viewers' \subseteq Humans \X Handles
    <2>1. /\ mandate[m].autoLimit.handle \in Handles /\ mandate[m].reserveFloor.handle \in Handles
          /\ RestoredBudget(r).handle \in Handles
      BY <1>2, RequestFields, MandateFields DEF TypeInv, RestoredBudget
    <2> QED BY <2>1 DEF Refund, TypeInv, TypeOK, Humans
  <1>6. pendingRequestOf' \in [MandateIds -> RequestIds \cup {0}]
    BY DEF Refund, TypeInv, TypeOK
  <1>7. TypeOK'
    BY <1>1, <1>3, <1>4, <1>5, <1>6 DEF Refund, adminVars, packetVars, TypeInv, TypeOK
  <1> QED BY <1>1, <1>7 DEF TypeInv

LEMMA CreateAuditPacketType ==
    ASSUME TypeInv, NEW auditor \in Auditors, NEW m \in MandateIds, NEW ids \in SUBSET RequestIds,
           CreateAuditPacket(auditor, m, ids)
    PROVE  TypeInv'
  <1> DEFINE p == nextPacketId
             P == [auditor |-> auditor, mandateId |-> m, policyVersion |-> m, createdAt |-> now,
                   requestIds |-> ids, snapshots |-> Snapshots(p, m, ids)]
  <1>1. p \in Nat /\ p \in PacketIds /\ p + 1 \in 1 .. MaxPackets + 1
    <2>1. p \in 1 .. MaxPackets + 1 /\ p <= MaxPackets
      BY DEF TypeInv, TypeOK, CreateAuditPacket
    <2> QED BY <2>1 DEF PacketIds
  <1>2. Snapshots(p, m, ids) \subseteq Ciphers
    <2>1. /\ mandate[m].autoLimit.val \in Nat /\ mandate[m].budgetLeft.val \in Nat
          /\ mandate[m].reserveFloor.val \in Nat
      BY MandateFields DEF TypeInv
    <2>2. \A r \in ids : r \in Nat /\ request[r].amount.val \in Nat /\ request[r].reason.val \in Nat
      BY RequestFields DEF TypeInv, RequestIds
    <2>3. /\ Cipher(<<"snapAutoLimit", p, 0>>, mandate[m].autoLimit.val) \in Ciphers
          /\ Cipher(<<"snapBudgetLeft", p, 0>>, mandate[m].budgetLeft.val) \in Ciphers
          /\ Cipher(<<"snapReserveFloor", p, 0>>, mandate[m].reserveFloor.val) \in Ciphers
      BY <1>1, <2>1, CipherType DEF HandleKinds
    <2>4. \A r \in ids : /\ Cipher(<<"snapAmount", p, r>>, request[r].amount.val) \in Ciphers
                         /\ Cipher(<<"snapReason", p, r>>, request[r].reason.val) \in Ciphers
      BY <1>1, <2>2, CipherType DEF HandleKinds
    <2> QED BY <2>3, <2>4 DEF Snapshots
  <1>3. P \in Packet
    BY <1>2 DEF Packet, TypeInv, TypeOK
  <1>4. packet' \in [PacketIds -> Packet]
    BY <1>3 DEF CreateAuditPacket, TypeInv, TypeOK
  <1>5. viewers' \subseteq Humans \X Handles
    <2>1. \A c \in Snapshots(p, m, ids) : c.handle \in Handles
      BY <1>2 DEF Ciphers
    <2> QED BY <2>1 DEF CreateAuditPacket, TypeInv, TypeOK, Humans
  <1>6. TypeOK'
    BY <1>1, <1>4, <1>5 DEF CreateAuditPacket, policyVars, adminVars, spendVars, safeVars,
       TypeInv, TypeOK
  <1>7. MadeUnderMandate'
    BY DEF CreateAuditPacket, spendVars, TypeInv, MadeUnderMandate
  <1> QED BY <1>6, <1>7 DEF TypeInv

\* Switches, clock and outside transfers.
OtherStep ==
    \/ \E a \in Admins : SetFinanceAdmin(a)
    \/ PauseAll \/ UnpauseAll
    \/ \E e \in BOOLEAN : SetModuleEnabled(e)
    \/ \E a \in Amounts : SafeTransfer(a)
    \/ \E to \in {Safe, Module}, a \in Amounts : Wrap(to, a)
    \/ Tick

LEMMA OtherStepType ==
    ASSUME TypeInv, OtherStep
    PROVE  TypeInv'
  <1> USE DEF policyVars, adminVars, spendVars, packetVars, safeVars
  <1>1. request' = request
    BY DEF OtherStep, SetFinanceAdmin, PauseAll, UnpauseAll, SetModuleEnabled, SafeTransfer,
           Wrap, Tick
  <1>2. MadeUnderMandate'
    BY <1>1 DEF TypeInv, MadeUnderMandate
  <1>3. \A a \in Amounts : Transfer(Safe, Outside, a) \in [Accounts -> Nat]
    BY TransferType, AccountTypes DEF TypeInv
  <1>4. \A to \in {Safe, Module}, a \in Amounts : Transfer(Outside, to, a) \in [Accounts -> Nat]
    BY TransferType, AccountTypes DEF TypeInv
  <1>5. TypeOK'
    <2>1. ASSUME NEW a \in Admins, SetFinanceAdmin(a) PROVE TypeOK'
      BY <2>1 DEF SetFinanceAdmin, TypeInv, TypeOK
    <2>2. CASE PauseAll
      BY <2>2 DEF PauseAll, TypeInv, TypeOK
    <2>3. CASE UnpauseAll
      BY <2>3 DEF UnpauseAll, TypeInv, TypeOK
    <2>4. ASSUME NEW e \in BOOLEAN, SetModuleEnabled(e) PROVE TypeOK'
      BY <2>4 DEF SetModuleEnabled, TypeInv, TypeOK
    <2>5. ASSUME NEW a \in Amounts, SafeTransfer(a) PROVE TypeOK'
      BY <1>3, <2>5 DEF SafeTransfer, TypeInv, TypeOK
    <2>6. ASSUME NEW to \in {Safe, Module}, NEW a \in Amounts, Wrap(to, a) PROVE TypeOK'
      <3>1. balance' \in [Accounts -> Nat]
        BY <1>4, <2>6 DEF Wrap
      <3>2. funded' \in BOOLEAN
        BY <2>6 DEF Wrap, TypeInv, TypeOK
      <3> QED BY <2>6, <3>1, <3>2 DEF Wrap, TypeInv, TypeOK
    <2>7. CASE Tick
      BY <2>7 DEF Tick, TypeInv, TypeOK
    <2> QED BY <2>1, <2>2, <2>3, <2>4, <2>5, <2>6, <2>7 DEF OtherStep
  <1> QED BY <1>2, <1>5 DEF TypeInv

LEMMA StutterType == TypeInv /\ UNCHANGED vars => TypeInv'
  BY DEF vars, policyVars, adminVars, spendVars, packetVars, safeVars, TypeInv, TypeOK,
         MadeUnderMandate

LEMMA TypeStep == TypeInv /\ [Next]_vars => TypeInv'
  <1> SUFFICES ASSUME TypeInv, [Next]_vars PROVE TypeInv'
    OBVIOUS
  <1>1. ASSUME NEW p \in Proposals, ProposeMandate(p) PROVE TypeInv'
    BY <1>1, ProposeMandateType
  <1>2. ASSUME NEW m \in MandateIds, ActivateMandate(m) \/ RetireMandate(m) PROVE TypeInv'
    BY <1>2, ActivateMandateType, RetireMandateType
  <1>3. ASSUME NEW d \in Delegates, NEW m \in MandateIds, NEW to \in Accounts, NEW a \in Amounts,
               RequestSpend(d, m, to, a)
        PROVE  TypeInv'
    BY <1>3, RequestSpendType
  <1>4. ASSUME NEW r \in RequestIds, Finalize(r) PROVE TypeInv'
    BY <1>4, FinalizeType
  <1>5. ASSUME NEW r \in RequestIds, ExecuteEscalated(r) PROVE TypeInv'
    BY <1>5, ExecuteEscalatedType
  <1>6. ASSUME NEW r \in RequestIds, CancelEscalated(r) PROVE TypeInv'
    BY <1>6, RefundType DEF CancelEscalated, RequestStates
  <1>7. ASSUME NEW r \in RequestIds, ExpireUnfinalized(r) PROVE TypeInv'
    BY <1>7, RefundType DEF ExpireUnfinalized, RequestStates
  <1>8. ASSUME NEW auditor \in Auditors, NEW m \in MandateIds, NEW ids \in SUBSET RequestIds,
               CreateAuditPacket(auditor, m, ids)
        PROVE  TypeInv'
    BY <1>8, CreateAuditPacketType
  <1>9. CASE OtherStep
    BY <1>9, OtherStepType
  <1>10. CASE UNCHANGED vars
    BY <1>10, StutterType
  <1> QED BY <1>1, <1>2, <1>3, <1>4, <1>5, <1>6, <1>7, <1>8, <1>9, <1>10 DEF Next, OtherStep

\* Every variable keeps its type, for any bounds and any inputs: balances and budgets
\* never go below zero, ids never leave their range.
THEOREM TypeCorrect == Spec => []TypeOK
  <1>1. TypeInv => TypeOK
    BY DEF TypeInv
  <1> QED BY <1>1, InitType, TypeStep, PTL DEF Spec

-----------------------------------------------------------------------------
(* One request in flight per mandate and per delegate, and the budget a    *)
(* refund restores.  None of SlotExact, SingleActiveMandate,               *)
(* LiveUnderActiveMandate and RestoreIsExact is inductive by itself: each  *)
(* step of one needs another, and all of them need that ids not yet handed *)
(* out name nothing.                                                       *)

FreshIds ==
    /\ \A r \in RequestIds : r >= nextRequestId => request[r].state = "None"
    /\ \A m \in MandateIds : m >= nextMandateId => mandate[m].state = "None"

\* A mandate that was drafted is somebody's.
DraftedForDelegate ==
    \A m \in MandateIds : mandate[m].state # "None" => mandate[m].delegate \in Delegates

\* A live request is made by the delegate of its mandate, which is the active one.
LiveOwned ==
    \A r \in RequestIds : Live(r) =>
        /\ request[r].delegate = mandate[request[r].mandateId].delegate
        /\ mandate[request[r].mandateId].state = "Active"

\* What was moved to the escrow is the amount asked for, or zero if refused.
ReservedByDecision ==
    \A r \in RequestIds : request[r].state # "None" =>
        /\ request[r].reserved.val = IF request[r].decision = D_BLOCKED THEN 0
                                     ELSE request[r].amount.val
        /\ request[r].state = "AwaitingSafeApproval" => request[r].decision = D_ESCALATE

SlotInv ==
    /\ TypeInv
    /\ FreshIds
    /\ DraftedForDelegate
    /\ LiveOwned
    /\ SlotExact
    /\ SingleActiveMandate
    /\ RestoreIsExact
    /\ ReservedByDecision

LEMMA SlotInvInit == Init => SlotInv
  <1> SUFFICES ASSUME Init PROVE SlotInv
    OBVIOUS
  <1>1. \A r \in RequestIds : request[r].state = "None" /\ ~Live(r)
    BY DEF Init, NoRequest, Live, LiveStates
  <1>2. \A m \in MandateIds : mandate[m].state = "None" /\ m # 0
    BY DEF Init, NoMandate, MandateIds
  <1>3. SlotExact
    BY <1>1 DEF Init, SlotExact, RequestIds
  <1>4. SingleActiveMandate
    BY <1>2 DEF Init, SingleActiveMandate
  <1> QED BY <1>1, <1>2, <1>3, <1>4, InitType
      DEF SlotInv, FreshIds, DraftedForDelegate, LiveOwned, RestoreIsExact, ReservedByDecision

LEMMA ProposeMandateSlot ==
    ASSUME SlotInv, NEW p \in Proposals, ProposeMandate(p)
    PROVE  SlotInv'
  <1> DEFINE m == nextMandateId
  <1>1. TypeInv'
    BY ProposeMandateType DEF SlotInv
  <1>2. m \in MandateIds /\ m \in Nat /\ nextMandateId' = m + 1 /\ mandate[m].state = "None"
    <2>1. m \in 1 .. MaxMandates + 1 /\ m <= MaxMandates
      BY DEF SlotInv, TypeInv, TypeOK, ProposeMandate
    <2> QED BY <2>1 DEF MandateIds, SlotInv, FreshIds, ProposeMandate
  <1>3. /\ mandate'[m].state = "Draft" /\ mandate'[m].delegate \in Delegates
        /\ \A i \in MandateIds : i # m => mandate'[i] = mandate[i]
    <2>1. p.delegate \in Delegates
      BY DEF ProposeMandate
    <2> QED BY <1>2, <2>1 DEF ProposeMandate, SlotInv, TypeInv, TypeOK
  <1>4. UNCHANGED <<request, nextRequestId, pendingRequestOf, activeMandateOf>>
    BY DEF ProposeMandate, spendVars
  <1>5. \A r \in RequestIds : Live(r)' <=> Live(r)
    BY <1>4 DEF Live
  <1>6. \A r \in RequestIds : Live(r) => request[r].mandateId # m
    BY <1>2 DEF SlotInv, LiveOwned
  <1>7. \A r \in RequestIds : Live(r) => request[r].mandateId \in MandateIds
    BY DEF SlotInv, TypeInv, MadeUnderMandate, Live, LiveStates
  <1>8. FreshIds'
    BY <1>2, <1>3, <1>4 DEF SlotInv, FreshIds, MandateIds
  <1>9. DraftedForDelegate'
    BY <1>2, <1>3 DEF SlotInv, DraftedForDelegate
  <1>10. LiveOwned'
    BY <1>3, <1>4, <1>5, <1>6, <1>7 DEF SlotInv, LiveOwned
  <1>11. SlotExact'
    BY <1>4, <1>5 DEF SlotInv, SlotExact
  <1>12. SingleActiveMandate'
    BY <1>2, <1>3, <1>4 DEF SlotInv, SingleActiveMandate
  <1>13. RestoreIsExact'
    BY <1>3, <1>4, <1>5, <1>6, <1>7 DEF SlotInv, RestoreIsExact
  <1>14. ReservedByDecision'
    BY <1>4 DEF SlotInv, ReservedByDecision
  <1> QED BY <1>1, <1>8, <1>9, <1>10, <1>11, <1>12, <1>13, <1>14 DEF SlotInv

\* Under a mandate whose slot is free nothing is in flight.
LEMMA FreeSlotNoLive ==
    ASSUME SlotInv, NEW m \in MandateIds, pendingRequestOf[m] = 0
    PROVE  \A r \in RequestIds : Live(r) => request[r].mandateId # m
  BY DEF SlotInv, SlotExact, RequestIds

LEMMA LiveMandateId ==
    ASSUME SlotInv
    PROVE  \A r \in RequestIds : Live(r) => request[r].mandateId \in MandateIds
  BY DEF SlotInv, TypeInv, MadeUnderMandate, Live, LiveStates

\* Changing only mandates under which nothing is in flight disturbs no request.
LEMMA MandateStep ==
    ASSUME SlotInv,
           UNCHANGED <<request, nextRequestId, nextMandateId, pendingRequestOf>>,
           \A i \in MandateIds : mandate'[i].delegate = mandate[i].delegate,
           \A i \in MandateIds : mandate'[i].state = "None" <=> mandate[i].state = "None",
           \A r \in RequestIds : Live(r) =>
              mandate'[request[r].mandateId] = mandate[request[r].mandateId]
    PROVE  /\ FreshIds' /\ DraftedForDelegate' /\ LiveOwned'
           /\ SlotExact' /\ RestoreIsExact' /\ ReservedByDecision'
  <1>1. \A r \in RequestIds : Live(r)' <=> Live(r)
    BY DEF Live
  <1>2. FreshIds'
    BY DEF SlotInv, FreshIds
  <1>3. DraftedForDelegate'
    BY DEF SlotInv, DraftedForDelegate
  <1>4. LiveOwned'
    BY <1>1, LiveMandateId DEF SlotInv, LiveOwned
  <1>5. SlotExact'
    BY <1>1 DEF SlotInv, SlotExact
  <1>6. RestoreIsExact'
    BY <1>1 DEF SlotInv, RestoreIsExact
  <1>7. ReservedByDecision'
    BY DEF SlotInv, ReservedByDecision
  <1> QED BY <1>2, <1>3, <1>4, <1>5, <1>6, <1>7

LEMMA ActivateMandateSlot ==
    ASSUME SlotInv, NEW m \in MandateIds, ActivateMandate(m)
    PROVE  SlotInv'
  <1> DEFINE d == mandate[m].delegate
             prev == activeMandateOf[d]
  <1>1. TypeInv'
    BY ActivateMandateType DEF SlotInv
  <1>2. /\ mandate[m].state = "Draft" /\ d \in Delegates
        /\ prev \in MandateIds \cup {0} /\ prev # m
    <2>1. mandate[m].state = "Draft" /\ d \in Delegates
      BY DEF ActivateMandate, SlotInv, DraftedForDelegate
    <2>2. prev # m
      BY <2>1 DEF SlotInv, SingleActiveMandate
    <2> QED BY <2>1, <2>2 DEF SlotInv, TypeInv, TypeOK
  <1>3. \A i \in MandateIds : mandate[i] \in Mandate
    BY DEF SlotInv, TypeInv, TypeOK
  <1>4. \A i \in MandateIds :
          /\ mandate'[i].delegate = mandate[i].delegate
          /\ mandate'[i].state = IF i = m THEN "Active" ELSE IF i = prev THEN "Retired"
                                 ELSE mandate[i].state
          /\ i # m /\ i # prev => mandate'[i] = mandate[i]
    BY <1>2, <1>3 DEF ActivateMandate, Activated, Mandate
  <1>5. prev # 0 => /\ prev \in MandateIds /\ mandate[prev].state = "Active"
                    /\ mandate[prev].delegate = d /\ pendingRequestOf[prev] = 0
    BY <1>2 DEF ActivateMandate, SlotFree, SlotInv, SingleActiveMandate
  <1>6. UNCHANGED <<request, nextRequestId, nextMandateId, pendingRequestOf>>
    BY DEF ActivateMandate, spendVars
  <1>7. \A r \in RequestIds : Live(r) =>
           mandate'[request[r].mandateId] = mandate[request[r].mandateId]
    <2> SUFFICES ASSUME NEW r \in RequestIds, Live(r)
                 PROVE  request[r].mandateId # m /\ request[r].mandateId # prev
      BY <1>4, LiveMandateId
    <2>1. request[r].mandateId # m
      BY <1>2 DEF SlotInv, LiveOwned
    <2>2. request[r].mandateId # prev
      BY <1>5, FreeSlotNoLive, LiveMandateId DEF MandateIds
    <2> QED BY <2>1, <2>2
  <1>8. \A i \in MandateIds : mandate'[i].state = "None" <=> mandate[i].state = "None"
    <2> SUFFICES ASSUME NEW i \in MandateIds
                 PROVE  mandate'[i].state = "None" <=> mandate[i].state = "None"
      OBVIOUS
    <2>1. CASE i = m
      BY <1>2, <1>4, <2>1
    <2>2. CASE i = prev
      BY <1>2, <1>4, <1>5, <2>2 DEF MandateIds
    <2>3. CASE i # m /\ i # prev
      BY <1>4, <2>3
    <2> QED BY <2>1, <2>2, <2>3
  <1>9. /\ FreshIds' /\ DraftedForDelegate' /\ LiveOwned'
        /\ SlotExact' /\ RestoreIsExact' /\ ReservedByDecision'
    BY <1>4, <1>6, <1>7, <1>8, MandateStep
  <1>10. SingleActiveMandate'
    <2>1. activeMandateOf' = [activeMandateOf EXCEPT ![d] = m]
      BY DEF ActivateMandate
    <2>2. \A e \in Delegates : activeMandateOf'[e] = IF e = d THEN m ELSE activeMandateOf[e]
      BY <2>1 DEF SlotInv, TypeInv, TypeOK
    <2> SUFFICES ASSUME NEW i \in MandateIds, NEW e \in Delegates
                 PROVE  activeMandateOf'[e] = i <=>
                           mandate'[i].state = "Active" /\ mandate'[i].delegate = e
      BY DEF SingleActiveMandate
    <2>3. CASE e = d
      BY <1>2, <1>4, <1>5, <2>2, <2>3 DEF SlotInv, SingleActiveMandate
    <2>4. CASE e # d
      BY <1>2, <1>4, <1>5, <2>2, <2>4 DEF SlotInv, SingleActiveMandate
    <2> QED BY <2>3, <2>4
  <1> QED BY <1>1, <1>9, <1>10 DEF SlotInv

LEMMA RetireMandateSlot ==
    ASSUME SlotInv, NEW m \in MandateIds, RetireMandate(m)
    PROVE  SlotInv'
  <1> DEFINE d == mandate[m].delegate
  <1>1. TypeInv'
    BY RetireMandateType DEF SlotInv
  <1>2. /\ mandate[m].state \in {"Active", "Draft"} /\ d \in Delegates
        /\ pendingRequestOf[m] = 0
    BY DEF RetireMandate, SlotFree, MandateIds, SlotInv, DraftedForDelegate
  <1>3. \A i \in MandateIds :
          /\ mandate'[i].delegate = mandate[i].delegate
          /\ mandate'[i].state = IF i = m THEN "Retired" ELSE mandate[i].state
          /\ i # m => mandate'[i] = mandate[i]
    <2>1. mandate' = [mandate EXCEPT ![m].state = "Retired"]
      BY DEF RetireMandate
    <2>2. \A i \in MandateIds : mandate[i] \in Mandate
      BY DEF SlotInv, TypeInv, TypeOK
    <2> QED BY <2>1, <2>2 DEF SlotInv, TypeInv, TypeOK, Mandate
  <1>4. UNCHANGED <<request, nextRequestId, nextMandateId, pendingRequestOf>>
    BY DEF RetireMandate, spendVars
  <1>5. \A r \in RequestIds : Live(r) =>
           mandate'[request[r].mandateId] = mandate[request[r].mandateId]
    BY <1>2, <1>3, FreeSlotNoLive, LiveMandateId
  <1>6. /\ FreshIds' /\ DraftedForDelegate' /\ LiveOwned'
        /\ SlotExact' /\ RestoreIsExact' /\ ReservedByDecision'
    <2>1. \A i \in MandateIds : mandate'[i].state = "None" <=> mandate[i].state = "None"
      BY <1>2, <1>3
    <2> QED BY <1>3, <1>4, <1>5, <2>1, MandateStep
  <1>7. SingleActiveMandate'
    <2>1. \A e \in Delegates :
            activeMandateOf'[e] = IF e = d /\ activeMandateOf[d] = m THEN 0 ELSE activeMandateOf[e]
      BY <1>2 DEF RetireMandate, SlotInv, TypeInv, TypeOK
    <2>2. \A i \in MandateIds : i # 0
      BY DEF MandateIds
    <2> SUFFICES ASSUME NEW i \in MandateIds, NEW e \in Delegates
                 PROVE  activeMandateOf'[e] = i <=>
                           mandate'[i].state = "Active" /\ mandate'[i].delegate = e
      BY DEF SingleActiveMandate
    <2>3. activeMandateOf[e] = i <=> mandate[i].state = "Active" /\ mandate[i].delegate = e
      BY DEF SlotInv, SingleActiveMandate
    <2>4. activeMandateOf[e] = m => e = d
      BY DEF SlotInv, SingleActiveMandate
    <2> QED BY <1>3, <2>1, <2>2, <2>3, <2>4
  <1> QED BY <1>1, <1>6, <1>7 DEF SlotInv

LEMMA RequestSpendSlot ==
    ASSUME SlotInv, NEW d \in Delegates, NEW m \in MandateIds, NEW to \in Accounts,
           NEW a \in Amounts, RequestSpend(d, m, to, a)
    PROVE  SlotInv'
  <1> DEFINE r == nextRequestId
  <1>1. TypeInv'
    BY RequestSpendType DEF SlotInv
  <1>2. /\ mandate[m] \in Mandate /\ mandate[m].budgetLeft.val \in Nat
        /\ mandate[m].reserveFloor.val \in Nat /\ mandate[m].autoLimit.val \in Nat
        /\ balance[Safe] \in Nat /\ a \in Nat
    BY MandateFields, AccountTypes DEF SlotInv, TypeInv
  <1>3. /\ r \in Nat /\ r \in RequestIds /\ r # 0 /\ request[r].state = "None" /\ nextRequestId' = r + 1
    <2>1. r \in 1 .. MaxRequests + 1 /\ r <= MaxRequests /\ nextRequestId' = r + 1
      BY DEF SlotInv, TypeInv, TypeOK, RequestSpend
    <2>2. r \in RequestIds /\ r \in Nat /\ r # 0
      BY <2>1 DEF RequestIds
    <2> QED BY <2>1, <2>2 DEF SlotInv, FreshIds
  <1>4. /\ d = mandate[m].delegate /\ mandate[m].state = "Active" /\ activeMandateOf[d] = m
        /\ pendingRequestOf[m] = 0
    BY DEF RequestSpend, Admitted, SlotFree, MandateIds
  <1>5. /\ request'[r] = NewRequest(d, m, to, a, r)
        /\ \A q \in RequestIds : q # r => request'[q] = request[q]
    BY <1>3 DEF RequestSpend, NewRequest, SlotInv, TypeInv, TypeOK
  <1>6. /\ mandate'[m].delegate = mandate[m].delegate /\ mandate'[m].state = mandate[m].state
        /\ mandate'[m].budgetLeft.val = mandate[m].budgetLeft.val - Reserved(m, a)
        /\ \A i \in MandateIds : i # m => mandate'[i] = mandate[i]
    BY <1>2 DEF RequestSpend, SlotInv, TypeInv, TypeOK, Mandate, Cipher
  <1>7. /\ UNCHANGED <<nextMandateId, activeMandateOf>>
        /\ pendingRequestOf'[m] = r
        /\ \A i \in MandateIds : i # m => pendingRequestOf'[i] = pendingRequestOf[i]
    BY DEF RequestSpend, SlotInv, TypeInv, TypeOK
  <1>8. /\ ~Live(r)
        /\ \A q \in RequestIds : Live(q)' <=> Live(q) \/ q = r
    <2>1. request'[r].state = "Requested"
      BY <1>5 DEF NewRequest
    <2> QED BY <1>3, <1>5, <2>1 DEF Live, LiveStates
  <1>9. \A q \in RequestIds : Live(q) => request[q].mandateId # m /\ request[q].mandateId \in MandateIds
    BY <1>4, FreeSlotNoLive, LiveMandateId
  <1>10. FreshIds'
    <2>1. \A q \in RequestIds : q >= r + 1 => q # r /\ q >= r
      BY <1>3 DEF RequestIds
    <2>2. \A q \in RequestIds : q >= nextRequestId' => request'[q].state = "None"
      BY <1>3, <1>5, <2>1 DEF SlotInv, FreshIds
    <2>3. \A i \in MandateIds : i >= nextMandateId' => mandate'[i].state = "None"
      BY <1>6, <1>7 DEF SlotInv, FreshIds
    <2> QED BY <2>2, <2>3 DEF FreshIds
  <1>11. DraftedForDelegate'
    BY <1>6 DEF SlotInv, DraftedForDelegate
  <1>12. LiveOwned'
    <2>1. request'[r].delegate = d /\ request'[r].mandateId = m
      BY <1>5 DEF NewRequest
    <2> SUFFICES ASSUME NEW q \in RequestIds, Live(q)'
                 PROVE  /\ request'[q].delegate = mandate'[request'[q].mandateId].delegate
                        /\ mandate'[request'[q].mandateId].state = "Active"
      BY DEF LiveOwned
    <2>2. CASE q = r
      BY <1>4, <1>6, <2>1, <2>2
    <2>3. CASE q # r
      BY <1>5, <1>6, <1>8, <1>9, <2>3 DEF SlotInv, LiveOwned
    <2> QED BY <2>2, <2>3
  <1>13. SlotExact'
    <2> SUFFICES ASSUME NEW i \in MandateIds, NEW q \in RequestIds
                 PROVE  pendingRequestOf'[i] = q <=> Live(q)' /\ request'[q].mandateId = i
      BY DEF SlotExact
    <2>1. CASE q = r
      <3>1. request'[r].mandateId = m
        BY <1>5 DEF NewRequest
      <3> QED BY <1>3, <1>7, <1>8, <2>1, <3>1 DEF SlotInv, SlotExact
    <2>2. CASE q # r
      BY <1>5, <1>7, <1>8, <1>9, <2>2 DEF SlotInv, SlotExact
    <2> QED BY <2>1, <2>2
  <1>14. SingleActiveMandate'
    BY <1>6, <1>7 DEF SlotInv, SingleActiveMandate
  <1>15. RestoreIsExact'
    <2>1. Reserved(m, a) \in Nat
      BY <1>2, PolicyOutcome
    <2>2. mandate[m].budgetLeft.val
            = (mandate[m].budgetLeft.val - Reserved(m, a)) + Reserved(m, a)
      BY <1>2, <2>1
    <2>3. /\ request'[r].budgetBefore.val = mandate[m].budgetLeft.val
          /\ request'[r].mandateId = m /\ request'[r].reserved.val = Reserved(m, a)
      BY <1>5 DEF NewRequest, Cipher
    <2> SUFFICES ASSUME NEW q \in RequestIds, Live(q)'
                 PROVE  request'[q].budgetBefore.val =
                          mandate'[request'[q].mandateId].budgetLeft.val + request'[q].reserved.val
      BY DEF RestoreIsExact
    <2>4. CASE q = r
      BY <1>6, <2>2, <2>3, <2>4
    <2>5. CASE q # r
      BY <1>5, <1>6, <1>8, <1>9, <2>5 DEF SlotInv, RestoreIsExact
    <2> QED BY <2>4, <2>5
  <1>16. ReservedByDecision'
    <2>1. Reserved(m, a) = IF Decision(m, a) = D_BLOCKED THEN 0 ELSE a
      BY <1>2, PolicyOutcome
    <2>2. /\ request'[r].reserved.val = Reserved(m, a) /\ request'[r].decision = Decision(m, a)
          /\ request'[r].amount.val = a /\ request'[r].state = "Requested"
      BY <1>5 DEF NewRequest, Cipher
    <2> QED BY <1>5, <2>1, <2>2 DEF SlotInv, ReservedByDecision
  <1> QED BY <1>1, <1>10, <1>11, <1>12, <1>13, <1>14, <1>15, <1>16 DEF SlotInv

\* Settling a live request frees its slot; its mandate may get a new budget.
LEMMA SettleSlot ==
    ASSUME SlotInv, TypeInv', NEW r \in RequestIds, NEW st \in TerminalStates, Live(r),
           request' = [request EXCEPT ![r].state = st],
           pendingRequestOf' = [pendingRequestOf EXCEPT ![request[r].mandateId] = 0],
           UNCHANGED <<nextRequestId, nextMandateId, activeMandateOf>>,
           \A i \in MandateIds :
              /\ mandate'[i].delegate = mandate[i].delegate
              /\ mandate'[i].state = mandate[i].state
              /\ i # request[r].mandateId => mandate'[i] = mandate[i]
    PROVE  SlotInv'
  <1> DEFINE m == request[r].mandateId
  <1>1. m \in MandateIds /\ pendingRequestOf[m] = r
    BY LiveMandateId DEF SlotInv, SlotExact
  <1>2. /\ request'[r].state = st
        /\ \A q \in RequestIds :
              /\ q # r => request'[q] = request[q]
              /\ request'[q].mandateId = request[q].mandateId
              /\ request'[q].delegate = request[q].delegate
              /\ request'[q].reserved = request[q].reserved
              /\ request'[q].budgetBefore = request[q].budgetBefore
              /\ request'[q].amount = request[q].amount
              /\ request'[q].decision = request[q].decision
    BY DEF SlotInv, TypeInv, TypeOK, Request
  <1>3. \A q \in RequestIds : Live(q)' <=> Live(q) /\ q # r
    BY <1>2 DEF Live, LiveStates, TerminalStates
  <1>4. \A q \in RequestIds : Live(q)' => request[q].mandateId # m /\ request[q].mandateId \in MandateIds
    BY <1>1, <1>3, LiveMandateId DEF SlotInv, SlotExact
  <1>5. FreshIds'
    BY <1>2 DEF SlotInv, FreshIds, Live, LiveStates
  <1>6. DraftedForDelegate'
    BY DEF SlotInv, DraftedForDelegate
  <1>7. LiveOwned'
    BY <1>2, <1>3, <1>4 DEF SlotInv, LiveOwned
  <1>8. SlotExact'
    <2> SUFFICES ASSUME NEW i \in MandateIds, NEW q \in RequestIds
                 PROVE  pendingRequestOf'[i] = q <=> Live(q)' /\ request'[q].mandateId = i
      BY DEF SlotExact
    <2>1. pendingRequestOf'[i] = IF i = m THEN 0 ELSE pendingRequestOf[i]
      BY <1>1 DEF SlotInv, TypeInv, TypeOK
    <2>2. q # 0
      BY DEF RequestIds
    <2>3. pendingRequestOf[i] = q <=> Live(q) /\ request[q].mandateId = i
      BY DEF SlotInv, SlotExact
    <2> QED BY <1>1, <1>2, <1>3, <1>4, <2>1, <2>2, <2>3
  <1>9. SingleActiveMandate'
    BY DEF SlotInv, SingleActiveMandate
  <1>10. RestoreIsExact'
    BY <1>2, <1>3, <1>4 DEF SlotInv, RestoreIsExact
  <1>11. ReservedByDecision'
    <2>1. \A q \in RequestIds : request'[q].state # "None" => request[q].state # "None"
      BY <1>2 DEF Live, LiveStates
    <2>2. \A q \in RequestIds : request'[q].state = "AwaitingSafeApproval" =>
              request[q].state = "AwaitingSafeApproval"
      BY <1>2 DEF TerminalStates
    <2> QED BY <1>2, <2>1, <2>2 DEF SlotInv, ReservedByDecision
  <1> QED BY <1>5, <1>6, <1>7, <1>8, <1>9, <1>10, <1>11 DEF SlotInv

LEMMA RefundSlot ==
    ASSUME SlotInv, NEW r \in RequestIds, NEW st \in {"Cancelled", "Expired"}, Live(r),
           Refund(r, st)
    PROVE  SlotInv'
  <1>1. TypeInv'
    BY RefundType DEF SlotInv, Live, LiveStates, RequestStates
  <1>2. \A i \in MandateIds :
              /\ mandate'[i].delegate = mandate[i].delegate
              /\ mandate'[i].state = mandate[i].state
              /\ i # request[r].mandateId => mandate'[i] = mandate[i]
    <2>1. \A i \in MandateIds : mandate[i] \in Mandate
      BY DEF SlotInv, TypeInv, TypeOK
    <2> QED BY <2>1 DEF Refund, SlotInv, TypeInv, TypeOK, Mandate
  <1> QED BY <1>1, <1>2, SettleSlot DEF Refund, TerminalStates

LEMMA ExecuteEscalatedSlot ==
    ASSUME SlotInv, NEW r \in RequestIds, ExecuteEscalated(r)
    PROVE  SlotInv'
  <1>1. TypeInv'
    BY ExecuteEscalatedType DEF SlotInv
  <1>2. Live(r)
    BY DEF ExecuteEscalated, Live, LiveStates
  <1> QED BY <1>1, <1>2, SettleSlot DEF ExecuteEscalated, TerminalStates, policyVars

LEMMA FinalizeSlot ==
    ASSUME SlotInv, NEW r \in RequestIds, Finalize(r)
    PROVE  SlotInv'
  <1>1. TypeInv'
    BY FinalizeType DEF SlotInv
  <1>2. Live(r) /\ request[r].state = "Requested"
    BY DEF Finalize, Live, LiveStates
  <1>3. UNCHANGED <<mandate, nextMandateId, activeMandateOf, nextRequestId>>
    BY DEF Finalize, policyVars
  <1>4. CASE FinalizeExecute(r)
    BY <1>1, <1>2, <1>3, <1>4, SettleSlot DEF FinalizeExecute, TerminalStates
  <1>5. CASE FinalizeBlocked(r)
    BY <1>1, <1>2, <1>3, <1>5, SettleSlot DEF FinalizeBlocked, TerminalStates
  <1>6. CASE FinalizeEscalate(r)
    <2>1. pendingRequestOf' = pendingRequestOf
      <3>1. pendingRequestOf[request[r].mandateId] = r
        BY <1>2, LiveMandateId DEF SlotInv, SlotExact
      <3> QED BY <1>6, <3>1 DEF FinalizeEscalate, SlotInv, TypeInv, TypeOK
    <2>2. /\ request'[r].state = "AwaitingSafeApproval"
          /\ \A q \in RequestIds :
                /\ q # r => request'[q] = request[q]
                /\ request'[q].mandateId = request[q].mandateId
                /\ request'[q].delegate = request[q].delegate
                /\ request'[q].reserved = request[q].reserved
                /\ request'[q].budgetBefore = request[q].budgetBefore
                /\ request'[q].amount = request[q].amount
                /\ request'[q].decision = request[q].decision
      BY <1>6 DEF FinalizeEscalate, SlotInv, TypeInv, TypeOK, Request
    <2>3. \A q \in RequestIds : Live(q)' <=> Live(q)
      BY <1>2, <2>2 DEF Live, LiveStates
    <2>4. FreshIds'
      BY <1>2, <1>3, <2>2 DEF SlotInv, FreshIds
    <2>5. DraftedForDelegate' /\ SingleActiveMandate'
      BY <1>3 DEF SlotInv, DraftedForDelegate, SingleActiveMandate
    <2>6. LiveOwned'
      BY <1>3, <2>2, <2>3 DEF SlotInv, LiveOwned
    <2>7. SlotExact'
      BY <2>1, <2>2, <2>3 DEF SlotInv, SlotExact
    <2>8. RestoreIsExact'
      BY <1>3, <2>2, <2>3 DEF SlotInv, RestoreIsExact
    <2>9. ReservedByDecision'
      BY <1>2, <1>6, <2>2 DEF SlotInv, ReservedByDecision, FinalizeEscalate
    <2> QED BY <1>1, <2>4, <2>5, <2>6, <2>7, <2>8, <2>9 DEF SlotInv
  <1> QED BY <1>4, <1>5, <1>6 DEF Finalize

\* The remaining steps touch no mandate, no request and no slot.
LEMMA ElsewhereSlot ==
    ASSUME SlotInv, TypeInv',
           UNCHANGED <<mandate, nextMandateId, activeMandateOf, request, nextRequestId,
                       pendingRequestOf>>
    PROVE  SlotInv'
  BY DEF SlotInv, FreshIds, DraftedForDelegate, LiveOwned, SlotExact, SingleActiveMandate,
         RestoreIsExact, ReservedByDecision, Live

LEMMA SlotStep == SlotInv /\ [Next]_vars => SlotInv'
  <1> SUFFICES ASSUME SlotInv, [Next]_vars PROVE SlotInv'
    OBVIOUS
  <1>1. TypeInv'
    BY TypeStep DEF SlotInv
  <1>2. ASSUME NEW p \in Proposals, ProposeMandate(p) PROVE SlotInv'
    BY <1>2, ProposeMandateSlot
  <1>3. ASSUME NEW m \in MandateIds, ActivateMandate(m) \/ RetireMandate(m) PROVE SlotInv'
    BY <1>3, ActivateMandateSlot, RetireMandateSlot
  <1>4. ASSUME NEW d \in Delegates, NEW m \in MandateIds, NEW to \in Accounts, NEW a \in Amounts,
               RequestSpend(d, m, to, a)
        PROVE  SlotInv'
    BY <1>4, RequestSpendSlot
  <1>5. ASSUME NEW r \in RequestIds, Finalize(r) PROVE SlotInv'
    BY <1>5, FinalizeSlot
  <1>6. ASSUME NEW r \in RequestIds, ExecuteEscalated(r) PROVE SlotInv'
    BY <1>6, ExecuteEscalatedSlot
  <1>7. ASSUME NEW r \in RequestIds, CancelEscalated(r) PROVE SlotInv'
    BY <1>7, RefundSlot DEF CancelEscalated, Live, LiveStates
  <1>8. ASSUME NEW r \in RequestIds, ExpireUnfinalized(r) PROVE SlotInv'
    BY <1>8, RefundSlot DEF ExpireUnfinalized, Live, LiveStates
  <1>9. ASSUME NEW auditor \in Auditors, NEW m \in MandateIds, NEW ids \in SUBSET RequestIds,
               CreateAuditPacket(auditor, m, ids)
        PROVE  SlotInv'
    BY <1>1, <1>9, ElsewhereSlot DEF CreateAuditPacket, policyVars, spendVars
  <1>10. CASE OtherStep
    BY <1>1, <1>10, ElsewhereSlot DEF OtherStep, SetFinanceAdmin, PauseAll, UnpauseAll,
       SetModuleEnabled, SafeTransfer, Wrap, Tick, policyVars, spendVars
  <1>11. CASE UNCHANGED vars
    BY <1>1, <1>11, ElsewhereSlot DEF vars, policyVars, spendVars
  <1> QED BY <1>2, <1>3, <1>4, <1>5, <1>6, <1>7, <1>8, <1>9, <1>10, <1>11 DEF Next, OtherStep

LEMMA SlotInvariant == Spec => []SlotInv
  BY SlotInvInit, SlotStep, PTL DEF Spec

\* A mandate has at most one request in flight, and its slot names it.
THEOREM SlotIsExact == Spec => []SlotExact
  <1>1. SlotInv => SlotExact
    BY DEF SlotInv
  <1> QED BY <1>1, SlotInvariant, PTL

\* A delegate has at most one active mandate, and activeMandateOf names it.
THEOREM ActiveMandateIsSingle == Spec => []SingleActiveMandate
  <1>1. SlotInv => SingleActiveMandate
    BY DEF SlotInv
  <1> QED BY <1>1, SlotInvariant, PTL

\* A refund gives a budget back exactly what the request took from it.
THEOREM RefundRestores == Spec => []RestoreIsExact
  <1>1. SlotInv => RestoreIsExact
    BY DEF SlotInv
  <1> QED BY <1>1, SlotInvariant, PTL

\* A request in flight stands under the active mandate of its delegate, who has no other.
THEOREM LiveRequestIsUnderActiveMandate == Spec => []LiveUnderActiveMandate
  <1>1. SlotInv => LiveUnderActiveMandate
    <2> SUFFICES ASSUME SlotInv, NEW r \in RequestIds, Live(r)
                 PROVE  /\ activeMandateOf[request[r].delegate] = request[r].mandateId
                        /\ \A s \in RequestIds :
                              Live(s) /\ request[s].delegate = request[r].delegate => s = r
      BY DEF LiveUnderActiveMandate
    <2>1. \A q \in RequestIds : Live(q) =>
             /\ request[q].mandateId \in MandateIds
             /\ activeMandateOf[request[q].delegate] = request[q].mandateId
             /\ pendingRequestOf[request[q].mandateId] = q
      BY LiveMandateId DEF SlotInv, LiveOwned, DraftedForDelegate, SingleActiveMandate, SlotExact
    <2> QED BY <2>1
  <1> QED BY <1>1, SlotInvariant, PTL

-----------------------------------------------------------------------------
(* The module implements DelegatedBudget: the slot makes the saved budget  *)
(* of a refund equal to the budget plus what the request took.             *)

views == <<GrantedView, BudgetView, StatusView, TakerView, HeldView>>

LEMMA InitRefines == Init => Budget!Init
  <1> SUFFICES ASSUME Init PROVE Budget!Init
    OBVIOUS
  <1>1. GrantedView = {}
    BY DEF Init, GrantedView, NoMandate
  <1>2. BudgetView = [m \in MandateIds |-> 0]
    BY DEF Init, BudgetView, NoMandate, NoCipher, Cipher
  <1>3. StatusView = [r \in RequestIds |-> "free"]
    <2>1. \A r \in RequestIds : request[r].state = "None"
      BY DEF Init, NoRequest
    <2>2. \A r \in RequestIds : SpendStatus(r) = "free"
      BY <2>1 DEF SpendStatus, Live, LiveStates
    <2> QED BY <2>2 DEF StatusView
  <1>4. TakerView = [r \in RequestIds |-> 0]
    BY DEF Init, TakerView, NoRequest
  <1>5. HeldView = [r \in RequestIds |-> 0]
    BY DEF Init, HeldView, NoRequest, NoCipher, Cipher
  <1> QED BY <1>1, <1>2, <1>3, <1>4, <1>5 DEF Budget!Init

\* The views depend on no other variable.
LEMMA ViewsKept ==
    ASSUME UNCHANGED <<mandate, request>>
    PROVE  UNCHANGED views
  BY DEF views, GrantedView, BudgetView, StatusView, TakerView, HeldView, SpendStatus, Live

LEMMA ProposeMandateRefines ==
    ASSUME SlotInv, NEW p \in Proposals, ProposeMandate(p)
    PROVE  \E m \in MandateIds : Budget!Grant(m)
  <1>0. PICK m \in MandateIds : m = nextMandateId
    <2>1. nextMandateId \in 1 .. MaxMandates + 1 /\ nextMandateId <= MaxMandates
      BY DEF SlotInv, TypeInv, TypeOK, ProposeMandate
    <2> QED BY <2>1 DEF MandateIds
  <1>1. mandate[m].state = "None"
    BY <1>0 DEF MandateIds, SlotInv, FreshIds
  <1>2. /\ mandate'[m].state = "Draft" /\ mandate'[m].budgetLeft.val = p.budget
        /\ \A i \in MandateIds : i # m => mandate'[i] = mandate[i]
    BY <1>0 DEF ProposeMandate, SlotInv, TypeInv, TypeOK, Cipher
  <1>3. m \notin GrantedView /\ GrantedView' = GrantedView \cup {m}
    BY <1>1, <1>2 DEF GrantedView
  <1>4. BudgetView' = [BudgetView EXCEPT ![m] = p.budget]
    BY <1>1, <1>2 DEF BudgetView
  <1>5. UNCHANGED <<StatusView, TakerView, HeldView>>
    BY DEF ProposeMandate, spendVars, StatusView, SpendStatus, Live, TakerView, HeldView
  <1>6. p.budget \in {q.budget : q \in Proposals}
    OBVIOUS
  <1>7. Budget!Grant(m)
    BY <1>3, <1>4, <1>5, <1>6 DEF Budget!Grant
  <1> QED BY <1>7

\* The views of a request other than its status never change once it is made, and its
\* status changes as its state does.
LEMMA StateChangeViews ==
    ASSUME SlotInv, NEW r \in RequestIds, NEW st \in RequestStates, Live(r), st # "None",
           request' = [request EXCEPT ![r].state = st]
    PROVE  /\ UNCHANGED <<TakerView, HeldView>>
           /\ StatusView[r] = "held"
           /\ StatusView' = [StatusView EXCEPT ![r] =
                               IF st \in LiveStates THEN "held"
                               ELSE IF st = "Executed" THEN "paid" ELSE "returned"]
           /\ TakerView[r] = request[r].mandateId /\ HeldView[r] = request[r].reserved.val
  <1>1. /\ request'[r].state = st
        /\ \A q \in RequestIds :
              /\ q # r => request'[q] = request[q]
              /\ request'[q].mandateId = request[q].mandateId
              /\ request'[q].reserved = request[q].reserved
    BY DEF SlotInv, TypeInv, TypeOK, Request
  <1>2. UNCHANGED <<TakerView, HeldView>>
    BY <1>1 DEF TakerView, HeldView
  <1>3. SpendStatus(r) = "held"
    BY DEF SpendStatus, Live, LiveStates
  <1>4. SpendStatus(r)' = IF st \in LiveStates THEN "held"
                          ELSE IF st = "Executed" THEN "paid" ELSE "returned"
    BY <1>1 DEF SpendStatus, Live, LiveStates
  <1>5. \A q \in RequestIds : q # r => SpendStatus(q)' = SpendStatus(q)
    BY <1>1 DEF SpendStatus, Live
  <1>6. StatusView' = [StatusView EXCEPT ![r] =
                               IF st \in LiveStates THEN "held"
                               ELSE IF st = "Executed" THEN "paid" ELSE "returned"]
    BY <1>4, <1>5 DEF StatusView
  <1> QED BY <1>2, <1>3, <1>6 DEF StatusView, TakerView, HeldView

LEMMA PayRefines ==
    ASSUME SlotInv, NEW r \in RequestIds, Live(r), UNCHANGED mandate,
           request' = [request EXCEPT ![r].state = "Executed"]
    PROVE  Budget!Pay(r)
  <1>1. UNCHANGED <<GrantedView, BudgetView>>
    BY DEF GrantedView, BudgetView
  <1>2. "Executed" \in RequestStates /\ "Executed" \notin LiveStates
    BY DEF RequestStates, LiveStates
  <1>3. /\ UNCHANGED <<TakerView, HeldView>> /\ StatusView[r] = "held"
        /\ StatusView' = [StatusView EXCEPT ![r] = "paid"]
    BY <1>2, StateChangeViews
  <1> QED BY <1>1, <1>3 DEF Budget!Pay

\* What is given back is what was taken, also by a refused request, which took nothing.
LEMMA ReturnRefines ==
    ASSUME SlotInv, NEW r \in RequestIds, Live(r), NEW st \in {"Blocked", "Cancelled", "Expired"},
           request' = [request EXCEPT ![r].state = st],
           \A m \in MandateIds : mandate'[m].state = mandate[m].state,
           \A m \in MandateIds : mandate'[m].budgetLeft.val =
              IF m = request[r].mandateId THEN mandate[m].budgetLeft.val + request[r].reserved.val
              ELSE mandate[m].budgetLeft.val
    PROVE  Budget!Return(r)
  <1>1. st \in RequestStates /\ st \notin LiveStates /\ st # "Executed" /\ st # "None"
    BY DEF RequestStates, LiveStates
  <1>2. /\ UNCHANGED <<TakerView, HeldView>> /\ StatusView[r] = "held"
        /\ StatusView' = [StatusView EXCEPT ![r] = "returned"]
        /\ TakerView[r] = request[r].mandateId /\ HeldView[r] = request[r].reserved.val
    BY <1>1, StateChangeViews
  <1>3. UNCHANGED GrantedView
    BY DEF GrantedView
  <1>4. request[r].mandateId \in MandateIds
    BY LiveMandateId
  <1>5. BudgetView' = [BudgetView EXCEPT ![TakerView[r]] = @ + HeldView[r]]
    BY <1>2, <1>4 DEF BudgetView
  <1> QED BY <1>2, <1>3, <1>5 DEF Budget!Return

LEMMA RequestSpendRefines ==
    ASSUME SlotInv, NEW d \in Delegates, NEW m \in MandateIds, NEW to \in Accounts,
           NEW a \in Amounts, RequestSpend(d, m, to, a)
    PROVE  \E r \in RequestIds : Budget!Make(r, m)
  <1>0. PICK r \in RequestIds : r = nextRequestId
    <2>1. nextRequestId \in 1 .. MaxRequests + 1 /\ nextRequestId <= MaxRequests
      BY DEF SlotInv, TypeInv, TypeOK, RequestSpend
    <2> QED BY <2>1 DEF RequestIds
  <1>1. /\ mandate[m] \in Mandate /\ mandate[m].budgetLeft.val \in Nat
        /\ mandate[m].reserveFloor.val \in Nat /\ mandate[m].autoLimit.val \in Nat
        /\ balance[Safe] \in Nat /\ a \in Nat
    BY MandateFields, AccountTypes DEF SlotInv, TypeInv
  <1>2. Reserved(m, a) \in 0 .. mandate[m].budgetLeft.val
    BY <1>1, PolicyOutcome
  <1>3. request[r].state = "None" /\ mandate[m].state = "Active"
    BY <1>0 DEF RequestIds, RequestSpend, Admitted, SlotInv, FreshIds
  <1>4. /\ request'[r] = NewRequest(d, m, to, a, r)
        /\ \A q \in RequestIds : q # r => request'[q] = request[q]
    BY <1>0 DEF RequestSpend, NewRequest, SlotInv, TypeInv, TypeOK
  <1>5. /\ mandate'[m].state = mandate[m].state
        /\ mandate'[m].budgetLeft.val = mandate[m].budgetLeft.val - Reserved(m, a)
        /\ \A i \in MandateIds : i # m => mandate'[i] = mandate[i]
    BY <1>1 DEF RequestSpend, SlotInv, TypeInv, TypeOK, Mandate, Cipher
  <1>6. /\ request'[r].state = "Requested" /\ request'[r].mandateId = m
        /\ request'[r].reserved.val = Reserved(m, a)
    BY <1>4 DEF NewRequest, Cipher
  <1>7. m \in GrantedView /\ UNCHANGED GrantedView
    BY <1>3, <1>5 DEF GrantedView
  <1>8. BudgetView[m] = mandate[m].budgetLeft.val
    BY DEF BudgetView
  <1>9. BudgetView' = [BudgetView EXCEPT ![m] = @ - Reserved(m, a)]
    BY <1>5 DEF BudgetView
  <1>10. StatusView[r] = "free" /\ StatusView' = [StatusView EXCEPT ![r] = "held"]
    <2>1. SpendStatus(r) = "free"
      BY <1>3 DEF SpendStatus, Live, LiveStates
    <2>2. SpendStatus(r)' = "held"
      BY <1>6 DEF SpendStatus, Live, LiveStates
    <2>3. \A q \in RequestIds : q # r => SpendStatus(q)' = SpendStatus(q)
      BY <1>4 DEF SpendStatus, Live
    <2> QED BY <2>1, <2>2, <2>3 DEF StatusView
  <1>11. TakerView' = [TakerView EXCEPT ![r] = m] /\ HeldView' = [HeldView EXCEPT ![r] = Reserved(m, a)]
    BY <1>4, <1>6 DEF TakerView, HeldView
  <1>12. Budget!Make(r, m)
    BY <1>2, <1>7, <1>8, <1>9, <1>10, <1>11 DEF Budget!Make
  <1> QED BY <1>12

LEMMA RefundRefines ==
    ASSUME SlotInv, NEW r \in RequestIds, NEW st \in {"Cancelled", "Expired"}, Live(r),
           Refund(r, st)
    PROVE  Budget!Return(r)
  <1> DEFINE m == request[r].mandateId
  <1>1. m \in MandateIds
    BY LiveMandateId
  <1>2. mandate' = [mandate EXCEPT ![m].budgetLeft = request[r].budgetBefore]
    BY DEF Refund, RestoredBudget
  <1>3. \A i \in MandateIds : mandate[i] \in Mandate
    BY DEF SlotInv, TypeInv, TypeOK
  <1>4. \A i \in MandateIds : mandate'[i].state = mandate[i].state
    BY <1>2, <1>3 DEF SlotInv, TypeInv, TypeOK, Mandate
  <1>5. \A i \in MandateIds : mandate'[i].budgetLeft =
           IF i = m THEN request[r].budgetBefore ELSE mandate[i].budgetLeft
    BY <1>2, <1>3 DEF SlotInv, TypeInv, TypeOK, Mandate
  <1>6. request[r].budgetBefore.val = mandate[m].budgetLeft.val + request[r].reserved.val
    BY DEF SlotInv, RestoreIsExact
  <1>7. \A i \in MandateIds : mandate'[i].budgetLeft.val =
           IF i = m THEN mandate[i].budgetLeft.val + request[r].reserved.val
           ELSE mandate[i].budgetLeft.val
    BY <1>5, <1>6
  <1> QED BY <1>4, <1>7, ReturnRefines DEF Refund

LEMMA FinalizeRefines ==
    ASSUME SlotInv, NEW r \in RequestIds, Finalize(r)
    PROVE  Budget!Pay(r) \/ Budget!Return(r) \/ UNCHANGED views
  <1>1. Live(r) /\ request[r].state # "None" /\ UNCHANGED mandate
    BY DEF Finalize, Live, LiveStates, policyVars
  <1>2. CASE FinalizeExecute(r)
    BY <1>1, <1>2, PayRefines DEF FinalizeExecute
  <1>3. CASE FinalizeBlocked(r)
    <2>1. request[r].reserved.val = 0
      BY <1>1, <1>3 DEF FinalizeBlocked, SlotInv, ReservedByDecision
    <2>2. \A m \in MandateIds : mandate[m].budgetLeft.val \in Nat
      BY MandateFields DEF SlotInv, TypeInv
    <2>3. \A m \in MandateIds : mandate'[m].budgetLeft.val =
             IF m = request[r].mandateId THEN mandate[m].budgetLeft.val + request[r].reserved.val
             ELSE mandate[m].budgetLeft.val
      BY <1>1, <2>1, <2>2
    <2> QED BY <1>1, <1>3, <2>3, ReturnRefines DEF FinalizeBlocked
  <1>4. CASE FinalizeEscalate(r)
    <2>1. /\ "AwaitingSafeApproval" \in RequestStates /\ "AwaitingSafeApproval" \in LiveStates
          /\ request' = [request EXCEPT ![r].state = "AwaitingSafeApproval"]
      BY <1>4 DEF RequestStates, LiveStates, FinalizeEscalate
    <2>2. /\ UNCHANGED <<TakerView, HeldView>> /\ StatusView[r] = "held"
          /\ StatusView' = [StatusView EXCEPT ![r] = "held"]
      BY <1>1, <2>1, StateChangeViews
    <2>3. UNCHANGED StatusView
      BY <2>2 DEF StatusView
    <2>4. UNCHANGED <<GrantedView, BudgetView>>
      BY <1>1 DEF GrantedView, BudgetView
    <2> QED BY <2>2, <2>3, <2>4 DEF views
  <1> QED BY <1>2, <1>3, <1>4 DEF Finalize

LEMMA ActivateOrRetireRefines ==
    ASSUME SlotInv, NEW m \in MandateIds, ActivateMandate(m) \/ RetireMandate(m)
    PROVE  UNCHANGED views
  <1>1. SlotInv'
    BY ActivateMandateSlot, RetireMandateSlot
  <1>2. UNCHANGED request
    BY DEF ActivateMandate, RetireMandate, spendVars
  <1>3. \A i \in MandateIds : mandate[i] \in Mandate
    BY DEF SlotInv, TypeInv, TypeOK
  <1>4. \A i \in MandateIds : mandate'[i].budgetLeft = mandate[i].budgetLeft
    BY <1>3 DEF ActivateMandate, RetireMandate, Activated, SlotInv, TypeInv, TypeOK, Mandate
  <1>5. \A i \in MandateIds : mandate'[i].state = "None" <=> mandate[i].state = "None"
    <2>1. CASE RetireMandate(m)
      BY <1>3, <2>1 DEF RetireMandate, SlotInv, TypeInv, TypeOK, Mandate
    <2>2. CASE ActivateMandate(m)
      <3> DEFINE prev == activeMandateOf[mandate[m].delegate]
      <3>1. mandate[m].state = "Draft" /\ mandate' = Activated(m, prev)
        BY <2>2 DEF ActivateMandate
      <3>2. \A i \in MandateIds : i = prev => mandate[i].state = "Active"
        BY <3>1 DEF SlotInv, DraftedForDelegate, SingleActiveMandate
      <3> SUFFICES ASSUME NEW i \in MandateIds
                   PROVE  mandate'[i].state = "None" <=> mandate[i].state = "None"
        OBVIOUS
      <3>3. CASE i = m
        BY <1>3, <3>1, <3>3 DEF Activated, Mandate
      <3>4. CASE i # m /\ i = prev
        BY <1>3, <3>1, <3>2, <3>4 DEF Activated, Mandate
      <3>5. CASE i # m /\ i # prev
        BY <3>1, <3>5 DEF Activated
      <3> QED BY <3>3, <3>4, <3>5
    <2> QED BY <2>1, <2>2
  <1>6. UNCHANGED <<GrantedView, BudgetView>>
    BY <1>4, <1>5 DEF GrantedView, BudgetView
  <1>7. UNCHANGED <<StatusView, TakerView, HeldView>>
    BY <1>2 DEF StatusView, SpendStatus, Live, TakerView, HeldView
  <1> QED BY <1>6, <1>7 DEF views

LEMMA StepRefines == SlotInv /\ [Next]_vars => [Budget!Next]_(Budget!vars)
  <1> SUFFICES ASSUME SlotInv, [Next]_vars PROVE Budget!Next \/ UNCHANGED views
    BY DEF Budget!vars, views
  <1>1. ASSUME NEW p \in Proposals, ProposeMandate(p) PROVE Budget!Next
    BY <1>1, ProposeMandateRefines DEF Budget!Next
  <1>2. ASSUME NEW m \in MandateIds, ActivateMandate(m) \/ RetireMandate(m) PROVE UNCHANGED views
    BY <1>2, ActivateOrRetireRefines
  <1>3. ASSUME NEW d \in Delegates, NEW m \in MandateIds, NEW to \in Accounts, NEW a \in Amounts,
               RequestSpend(d, m, to, a)
        PROVE  Budget!Next
    BY <1>3, RequestSpendRefines DEF Budget!Next
  <1>4. ASSUME NEW r \in RequestIds, Finalize(r) PROVE Budget!Next \/ UNCHANGED views
    BY <1>4, FinalizeRefines DEF Budget!Next
  <1>5. ASSUME NEW r \in RequestIds, ExecuteEscalated(r) PROVE Budget!Next
    <2>1. Budget!Pay(r)
      BY <1>5, PayRefines DEF ExecuteEscalated, policyVars, Live, LiveStates
    <2> QED BY <2>1 DEF Budget!Next
  <1>6. ASSUME NEW r \in RequestIds, CancelEscalated(r) \/ ExpireUnfinalized(r) PROVE Budget!Next
    <2>1. Budget!Return(r)
      BY <1>6, RefundRefines DEF CancelEscalated, ExpireUnfinalized, Live, LiveStates
    <2> QED BY <2>1 DEF Budget!Next
  <1>7. ASSUME NEW auditor \in Auditors, NEW m \in MandateIds, NEW ids \in SUBSET RequestIds,
               CreateAuditPacket(auditor, m, ids)
        PROVE  UNCHANGED views
    BY <1>7, ViewsKept DEF CreateAuditPacket, policyVars, spendVars
  <1>8. CASE OtherStep
    <2>1. UNCHANGED <<mandate, request>>
      BY <1>8 DEF OtherStep, SetFinanceAdmin, PauseAll, UnpauseAll, SetModuleEnabled,
         SafeTransfer, Wrap, Tick, policyVars, spendVars
    <2> QED BY <2>1, ViewsKept
  <1>9. CASE UNCHANGED vars
    BY <1>9, ViewsKept DEF vars, policyVars, spendVars
  <1> QED BY <1>1, <1>2, <1>3, <1>4, <1>5, <1>6, <1>7, <1>8, <1>9 DEF Next, OtherStep

\* The module implements the delegated budget it promises: every transaction is a
\* grant, a spend, a payment or an exact return, or leaves the budgets alone.
THEOREM ModuleImplementsDelegatedBudget == Spec => RefinesDelegatedBudget
  <1>1. Spec => []SlotInv /\ Init /\ [][Next]_vars
    BY SlotInvariant DEF Spec
  <1>2. Init /\ []SlotInv /\ [][Next]_vars => Budget!Init /\ [][Budget!Next]_(Budget!vars)
    BY InitRefines, StepRefines, PTL
  <1> QED BY <1>1, <1>2 DEF RefinesDelegatedBudget, Budget!Spec

-----------------------------------------------------------------------------
(* What the contract records and who may read it: a settled request, a     *)
(* retired mandate and a packet stay as they are; a packet tells the       *)
(* truth; refusals are spaced by the cooldown; the access list grants an   *)
(* auditor its packets and an owner what escalated.                        *)

(* The life of a request: it is made once, moves while it is live, and is  *)
(* left alone otherwise.                                                   *)

Made(q, d, m, to, a) ==
    /\ RequestSpend(d, m, to, a)
    /\ q = nextRequestId /\ request[q].state = "None"
    /\ request'[q] = NewRequest(d, m, to, a, q)

\* Request q moves to the state st of its life.
Moved(q, st) == Live(q) /\ request'[q] = [request[q] EXCEPT !.state = st]

Outcomes == TerminalStates \cup {"AwaitingSafeApproval"}

RequestLives ==
    \A q \in RequestIds :
        \/ request'[q] = request[q]
        \/ \E d \in Delegates, m \in MandateIds, to \in Accounts, a \in Amounts : Made(q, d, m, to, a)
        \/ \E st \in Outcomes : Moved(q, st)

\* The steps that touch a request or a cooldown.
LEMMA StepsOfRequests ==
    ASSUME [Next]_vars
    PROVE  \/ UNCHANGED spendVars
           \/ \E d \in Delegates, m \in MandateIds, to \in Accounts, a \in Amounts :
                 RequestSpend(d, m, to, a)
           \/ \E r \in RequestIds : \/ Finalize(r) \/ ExecuteEscalated(r)
                                    \/ CancelEscalated(r) \/ ExpireUnfinalized(r)
  <1>1. ASSUME NEW p \in Proposals, ProposeMandate(p) PROVE UNCHANGED spendVars
    BY <1>1 DEF ProposeMandate
  <1>2. ASSUME NEW m \in MandateIds, ActivateMandate(m) \/ RetireMandate(m) PROVE UNCHANGED spendVars
    BY <1>2 DEF ActivateMandate, RetireMandate
  <1>3. ASSUME NEW auditor \in Auditors, NEW m \in MandateIds, NEW ids \in SUBSET RequestIds,
               CreateAuditPacket(auditor, m, ids)
        PROVE  UNCHANGED spendVars
    BY <1>3 DEF CreateAuditPacket
  <1>4. OtherStep => UNCHANGED spendVars
    BY DEF OtherStep, SetFinanceAdmin, PauseAll, UnpauseAll, SetModuleEnabled, SafeTransfer, Wrap, Tick
  <1>5. UNCHANGED vars => UNCHANGED spendVars
    BY DEF vars
  <1> QED BY <1>1, <1>2, <1>3, <1>4, <1>5 DEF Next, OtherStep

LEMMA RequestSpendMakes ==
    ASSUME SlotInv, NEW d \in Delegates, NEW m \in MandateIds, NEW to \in Accounts,
           NEW a \in Amounts, RequestSpend(d, m, to, a)
    PROVE  /\ nextRequestId \in RequestIds
           /\ Made(nextRequestId, d, m, to, a)
           /\ \A q \in RequestIds : q # nextRequestId => request'[q] = request[q]
  <1>1. PICK r : r = nextRequestId
    OBVIOUS
  <1>2. TypeOK
    BY DEF SlotInv, TypeInv
  <1>3. r \in RequestIds /\ request[r].state = "None"
    <2>1. r \in 1 .. MaxRequests + 1 /\ r <= MaxRequests
      BY <1>1, <1>2, BoundsAssumption DEF TypeOK, RequestSpend
    <2>2. r \in RequestIds
      BY <2>1, BoundsAssumption DEF RequestIds
    <2> QED BY <1>1, <2>1, <2>2 DEF SlotInv, FreshIds
  <1>4. request' = [request EXCEPT ![r] = NewRequest(d, m, to, a, r)]
    BY <1>1 DEF RequestSpend, NewRequest
  <1> QED BY <1>1, <1>2, <1>3, <1>4 DEF Made, TypeOK

LEMMA SettlementMoves ==
    ASSUME SlotInv, NEW r \in RequestIds,
           \/ Finalize(r) \/ ExecuteEscalated(r) \/ CancelEscalated(r) \/ ExpireUnfinalized(r)
    PROVE  /\ \E st \in Outcomes : Moved(r, st)
           /\ \A q \in RequestIds : q # r => request'[q] = request[q]
  <1>1. Live(r) /\ request \in [RequestIds -> Request]
    BY DEF SlotInv, TypeInv, TypeOK, Live, LiveStates, Finalize, ExecuteEscalated, CancelEscalated,
       ExpireUnfinalized
  <1>2. PICK st \in Outcomes : request' = [request EXCEPT ![r].state = st]
    BY DEF Finalize, FinalizeExecute, FinalizeEscalate, FinalizeBlocked, ExecuteEscalated,
       CancelEscalated, ExpireUnfinalized, Refund, Outcomes, TerminalStates
  <1> QED BY <1>1, <1>2 DEF Moved

LEMMA RequestLife ==
    ASSUME SlotInv, [Next]_vars
    PROVE  RequestLives
  <1>1. CASE UNCHANGED spendVars
    BY <1>1 DEF spendVars, RequestLives
  <1>2. ASSUME NEW d \in Delegates, NEW m \in MandateIds, NEW to \in Accounts, NEW a \in Amounts,
               RequestSpend(d, m, to, a)
        PROVE  RequestLives
    BY <1>2, RequestSpendMakes DEF RequestLives
  <1>3. ASSUME NEW r \in RequestIds,
               Finalize(r) \/ ExecuteEscalated(r) \/ CancelEscalated(r) \/ ExpireUnfinalized(r)
        PROVE  RequestLives
    BY <1>3, SettlementMoves DEF RequestLives
  <1> QED BY <1>1, <1>2, <1>3, StepsOfRequests

\* What moves in a request is its state.
LEMMA MoveKeeps ==
    ASSUME SlotInv, NEW q \in RequestIds, NEW st \in Outcomes, Moved(q, st)
    PROVE  /\ Live(q) /\ request'[q].state = st
           /\ request'[q].mandateId = request[q].mandateId
           /\ request'[q].delegate = request[q].delegate
           /\ request'[q].createdAt = request[q].createdAt
           /\ request'[q].amount = request[q].amount
           /\ request'[q].reason = request[q].reason
           /\ request'[q].budgetBefore = request[q].budgetBefore
           /\ request'[q].decision = request[q].decision
  BY DEF SlotInv, TypeInv, TypeOK, Request, Moved

-----------------------------------------------------------------------------
(* What is final. *)

SettledKept ==
    \A r \in RequestIds : request[r].state \in TerminalStates => request'[r] = request[r]
RetiredKept ==
    \A m \in MandateIds : mandate[m].state = "Retired" => mandate'[m] = mandate[m]
PacketsKept ==
    \A p \in PacketIds : p < nextPacketId => packet'[p] = packet[p]

LEMMA SettledStep ==
    ASSUME SlotInv, [Next]_vars
    PROVE  SettledKept
  BY RequestLife DEF RequestLives, SettledKept, Made, Moved, Live, LiveStates, TerminalStates

LEMMA RetiredStep ==
    ASSUME SlotInv, [Next]_vars
    PROVE  RetiredKept
  <1>1. mandate \in [MandateIds -> Mandate]
    BY DEF SlotInv, TypeInv, TypeOK
  <1>2. ASSUME UNCHANGED mandate PROVE RetiredKept
    BY <1>2 DEF RetiredKept
  <1>3. ASSUME NEW p \in Proposals, ProposeMandate(p) PROVE RetiredKept
    <2>1. nextMandateId \in MandateIds
      BY <1>3, BoundsAssumption DEF SlotInv, TypeInv, TypeOK, ProposeMandate, MandateIds
    <2>2. mandate[nextMandateId].state = "None"
      BY <2>1, BoundsAssumption DEF SlotInv, FreshIds, MandateIds
    <2> QED BY <1>1, <1>3, <2>1, <2>2 DEF ProposeMandate, RetiredKept
  <1>4. ASSUME NEW n \in MandateIds, ActivateMandate(n) PROVE RetiredKept
    <2>1. mandate[n].delegate \in Delegates /\ mandate[n].state = "Draft"
      BY <1>4 DEF ActivateMandate, SlotInv, DraftedForDelegate
    <2>2. \A i \in MandateIds : i = activeMandateOf[mandate[n].delegate] => mandate[i].state = "Active"
      BY <2>1 DEF SlotInv, SingleActiveMandate
    <2> QED BY <1>4, <2>1, <2>2 DEF ActivateMandate, Activated, RetiredKept
  <1>5. ASSUME NEW n \in MandateIds, RetireMandate(n) PROVE RetiredKept
    BY <1>1, <1>5 DEF RetireMandate, RetiredKept
  <1>6. ASSUME NEW d \in Delegates, NEW m \in MandateIds, NEW to \in Accounts, NEW a \in Amounts,
               RequestSpend(d, m, to, a)
        PROVE  RetiredKept
    BY <1>1, <1>6 DEF RequestSpend, Admitted, RetiredKept
  <1>7. ASSUME NEW r \in RequestIds, Finalize(r) \/ ExecuteEscalated(r) PROVE RetiredKept
    BY <1>2, <1>7 DEF Finalize, ExecuteEscalated, policyVars
  <1>8. ASSUME NEW r \in RequestIds, CancelEscalated(r) \/ ExpireUnfinalized(r) PROVE RetiredKept
    <2>1. mandate[request[r].mandateId].state = "Active"
      BY <1>8 DEF CancelEscalated, ExpireUnfinalized, SlotInv, LiveOwned, Live, LiveStates
    <2> QED BY <1>1, <1>8, <2>1 DEF CancelEscalated, ExpireUnfinalized, Refund, RetiredKept
  <1>9. ASSUME NEW auditor \in Auditors, NEW m \in MandateIds, NEW ids \in SUBSET RequestIds,
               CreateAuditPacket(auditor, m, ids)
        PROVE  RetiredKept
    BY <1>2, <1>9 DEF CreateAuditPacket, policyVars
  <1>10. CASE OtherStep
    BY <1>2, <1>10 DEF OtherStep, SetFinanceAdmin, PauseAll, UnpauseAll, SetModuleEnabled,
       SafeTransfer, Wrap, Tick, policyVars
  <1>11. CASE UNCHANGED vars
    BY <1>2, <1>11 DEF vars, policyVars
  <1> QED BY <1>3, <1>4, <1>5, <1>6, <1>7, <1>8, <1>9, <1>10, <1>11 DEF Next, OtherStep

\* The steps that touch a packet.
LEMMA StepsOfPackets ==
    ASSUME [Next]_vars
    PROVE  \/ UNCHANGED packetVars
           \/ \E auditor \in Auditors, m \in MandateIds, ids \in SUBSET RequestIds :
                 CreateAuditPacket(auditor, m, ids)
  <1>1. ASSUME NEW r \in RequestIds,
               Finalize(r) \/ ExecuteEscalated(r) \/ CancelEscalated(r) \/ ExpireUnfinalized(r)
        PROVE  UNCHANGED packetVars
    BY <1>1 DEF Finalize, ExecuteEscalated, CancelEscalated, ExpireUnfinalized, Refund
  <1>2. ASSUME NEW p \in Proposals, ProposeMandate(p) PROVE UNCHANGED packetVars
    BY <1>2 DEF ProposeMandate
  <1>3. ASSUME NEW m \in MandateIds, ActivateMandate(m) \/ RetireMandate(m) PROVE UNCHANGED packetVars
    BY <1>3 DEF ActivateMandate, RetireMandate
  <1>4. ASSUME NEW d \in Delegates, NEW m \in MandateIds, NEW to \in Accounts, NEW a \in Amounts,
               RequestSpend(d, m, to, a)
        PROVE  UNCHANGED packetVars
    BY <1>4 DEF RequestSpend
  <1>5. OtherStep => UNCHANGED packetVars
    BY DEF OtherStep, SetFinanceAdmin, PauseAll, UnpauseAll, SetModuleEnabled, SafeTransfer, Wrap, Tick
  <1>6. UNCHANGED vars => UNCHANGED packetVars
    BY DEF vars
  <1> QED BY <1>1, <1>2, <1>3, <1>4, <1>5, <1>6 DEF Next, OtherStep

NewPacket(auditor, m, ids, p) ==
    [auditor |-> auditor, mandateId |-> m, policyVersion |-> m, createdAt |-> now,
     requestIds |-> ids, snapshots |-> Snapshots(p, m, ids)]

LEMMA CreateAuditPacketMakes ==
    ASSUME SlotInv, NEW auditor \in Auditors, NEW m \in MandateIds, NEW ids \in SUBSET RequestIds,
           CreateAuditPacket(auditor, m, ids)
    PROVE  /\ nextPacketId \in PacketIds /\ nextPacketId' = nextPacketId + 1
           /\ packet'[nextPacketId] = NewPacket(auditor, m, ids, nextPacketId)
           /\ \A p \in PacketIds : p # nextPacketId => packet'[p] = packet[p]
  <1>1. PICK n : n = nextPacketId
    OBVIOUS
  <1>2. n \in PacketIds /\ packet \in [PacketIds -> Packet]
    BY <1>1, BoundsAssumption DEF SlotInv, TypeInv, TypeOK, CreateAuditPacket, PacketIds
  <1>3. packet' = [packet EXCEPT ![n] = NewPacket(auditor, m, ids, n)] /\ nextPacketId' = n + 1
    BY <1>1 DEF CreateAuditPacket, NewPacket
  <1> QED BY <1>1, <1>2, <1>3

LEMMA PacketStep ==
    ASSUME SlotInv, [Next]_vars
    PROVE  PacketsKept
  <1>1. CASE UNCHANGED packetVars
    BY <1>1 DEF packetVars, PacketsKept
  <1>2. ASSUME NEW auditor \in Auditors, NEW m \in MandateIds, NEW ids \in SUBSET RequestIds,
               CreateAuditPacket(auditor, m, ids)
        PROVE  PacketsKept
    <2>1. nextPacketId \in Int
      BY BoundsAssumption DEF SlotInv, TypeInv, TypeOK
    <2> QED BY <1>2, <2>1, CreateAuditPacketMakes DEF PacketsKept, PacketIds
  <1> QED BY <1>1, <1>2, StepsOfPackets

\* Nothing that was settled, retired or handed to an auditor is rewritten by a later
\* call, whoever makes it and in whatever order.
THEOREM RecordsAreFinal == Spec => SettledIsFinal
  <1>1. SlotInv /\ [Next]_vars =>
          [/\ \A r \in RequestIds :
                request[r].state \in TerminalStates => request'[r] = request[r]
           /\ \A m \in MandateIds :
                mandate[m].state = "Retired" => mandate'[m] = mandate[m]
           /\ \A p \in PacketIds :
                p < nextPacketId => packet'[p] = packet[p]]_vars
    BY SettledStep, RetiredStep, PacketStep DEF SettledKept, RetiredKept, PacketsKept
  <1> QED BY <1>1, SlotInvariant, PTL DEF Spec, SettledIsFinal

-----------------------------------------------------------------------------
(* Packets tell the truth. *)

PacketInv ==
    /\ SlotInv
    /\ \A p \in PacketIds : p >= nextPacketId => packet[p].requestIds = {}
    /\ PacketsStayTrue

LEMMA PacketInvStep == PacketInv /\ [Next]_vars => PacketInv'
  <1> SUFFICES ASSUME PacketInv, [Next]_vars PROVE PacketInv'
    OBVIOUS
  <1>1. SlotInv /\ SlotInv' /\ SettledKept /\ PacketsKept
    BY SlotStep, SettledStep, PacketStep DEF PacketInv
  <1>2. nextPacketId \in Int /\ \A p \in PacketIds : p \in Int
    BY <1>1, BoundsAssumption DEF SlotInv, TypeInv, TypeOK, PacketIds
  <1>3. ASSUME NEW p \in PacketIds, packet'[p] = packet[p], NEW r \in RequestIds,
               r \in packet'[p].requestIds
        PROVE  /\ request'[r].mandateId = packet'[p].mandateId
               /\ request'[r].state \in TerminalStates
               /\ Cipher(<<"snapAmount", p, r>>, request'[r].amount.val) \in packet'[p].snapshots
               /\ Cipher(<<"snapReason", p, r>>, request'[r].reason.val) \in packet'[p].snapshots
    BY <1>1, <1>3 DEF PacketInv, PacketsStayTrue, SettledKept
  <1>4. CASE UNCHANGED packetVars
    BY <1>1, <1>3, <1>4 DEF PacketInv, PacketsStayTrue, packetVars
  <1>5. ASSUME NEW auditor \in Auditors, NEW m \in MandateIds, NEW ids \in SUBSET RequestIds,
               CreateAuditPacket(auditor, m, ids)
        PROVE  PacketInv'
    <2>1. PICK n : n = nextPacketId
      OBVIOUS
    <2>2. /\ n \in PacketIds /\ nextPacketId' = n + 1
          /\ packet'[n] = NewPacket(auditor, m, ids, n)
          /\ \A p \in PacketIds : p # n => packet'[p] = packet[p]
      BY <1>1, <1>5, <2>1, CreateAuditPacketMakes
    <2>3. \A p \in PacketIds : p >= n + 1 => packet'[p].requestIds = {}
      BY <1>2, <2>1, <2>2 DEF PacketInv
    <2>4. UNCHANGED request /\ \A r \in ids : Disclosable(m, r)
      BY <1>5 DEF CreateAuditPacket, spendVars
    <2>5. ASSUME NEW r \in RequestIds, r \in packet'[n].requestIds
          PROVE  /\ request'[r].mandateId = packet'[n].mandateId
                 /\ request'[r].state \in TerminalStates
                 /\ Cipher(<<"snapAmount", n, r>>, request'[r].amount.val) \in packet'[n].snapshots
                 /\ Cipher(<<"snapReason", n, r>>, request'[r].reason.val) \in packet'[n].snapshots
      <3>1. r \in ids
        BY <2>2, <2>5 DEF NewPacket
      <3>2. /\ Cipher(<<"snapAmount", n, r>>, request[r].amount.val) \in Snapshots(n, m, ids)
            /\ Cipher(<<"snapReason", n, r>>, request[r].reason.val) \in Snapshots(n, m, ids)
        BY <3>1 DEF Snapshots
      <3> QED BY <2>2, <2>4, <3>1, <3>2 DEF NewPacket, Disclosable
    <2> QED BY <1>1, <1>3, <2>1, <2>2, <2>3, <2>5 DEF PacketInv, PacketsStayTrue
  <1> QED BY <1>4, <1>5, StepsOfPackets

LEMMA PacketInvInit == Init => PacketInv
  BY SlotInvInit DEF Init, NoPacket, PacketInv, PacketsStayTrue

\* A packet never comes to say something else than the requests it covers, however
\* many requests, packets and mandates follow.
THEOREM PacketsAreTrue == Spec => []PacketsStayTrue
  <1>1. PacketInv => PacketsStayTrue
    BY DEF PacketInv
  <1> QED BY <1>1, PacketInvInit, PacketInvStep, PTL DEF Spec

-----------------------------------------------------------------------------
(* Refusals are spaced.  The cooldown of a refusal is served by the time   *)
(* its delegate can ask again: either finalize wrote it, or the request    *)
(* lived until its expiry, which is at least as long.  Until then the      *)
(* request in flight holds the slot.                                       *)

\* An id that is not used names no request; one that is names a request of the past.
RequestsRecorded ==
    \A r \in RequestIds :
        /\ request[r].state = "None" => request[r] = NoRequest
        /\ request[r].state # "None" => request[r].createdAt <= now
                                        /\ request[r].delegate \in Delegates

CooldownServed ==
    \A r \in RequestIds :
        request[r].state \in TerminalStates /\ request[r].decision = D_BLOCKED =>
            \/ cooldownUntil[request[r].delegate] >= request[r].createdAt + BLOCKED_COOLDOWN
            \/ now >= request[r].createdAt + BLOCKED_COOLDOWN

SpacingInv == SlotInv /\ RequestsRecorded /\ CooldownServed /\ ProbeSpacing

\* What a step does to the clock and to a cooldown it does not write.
LEMMA ClockGoesOn ==
    ASSUME SlotInv, [Next]_vars
    PROVE  now' \in Nat /\ now \in Nat /\ now' >= now
  <1>1. now \in Nat
    BY DEF SlotInv, TypeInv, TypeOK
  <1>2. ASSUME UNCHANGED now PROVE now' >= now
    BY <1>1, <1>2
  <1>3. ASSUME NEW p \in Proposals, ProposeMandate(p) PROVE UNCHANGED now
    BY <1>3 DEF ProposeMandate
  <1>4. ASSUME NEW m \in MandateIds, ActivateMandate(m) \/ RetireMandate(m) PROVE UNCHANGED now
    BY <1>4 DEF ActivateMandate, RetireMandate
  <1>5. ASSUME NEW d \in Delegates, NEW m \in MandateIds, NEW to \in Accounts, NEW a \in Amounts,
               RequestSpend(d, m, to, a)
        PROVE  UNCHANGED now
    BY <1>5 DEF RequestSpend
  <1>6. ASSUME NEW r \in RequestIds,
               Finalize(r) \/ ExecuteEscalated(r) \/ CancelEscalated(r) \/ ExpireUnfinalized(r)
        PROVE  UNCHANGED now
    BY <1>6 DEF Finalize, ExecuteEscalated, CancelEscalated, ExpireUnfinalized, Refund
  <1>7. ASSUME NEW auditor \in Auditors, NEW m \in MandateIds, NEW ids \in SUBSET RequestIds,
               CreateAuditPacket(auditor, m, ids)
        PROVE  UNCHANGED now
    BY <1>7 DEF CreateAuditPacket
  <1>8. OtherStep => now' = now \/ now' = now + 1
    BY DEF OtherStep, SetFinanceAdmin, PauseAll, UnpauseAll, SetModuleEnabled, SafeTransfer, Wrap, Tick
  <1>9. UNCHANGED vars => UNCHANGED now
    BY DEF vars
  <1>10. now' = now \/ now' = now + 1
    BY <1>3, <1>4, <1>5, <1>6, <1>7, <1>8, <1>9 DEF Next, OtherStep
  <1> QED BY <1>1, <1>10

LEMMA RequestsRecordedStep ==
    ASSUME SlotInv, RequestsRecorded, [Next]_vars
    PROVE  RequestsRecorded'
  <1>1. /\ now' \in Nat /\ now \in Nat /\ now' >= now
        /\ \A q \in RequestIds : request[q].createdAt \in Nat
    BY ClockGoesOn DEF SlotInv, TypeInv, TypeOK, Request
  <1> SUFFICES ASSUME NEW q \in RequestIds
               PROVE  /\ request'[q].state = "None" => request'[q] = NoRequest
                      /\ request'[q].state # "None" => request'[q].createdAt <= now'
                                                       /\ request'[q].delegate \in Delegates
    BY DEF RequestsRecorded
  <1>2. CASE request'[q] = request[q]
    BY <1>1, <1>2 DEF RequestsRecorded
  <1>3. ASSUME NEW d \in Delegates, NEW m \in MandateIds, NEW to \in Accounts, NEW a \in Amounts,
               Made(q, d, m, to, a)
        PROVE  /\ request'[q].state = "Requested" /\ request'[q].createdAt = now
               /\ request'[q].delegate \in Delegates
    BY <1>3 DEF Made, NewRequest
  <1>4. ASSUME NEW st \in Outcomes, Moved(q, st)
        PROVE  /\ request'[q].state # "None" /\ request'[q].createdAt <= now'
               /\ request'[q].delegate \in Delegates
    <2>1. request[q].state # "None" /\ request[q].createdAt <= now /\ request[q].delegate \in Delegates
      BY <1>4 DEF Moved, Live, LiveStates, RequestsRecorded
    <2>2. /\ request'[q].state = st /\ request'[q].createdAt = request[q].createdAt
          /\ request'[q].delegate = request[q].delegate
      BY <1>4, MoveKeeps
    <2> QED BY <1>1, <2>1, <2>2 DEF Outcomes, TerminalStates
  <1> QED BY <1>1, <1>2, <1>3, <1>4, RequestLife DEF RequestLives

\* A refusal never waits for the owners.
LEMMA LiveRefusal ==
    ASSUME SlotInv, NEW r \in RequestIds, Live(r), request[r].decision = D_BLOCKED
    PROVE  request[r].state = "Requested"
  BY DEF SlotInv, ReservedByDecision, Live, LiveStates, D_BLOCKED, D_ESCALATE

LEMMA CooldownServedStep ==
    ASSUME SlotInv, RequestsRecorded, CooldownServed, [Next]_vars
    PROVE  CooldownServed'
  <1>1. /\ now' \in Nat /\ now \in Nat /\ now' >= now
        /\ \A q \in RequestIds : request[q].createdAt \in Nat
        /\ cooldownUntil \in [Delegates -> Nat]
        /\ BLOCKED_COOLDOWN \in Nat /\ REQUEST_EXPIRY \in Nat /\ BLOCKED_COOLDOWN <= REQUEST_EXPIRY
    BY ClockGoesOn, TimingAssumption DEF SlotInv, TypeInv, TypeOK, Request
  <1> DEFINE Served(q) == \/ cooldownUntil'[request'[q].delegate] >= request'[q].createdAt + BLOCKED_COOLDOWN
                          \/ now' >= request'[q].createdAt + BLOCKED_COOLDOWN
  <1>2. ASSUME NEW q \in RequestIds, request'[q] = request[q], UNCHANGED cooldownUntil,
               request'[q].state \in TerminalStates, request'[q].decision = D_BLOCKED
        PROVE  Served(q)
    BY <1>1, <1>2 DEF CooldownServed
  <1>3. CASE UNCHANGED spendVars
    BY <1>2, <1>3 DEF spendVars, CooldownServed
  <1>4. ASSUME NEW d \in Delegates, NEW m \in MandateIds, NEW to \in Accounts, NEW a \in Amounts,
               RequestSpend(d, m, to, a)
        PROVE  CooldownServed'
    <2>1. UNCHANGED cooldownUntil
      BY <1>4 DEF RequestSpend
    <2>2. PICK n : n = nextRequestId
      OBVIOUS
    <2>3. Made(n, d, m, to, a) /\ \A q \in RequestIds : q # n => request'[q] = request[q]
      BY <1>4, <2>2, RequestSpendMakes
    <2>4. request'[n].state = "Requested"
      BY <2>3 DEF Made, NewRequest
    <2>5. \A q \in RequestIds : request'[q].state \in TerminalStates => request'[q] = request[q]
      BY <2>3, <2>4 DEF TerminalStates
    <2> QED BY <1>2, <2>1, <2>5 DEF CooldownServed
  <1>5. ASSUME NEW r \in RequestIds, ExecuteEscalated(r) \/ CancelEscalated(r) \/ ExpireUnfinalized(r)
        PROVE  CooldownServed'
    <2>1. UNCHANGED cooldownUntil
      BY <1>5 DEF ExecuteEscalated, CancelEscalated, ExpireUnfinalized, Refund
    <2>2. PICK st \in Outcomes : Moved(r, st)
      BY <1>5, SettlementMoves
    <2>3. \A q \in RequestIds : q # r => request'[q] = request[q]
      BY <1>5, SettlementMoves
    <2>4. ASSUME request'[r].decision = D_BLOCKED PROVE Served(r)
      <3>1. /\ Live(r) /\ request[r].decision = D_BLOCKED
            /\ request'[r].createdAt = request[r].createdAt
        BY <2>2, <2>4, MoveKeeps
      <3>2. ExpireUnfinalized(r)
        BY <1>5, <3>1, LiveRefusal DEF ExecuteEscalated, CancelEscalated
      <3>3. now >= request[r].createdAt + REQUEST_EXPIRY
        BY <3>2 DEF ExpireUnfinalized
      <3> QED BY <1>1, <3>1, <3>3
    <2> QED BY <1>2, <2>1, <2>3, <2>4 DEF CooldownServed
  <1>6. ASSUME NEW r \in RequestIds, Finalize(r) PROVE CooldownServed'
    <2>1. PICK st \in Outcomes : Moved(r, st)
      BY <1>6, SettlementMoves
    <2>2. \A q \in RequestIds : q # r => request'[q] = request[q]
      BY <1>6, SettlementMoves
    <2>3. /\ request'[r].createdAt = request[r].createdAt /\ request'[r].delegate = request[r].delegate
          /\ request'[r].decision = request[r].decision /\ request[r].state = "Requested"
          /\ request[r].createdAt <= now /\ request[r].delegate \in Delegates
      BY <1>6, <2>1, MoveKeeps DEF Finalize, RequestsRecorded
    <2>4. CASE FinalizeBlocked(r)
      <3>1. PICK d \in Delegates : d = request[r].delegate
        BY <2>3
      <3>2. cooldownUntil' = [cooldownUntil EXCEPT ![d] = now + BLOCKED_COOLDOWN]
        BY <2>4, <3>1 DEF FinalizeBlocked
      <3>3. ASSUME NEW q \in RequestIds, request'[q].delegate = d, request'[q].createdAt <= now,
                   request'[q].createdAt \in Nat
            PROVE  Served(q)
        BY <1>1, <3>2, <3>3
      <3>4. ASSUME NEW q \in RequestIds, q # r,
                   request'[q].state \in TerminalStates, request'[q].decision = D_BLOCKED
            PROVE  Served(q)
        <4>1. request'[q] = request[q] /\ request[q].createdAt <= now
          BY <2>2, <3>4 DEF RequestsRecorded, TerminalStates
        <4>2. CASE request[q].delegate = d
          BY <1>1, <3>3, <4>1, <4>2
        <4>3. CASE request[q].delegate # d
          <5>1. request[q].delegate \in Delegates
            BY <3>4, <4>1 DEF RequestsRecorded, TerminalStates
          <5>2. cooldownUntil'[request[q].delegate] = cooldownUntil[request[q].delegate]
            BY <1>1, <3>2, <4>3, <5>1
          <5> QED BY <1>1, <3>4, <4>1, <5>2 DEF CooldownServed
        <4> QED BY <4>2, <4>3
      <3>5. Served(r)
        BY <1>1, <2>3, <3>1, <3>3
      <3> QED BY <3>4, <3>5 DEF CooldownServed
    <2>5. CASE FinalizeExecute(r) \/ FinalizeEscalate(r)
      <3>1. UNCHANGED cooldownUntil /\ request'[r].decision # D_BLOCKED
        BY <2>3, <2>5 DEF FinalizeExecute, FinalizeEscalate, D_EXECUTE, D_ESCALATE, D_BLOCKED
      <3> QED BY <1>2, <2>2, <3>1 DEF CooldownServed
    <2> QED BY <1>6, <2>4, <2>5 DEF Finalize
  <1> QED BY <1>3, <1>4, <1>5, <1>6, StepsOfRequests

LEMMA ProbeSpacingStep ==
    ASSUME SpacingInv, [Next]_vars
    PROVE  ProbeSpacing'
  <1>1. SlotInv /\ RequestsRecorded /\ CooldownServed /\ ProbeSpacing
    BY DEF SpacingInv
  <1>2. /\ \A q \in RequestIds : q \in Nat /\ request[q].createdAt \in Nat
        /\ now \in Nat /\ cooldownUntil \in [Delegates -> Nat] /\ BLOCKED_COOLDOWN \in Nat
        /\ nextRequestId \in Nat
    BY <1>1, BoundsAssumption, TimingAssumption DEF SlotInv, TypeInv, TypeOK, Request, RequestIds
  <1>3. ASSUME NEW q \in RequestIds,
               ~ \E d \in Delegates, m \in MandateIds, to \in Accounts, a \in Amounts : Made(q, d, m, to, a)
        PROVE  /\ request'[q].createdAt = request[q].createdAt
               /\ request'[q].delegate = request[q].delegate
               /\ request'[q].decision = request[q].decision
               /\ request'[q].state # "None" <=> request[q].state # "None"
    <2>1. RequestLives
      BY <1>1, RequestLife
    <2>2. CASE request'[q] = request[q]
      BY <2>2
    <2>3. ASSUME NEW st \in Outcomes, Moved(q, st)
          PROVE  /\ request'[q].createdAt = request[q].createdAt
                 /\ request'[q].delegate = request[q].delegate
                 /\ request'[q].decision = request[q].decision
                 /\ request'[q].state # "None" /\ request[q].state # "None"
      BY <1>1, <2>3, MoveKeeps DEF Live, LiveStates, Outcomes, TerminalStates
    <2> QED BY <1>3, <2>1, <2>2, <2>3 DEF RequestLives
  <1> SUFFICES ASSUME NEW r \in RequestIds, NEW s \in RequestIds,
                      r < s, request'[s].state # "None",
                      request'[r].delegate = request'[s].delegate, request'[r].decision = D_BLOCKED
               PROVE  request'[s].createdAt >= request'[r].createdAt + BLOCKED_COOLDOWN
    BY DEF ProbeSpacing
  <1>4. ASSUME NEW d \in Delegates, NEW m \in MandateIds, NEW to \in Accounts, NEW a \in Amounts,
               Made(r, d, m, to, a)
        PROVE  FALSE
    <2>1. r = nextRequestId /\ RequestSpend(d, m, to, a)
      BY <1>4 DEF Made
    <2>2. request[s].state = "None"
      BY <1>1, <1>2, <2>1 DEF SlotInv, FreshIds
    <2>3. request'[s] = request[s]
      BY <1>1, <1>2, <2>1, RequestSpendMakes
    <2> QED BY <2>2, <2>3
  <1>5. ASSUME NEW d \in Delegates, NEW m \in MandateIds, NEW to \in Accounts, NEW a \in Amounts,
               Made(s, d, m, to, a)
        PROVE  request'[s].createdAt >= request'[r].createdAt + BLOCKED_COOLDOWN
    <2>1. /\ request'[s].createdAt = now /\ request'[s].delegate = d
          /\ s = nextRequestId /\ RequestSpend(d, m, to, a)
      BY <1>5 DEF Made, NewRequest
    <2>2. request'[r] = request[r]
      <3>1. r # s
        BY <1>2
      <3> QED BY <1>1, <2>1, <3>1, RequestSpendMakes
    <2>3. request[r].state # "None" /\ request[r].delegate = d /\ request[r].decision = D_BLOCKED
      BY <1>1, <2>1, <2>2 DEF RequestsRecorded, NoRequest, D_BLOCKED
    <2>4. ~Live(r)
      <3> SUFFICES ASSUME Live(r) PROVE FALSE
        OBVIOUS
      <3>1. PICK n \in MandateIds : n = request[r].mandateId
        BY <1>1, <2>3 DEF SlotInv, TypeInv, MadeUnderMandate
      <3>2. mandate[n].state = "Active" /\ mandate[n].delegate = d
        BY <1>1, <2>3, <3>1 DEF SlotInv, LiveOwned
      <3>3. activeMandateOf[d] = n /\ activeMandateOf[d] = m /\ SlotFree(m)
        BY <1>1, <2>1, <3>2 DEF SlotInv, SingleActiveMandate, RequestSpend, Admitted
      <3>4. pendingRequestOf[n] = r /\ pendingRequestOf[n] = 0
        <4>1. m # 0 /\ m = n
          BY <3>3, BoundsAssumption DEF MandateIds
        <4> QED BY <1>1, <3>1, <3>3, <4>1 DEF SlotInv, SlotExact, SlotFree
      <3> QED BY <3>4 DEF RequestIds
    <2>5. request[r].state \in TerminalStates
      BY <1>1, <2>3, <2>4 DEF SlotInv, TypeInv, TypeOK, Request, RequestStates, TerminalStates,
         Live, LiveStates
    <2>6. now >= cooldownUntil[d]
      BY <2>1 DEF RequestSpend, Admitted
    <2>7. now >= request[r].createdAt + BLOCKED_COOLDOWN
      BY <1>1, <1>2, <2>3, <2>5, <2>6 DEF CooldownServed
    <2> QED BY <2>1, <2>2, <2>7
  <1>6. CASE /\ ~ \E d \in Delegates, m \in MandateIds, to \in Accounts, a \in Amounts : Made(r, d, m, to, a)
             /\ ~ \E d \in Delegates, m \in MandateIds, to \in Accounts, a \in Amounts : Made(s, d, m, to, a)
    BY <1>1, <1>3, <1>6 DEF ProbeSpacing
  <1> QED BY <1>4, <1>5, <1>6

LEMMA SpacingInvariant == Spec => []SpacingInv
  <1>1. Init => SpacingInv
    <2> SUFFICES ASSUME Init PROVE SpacingInv
      OBVIOUS
    <2>1. \A r \in RequestIds : request[r] = NoRequest
      BY DEF Init
    <2> QED BY <2>1, SlotInvInit DEF NoRequest, SpacingInv, RequestsRecorded, CooldownServed,
            ProbeSpacing, TerminalStates
  <1>2. SpacingInv /\ [Next]_vars => SpacingInv'
    <2> SUFFICES ASSUME SpacingInv, [Next]_vars PROVE SpacingInv'
      OBVIOUS
    <2>1. SlotInv' /\ RequestsRecorded' /\ CooldownServed'
      BY SlotStep, RequestsRecordedStep, CooldownServedStep DEF SpacingInv
    <2> QED BY <2>1, ProbeSpacingStep DEF SpacingInv
  <1> QED BY <1>1, <1>2, PTL DEF Spec

\* A refused delegate waits out the cooldown before it learns from another request,
\* whether its refusal was finalized or left to expire, and under every mandate it has.
THEOREM ProbesAreSpaced == Spec => []ProbeSpacing
  <1>1. SpacingInv => ProbeSpacing
    BY DEF SpacingInv
  <1> QED BY <1>1, SpacingInvariant, PTL

-----------------------------------------------------------------------------
(* Who may read what.  The access list only grows, so a handle must never  *)
(* come to mean more than it did when its viewer was added: the kinds of   *)
(* the handles a mandate and a request carry are part of the invariant.    *)

PureAuditors == Auditors \ (Owners \cup Admins \cup Delegates)
PureOwners   == Owners \ (Auditors \cup Admins \cup Delegates)

PolicyKinds == {"none", "autoLimit", "budgetLeft", "reserveFloor"}

MandateHandlesNamed ==
    \A m \in MandateIds : \A h \in PolicyHandles(mandate[m]) : h[1] \in PolicyKinds
RequestHandlesNamed ==
    \A r \in RequestIds :
        /\ request[r].budgetBefore.handle[1] \in PolicyKinds
        /\ request[r].state # "None" => request[r].amount.handle = <<"amount", r, 0>>

\* A viewer that has one role only is entitled to what it views.
Entitled(v) ==
    /\ v[1] \in PureAuditors =>
          /\ v[2][1] \in SnapshotKinds
          /\ v[2][2] \in PacketIds /\ v[2][2] < nextPacketId
          /\ packet[v[2][2]].auditor = v[1]
    /\ v[1] \in PureOwners /\ v[2][1] = "amount" =>
          /\ v[2][2] \in RequestIds /\ request[v[2][2]].state \notin {"None", "Requested"}
          /\ request[v[2][2]].decision = D_ESCALATE

ScopeInv ==
    /\ SlotInv
    /\ MandateHandlesNamed /\ RequestHandlesNamed
    /\ \A v \in viewers : Entitled(v)

LEMMA MandateHandlesStep ==
    ASSUME SlotInv, MandateHandlesNamed, RequestHandlesNamed, [Next]_vars
    PROVE  MandateHandlesNamed'
  <1>1. mandate \in [MandateIds -> Mandate]
    BY DEF SlotInv, TypeInv, TypeOK
  <1>2. \A m \in MandateIds : /\ mandate[m].autoLimit.handle[1] \in PolicyKinds
                              /\ mandate[m].budgetLeft.handle[1] \in PolicyKinds
                              /\ mandate[m].reserveFloor.handle[1] \in PolicyKinds
    BY DEF MandateHandlesNamed, PolicyHandles
  <1>3. SUFFICES \A m \in MandateIds : /\ mandate'[m].autoLimit.handle[1] \in PolicyKinds
                                       /\ mandate'[m].budgetLeft.handle[1] \in PolicyKinds
                                       /\ mandate'[m].reserveFloor.handle[1] \in PolicyKinds
    BY DEF MandateHandlesNamed, PolicyHandles
  <1> DEFINE Named == \A m \in MandateIds : /\ mandate'[m].autoLimit.handle[1] \in PolicyKinds
                                            /\ mandate'[m].budgetLeft.handle[1] \in PolicyKinds
                                            /\ mandate'[m].reserveFloor.handle[1] \in PolicyKinds
  <1>4. ASSUME UNCHANGED mandate PROVE Named
    BY <1>2, <1>4
  <1>5. ASSUME NEW p \in Proposals, ProposeMandate(p) PROVE Named
    <2>1. PICK n : n = nextMandateId
      OBVIOUS
    <2>2. n \in MandateIds
      BY <1>5, <2>1, BoundsAssumption DEF SlotInv, TypeInv, TypeOK, ProposeMandate, MandateIds
    <2>3. /\ mandate'[n].autoLimit.handle[1] = "autoLimit"
          /\ mandate'[n].budgetLeft.handle[1] = "budgetLeft"
          /\ mandate'[n].reserveFloor.handle[1] = "reserveFloor"
          /\ \A m \in MandateIds : m # n => mandate'[m] = mandate[m]
      BY <1>1, <1>5, <2>1, <2>2 DEF ProposeMandate, Cipher
    <2> QED BY <1>2, <2>3 DEF PolicyKinds
  <1>6. ASSUME NEW n \in MandateIds, ActivateMandate(n) PROVE Named
    <2>1. \A m \in MandateIds : /\ mandate'[m].autoLimit = mandate[m].autoLimit
                                /\ mandate'[m].budgetLeft = mandate[m].budgetLeft
                                /\ mandate'[m].reserveFloor = mandate[m].reserveFloor
      BY <1>1, <1>6 DEF ActivateMandate, Activated, Mandate
    <2> QED BY <1>2, <2>1
  <1>7. ASSUME NEW n \in MandateIds, RetireMandate(n) PROVE Named
    <2>1. \A m \in MandateIds : /\ mandate'[m].autoLimit = mandate[m].autoLimit
                                /\ mandate'[m].budgetLeft = mandate[m].budgetLeft
                                /\ mandate'[m].reserveFloor = mandate[m].reserveFloor
      BY <1>1, <1>7 DEF RetireMandate, Mandate
    <2> QED BY <1>2, <2>1
  <1>8. ASSUME NEW n \in MandateIds, NEW c, c.handle[1] \in PolicyKinds,
               mandate' = [mandate EXCEPT ![n].budgetLeft = c]
        PROVE  Named
    <2>1. \A m \in MandateIds : /\ mandate'[m].autoLimit = mandate[m].autoLimit
                                /\ mandate'[m].budgetLeft = IF m = n THEN c ELSE mandate[m].budgetLeft
                                /\ mandate'[m].reserveFloor = mandate[m].reserveFloor
      BY <1>1, <1>8 DEF Mandate
    <2> QED BY <1>2, <1>8, <2>1
  <1>9. ASSUME NEW d \in Delegates, NEW m \in MandateIds, NEW to \in Accounts, NEW a \in Amounts,
               RequestSpend(d, m, to, a)
        PROVE  Named
    <2>1. PICK c : /\ c = Cipher(<<"budgetLeft", m, nextRequestId>>, mandate[m].budgetLeft.val - Reserved(m, a))
                   /\ mandate' = [mandate EXCEPT ![m].budgetLeft = c]
      BY <1>9 DEF RequestSpend
    <2>2. c.handle[1] \in PolicyKinds
      BY <2>1 DEF Cipher, PolicyKinds
    <2> QED BY <1>8, <2>1, <2>2
  <1>10. ASSUME NEW r \in RequestIds, Finalize(r) \/ ExecuteEscalated(r) PROVE Named
    BY <1>4, <1>10 DEF Finalize, ExecuteEscalated, policyVars
  <1>11. ASSUME NEW r \in RequestIds, CancelEscalated(r) \/ ExpireUnfinalized(r) PROVE Named
    <2>1. /\ mandate' = [mandate EXCEPT ![request[r].mandateId].budgetLeft = request[r].budgetBefore]
          /\ request[r].state # "None"
      BY <1>11 DEF CancelEscalated, ExpireUnfinalized, Refund, RestoredBudget
    <2>2. request[r].mandateId \in MandateIds /\ request[r].budgetBefore.handle[1] \in PolicyKinds
      BY <2>1 DEF SlotInv, TypeInv, MadeUnderMandate, RequestHandlesNamed
    <2> QED BY <1>8, <2>1, <2>2
  <1>12. ASSUME NEW auditor \in Auditors, NEW m \in MandateIds, NEW ids \in SUBSET RequestIds,
                CreateAuditPacket(auditor, m, ids)
         PROVE  Named
    BY <1>4, <1>12 DEF CreateAuditPacket, policyVars
  <1>13. ASSUME OtherStep PROVE Named
    BY <1>4, <1>13 DEF OtherStep, SetFinanceAdmin, PauseAll, UnpauseAll, SetModuleEnabled,
       SafeTransfer, Wrap, Tick, policyVars
  <1>14. ASSUME UNCHANGED vars PROVE Named
    BY <1>4, <1>14 DEF vars, policyVars
  <1> HIDE DEF Named
  <1>15. Named
    BY <1>5, <1>6, <1>7, <1>9, <1>10, <1>11, <1>12, <1>13, <1>14 DEF Next, OtherStep
  <1> QED BY <1>15 DEF Named

LEMMA RequestHandlesStep ==
    ASSUME SlotInv, MandateHandlesNamed, RequestHandlesNamed, [Next]_vars
    PROVE  RequestHandlesNamed'
  <1> SUFFICES ASSUME NEW q \in RequestIds
               PROVE  /\ request'[q].budgetBefore.handle[1] \in PolicyKinds
                      /\ request'[q].state # "None" => request'[q].amount.handle = <<"amount", q, 0>>
    BY DEF RequestHandlesNamed
  <1>1. CASE request'[q] = request[q]
    BY <1>1 DEF RequestHandlesNamed
  <1>2. ASSUME NEW d \in Delegates, NEW m \in MandateIds, NEW to \in Accounts, NEW a \in Amounts,
               Made(q, d, m, to, a)
        PROVE  /\ request'[q].budgetBefore.handle[1] \in PolicyKinds
               /\ request'[q].amount.handle = <<"amount", q, 0>>
    <2>1. /\ request'[q].budgetBefore = mandate[m].budgetLeft
          /\ request'[q].amount.handle = <<"amount", q, 0>>
      BY <1>2 DEF Made, NewRequest, Cipher
    <2> QED BY <2>1 DEF MandateHandlesNamed, PolicyHandles
  <1>3. ASSUME NEW st \in Outcomes, Moved(q, st)
        PROVE  /\ request'[q].budgetBefore.handle[1] \in PolicyKinds
               /\ request'[q].amount.handle = <<"amount", q, 0>>
    BY <1>3, MoveKeeps DEF RequestHandlesNamed, Live, LiveStates
  <1> QED BY <1>1, <1>2, <1>3, RequestLife DEF RequestLives

\* A viewer keeps what it is entitled to: its packet and its request are as they were.
LEMMA EntitledKept ==
    ASSUME SlotInv, [Next]_vars, NEW v, Entitled(v)
    PROVE  Entitled(v)'
  <1>1. RequestLives /\ PacketsKept
    BY RequestLife, PacketStep
  <1>2. nextPacketId \in Nat /\ nextPacketId' >= nextPacketId
    <2>1. nextPacketId \in Nat
      BY BoundsAssumption DEF SlotInv, TypeInv, TypeOK
    <2> QED BY <2>1, StepsOfPackets DEF packetVars, CreateAuditPacket
  <1>3. ASSUME v[1] \in PureAuditors
        PROVE  /\ v[2][1] \in SnapshotKinds
               /\ v[2][2] \in PacketIds /\ v[2][2] < nextPacketId'
               /\ packet'[v[2][2]].auditor = v[1]
    <2>1. nextPacketId' \in Nat
      BY SlotStep, BoundsAssumption DEF SlotInv, TypeInv, TypeOK
    <2>2. v[2][2] \in PacketIds /\ v[2][2] \in Nat /\ v[2][2] < nextPacketId /\ v[2][1] \in SnapshotKinds
          /\ packet[v[2][2]].auditor = v[1]
      BY <1>3, BoundsAssumption DEF Entitled, PacketIds
    <2> QED BY <1>1, <1>2, <2>1, <2>2 DEF PacketsKept
  <1>4. ASSUME v[1] \in PureOwners, v[2][1] = "amount"
        PROVE  /\ v[2][2] \in RequestIds /\ request'[v[2][2]].state \notin {"None", "Requested"}
               /\ request'[v[2][2]].decision = D_ESCALATE
    <2>1. PICK q \in RequestIds : q = v[2][2]
      BY <1>4 DEF Entitled
    <2>2. request[q].state \notin {"None", "Requested"} /\ request[q].decision = D_ESCALATE
      BY <1>4, <2>1 DEF Entitled
    <2>3. request'[q].state \notin {"None", "Requested"} /\ request'[q].decision = D_ESCALATE
      <3>1. CASE request'[q] = request[q]
        BY <2>2, <3>1
      <3>2. ASSUME NEW st \in Outcomes, Moved(q, st)
            PROVE  request'[q].state \notin {"None", "Requested"} /\ request'[q].decision = D_ESCALATE
        BY <2>2, <3>2, MoveKeeps DEF Outcomes, TerminalStates
      <3> QED BY <1>1, <2>2, <3>1, <3>2 DEF RequestLives, Made
    <2> QED BY <2>1, <2>3
  <1> QED BY <1>3, <1>4 DEF Entitled

LEMMA CreateAuditPacketScope ==
    ASSUME SlotInv, SlotInv', NEW auditor \in Auditors, NEW m \in MandateIds,
           NEW ids \in SUBSET RequestIds, CreateAuditPacket(auditor, m, ids),
           NEW h \in {c.handle : c \in Snapshots(nextPacketId, m, ids)}
    PROVE  Entitled(<<auditor, h>>)'
  <1>1. PICK n : n = nextPacketId
    OBVIOUS
  <1>2. n \in PacketIds /\ n \in Nat /\ nextPacketId' = n + 1 /\ packet'[n].auditor = auditor
    <2>1. /\ n \in PacketIds /\ nextPacketId' = n + 1
          /\ packet'[n] = NewPacket(auditor, m, ids, n)
      BY <1>1, CreateAuditPacketMakes
    <2> QED BY <2>1, BoundsAssumption DEF NewPacket, PacketIds
  <1>3. h[1] \in SnapshotKinds /\ h[2] = n
    <2>1. PICK c \in Snapshots(n, m, ids) : h = c.handle
      BY <1>1
    <2>2. \/ c.handle \in {<<"snapAutoLimit", n, 0>>, <<"snapBudgetLeft", n, 0>>, <<"snapReserveFloor", n, 0>>}
          \/ \E r \in ids : c.handle \in {<<"snapAmount", n, r>>, <<"snapReason", n, r>>}
      BY <2>1 DEF Snapshots, Cipher
    <2> QED BY <2>1, <2>2 DEF SnapshotKinds
  <1>4. "amount" \notin SnapshotKinds
    BY DEF SnapshotKinds
  <1> QED BY <1>2, <1>3, <1>4 DEF Entitled

LEMMA FinalizeEscalateScope ==
    ASSUME SlotInv, RequestHandlesNamed, NEW r \in RequestIds, Finalize(r), FinalizeEscalate(r),
           NEW o \in Owners, NEW h, h = request[r].amount.handle
    PROVE  Entitled(<<o, h>>)'
  <1>1. request[r].state = "Requested" /\ request[r].decision = D_ESCALATE
    BY DEF Finalize, FinalizeEscalate
  <1>2. h = <<"amount", r, 0>>
    BY <1>1 DEF RequestHandlesNamed
  <1>3. request'[r].state = "AwaitingSafeApproval" /\ request'[r].decision = D_ESCALATE
    BY <1>1 DEF FinalizeEscalate, SlotInv, TypeInv, TypeOK, Request
  <1>4. o \notin PureAuditors
    BY DEF PureAuditors
  <1> QED BY <1>2, <1>3, <1>4 DEF Entitled

\* Every step adds viewers that are entitled to what they view.
LEMMA GrantsAreEntitled ==
    ASSUME ScopeInv, SlotInv', [Next]_vars, NEW v \in viewers', v \notin viewers
    PROVE  Entitled(v)'
  <1>1. /\ SlotInv /\ MandateHandlesNamed /\ RequestHandlesNamed /\ financeAdmin \in Admins
        /\ \A m \in MandateIds : /\ mandate[m].autoLimit.handle[1] \in PolicyKinds
                                 /\ mandate[m].budgetLeft.handle[1] \in PolicyKinds
                                 /\ mandate[m].reserveFloor.handle[1] \in PolicyKinds
    BY DEF ScopeInv, SlotInv, TypeInv, TypeOK, MandateHandlesNamed, PolicyHandles
  <1>2. ASSUME v[1] \in Admins \cup Delegates \/ (v[1] \in Owners /\ v[2][1] \in PolicyKinds)
        PROVE  Entitled(v)'
    BY <1>2 DEF Entitled, PureAuditors, PureOwners, PolicyKinds
  <1>3. ASSUME UNCHANGED viewers PROVE FALSE
    BY <1>3
  <1>4. ASSUME NEW p \in Proposals, ProposeMandate(p) PROVE Entitled(v)'
    <2>1. PICK M : /\ viewers' = viewers \cup (({financeAdmin} \cup Owners) \X PolicyHandles(M))
                   /\ M.autoLimit.handle[1] = "autoLimit" /\ M.budgetLeft.handle[1] = "budgetLeft"
                   /\ M.reserveFloor.handle[1] = "reserveFloor"
      <3>1. PICK n : n = nextMandateId
        OBVIOUS
      <3>2. PICK M : M = [delegate |-> p.delegate, validFrom |-> p.validFrom, validUntil |-> p.validUntil,
                          state |-> "Draft", recipients |-> p.recipients,
                          autoLimit    |-> Cipher(<<"autoLimit", n, 0>>, p.autoLimit),
                          budgetLeft   |-> Cipher(<<"budgetLeft", n, 0>>, p.budget),
                          reserveFloor |-> Cipher(<<"reserveFloor", n, 0>>, p.reserveFloor)]
        OBVIOUS
      <3>3. viewers' = viewers \cup (({financeAdmin} \cup Owners) \X PolicyHandles(M))
        BY <1>4, <3>1, <3>2 DEF ProposeMandate
      <3>4. /\ M.autoLimit.handle[1] = "autoLimit" /\ M.budgetLeft.handle[1] = "budgetLeft"
            /\ M.reserveFloor.handle[1] = "reserveFloor"
        BY <3>2 DEF Cipher
      <3> QED BY <3>3, <3>4
    <2>2. PICK u \in {financeAdmin} \cup Owners, h \in PolicyHandles(M) : v = <<u, h>>
      BY <2>1
    <2>3. h[1] \in PolicyKinds
      BY <2>1, <2>2 DEF PolicyHandles, PolicyKinds
    <2> QED BY <1>1, <1>2, <2>2, <2>3
  <1>5. ASSUME NEW d \in Delegates, NEW m \in MandateIds, NEW to \in Accounts, NEW a \in Amounts,
               RequestSpend(d, m, to, a)
        PROVE  Entitled(v)'
    <2>1. v[1] \in {financeAdmin, d}
      BY <1>5 DEF RequestSpend
    <2>2. v[1] \in Admins \cup Delegates
      BY <1>1, <2>1
    <2> QED BY <2>2 DEF Entitled, PureAuditors, PureOwners
  <1>6. ASSUME NEW r \in RequestIds, Finalize(r) PROVE Entitled(v)'
    <2>1. FinalizeEscalate(r) /\ v \in Owners \X {request[r].amount.handle}
      BY <1>3, <1>6 DEF Finalize, FinalizeExecute, FinalizeEscalate, FinalizeBlocked
    <2>2. PICK o \in Owners : v = <<o, request[r].amount.handle>>
      BY <2>1
    <2>3. PICK h : h = request[r].amount.handle
      OBVIOUS
    <2>4. Entitled(<<o, h>>)'
      BY <1>1, <1>6, <2>1, <2>2, <2>3, FinalizeEscalateScope
    <2> QED BY <2>2, <2>3, <2>4 DEF Entitled
  <1>7. ASSUME NEW r \in RequestIds, CancelEscalated(r) \/ ExpireUnfinalized(r) PROVE Entitled(v)'
    <2>1. v[1] = financeAdmin
      BY <1>7 DEF CancelEscalated, ExpireUnfinalized, Refund
    <2>2. v[1] \in Admins \cup Delegates
      BY <1>1, <2>1
    <2> QED BY <2>2 DEF Entitled, PureAuditors, PureOwners
  <1>8. ASSUME NEW auditor \in Auditors, NEW m \in MandateIds, NEW ids \in SUBSET RequestIds,
               CreateAuditPacket(auditor, m, ids)
        PROVE  Entitled(v)'
    <2>1. PICK h \in {c.handle : c \in Snapshots(nextPacketId, m, ids)} : v = <<auditor, h>>
      BY <1>8 DEF CreateAuditPacket
    <2>2. Entitled(<<auditor, h>>)'
      BY <1>1, <1>8, CreateAuditPacketScope
    <2> QED BY <2>1, <2>2 DEF Entitled
  <1>9. ASSUME NEW m \in MandateIds, ActivateMandate(m) \/ RetireMandate(m) PROVE Entitled(v)'
    BY <1>3, <1>9 DEF ActivateMandate, RetireMandate
  <1>10. ASSUME NEW r \in RequestIds, ExecuteEscalated(r) PROVE Entitled(v)'
    BY <1>3, <1>10 DEF ExecuteEscalated
  <1>11. CASE OtherStep
    BY <1>3, <1>11 DEF OtherStep, SetFinanceAdmin, PauseAll, UnpauseAll, SetModuleEnabled,
       SafeTransfer, Wrap, Tick
  <1>12. CASE UNCHANGED vars
    BY <1>3, <1>12 DEF vars
  <1> QED BY <1>4, <1>5, <1>6, <1>7, <1>8, <1>9, <1>10, <1>11, <1>12 DEF Next, OtherStep

LEMMA ScopeInvStep == ScopeInv /\ [Next]_vars => ScopeInv'
  <1> SUFFICES ASSUME ScopeInv, [Next]_vars PROVE ScopeInv'
    OBVIOUS
  <1>1. SlotInv /\ SlotInv' /\ MandateHandlesNamed' /\ RequestHandlesNamed'
    BY SlotStep, MandateHandlesStep, RequestHandlesStep DEF ScopeInv
  <1>2. ASSUME NEW v \in viewers' PROVE Entitled(v)'
    <2>1. CASE v \in viewers
      BY <1>1, <2>1, EntitledKept DEF ScopeInv
    <2>2. CASE v \notin viewers
      BY <1>1, <2>2, GrantsAreEntitled
    <2> QED BY <2>1, <2>2
  <1> QED BY <1>1, <1>2 DEF ScopeInv

LEMMA ScopeInvInit == Init => ScopeInv
  <1> SUFFICES ASSUME Init PROVE ScopeInv
    OBVIOUS
  <1>1. /\ \A m \in MandateIds : mandate[m] = NoMandate
        /\ \A r \in RequestIds : request[r] = NoRequest
        /\ viewers = {}
    BY DEF Init
  <1>2. NoCipher.handle[1] = "none"
    BY DEF NoCipher, Cipher
  <1> QED BY <1>1, <1>2, SlotInvInit DEF ScopeInv, MandateHandlesNamed, RequestHandlesNamed,
          PolicyHandles, PolicyKinds, NoMandate, NoRequest

\* The access list never grants an auditor more than its packets, nor an owner the amount
\* of a request that did not escalate.
THEOREM ScopeIsKept == Spec => []ViewerScope
  <1>1. ScopeInv => ViewerScope
    BY DEF ScopeInv, Entitled, ViewerScope, PureAuditors, PureOwners
  <1> QED BY <1>1, ScopeInvInit, ScopeInvStep, PTL DEF Spec

-----------------------------------------------------------------------------
(* The money: the escrow covers what it owes, a budget is never made or    *)
(* lost, and what is settled as executed is really paid.  These speak of   *)
(* sums over sets of requests.                                             *)

LEMMA SumReservedIsSumNext ==
    (\A S \in SUBSET RequestIds : SumReserved(S) = SumOver(Reserves, S))'
  BY SumReservedIsSum, PTL

LEMMA ReservesType ==
    ASSUME TypeOK, NEW S \in SUBSET RequestIds
    PROVE  IsFiniteSet(S) /\ \A r \in S : Reserves[r] \in Nat /\ Reserves[r] = request[r].reserved.val
  <1>1. IsFiniteSet(RequestIds)
    <2>1. 1 \in Int /\ MaxRequests \in Int
      BY BoundsAssumption
    <2> QED BY <2>1, FS_Interval DEF RequestIds
  <1>2. IsFiniteSet(S)
    BY <1>1, FS_Subset
  <1> QED BY <1>2, RequestFields DEF Reserves

\* Requests that reserve what they did reserve it together.
LEMMA SumReservedKept ==
    ASSUME TypeOK, TypeOK', NEW S \in SUBSET RequestIds,
           \A r \in S : request'[r].reserved = request[r].reserved
    PROVE  SumReserved(S)' = SumReserved(S)
  <1>1. Alike(Reserves', Reserves, S)
    BY DEF Alike, Reserves
  <1>2. SumOver(Reserves', S) = SumOver(Reserves, S)
    BY <1>1, ReservesType, SumSame
  <1>3. SumReserved(S)' = SumOver(Reserves', S)
    BY SumReservedIsSumNext
  <1> QED BY <1>2, <1>3, SumReservedIsSum

LEMMA SumReservedTake ==
    ASSUME TypeOK, NEW S \in SUBSET RequestIds, NEW r \in S
    PROVE  /\ SumReserved(S) = request[r].reserved.val + SumReserved(S \ {r})
           /\ SumReserved(S) \in Nat /\ SumReserved(S \ {r}) \in Nat
  <1>1. IsFiniteSet(S) /\ \A q \in S : Reserves[q] \in Nat
    BY ReservesType
  <1> DEFINE R == S \ {r}
  <1>2. R \in SUBSET RequestIds /\ IsFiniteSet(R) /\ \A q \in R : Reserves[q] \in Nat
    BY ReservesType
  <1>3. SumOver(Reserves, S) = Reserves[r] + SumOver(Reserves, R)
    BY <1>1, SumTake
  <1>4. SumOver(Reserves, S) \in Nat /\ SumOver(Reserves, R) \in Nat
    <2> HIDE DEF R
    <2> QED BY <1>1, <1>2, SumNatural
  <1>5. Reserves[r] = request[r].reserved.val
    BY DEF Reserves
  <1>6. SumReserved(S) = SumOver(Reserves, S) /\ SumReserved(R) = SumOver(Reserves, R)
    <2> HIDE DEF R
    <2> QED BY <1>2, SumReservedIsSum
  <1> QED BY <1>3, <1>4, <1>5, <1>6

SumTakes ==
    TypeOK => \A T \in SUBSET RequestIds : \A q \in T :
                 SumReserved(T) = request[q].reserved.val + SumReserved(T \ {q})

LEMMA SumTakesNow == SumTakes
  BY SumReservedTake DEF SumTakes

LEMMA SumTakesNext == SumTakes'
  BY SumTakesNow, PTL

LEMMA SumReservedTakeNext ==
    ASSUME TypeOK', NEW S \in SUBSET RequestIds, NEW r \in S
    PROVE  SumReserved(S)' = request'[r].reserved.val + SumReserved(S \ {r})'
  BY SumTakesNext DEF SumTakes

LEMMA SumReservedNatural ==
    ASSUME TypeOK, NEW S \in SUBSET RequestIds
    PROVE  SumReserved(S) \in Nat
  BY ReservesType, SumNatural, SumReservedIsSum

LEMMA SumReservedNone == SumReserved({}) = 0
  BY SumReservedIsSum, SumOfNone

LEMMA SumReservedNoneNext == (SumReserved({}) = 0)'
  BY SumReservedNone, PTL

-----------------------------------------------------------------------------
(* The escrow.  EscrowCoversLiveRequests needs only that a reserve was     *)
(* covered when it was taken (PolicyOutcome) and that each live request is *)
(* settled once (its state says so).                                       *)

EscrowInv == SlotInv /\ EscrowCoversLiveRequests

\* What a transfer does when the sender's balance covers it, and when it does not.
LEMMA TransferMoves ==
    ASSUME TypeOK, NEW from \in Accounts, NEW to \in Accounts, NEW a \in Nat
    PROVE  /\ from # to /\ a <= balance[from] =>
                /\ Transfer(from, to, a)[from] = balance[from] - a
                /\ Transfer(from, to, a)[to] = balance[to] + a
           /\ \A b \in Accounts : b # from => Transfer(from, to, a)[b] >= balance[b]
           /\ \A b \in Accounts : Transfer(from, to, a)[b] >= balance[b] - a
  <1>1. \A b \in Accounts : balance[b] \in Nat /\ balance \in [Accounts -> Nat]
    BY DEF TypeOK
  <1>2. CASE from = to \/ a > balance[from]
    BY <1>1, <1>2 DEF Transfer
  <1>3. CASE from # to /\ a <= balance[from]
    <2>1. Transfer(from, to, a) = [balance EXCEPT ![from] = @ - a, ![to] = @ + a]
      BY <1>1, <1>3 DEF Transfer
    <2> QED BY <1>1, <1>3, <2>1
  <1> QED BY <1>1, <1>2, <1>3

LEMMA EscrowKept ==
    ASSUME EscrowInv, SlotInv', balance'[Module] >= balance[Module],
           \A q \in RequestIds : request'[q].reserved = request[q].reserved,
           \A q \in RequestIds : Live(q)' <=> Live(q)
    PROVE  EscrowInv'
  <1>1. TypeOK /\ TypeOK' /\ LiveRequests \in SUBSET RequestIds
    BY DEF EscrowInv, SlotInv, TypeInv, LiveRequests
  <1>2. LiveRequests' = LiveRequests
    BY DEF LiveRequests
  <1>3. SumReserved(LiveRequests)' = SumReserved(LiveRequests)
    BY <1>1, <1>2, SumReservedKept
  <1>4. balance[Module] >= SumReserved(LiveRequests)
    BY DEF EscrowInv, EscrowCoversLiveRequests, LiveRequests
  <1>5. balance[Module] \in Nat /\ balance'[Module] \in Nat /\ SumReserved(LiveRequests) \in Nat
    BY <1>1, AccountTypes, SumReservedNatural DEF TypeOK
  <1>6. balance'[Module] >= SumReserved(LiveRequests)'
    BY <1>3, <1>4, <1>5
  <1> QED BY <1>6 DEF EscrowInv, EscrowCoversLiveRequests, LiveRequests

\* A settled request takes its reserve out of the sum and at most that out of the escrow.
LEMMA EscrowSettled ==
    ASSUME EscrowInv, SlotInv', NEW r \in RequestIds, Live(r), ~Live(r)',
           \A q \in RequestIds : request'[q].reserved = request[q].reserved,
           \A q \in RequestIds : q # r => (Live(q)' <=> Live(q)),
           balance'[Module] >= balance[Module] - request[r].reserved.val
    PROVE  EscrowInv'
  <1>1. PICK L : L = LiveRequests
    OBVIOUS
  <1>2. PICK R : R = L \ {r}
    OBVIOUS
  <1>3. TypeOK /\ TypeOK' /\ L \in SUBSET RequestIds /\ R \in SUBSET RequestIds /\ r \in L
    BY <1>1, <1>2 DEF EscrowInv, SlotInv, TypeInv, LiveRequests
  <1>4. LiveRequests' = R
    BY <1>1, <1>2 DEF LiveRequests
  <1>5. SumReserved(R)' = SumReserved(R)
    BY <1>3, SumReservedKept
  <1>6. /\ SumReserved(L) = request[r].reserved.val + SumReserved(R)
        /\ SumReserved(L) \in Nat /\ SumReserved(R) \in Nat
    BY <1>2, <1>3, SumReservedTake
  <1>7. balance[Module] >= SumReserved(L)
    BY <1>1 DEF EscrowInv, EscrowCoversLiveRequests, LiveRequests
  <1>8. balance[Module] \in Nat /\ balance'[Module] \in Nat /\ request[r].reserved.val \in Nat
    BY <1>3, AccountTypes, RequestFields DEF TypeOK
  <1>9. balance'[Module] >= SumReserved(R)'
    BY <1>5, <1>6, <1>7, <1>8
  <1>10. (balance[Module] >= SumReserved(LiveRequests))'
    BY <1>4, <1>9
  <1> QED BY <1>10 DEF EscrowInv, EscrowCoversLiveRequests, LiveRequests

LEMMA RequestSpendEscrow ==
    ASSUME EscrowInv, NEW d \in Delegates, NEW m \in MandateIds, NEW to \in Accounts,
           NEW a \in Amounts, RequestSpend(d, m, to, a)
    PROVE  EscrowInv'
  <1>1. PICK r : r = nextRequestId
    OBVIOUS
  <1>2. PICK L : L = LiveRequests
    OBVIOUS
  <1>3. PICK K : K = L \cup {r}
    OBVIOUS
  <1>4. SlotInv /\ SlotInv' /\ TypeOK /\ TypeOK'
    BY RequestSpendSlot DEF EscrowInv, SlotInv, TypeInv
  <1>5. r \in RequestIds /\ request[r].state = "None"
    <2>1. r \in 1 .. MaxRequests + 1 /\ r <= MaxRequests
      BY <1>1, <1>4, BoundsAssumption DEF TypeOK, RequestSpend
    <2>2. r \in RequestIds
      BY <2>1, BoundsAssumption DEF RequestIds
    <2> QED BY <1>1, <1>4, <2>1, <2>2 DEF SlotInv, FreshIds
  <1>6. request' = [request EXCEPT ![r] = NewRequest(d, m, to, a, r)]
    BY <1>1 DEF RequestSpend, NewRequest
  <1>7. /\ request'[r].state = "Requested" /\ request'[r].reserved.val = Reserved(m, a)
        /\ \A q \in RequestIds : q # r => request'[q] = request[q]
    BY <1>4, <1>5, <1>6 DEF NewRequest, Cipher, TypeOK
  <1>8. L \in SUBSET RequestIds /\ K \in SUBSET RequestIds /\ r \notin L /\ r \in K /\ K \ {r} = L
    BY <1>2, <1>3, <1>5 DEF LiveRequests, Live, LiveStates
  <1>9. LiveRequests' = K
    BY <1>2, <1>3, <1>5, <1>7 DEF LiveRequests, Live, LiveStates
  <1>10. SumReserved(L)' = SumReserved(L)
    BY <1>4, <1>7, <1>8, SumReservedKept
  <1>11. SumReserved(K)' = Reserved(m, a) + SumReserved(L)
    BY <1>4, <1>7, <1>8, <1>10, SumReservedTakeNext
  <1>12. balance[Safe] \in Nat /\ balance[Module] \in Nat /\ Safe # Module
         /\ Reserved(m, a) \in Nat /\ Reserved(m, a) <= balance[Safe]
    <2>1. a \in Nat
      BY InputsAssumption
    <2> QED BY <1>4, <2>1, MandateFields, AccountTypes, PolicyOutcome, RolesAssumption DEF TypeOK
  <1>13. balance'[Module] = balance[Module] + Reserved(m, a)
    BY <1>4, <1>12, TransferMoves, AccountTypes DEF RequestSpend
  <1>14. balance[Module] >= SumReserved(L)
    BY <1>2 DEF EscrowInv, EscrowCoversLiveRequests, LiveRequests
  <1>15. SumReserved(L) \in Nat
    BY <1>4, <1>8, SumReservedNatural
  <1>16. balance'[Module] >= SumReserved(K)'
    BY <1>11, <1>12, <1>13, <1>14, <1>15
  <1>17. (balance[Module] >= SumReserved(LiveRequests))'
    BY <1>9, <1>16
  <1> QED BY <1>4, <1>17 DEF EscrowInv, EscrowCoversLiveRequests, LiveRequests

\* A request that only changes its state.
LEMMA StateChange ==
    ASSUME TypeOK, NEW r \in RequestIds, NEW st \in RequestStates,
           request' = [request EXCEPT ![r].state = st]
    PROVE  /\ request'[r].state = st
           /\ \A q \in RequestIds : q # r => request'[q] = request[q]
           /\ \A q \in RequestIds : /\ request'[q].mandateId = request[q].mandateId
                                    /\ request'[q].amount = request[q].amount
                                    /\ request'[q].reserved = request[q].reserved
                                    /\ request'[q].budgetBefore = request[q].budgetBefore
                                    /\ request'[q].decision = request[q].decision
  BY DEF TypeOK, Request

LEMMA SettleEscrow ==
    ASSUME EscrowInv, SlotInv', NEW r \in RequestIds, Live(r), NEW st \in TerminalStates,
           request' = [request EXCEPT ![r].state = st],
           NEW to \in Accounts,
           balance' = Transfer(Module, to, request[r].reserved.val) \/ balance' = balance
    PROVE  EscrowInv'
  <1>1. TypeOK /\ st \in RequestStates
    BY DEF EscrowInv, SlotInv, TypeInv, TerminalStates, RequestStates
  <1>2. /\ request'[r].state = st
        /\ \A q \in RequestIds : q # r => request'[q] = request[q]
        /\ \A q \in RequestIds : request'[q].reserved = request[q].reserved
    BY <1>1, StateChange
  <1>3. ~Live(r)' /\ \A q \in RequestIds : q # r => (Live(q)' <=> Live(q))
    BY <1>2 DEF Live, LiveStates, TerminalStates
  <1>4. request[r].reserved.val \in Nat /\ balance[Module] \in Nat /\ Module \in Accounts
    BY <1>1, RequestFields, AccountTypes DEF TypeOK
  <1>5. balance'[Module] >= balance[Module] - request[r].reserved.val
    BY <1>1, <1>4, TransferMoves
  <1> QED BY <1>2, <1>3, <1>5, EscrowSettled

LEMMA FinalizeEscrow ==
    ASSUME EscrowInv, NEW r \in RequestIds, Finalize(r)
    PROVE  EscrowInv'
  <1>1. SlotInv /\ SlotInv' /\ TypeOK
    BY FinalizeSlot DEF EscrowInv, SlotInv, TypeInv
  <1>2. Live(r) /\ request[r].state = "Requested" /\ request[r].recipient \in Accounts
    BY <1>1 DEF Finalize, Live, LiveStates, SlotInv, TypeInv, MadeUnderMandate
  <1>3. CASE FinalizeExecute(r)
    BY <1>1, <1>2, <1>3, SettleEscrow DEF FinalizeExecute, TerminalStates
  <1>4. CASE FinalizeBlocked(r)
    BY <1>1, <1>2, <1>4, SettleEscrow DEF FinalizeBlocked, TerminalStates
  <1>5. CASE FinalizeEscalate(r)
    <2>1. /\ request' = [request EXCEPT ![r].state = "AwaitingSafeApproval"]
          /\ "AwaitingSafeApproval" \in RequestStates
      BY <1>5 DEF FinalizeEscalate, RequestStates
    <2>2. /\ request'[r].state = "AwaitingSafeApproval"
          /\ \A q \in RequestIds : q # r => request'[q] = request[q]
          /\ \A q \in RequestIds : request'[q].reserved = request[q].reserved
      BY <1>1, <2>1, StateChange
    <2>3. \A q \in RequestIds : Live(q)' <=> Live(q)
      BY <1>2, <2>2 DEF Live, LiveStates
    <2>4. balance'[Module] >= balance[Module]
      BY <1>1, <1>5, AccountTypes DEF FinalizeEscalate, TypeOK
    <2> QED BY <1>1, <2>2, <2>3, <2>4, EscrowKept
  <1> QED BY <1>3, <1>4, <1>5 DEF Finalize

LEMMA ExecuteEscalatedEscrow ==
    ASSUME EscrowInv, NEW r \in RequestIds, ExecuteEscalated(r)
    PROVE  EscrowInv'
  <1>1. SlotInv /\ SlotInv' /\ Live(r) /\ request[r].recipient \in Accounts
    BY ExecuteEscalatedSlot DEF EscrowInv, ExecuteEscalated, Live, LiveStates, SlotInv,
       TypeInv, MadeUnderMandate
  <1> QED BY <1>1, SettleEscrow DEF ExecuteEscalated, TerminalStates

LEMMA RefundEscrow ==
    ASSUME EscrowInv, NEW r \in RequestIds, NEW st \in {"Cancelled", "Expired"}, Live(r), Refund(r, st)
    PROVE  EscrowInv'
  <1>1. SlotInv /\ SlotInv' /\ Safe \in Accounts /\ st \in TerminalStates
    BY RefundSlot, AccountTypes DEF EscrowInv, SlotInv, TypeInv, TerminalStates
  <1> QED BY <1>1, SettleEscrow DEF Refund

\* Money from elsewhere only ever adds to the escrow.
LEMMA OtherStepEscrow ==
    ASSUME EscrowInv, SlotInv', OtherStep
    PROVE  EscrowInv'
  <1>1. TypeOK /\ Safe \in Accounts /\ Module \in Accounts /\ Outside \in Accounts
        /\ balance[Module] \in Nat /\ Amounts \subseteq Nat
        /\ Safe # Module /\ Outside # Module
    BY AccountTypes, InputsAssumption, RolesAssumption DEF EscrowInv, SlotInv, TypeInv, TypeOK
  <1>2. UNCHANGED request
    BY DEF OtherStep, SetFinanceAdmin, PauseAll, UnpauseAll, SetModuleEnabled, SafeTransfer,
           Wrap, Tick, spendVars
  <1>3. balance'[Module] >= balance[Module]
    <2>1. CASE balance' = balance
      BY <1>1, <2>1
    <2>2. ASSUME NEW a \in Amounts, SafeTransfer(a) PROVE balance'[Module] >= balance[Module]
      BY <1>1, <2>2, TransferMoves DEF SafeTransfer
    <2>3. ASSUME NEW to \in {Safe, Module}, NEW a \in Amounts, Wrap(to, a)
          PROVE  balance'[Module] >= balance[Module]
      BY <1>1, <2>3, TransferMoves DEF Wrap
    <2> QED BY <2>1, <2>2, <2>3 DEF OtherStep, SetFinanceAdmin, PauseAll, UnpauseAll,
            SetModuleEnabled, Tick, safeVars
  <1>4. \A q \in RequestIds : Live(q)' <=> Live(q)
    BY <1>2 DEF Live
  <1> QED BY <1>2, <1>3, <1>4, EscrowKept

LEMMA EscrowStep == EscrowInv /\ [Next]_vars => EscrowInv'
  <1> SUFFICES ASSUME EscrowInv, [Next]_vars PROVE EscrowInv'
    OBVIOUS
  <1>1. SlotInv'
    BY SlotStep DEF EscrowInv
  <1>2. ASSUME UNCHANGED <<request, balance>> PROVE EscrowInv'
    <2>1. \A q \in RequestIds : Live(q)' <=> Live(q)
      BY <1>2 DEF Live
    <2>2. balance'[Module] >= balance[Module]
      BY <1>2, AccountTypes DEF EscrowInv, SlotInv, TypeInv, TypeOK
    <2> QED BY <1>1, <1>2, <2>1, <2>2, EscrowKept
  <1>3. ASSUME NEW p \in Proposals, ProposeMandate(p) PROVE EscrowInv'
    BY <1>2, <1>3 DEF ProposeMandate, spendVars, safeVars
  <1>4. ASSUME NEW m \in MandateIds, ActivateMandate(m) \/ RetireMandate(m) PROVE EscrowInv'
    BY <1>2, <1>4 DEF ActivateMandate, RetireMandate, spendVars, safeVars
  <1>5. ASSUME NEW d \in Delegates, NEW m \in MandateIds, NEW to \in Accounts, NEW a \in Amounts,
               RequestSpend(d, m, to, a)
        PROVE  EscrowInv'
    BY <1>5, RequestSpendEscrow
  <1>6. ASSUME NEW r \in RequestIds, Finalize(r) PROVE EscrowInv'
    BY <1>6, FinalizeEscrow
  <1>7. ASSUME NEW r \in RequestIds, ExecuteEscalated(r) PROVE EscrowInv'
    BY <1>7, ExecuteEscalatedEscrow
  <1>8. ASSUME NEW r \in RequestIds, CancelEscalated(r) \/ ExpireUnfinalized(r) PROVE EscrowInv'
    BY <1>8, RefundEscrow DEF CancelEscalated, ExpireUnfinalized, Live, LiveStates
  <1>9. ASSUME NEW auditor \in Auditors, NEW m \in MandateIds, NEW ids \in SUBSET RequestIds,
               CreateAuditPacket(auditor, m, ids)
        PROVE  EscrowInv'
    BY <1>2, <1>9 DEF CreateAuditPacket, spendVars, safeVars
  <1>10. CASE OtherStep
    BY <1>1, <1>10, OtherStepEscrow
  <1>11. CASE UNCHANGED vars
    BY <1>2, <1>11 DEF vars, spendVars, safeVars
  <1> QED BY <1>3, <1>4, <1>5, <1>6, <1>7, <1>8, <1>9, <1>10, <1>11 DEF Next, OtherStep

LEMMA EscrowInit == Init => EscrowInv
  <1> SUFFICES ASSUME Init PROVE EscrowInv
    OBVIOUS
  <1>1. {r \in RequestIds : Live(r)} = {}
    BY DEF Init, NoRequest, Live, LiveStates
  <1>2. balance[Module] \in Nat
    BY SlotInvInit, AccountTypes DEF SlotInv, TypeInv, TypeOK
  <1> QED BY <1>1, <1>2, SumReservedNone, SlotInvInit DEF EscrowInv, EscrowCoversLiveRequests

LEMMA EscrowInvariant == Spec => []EscrowInv
  BY EscrowInit, EscrowStep, PTL DEF Spec

\* The module holds, whatever happens around it, at least the reserves of all its live
\* requests: no payment and no refund meets a balance that does not cover it.
THEOREM EscrowCovers == Spec => []EscrowCoversLiveRequests
  <1>1. EscrowInv => EscrowCoversLiveRequests
    BY DEF EscrowInv
  <1> QED BY <1>1, EscrowInvariant, PTL

-----------------------------------------------------------------------------
(* The ledger of a budget.  Per mandate, what is left and what its charged *)
(* requests reserve add up to the budget its first request found.          *)

Charged(m) == {r \in RequestsOf(m) : Live(r) \/ request[r].state = "Executed"}

LedgerAt(m) == mandate[m].budgetLeft.val + SumReserved(Charged(m)) = DraftedBudget(m)

\* A request that was made stands under a mandate that was drafted, any other under none.
RequestsPlaced ==
    \A r \in RequestIds :
        /\ request[r].state # "None" => mandate[request[r].mandateId].state # "None"
        /\ request[r].state = "None" => request[r].mandateId = 0

LedgerInv == SlotInv /\ RequestsPlaced /\ BudgetLedger

LEMMA LedgerAtEach == BudgetLedger <=> \A m \in MandateIds : LedgerAt(m)
  BY DEF BudgetLedger, LedgerAt, Charged

LEMMA LedgerAtEachNext == (BudgetLedger <=> \A m \in MandateIds : LedgerAt(m))'
  BY LedgerAtEach, PTL

LEMMA LeastRequest ==
    ASSUME NEW S \in SUBSET RequestIds, S # {}
    PROVE  Min(S) \in S /\ \A x \in S : Min(S) <= x
  <1>1. S \in SUBSET Nat
    BY BoundsAssumption DEF RequestIds
  <1>2. \E x \in S : \A y \in S : x <= y
    BY <1>1, LeastNatural
  <1> QED BY <1>2 DEF Min

\* A mandate whose requests, reserves and budget are left alone keeps its ledger.
LEMMA LedgerAtKept ==
    ASSUME TypeOK, TypeOK', NEW m \in MandateIds, LedgerAt(m),
           mandate'[m].budgetLeft.val = mandate[m].budgetLeft.val,
           RequestsOf(m)' = RequestsOf(m), Charged(m)' = Charged(m),
           \A q \in RequestsOf(m) : /\ request'[q].reserved = request[q].reserved
                                    /\ request'[q].budgetBefore = request[q].budgetBefore
    PROVE  LedgerAt(m)'
  <1>1. PICK Q : Q = RequestsOf(m)
    OBVIOUS
  <1>2. PICK C : C = Charged(m)
    OBVIOUS
  <1>3. Q \in SUBSET RequestIds /\ C \in SUBSET RequestIds /\ C \subseteq Q
    BY <1>1, <1>2 DEF RequestsOf, Charged
  <1>4. SumReserved(C)' = SumReserved(C)
    BY <1>1, <1>2, <1>3, SumReservedKept
  <1>5. DraftedBudget(m)' = DraftedBudget(m)
    <2>1. CASE Q = {}
      BY <1>1, <2>1 DEF DraftedBudget
    <2>2. CASE Q # {}
      <3>1. Min(Q) \in Q
        BY <1>3, <2>2, LeastRequest
      <3>2. DraftedBudget(m) = request[Min(Q)].budgetBefore.val
        BY <1>1, <2>2 DEF DraftedBudget
      <3>3. DraftedBudget(m)' = request'[Min(Q)].budgetBefore.val
        BY <1>1, <2>2 DEF DraftedBudget
      <3> QED BY <1>1, <3>1, <3>2, <3>3
    <2> QED BY <2>1, <2>2
  <1>6. SumReserved(Charged(m))' = SumReserved(C) /\ SumReserved(Charged(m)) = SumReserved(C)
    BY <1>2, <1>4
  <1> QED BY <1>5, <1>6 DEF LedgerAt

\* A step that changes no request and no budget that is charged.
LEMMA LedgerElsewhere ==
    ASSUME LedgerInv, SlotInv', UNCHANGED request,
           \A m \in MandateIds : mandate'[m].budgetLeft.val = mandate[m].budgetLeft.val,
           \A m \in MandateIds : mandate[m].state # "None" => mandate'[m].state # "None"
    PROVE  LedgerInv'
  <1>1. TypeOK /\ TypeOK' /\ BudgetLedger /\ \A m \in MandateIds : LedgerAt(m)
    BY LedgerAtEach DEF LedgerInv, SlotInv, TypeInv
  <1>2. RequestsPlaced'
    BY DEF LedgerInv, RequestsPlaced, SlotInv, TypeInv, MadeUnderMandate
  <1>3. ASSUME NEW m \in MandateIds PROVE LedgerAt(m)'
    <2>1. RequestsOf(m)' = RequestsOf(m)
      BY DEF RequestsOf
    <2>2. Charged(m)' = Charged(m)
      BY <2>1 DEF Charged, Live
    <2> QED BY <1>1, <2>1, <2>2, LedgerAtKept
  <1> QED BY <1>2, <1>3, LedgerAtEachNext DEF LedgerInv

LEMMA ProposeMandateLedger ==
    ASSUME LedgerInv, NEW p \in Proposals, ProposeMandate(p)
    PROVE  LedgerInv'
  <1>1. PICK n : n = nextMandateId
    OBVIOUS
  <1>2. TypeOK /\ TypeOK' /\ SlotInv' /\ SlotInv /\ \A m \in MandateIds : LedgerAt(m)
    BY LedgerAtEach, ProposeMandateSlot DEF LedgerInv, SlotInv, TypeInv
  <1>3. n \in MandateIds /\ mandate[n].state = "None"
    <2>1. n \in 1 .. MaxMandates + 1 /\ n <= MaxMandates
      BY <1>1, <1>2, BoundsAssumption DEF TypeOK, ProposeMandate
    <2>2. n \in MandateIds
      BY <2>1, BoundsAssumption DEF MandateIds
    <2> QED BY <1>1, <1>2, <2>1, <2>2 DEF SlotInv, FreshIds
  <1>4. UNCHANGED request /\ \A i \in MandateIds : i # n => mandate'[i] = mandate[i]
    BY <1>1, <1>2, <1>3 DEF ProposeMandate, spendVars, TypeOK
  <1>5. RequestsPlaced'
    <2>1. \A r \in RequestIds : request[r].state # "None" => request[r].mandateId # n
      BY <1>3 DEF LedgerInv, RequestsPlaced
    <2> QED BY <1>2, <1>4, <2>1 DEF LedgerInv, RequestsPlaced, SlotInv, TypeInv, MadeUnderMandate
  <1>6. ASSUME NEW m \in MandateIds PROVE LedgerAt(m)'
    <2>1. RequestsOf(m)' = RequestsOf(m)
      BY <1>4 DEF RequestsOf
    <2>2. Charged(m)' = Charged(m)
      BY <1>4, <2>1 DEF Charged, Live
    <2>3. CASE m # n
      BY <1>2, <1>4, <2>1, <2>2, <2>3, LedgerAtKept
    <2>4. CASE m = n
      <3>1. RequestsOf(m) = {}
        BY <1>3, <2>4 DEF RequestsOf, LedgerInv, RequestsPlaced, MandateIds
      <3>2. RequestsOf(m)' = {} /\ Charged(m)' = {}
        BY <2>1, <2>2, <3>1 DEF Charged
      <3>3. SumReserved(Charged(m))' = 0
        BY <3>2, SumReservedNoneNext
      <3>4. DraftedBudget(m)' = mandate'[m].budgetLeft.val /\ mandate'[m].budgetLeft.val \in Nat
        BY <1>2, <3>2, MandateFields DEF DraftedBudget, TypeOK, Mandate, Ciphers
      <3> QED BY <3>3, <3>4 DEF LedgerAt
    <2> QED BY <2>3, <2>4
  <1> QED BY <1>2, <1>5, <1>6, LedgerAtEachNext DEF LedgerInv

LEMMA RequestSpendLedger ==
    ASSUME LedgerInv, NEW d \in Delegates, NEW m \in MandateIds, NEW to \in Accounts,
           NEW a \in Amounts, RequestSpend(d, m, to, a)
    PROVE  LedgerInv'
  <1>1. PICK r : r = nextRequestId
    OBVIOUS
  <1>2. TypeOK /\ TypeOK' /\ SlotInv' /\ SlotInv /\ \A i \in MandateIds : LedgerAt(i)
    BY LedgerAtEach, RequestSpendSlot DEF LedgerInv, SlotInv, TypeInv
  <1>3. r \in RequestIds /\ request[r].state = "None" /\ request[r].mandateId = 0
    <2>1. r \in 1 .. MaxRequests + 1 /\ r <= MaxRequests
      BY <1>1, <1>2, BoundsAssumption DEF TypeOK, RequestSpend
    <2>2. r \in RequestIds
      BY <2>1, BoundsAssumption DEF RequestIds
    <2> QED BY <1>1, <1>2, <2>1, <2>2 DEF SlotInv, FreshIds, LedgerInv, RequestsPlaced
  <1>4. request' = [request EXCEPT ![r] = NewRequest(d, m, to, a, r)]
    BY <1>1 DEF RequestSpend, NewRequest
  <1>5. /\ request'[r].state = "Requested" /\ request'[r].reserved.val = Reserved(m, a)
        /\ request'[r].mandateId = m /\ request'[r].budgetBefore = mandate[m].budgetLeft
        /\ \A q \in RequestIds : q # r => request'[q] = request[q]
    BY <1>2, <1>3, <1>4 DEF NewRequest, Cipher, TypeOK
  <1>6. /\ mandate'[m].budgetLeft.val = mandate[m].budgetLeft.val - Reserved(m, a)
        /\ mandate'[m].state = "Active" /\ mandate[m].state = "Active"
        /\ \A i \in MandateIds : i # m => mandate'[i] = mandate[i]
    BY <1>2 DEF RequestSpend, Admitted, TypeOK, Mandate, Cipher
  <1>7. /\ mandate[m].budgetLeft.val \in Nat /\ Reserved(m, a) \in Nat
        /\ Reserved(m, a) <= mandate[m].budgetLeft.val
    <2>1. a \in Nat
      BY InputsAssumption
    <2> QED BY <1>2, <2>1, MandateFields, AccountTypes, PolicyOutcome
  <1>8. RequestsPlaced'
    <2> SUFFICES ASSUME NEW q \in RequestIds
                 PROVE  /\ request'[q].state # "None" => mandate'[request'[q].mandateId].state # "None"
                        /\ request'[q].state = "None" => request'[q].mandateId = 0
      BY DEF RequestsPlaced
    <2>1. CASE q = r
      BY <1>5, <1>6, <2>1
    <2>2. CASE q # r
      BY <1>2, <1>5, <1>6, <2>2 DEF LedgerInv, RequestsPlaced, SlotInv, TypeInv, MadeUnderMandate
    <2> QED BY <2>1, <2>2
  <1>9. ASSUME NEW i \in MandateIds, i # m PROVE LedgerAt(i)'
    <2>1. RequestsOf(i)' = RequestsOf(i) /\ r \notin RequestsOf(i)
      BY <1>3, <1>5, <1>9 DEF RequestsOf, MandateIds
    <2>2. \A q \in RequestsOf(i) : q \in RequestIds /\ request'[q] = request[q]
      BY <1>5, <2>1 DEF RequestsOf
    <2>3. Charged(i)' = Charged(i)
      BY <2>1, <2>2 DEF Charged, Live
    <2> QED BY <1>2, <1>6, <1>9, <2>1, <2>2, <2>3, LedgerAtKept
  <1>10. LedgerAt(m)'
    <2>1. PICK Q : Q = RequestsOf(m)
      OBVIOUS
    <2>2. PICK C : C = Charged(m)
      OBVIOUS
    <2>3. PICK D : D = C \cup {r}
      OBVIOUS
    <2>4. Q \in SUBSET RequestIds /\ C \in SUBSET Q /\ r \notin Q
      BY <1>3, <2>1, <2>2 DEF RequestsOf, Charged, MandateIds
    <2>5. RequestsOf(m)' = Q \cup {r}
      BY <1>3, <1>5, <2>1 DEF RequestsOf
    <2>6. Charged(m)' = D
      BY <1>5, <2>1, <2>2, <2>3, <2>4, <2>5 DEF Charged, Live, LiveStates
    <2>7. D \in SUBSET RequestIds /\ r \in D /\ D \ {r} = C /\ C \in SUBSET RequestIds
      BY <1>3, <2>3, <2>4
    <2>8. SumReserved(C)' = SumReserved(C)
      <3>1. \A q \in C : request'[q].reserved = request[q].reserved
        BY <1>5, <2>4
      <3> QED BY <1>2, <2>7, <3>1, SumReservedKept
    <2>9. SumReserved(D)' = Reserved(m, a) + SumReserved(C)
      BY <1>2, <1>5, <2>7, <2>8, SumReservedTakeNext
    <2>10. SumReserved(C) \in Nat
      BY <1>2, <2>7, SumReservedNatural
    <2>11. mandate[m].budgetLeft.val + SumReserved(C) = DraftedBudget(m)
      BY <1>2, <2>2 DEF LedgerAt
    <2>12. DraftedBudget(m)' = DraftedBudget(m)
      <3>1. CASE Q = {}
        <4>1. C = {} /\ SumReserved(C) = 0
          BY <2>4, <3>1, SumReservedNone
        <4>2. DraftedBudget(m) = mandate[m].budgetLeft.val
          BY <1>7, <2>11, <4>1
        <4>3. Min({r}) = r
          BY <1>3, LeastRequest
        <4>4. DraftedBudget(m)' = request'[r].budgetBefore.val
          BY <2>5, <3>1, <4>3 DEF DraftedBudget
        <4> QED BY <1>5, <4>2, <4>4
      <3>2. CASE Q # {}
        <4>1. PICK W : W = Q \cup {r}
          OBVIOUS
        <4>2. /\ Min(Q) \in Q /\ \A x \in Q : Min(Q) <= x
              /\ Min(W) \in W /\ \A x \in W : Min(W) <= x
          BY <1>3, <2>4, <3>2, <4>1, LeastRequest
        <4>3. \A q \in Q : q < r /\ q \in Nat
          <5>1. \A q \in Q : request[q].state # "None"
            BY <2>1 DEF RequestsOf, LedgerInv, RequestsPlaced, MandateIds
          <5>2. \A q \in RequestIds : q \in Nat /\ r \in Nat /\ (q >= r => request[q].state = "None")
            BY <1>1, <1>2, <1>3, BoundsAssumption DEF RequestIds, SlotInv, FreshIds
          <5> QED BY <2>4, <5>1, <5>2
        <4>4. r \in Nat
          BY <1>3, BoundsAssumption DEF RequestIds
        <4>5. Min(W) = Min(Q)
          <5>1. Min(Q) < r /\ Min(W) <= Min(Q) /\ Min(Q) \in Nat /\ Min(W) \in Nat
            BY <4>1, <4>2, <4>3, <4>4
          <5>2. Min(W) \in Q
            BY <4>1, <4>2, <4>4, <5>1
          <5>3. Min(Q) <= Min(W)
            BY <4>2, <5>2
          <5> QED BY <5>1, <5>3
        <4>6. DraftedBudget(m) = request[Min(Q)].budgetBefore.val
          BY <2>1, <3>2 DEF DraftedBudget
        <4>7. DraftedBudget(m)' = request'[Min(W)].budgetBefore.val
          BY <2>5, <4>1 DEF DraftedBudget
        <4>8. Min(Q) \in RequestIds /\ Min(Q) # r
          BY <2>4, <4>2
        <4> QED BY <1>5, <4>5, <4>6, <4>7, <4>8
      <3> QED BY <3>1, <3>2
    <2>13. mandate'[m].budgetLeft.val + SumReserved(D)' = DraftedBudget(m)'
      BY <1>6, <1>7, <2>9, <2>10, <2>11, <2>12
    <2>14. SumReserved(Charged(m))' = SumReserved(D)'
      BY <2>6
    <2> QED BY <2>13, <2>14 DEF LedgerAt
  <1> QED BY <1>2, <1>8, <1>9, <1>10, LedgerAtEachNext DEF LedgerInv

\* A request that is paid or escalated stays charged to its budget.
LEMMA ChargedLedger ==
    ASSUME LedgerInv, SlotInv', NEW r \in RequestIds, Live(r),
           NEW st \in {"AwaitingSafeApproval", "Executed"},
           request' = [request EXCEPT ![r].state = st], UNCHANGED mandate
    PROVE  LedgerInv'
  <1>1. TypeOK /\ TypeOK' /\ st \in RequestStates /\ \A i \in MandateIds : LedgerAt(i)
    BY LedgerAtEach DEF LedgerInv, SlotInv, TypeInv, RequestStates
  <1>2. /\ request'[r].state = st
        /\ \A q \in RequestIds : q # r => request'[q] = request[q]
        /\ \A q \in RequestIds : /\ request'[q].mandateId = request[q].mandateId
                                 /\ request'[q].reserved = request[q].reserved
                                 /\ request'[q].budgetBefore = request[q].budgetBefore
    BY <1>1, StateChange
  <1>3. RequestsPlaced'
    <2>1. request[r].state # "None"
      BY DEF Live, LiveStates
    <2> QED BY <1>2, <2>1 DEF LedgerInv, RequestsPlaced
  <1>4. ASSUME NEW m \in MandateIds PROVE LedgerAt(m)'
    <2>1. RequestsOf(m)' = RequestsOf(m)
      BY <1>2 DEF RequestsOf
    <2>2. \A q \in RequestIds : (Live(q) \/ request[q].state = "Executed")'
                                <=> (Live(q) \/ request[q].state = "Executed")
      BY <1>2 DEF Live, LiveStates
    <2>3. Charged(m)' = Charged(m)
      BY <2>1, <2>2 DEF Charged, RequestsOf
    <2>4. \A q \in RequestsOf(m) : /\ request'[q].reserved = request[q].reserved
                                   /\ request'[q].budgetBefore = request[q].budgetBefore
      BY <1>2 DEF RequestsOf
    <2> QED BY <1>1, <2>1, <2>3, <2>4, LedgerAtKept
  <1> QED BY <1>3, <1>4, LedgerAtEachNext DEF LedgerInv

\* A request that is refused, rejected or expired is charged no more: its reserve,
\* zero when it was refused, is back in the budget.
LEMMA FreedLedger ==
    ASSUME LedgerInv, SlotInv', NEW r \in RequestIds, Live(r),
           NEW st \in {"Blocked", "Cancelled", "Expired"},
           request' = [request EXCEPT ![r].state = st],
           \A i \in MandateIds : /\ i # request[r].mandateId => mandate'[i] = mandate[i]
                                 /\ mandate'[i].state = mandate[i].state,
           mandate'[request[r].mandateId].budgetLeft.val =
               mandate[request[r].mandateId].budgetLeft.val + request[r].reserved.val
    PROVE  LedgerInv'
  <1>1. TypeOK /\ TypeOK' /\ st \in RequestStates /\ \A i \in MandateIds : LedgerAt(i)
    BY LedgerAtEach DEF LedgerInv, SlotInv, TypeInv, RequestStates
  <1>2. /\ request'[r].state = st
        /\ \A q \in RequestIds : q # r => request'[q] = request[q]
        /\ \A q \in RequestIds : /\ request'[q].mandateId = request[q].mandateId
                                 /\ request'[q].reserved = request[q].reserved
                                 /\ request'[q].budgetBefore = request[q].budgetBefore
    BY <1>1, StateChange
  <1>3. request[r].state # "None" /\ request[r].mandateId \in MandateIds
    BY DEF Live, LiveStates, LedgerInv, SlotInv, TypeInv, MadeUnderMandate
  <1>4. RequestsPlaced'
    <2>1. \A q \in RequestIds : request[q].state # "None" => request[q].mandateId \in MandateIds
      BY DEF LedgerInv, SlotInv, TypeInv, MadeUnderMandate
    <2>2. \A q \in RequestIds : request'[q].state = "None" <=> request[q].state = "None"
      BY <1>2, <1>3
    <2> QED BY <1>2, <2>1, <2>2 DEF LedgerInv, RequestsPlaced
  <1>5. ASSUME NEW i \in MandateIds, i # request[r].mandateId PROVE LedgerAt(i)'
    <2>1. RequestsOf(i)' = RequestsOf(i) /\ r \notin RequestsOf(i)
      BY <1>2, <1>5 DEF RequestsOf
    <2>2. \A q \in RequestsOf(i) : q \in RequestIds /\ request'[q] = request[q]
      BY <1>2, <2>1 DEF RequestsOf
    <2>3. Charged(i)' = Charged(i)
      BY <2>1, <2>2 DEF Charged, Live
    <2> QED BY <1>1, <1>5, <2>1, <2>2, <2>3, LedgerAtKept
  <1>6. PICK m \in MandateIds : m = request[r].mandateId
    BY <1>3
  <1>7. LedgerAt(m)'
    <2>1. PICK Q : Q = RequestsOf(m)
      OBVIOUS
    <2>2. PICK C : C = Charged(m)
      OBVIOUS
    <2>3. PICK D : D = C \ {r}
      OBVIOUS
    <2>4. Q \in SUBSET RequestIds /\ C \in SUBSET RequestIds /\ C \subseteq Q
          /\ D \in SUBSET RequestIds /\ r \in Q /\ r \in C
      BY <1>6, <2>1, <2>2, <2>3 DEF RequestsOf, Charged
    <2>5. RequestsOf(m)' = Q
      BY <1>2, <2>1 DEF RequestsOf
    <2>6. Charged(m)' = D
      <3>1. ~(Live(r) \/ request[r].state = "Executed")'
        BY <1>2 DEF Live, LiveStates
      <3>2. \A q \in RequestIds : q # r => ((Live(q) \/ request[q].state = "Executed")'
                                             <=> (Live(q) \/ request[q].state = "Executed"))
        BY <1>2 DEF Live
      <3> QED BY <2>1, <2>2, <2>3, <2>4, <2>5, <3>1, <3>2 DEF Charged
    <2>7. SumReserved(D)' = SumReserved(D)
      BY <1>1, <1>2, <2>4, SumReservedKept
    <2>8. SumReserved(C) = request[r].reserved.val + SumReserved(D) /\ SumReserved(D) \in Nat
      BY <1>1, <2>3, <2>4, SumReservedTake
    <2>9. mandate[m].budgetLeft.val + SumReserved(C) = DraftedBudget(m)
      BY <1>1, <2>2 DEF LedgerAt
    <2>10. DraftedBudget(m)' = DraftedBudget(m)
      <3>1. Q # {} /\ Min(Q) \in RequestIds
        BY <2>4, LeastRequest
      <3>2. DraftedBudget(m) = request[Min(Q)].budgetBefore.val
        BY <2>1, <3>1 DEF DraftedBudget
      <3>3. DraftedBudget(m)' = request'[Min(Q)].budgetBefore.val
        BY <2>5, <3>1 DEF DraftedBudget
      <3> QED BY <1>2, <3>1, <3>2, <3>3
    <2>11. mandate[m].budgetLeft.val \in Nat /\ request[r].reserved.val \in Nat
      BY <1>1, MandateFields, RequestFields
    <2>12. mandate'[m].budgetLeft.val = mandate[m].budgetLeft.val + request[r].reserved.val
      BY <1>6
    <2>13. mandate'[m].budgetLeft.val + SumReserved(D)' = DraftedBudget(m)'
      BY <2>7, <2>8, <2>9, <2>10, <2>11, <2>12
    <2>14. SumReserved(Charged(m))' = SumReserved(D)'
      BY <2>6
    <2> QED BY <2>13, <2>14 DEF LedgerAt
  <1> QED BY <1>4, <1>5, <1>6, <1>7, LedgerAtEachNext DEF LedgerInv

LEMMA FinalizeLedger ==
    ASSUME LedgerInv, NEW r \in RequestIds, Finalize(r)
    PROVE  LedgerInv'
  <1>1. SlotInv' /\ TypeOK /\ Live(r) /\ UNCHANGED mandate /\ request[r].state # "None"
    BY FinalizeSlot DEF LedgerInv, SlotInv, TypeInv, Finalize, Live, LiveStates, policyVars
  <1>2. CASE FinalizeExecute(r)
    BY <1>1, <1>2, ChargedLedger DEF FinalizeExecute
  <1>3. CASE FinalizeEscalate(r)
    BY <1>1, <1>3, ChargedLedger DEF FinalizeEscalate
  <1>4. CASE FinalizeBlocked(r)
    <2>1. request[r].reserved.val = 0 /\ request[r].mandateId \in MandateIds
      BY <1>1, <1>4 DEF LedgerInv, SlotInv, TypeInv, ReservedByDecision, MadeUnderMandate,
         FinalizeBlocked
    <2>2. mandate[request[r].mandateId].budgetLeft.val \in Nat
      BY <1>1, <2>1, MandateFields
    <2>3. request' = [request EXCEPT ![r].state = "Blocked"]
      BY <1>4 DEF FinalizeBlocked
    <2>4. mandate'[request[r].mandateId].budgetLeft.val =
              mandate[request[r].mandateId].budgetLeft.val + request[r].reserved.val
      BY <1>1, <2>1, <2>2
    <2> QED BY <1>1, <2>3, <2>4, FreedLedger
  <1> QED BY <1>2, <1>3, <1>4 DEF Finalize

LEMMA RefundLedger ==
    ASSUME LedgerInv, NEW r \in RequestIds, NEW st \in {"Cancelled", "Expired"}, Live(r), Refund(r, st)
    PROVE  LedgerInv'
  <1>1. SlotInv' /\ SlotInv /\ TypeOK
    BY RefundSlot DEF LedgerInv, SlotInv, TypeInv
  <1>2. request[r].mandateId \in MandateIds
    BY <1>1 DEF SlotInv, TypeInv, MadeUnderMandate, Live, LiveStates
  <1>3. /\ request' = [request EXCEPT ![r].state = st]
        /\ mandate' = [mandate EXCEPT ![request[r].mandateId].budgetLeft = request[r].budgetBefore]
    BY DEF Refund, RestoredBudget
  <1>4. \A i \in MandateIds : /\ i # request[r].mandateId => mandate'[i] = mandate[i]
                              /\ mandate'[i].state = mandate[i].state
    BY <1>1, <1>2, <1>3 DEF TypeOK, Mandate
  <1>5. mandate'[request[r].mandateId].budgetLeft = request[r].budgetBefore
    BY <1>1, <1>2, <1>3 DEF TypeOK, Mandate
  <1>6. request[r].budgetBefore.val =
            mandate[request[r].mandateId].budgetLeft.val + request[r].reserved.val
    BY <1>1 DEF SlotInv, RestoreIsExact
  <1> QED BY <1>1, <1>3, <1>4, <1>5, <1>6, FreedLedger

LEMMA LedgerStep == LedgerInv /\ [Next]_vars => LedgerInv'
  <1> SUFFICES ASSUME LedgerInv, [Next]_vars PROVE LedgerInv'
    OBVIOUS
  <1>1. SlotInv' /\ SlotInv
    BY SlotStep DEF LedgerInv
  <1>2. ASSUME UNCHANGED <<request, mandate>> PROVE LedgerInv'
    BY <1>1, <1>2, LedgerElsewhere
  <1>3. ASSUME NEW p \in Proposals, ProposeMandate(p) PROVE LedgerInv'
    BY <1>3, ProposeMandateLedger
  <1>4. ASSUME NEW m \in MandateIds, ActivateMandate(m) PROVE LedgerInv'
    <2>1. UNCHANGED request /\ \A i \in MandateIds : mandate[i] \in Mandate
      BY <1>1, <1>4 DEF ActivateMandate, spendVars, SlotInv, TypeInv, TypeOK
    <2>2. \A i \in MandateIds : /\ mandate'[i].budgetLeft.val = mandate[i].budgetLeft.val
                                /\ mandate[i].state # "None" => mandate'[i].state # "None"
      BY <1>4, <2>1 DEF ActivateMandate, Activated, Mandate
    <2> QED BY <1>1, <2>1, <2>2, LedgerElsewhere
  <1>5. ASSUME NEW m \in MandateIds, RetireMandate(m) PROVE LedgerInv'
    <2>1. UNCHANGED request /\ mandate \in [MandateIds -> Mandate]
      BY <1>1, <1>5 DEF RetireMandate, spendVars, SlotInv, TypeInv, TypeOK
    <2>2. \A i \in MandateIds : /\ mandate'[i].budgetLeft.val = mandate[i].budgetLeft.val
                                /\ mandate[i].state # "None" => mandate'[i].state # "None"
      BY <1>5, <2>1 DEF RetireMandate, Mandate
    <2> QED BY <1>1, <2>1, <2>2, LedgerElsewhere
  <1>6. ASSUME NEW d \in Delegates, NEW m \in MandateIds, NEW to \in Accounts, NEW a \in Amounts,
               RequestSpend(d, m, to, a)
        PROVE  LedgerInv'
    BY <1>6, RequestSpendLedger
  <1>7. ASSUME NEW r \in RequestIds, Finalize(r) PROVE LedgerInv'
    BY <1>7, FinalizeLedger
  <1>8. ASSUME NEW r \in RequestIds, ExecuteEscalated(r) PROVE LedgerInv'
    BY <1>1, <1>8, ChargedLedger DEF ExecuteEscalated, Live, LiveStates, policyVars
  <1>9. ASSUME NEW r \in RequestIds, CancelEscalated(r) \/ ExpireUnfinalized(r) PROVE LedgerInv'
    BY <1>9, RefundLedger DEF CancelEscalated, ExpireUnfinalized, Live, LiveStates
  <1>10. ASSUME NEW auditor \in Auditors, NEW m \in MandateIds, NEW ids \in SUBSET RequestIds,
                CreateAuditPacket(auditor, m, ids)
         PROVE  LedgerInv'
    BY <1>2, <1>10 DEF CreateAuditPacket, spendVars, policyVars
  <1>11. CASE OtherStep
    BY <1>2, <1>11 DEF OtherStep, SetFinanceAdmin, PauseAll, UnpauseAll, SetModuleEnabled,
       SafeTransfer, Wrap, Tick, policyVars, spendVars
  <1>12. CASE UNCHANGED vars
    BY <1>2, <1>12 DEF vars, policyVars, spendVars
  <1> QED BY <1>3, <1>4, <1>5, <1>6, <1>7, <1>8, <1>9, <1>10, <1>11, <1>12 DEF Next, OtherStep

LEMMA LedgerInit == Init => LedgerInv
  <1> SUFFICES ASSUME Init PROVE LedgerInv
    OBVIOUS
  <1>1. SlotInv /\ TypeOK
    BY SlotInvInit DEF SlotInv, TypeInv
  <1>2. RequestsPlaced
    BY DEF Init, NoRequest, RequestsPlaced
  <1>3. ASSUME NEW m \in MandateIds PROVE LedgerAt(m)
    <2>1. RequestsOf(m) = {} /\ Charged(m) = {}
      BY DEF Init, NoRequest, RequestsOf, Charged, MandateIds
    <2>2. mandate[m].budgetLeft.val \in Nat
      BY <1>1, MandateFields
    <2> QED BY <2>1, <2>2, SumReservedNone DEF LedgerAt, DraftedBudget
  <1> QED BY <1>1, <1>2, <1>3, LedgerAtEach DEF LedgerInv

LEMMA LedgerInvariant == Spec => []LedgerInv
  BY LedgerInit, LedgerStep, PTL DEF Spec

\* Whatever was asked, refused, rejected, expired and paid under a mandate, what it
\* still allows and what it has paid or holds are together the budget it was given.
THEOREM LedgerBalances == Spec => []BudgetLedger
  <1>1. LedgerInv => BudgetLedger
    BY DEF LedgerInv
  <1> QED BY <1>1, LedgerInvariant, PTL

-----------------------------------------------------------------------------
(* What a settled request pays.                                            *)

\* A request that is to be paid without the owners is within the automatic limit.
WithinLimit ==
    \A r \in RequestIds : request[r].state # "None" /\ request[r].decision = D_EXECUTE =>
        request[r].amount.val <= mandate[request[r].mandateId].autoLimit.val

PayInv == EscrowInv /\ RequestsPlaced /\ WithinLimit

\* A step that moves no amount, no decision, and no limit of a drafted mandate.
LEMMA WithinLimitKept ==
    ASSUME SlotInv, RequestsPlaced, WithinLimit,
           \A q \in RequestIds :
               /\ request'[q].state # "None" => request[q].state # "None"
               /\ request'[q].mandateId = request[q].mandateId
               /\ request'[q].amount = request[q].amount
               /\ request'[q].decision = request[q].decision,
           \A m \in MandateIds :
               mandate[m].state # "None" => mandate'[m].autoLimit = mandate[m].autoLimit
    PROVE  WithinLimit'
  BY DEF WithinLimit, RequestsPlaced, SlotInv, TypeInv, MadeUnderMandate

LEMMA RequestSpendWithinLimit ==
    ASSUME SlotInv, RequestsPlaced, WithinLimit, NEW d \in Delegates, NEW m \in MandateIds,
           NEW to \in Accounts, NEW a \in Amounts, RequestSpend(d, m, to, a)
    PROVE  WithinLimit'
  <1>1. PICK r : r = nextRequestId
    OBVIOUS
  <1>2. TypeOK
    BY DEF SlotInv, TypeInv
  <1>3. r \in RequestIds /\ request[r].state = "None"
    <2>1. r \in 1 .. MaxRequests + 1 /\ r <= MaxRequests
      BY <1>1, <1>2, BoundsAssumption DEF TypeOK, RequestSpend
    <2>2. r \in RequestIds
      BY <2>1, BoundsAssumption DEF RequestIds
    <2> QED BY <1>1, <2>1, <2>2 DEF SlotInv, FreshIds
  <1>4. request' = [request EXCEPT ![r] = NewRequest(d, m, to, a, r)]
    BY <1>1 DEF RequestSpend, NewRequest
  <1>5. /\ request'[r].amount.val = a /\ request'[r].decision = Decision(m, a)
        /\ request'[r].mandateId = m
        /\ \A q \in RequestIds : q # r => request'[q] = request[q]
    BY <1>2, <1>3, <1>4 DEF NewRequest, Cipher, TypeOK
  <1>6. \A i \in MandateIds : mandate'[i].autoLimit = mandate[i].autoLimit
    BY <1>2 DEF RequestSpend, TypeOK, Mandate
  <1>7. Decision(m, a) = D_EXECUTE => a <= mandate[m].autoLimit.val
    BY DEF Decision, D_EXECUTE, D_BLOCKED, D_ESCALATE
  <1>8. \A q \in RequestIds : request[q].state # "None" => request[q].mandateId \in MandateIds
    BY DEF SlotInv, TypeInv, MadeUnderMandate
  <1> SUFFICES ASSUME NEW q \in RequestIds, request'[q].state # "None", request'[q].decision = D_EXECUTE
               PROVE  request'[q].amount.val <= mandate'[request'[q].mandateId].autoLimit.val
    BY DEF WithinLimit
  <1>9. CASE q = r
    BY <1>5, <1>6, <1>7, <1>9
  <1>10. CASE q # r
    BY <1>5, <1>6, <1>8, <1>10 DEF WithinLimit
  <1> QED BY <1>9, <1>10

LEMMA WithinLimitStep ==
    ASSUME SlotInv, RequestsPlaced, WithinLimit, [Next]_vars
    PROVE  WithinLimit'
  <1>1. TypeOK /\ mandate \in [MandateIds -> Mandate]
    BY DEF SlotInv, TypeInv, TypeOK
  <1>2. ASSUME UNCHANGED <<request, mandate>> PROVE WithinLimit'
    BY <1>2 DEF WithinLimit
  <1>3. ASSUME NEW p \in Proposals, ProposeMandate(p) PROVE WithinLimit'
    <2>1. \A i \in MandateIds : mandate[i].state # "None" => mandate'[i] = mandate[i]
      <3>1. nextMandateId \in Nat /\ nextMandateId \in MandateIds
        BY <1>1, <1>3, BoundsAssumption DEF TypeOK, ProposeMandate, MandateIds
      <3>2. mandate[nextMandateId].state = "None"
        BY <3>1 DEF SlotInv, FreshIds
      <3> QED BY <1>1, <1>3, <3>1, <3>2 DEF ProposeMandate
    <2> QED BY <1>3, <2>1, WithinLimitKept DEF ProposeMandate, spendVars
  <1>4. ASSUME NEW m \in MandateIds, ActivateMandate(m) PROVE WithinLimit'
    <2>1. UNCHANGED request /\ \A i \in MandateIds : mandate'[i].autoLimit = mandate[i].autoLimit
      BY <1>1, <1>4 DEF ActivateMandate, Activated, spendVars, Mandate
    <2> QED BY <2>1, WithinLimitKept
  <1>5. ASSUME NEW m \in MandateIds, RetireMandate(m) PROVE WithinLimit'
    <2>1. UNCHANGED request /\ \A i \in MandateIds : mandate'[i].autoLimit = mandate[i].autoLimit
      BY <1>1, <1>5 DEF RetireMandate, spendVars, Mandate
    <2> QED BY <2>1, WithinLimitKept
  <1>6. ASSUME NEW d \in Delegates, NEW m \in MandateIds, NEW to \in Accounts, NEW a \in Amounts,
               RequestSpend(d, m, to, a)
        PROVE  WithinLimit'
    BY <1>6, RequestSpendWithinLimit
  <1>7. ASSUME NEW r \in RequestIds, Live(r), NEW st \in RequestStates,
               request' = [request EXCEPT ![r].state = st],
               \A i \in MandateIds : mandate'[i].autoLimit = mandate[i].autoLimit
        PROVE  WithinLimit'
    <2>1. /\ \A q \in RequestIds : q # r => request'[q] = request[q]
          /\ \A q \in RequestIds : /\ request'[q].mandateId = request[q].mandateId
                                   /\ request'[q].amount = request[q].amount
                                   /\ request'[q].decision = request[q].decision
      BY <1>1, <1>7, StateChange
    <2>2. request[r].state # "None"
      BY <1>7 DEF Live, LiveStates
    <2> QED BY <1>7, <2>1, <2>2, WithinLimitKept
  <1>8. ASSUME NEW r \in RequestIds, Finalize(r) PROVE WithinLimit'
    BY <1>7, <1>8 DEF Finalize, FinalizeExecute, FinalizeEscalate, FinalizeBlocked, policyVars,
       Live, LiveStates, RequestStates
  <1>9. ASSUME NEW r \in RequestIds, ExecuteEscalated(r) PROVE WithinLimit'
    BY <1>7, <1>9 DEF ExecuteEscalated, policyVars, Live, LiveStates, RequestStates
  <1>10. ASSUME NEW r \in RequestIds, CancelEscalated(r) \/ ExpireUnfinalized(r) PROVE WithinLimit'
    <2>1. \A i \in MandateIds : mandate'[i].autoLimit = mandate[i].autoLimit
      BY <1>1, <1>10 DEF CancelEscalated, ExpireUnfinalized, Refund, Mandate
    <2> QED BY <1>7, <1>10, <2>1 DEF CancelEscalated, ExpireUnfinalized, Refund, Live, LiveStates,
            RequestStates
  <1>11. ASSUME NEW auditor \in Auditors, NEW m \in MandateIds, NEW ids \in SUBSET RequestIds,
                CreateAuditPacket(auditor, m, ids)
         PROVE  WithinLimit'
    BY <1>2, <1>11 DEF CreateAuditPacket, spendVars, policyVars
  <1>12. CASE OtherStep
    BY <1>2, <1>12 DEF OtherStep, SetFinanceAdmin, PauseAll, UnpauseAll, SetModuleEnabled,
       SafeTransfer, Wrap, Tick, policyVars, spendVars
  <1>13. CASE UNCHANGED vars
    BY <1>2, <1>13 DEF vars, policyVars, spendVars
  <1> QED BY <1>3, <1>4, <1>5, <1>6, <1>8, <1>9, <1>10, <1>11, <1>12, <1>13 DEF Next, OtherStep

\* The action of PaidInFull, for one request.
PaysInFull(r) ==
    request[r].state # "Executed" /\ request'[r].state = "Executed" =>
        /\ \/ request[r].recipient = Module
           \/ balance'[request[r].recipient] =
                 balance[request[r].recipient] + request[r].amount.val
        /\ \/ request[r].state = "AwaitingSafeApproval"
           \/ request[r].amount.val <= mandate[request[r].mandateId].autoLimit.val

\* The escrow covers the reserve of each request it holds one for.
LEMMA EscrowCoversEach ==
    ASSUME EscrowInv, NEW r \in RequestIds, Live(r)
    PROVE  request[r].reserved.val <= balance[Module]
  <1>1. PICK L : L = LiveRequests
    OBVIOUS
  <1>2. TypeOK /\ L \in SUBSET RequestIds /\ r \in L
    BY <1>1 DEF EscrowInv, SlotInv, TypeInv, LiveRequests
  <1>3. /\ SumReserved(L) = request[r].reserved.val + SumReserved(L \ {r})
        /\ SumReserved(L) \in Nat /\ SumReserved(L \ {r}) \in Nat
    BY <1>2, SumReservedTake
  <1>4. balance[Module] >= SumReserved(L)
    BY <1>1 DEF EscrowInv, EscrowCoversLiveRequests, LiveRequests
  <1>5. balance[Module] \in Nat /\ request[r].reserved.val \in Nat
    BY <1>2, AccountTypes, RequestFields DEF TypeOK
  <1> QED BY <1>3, <1>4, <1>5

LEMMA PaymentPays ==
    ASSUME EscrowInv, WithinLimit, NEW r \in RequestIds, Finalize(r) \/ ExecuteEscalated(r)
    PROVE  \A q \in RequestIds : PaysInFull(q)
  <1>1. TypeOK /\ SlotInv /\ Live(r) /\ request[r].state # "None"
    BY DEF EscrowInv, SlotInv, TypeInv, Finalize, ExecuteEscalated, Live, LiveStates
  <1>2. \A q \in RequestIds : q # r => request'[q] = request[q]
    BY <1>1 DEF Finalize, ExecuteEscalated, FinalizeExecute, FinalizeEscalate, FinalizeBlocked, TypeOK
  <1>3. SUFFICES ASSUME request'[r].state = "Executed" PROVE PaysInFull(r)
    BY <1>2 DEF PaysInFull
  <1>4. (FinalizeExecute(r) /\ request[r].state = "Requested") \/ ExecuteEscalated(r)
    BY <1>1, <1>3 DEF Finalize, FinalizeEscalate, FinalizeBlocked, TypeOK, Request
  <1>5. request[r].decision # D_BLOCKED
    BY <1>1, <1>4 DEF FinalizeExecute, ExecuteEscalated, SlotInv, ReservedByDecision, D_EXECUTE,
       D_ESCALATE, D_BLOCKED
  <1>6. request[r].reserved.val = request[r].amount.val /\ request[r].reserved.val \in Nat
        /\ request[r].recipient \in Accounts /\ Module \in Accounts
    BY <1>1, <1>5, RequestFields, AccountTypes DEF SlotInv, ReservedByDecision, TypeInv, MadeUnderMandate
  <1>7. balance' = Transfer(Module, request[r].recipient, request[r].reserved.val)
    BY <1>4 DEF FinalizeExecute, ExecuteEscalated
  <1>8. request[r].reserved.val <= balance[Module]
    BY <1>1, EscrowCoversEach
  <1>9. \/ request[r].recipient = Module
        \/ balance'[request[r].recipient] = balance[request[r].recipient] + request[r].amount.val
    BY <1>1, <1>6, <1>7, <1>8, TransferMoves
  <1>10. \/ request[r].state = "AwaitingSafeApproval"
         \/ request[r].amount.val <= mandate[request[r].mandateId].autoLimit.val
    BY <1>1, <1>4 DEF FinalizeExecute, ExecuteEscalated, WithinLimit
  <1> QED BY <1>9, <1>10 DEF PaysInFull

LEMMA PayStep ==
    ASSUME EscrowInv, WithinLimit, [Next]_vars
    PROVE  \A q \in RequestIds : PaysInFull(q)
  <1>1. TypeOK /\ SlotInv
    BY DEF EscrowInv, SlotInv, TypeInv
  <1>2. ASSUME NEW r \in RequestIds, Finalize(r) \/ ExecuteEscalated(r)
        PROVE  \A q \in RequestIds : PaysInFull(q)
    BY <1>2, PaymentPays
  <1>3. ASSUME \A q \in RequestIds : request'[q] = request[q] \/ request'[q].state # "Executed"
        PROVE  \A q \in RequestIds : PaysInFull(q)
    BY <1>3 DEF PaysInFull
  <1>4. ASSUME NEW r \in RequestIds, CancelEscalated(r) \/ ExpireUnfinalized(r)
        PROVE  \A q \in RequestIds : PaysInFull(q)
    <2>1. PICK st \in {"Cancelled", "Expired"} : request' = [request EXCEPT ![r].state = st]
      BY <1>4 DEF CancelEscalated, ExpireUnfinalized, Refund
    <2>2. request'[r].state = st /\ \A q \in RequestIds : q # r => request'[q] = request[q]
      BY <1>1, <2>1, StateChange DEF RequestStates
    <2> QED BY <1>3, <2>2
  <1>5. ASSUME NEW d \in Delegates, NEW m \in MandateIds, NEW to \in Accounts, NEW a \in Amounts,
               RequestSpend(d, m, to, a)
        PROVE  \A q \in RequestIds : PaysInFull(q)
    <2>1. PICK r : r = nextRequestId
      OBVIOUS
    <2>2. r \in RequestIds
      BY <1>1, <1>5, <2>1, BoundsAssumption DEF TypeOK, RequestSpend, RequestIds
    <2>3. request' = [request EXCEPT ![r] = NewRequest(d, m, to, a, r)]
      BY <1>5, <2>1 DEF RequestSpend, NewRequest
    <2>4. request'[r].state = "Requested" /\ \A q \in RequestIds : q # r => request'[q] = request[q]
      BY <1>1, <2>2, <2>3 DEF NewRequest, TypeOK
    <2> QED BY <1>3, <2>4
  <1>6. ASSUME UNCHANGED request PROVE \A q \in RequestIds : PaysInFull(q)
    BY <1>3, <1>6
  <1>7. ASSUME NEW p \in Proposals, ProposeMandate(p) PROVE \A q \in RequestIds : PaysInFull(q)
    BY <1>6, <1>7 DEF ProposeMandate, spendVars
  <1>8. ASSUME NEW m \in MandateIds, ActivateMandate(m) \/ RetireMandate(m)
        PROVE  \A q \in RequestIds : PaysInFull(q)
    BY <1>6, <1>8 DEF ActivateMandate, RetireMandate, spendVars
  <1>9. ASSUME NEW auditor \in Auditors, NEW m \in MandateIds, NEW ids \in SUBSET RequestIds,
               CreateAuditPacket(auditor, m, ids)
        PROVE  \A q \in RequestIds : PaysInFull(q)
    BY <1>6, <1>9 DEF CreateAuditPacket, spendVars
  <1>10. CASE OtherStep
    BY <1>6, <1>10 DEF OtherStep, SetFinanceAdmin, PauseAll, UnpauseAll, SetModuleEnabled,
       SafeTransfer, Wrap, Tick, spendVars
  <1>11. CASE UNCHANGED vars
    BY <1>6, <1>11 DEF vars, spendVars
  <1> QED BY <1>2, <1>4, <1>5, <1>7, <1>8, <1>9, <1>10, <1>11 DEF Next, OtherStep

LEMMA PayInvariant == Spec => []PayInv
  <1>1. Init => WithinLimit
    BY DEF Init, NoRequest, WithinLimit
  <1>2. LedgerInv => SlotInv /\ RequestsPlaced
    BY DEF LedgerInv
  <1>3. LedgerInv /\ WithinLimit /\ [Next]_vars => WithinLimit'
    BY <1>2, WithinLimitStep
  <1>4. EscrowInv /\ LedgerInv /\ WithinLimit => PayInv
    BY <1>2 DEF PayInv
  <1> QED BY <1>1, <1>3, <1>4, EscrowInvariant, LedgerInvariant, PTL DEF Spec

\* Whoever settles a request as executed, and whatever happened since it was made: the
\* recipient is paid in full, over the automatic limit only with the owners' approval.
THEOREM PaymentsAreInFull == Spec => PaidInFull
  <1>1. PayInv /\ [Next]_vars =>
          [\A r \in RequestIds :
             request[r].state # "Executed" /\ request'[r].state = "Executed" =>
                /\ \/ request[r].recipient = Module
                   \/ balance'[request[r].recipient] =
                         balance[request[r].recipient] + request[r].amount.val
                /\ \/ request[r].state = "AwaitingSafeApproval"
                   \/ request[r].amount.val <= mandate[request[r].mandateId].autoLimit.val]_vars
    BY PayStep DEF PayInv, PaysInFull
  <1> QED BY <1>1, PayInvariant, PTL DEF Spec, PaidInFull
=============================================================================
