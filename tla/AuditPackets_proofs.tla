------------------------- MODULE AuditPackets_proofs -------------------------
(***************************************************************************)
(* Theorems about AuditPackets, for any keys, mandates and quota, and any  *)
(* crashes, failed calls and lost receipts: a result has a packet of the   *)
(* chain for each of its mandates, and nothing is sent that the quota did  *)
(* not count, or twice unless its sender gave up on it.                    *)
(***************************************************************************)
EXTENDS AuditPackets, FiniteSetTheorems, TLAPS

-----------------------------------------------------------------------------
(* The state, as values.                                                   *)

Pcs      == {"idle", "validate", "group", "find", "consume", "send", "wait"}
Critical == {"find", "consume", "send", "wait"}
Jobs     == [pc : Pcs, run : Nat, mined : Nat, made : Seq(Nat)]
Entries  == [run : Nat, ok : BOOLEAN, made : Seq(Nat)]

\* The mandate of k that n others precede, and the group that comes after the packets made.
MandateAt(k, n)   == CHOOSE m \in Mandates(k) : Cardinality({l \in Mandates(k) : l < m}) = n
GroupAfter(k, made) == GroupOf(k, MandateAt(k, Len(made)))

\* The packets made are on the chain P, one for each mandate in their order.
MadeOK(k, made, P) ==
    /\ Len(made) <= Cardinality(Mandates(k))
    /\ \A i \in DOMAIN made :
        made[i] \in DOMAIN P /\ P[made[i]] = GroupOf(k, MandateAt(k, i - 1))

\* A packet with the requests g is no longer read, if there is one.
Old(P, g) == \A i \in DOMAIN P : P[i] = g => i + lookback <= Len(P)

\* The job j of key k, for packets P, lock A, lost groups L and J jobs begun.
JobOK(k, j, P, A, L, J) ==
    /\ MadeOK(k, j.made, P)
    /\ j.pc = "idle" <=> j.run = 0
    /\ j.run <= J
    /\ j.pc # "wait" => j.mined = 0
    /\ j.pc \in Critical <=> A = k
    /\ j.pc \in Critical => Len(j.made) < Cardinality(Mandates(k))
    /\ j.pc \in {"consume", "send"} => GroupAfter(k, j.made) \in L \/ Old(P, GroupAfter(k, j.made))
    /\ j.pc = "wait" /\ j.mined # 0 => j.mined \in DOMAIN P /\ P[j.mined] = GroupAfter(k, j.made)

\* The settled entry e of key k.
EntryOK(k, e, P) == e.ok => MadeOK(k, e.made, P) /\ Len(e.made) = Cardinality(Mandates(k))

\* A broadcast x that is not mined: its sender waits for it, or gave it up.
PendingOK(x, j, L, J) ==
    /\ x.run # 0 /\ x.run <= J
    /\ x.run # j.run => x.reqs \in L
    /\ x.run = j.run => j.pc = "wait" /\ j.mined = 0 /\ GroupAfter(x.by, j.made) = x.reqs

-----------------------------------------------------------------------------
(* The inductive invariant.                                                *)

AuditTypes ==
    /\ terminal \in SUBSET Requests /\ packets \in Seq(SUBSET Requests)
    /\ pending \in SUBSET [reqs : SUBSET Requests, by : Keys, run : Nat]
    /\ job \in [Keys -> Jobs] /\ results \in [Keys -> Entries]
    /\ timers \in SUBSET [key : Keys, entry : Entries]
    /\ adminLock \in Keys \cup {{}} /\ taken \in 0 .. dailyCap /\ broadcasts \in Nat /\ jobs \in Nat

JobInv == \A k \in Keys : JobOK(k, job[k], packets, adminLock, lost, jobs)

\* While a key has a job it has no entry; a success stays as long as its timer.
FlightInv ==
    /\ \A k \in Keys : /\ results[k].run <= jobs
                       /\ job[k].pc # "idle" => results[k].run = 0
                       /\ results[k].run = 0 => results[k] = NoEntry
                       /\ EntryOK(k, results[k], packets)
    /\ \A t \in timers : t.entry.run # 0 /\ (t.entry.ok => results[t.key] = t.entry)

\* Packets with the same requests that are read together, and broadcasts that will be.
ChainInv ==
    /\ \A i, j \in DOMAIN packets :
        i < j /\ j - i <= lookback /\ packets[i] = packets[j] => packets[i] \in lost
    /\ \A x \in pending : PendingOK(x, job[x.by], lost, jobs)
    /\ \A x \in pending : x.reqs \in lost \/ Old(packets, x.reqs)

\* Quota is taken before the broadcast.
QuotaInv ==
    /\ broadcasts <= taken
    /\ \A k \in Keys : job[k].pc = "send" => broadcasts < taken

AuditInv == AuditTypes /\ JobInv /\ FlightInv /\ ChainInv /\ QuotaInv

-----------------------------------------------------------------------------
(* Lemmas about the mandates of a key, which their order numbers.          *)

Below(S, m) == {l \in S : l < m}
Numbers(S)  == 0 .. (Cardinality(S) - 1)
Number(S)   == [m \in S |-> Cardinality(Below(S, m))]
OneToOne(f, S) ==
    /\ \A m \in S : f[m] \in Numbers(S)
    /\ \A m, n \in S : f[m] = f[n] => m = n
    /\ \A i \in Numbers(S) : \E m \in S : f[m] = i

\* A finite set of numbers is numbered by how many of it are smaller.
LEMMA Numbered ==
    ASSUME NEW S, IsFiniteSet(S), S \subseteq Nat,
           NEW f, f = Number(S)
    PROVE  OneToOne(f, S)
<1>1. Cardinality(S) \in Nat
  BY FS_CardinalityType
<1>2. ASSUME NEW m \in S
      PROVE  /\ IsFiniteSet(Below(S, m)) /\ Cardinality(Below(S, m)) \in Nat
             /\ IsFiniteSet(Below(S, m) \cup {m}) /\ Cardinality(Below(S, m) \cup {m}) = Cardinality(Below(S, m)) + 1
  <2>1. Below(S, m) \in SUBSET S /\ m \notin Below(S, m)
    BY DEF Below
  <2>2. IsFiniteSet(Below(S, m))
    BY <2>1, FS_Subset
  <2>3. Cardinality(Below(S, m)) \in Nat
    BY <2>2, FS_CardinalityType
  <2> QED BY <2>1, <2>2, <2>3, FS_AddElement
<1>3. ASSUME NEW m \in S PROVE f[m] = Cardinality(Below(S, m))
  BY DEF Number
<1>4. ASSUME NEW m \in S PROVE f[m] \in Numbers(S)
  <2>1. Below(S, m) \cup {m} \in SUBSET S
    BY DEF Below
  <2>2. Cardinality(Below(S, m) \cup {m}) <= Cardinality(S)
    BY <2>1, FS_Subset
  <2> QED BY <1>1, <1>2, <1>3, <2>2 DEF Numbers
<1>5. ASSUME NEW m \in S, NEW n \in S, m < n PROVE f[m] < f[n]
  <2>1. Below(S, m) \cup {m} \in SUBSET Below(S, n)
    <3>1. m \in Nat /\ n \in Nat /\ \A l \in S : l \in Nat
      OBVIOUS
    <3>2. \A l \in S : l < m => l < n
      BY <1>5, <3>1
    <3> QED BY <1>5, <3>2 DEF Below
  <2>2. Cardinality(Below(S, m) \cup {m}) <= Cardinality(Below(S, n))
    BY <1>2, <2>1, FS_Subset
  <2>3. f[m] = Cardinality(Below(S, m)) /\ f[n] = Cardinality(Below(S, n))
    BY <1>3
  <2>4. /\ Cardinality(Below(S, m)) \in Nat /\ Cardinality(Below(S, n)) \in Nat
        /\ Cardinality(Below(S, m) \cup {m}) = Cardinality(Below(S, m)) + 1
    BY <1>2
  <2> QED BY <2>2, <2>3, <2>4
<1>6. \A m, n \in S : f[m] = f[n] => m = n
  <2> SUFFICES ASSUME NEW m \in S, NEW n \in S, m # n PROVE f[m] # f[n]
    OBVIOUS
  <2>1. m < n \/ n < m
    OBVIOUS
  <2>2. f[m] \in Int /\ f[n] \in Int
    BY <1>1, <1>4 DEF Numbers
  <2>3. (m < n => f[m] < f[n]) /\ (n < m => f[n] < f[m])
    BY <1>5
  <2> QED BY <2>1, <2>2, <2>3
<1>7. PICK T : T = Numbers(S)
  OBVIOUS
<1>8. IsFiniteSet(T) /\ Cardinality(T) = Cardinality(S)
  <2>1. PICK b : b = Cardinality(S) - 1
    OBVIOUS
  <2>2. 0 \in Int /\ b \in Int
    BY <1>1, <2>1
  <2>3. IsFiniteSet(0 .. b) /\ Cardinality(0 .. b) = IF 0 > b THEN 0 ELSE b - 0 + 1
    BY <2>2, FS_Interval
  <2> QED BY <1>1, <1>7, <2>1, <2>2, <2>3 DEF Numbers
<1>9. f \in [S -> T]
  BY <1>4, <1>7 DEF Number
<1>10. f \in Injection(S, T)
  BY <1>6, <1>9 DEF Injection, IsInjective
<1>11. f \in Surjection(S, T)
  BY <1>8, <1>10, FS_Injection
<1>12. \A i \in T : \E m \in S : f[m] = i
  BY <1>11 DEF Surjection
<1> QED BY <1>4, <1>6, <1>7, <1>12 DEF OneToOne

\* The mandates of a key are finitely many numbers.
LEMMA MandatesFinite ==
    ASSUME AuditBounds, NEW k \in Keys
    PROVE  IsFiniteSet(Mandates(k)) /\ Mandates(k) \subseteq Nat /\ Cardinality(Mandates(k)) \in Nat
<1>1. IsFiniteSet(k) /\ \A r \in k : r \in UNION Keys /\ mandateOf[r] \in Nat
  BY DEF AuditBounds
<1>2. PICK f : f = [r \in k |-> mandateOf[r]]
  OBVIOUS
<1>3. f \in Surjection(k, Mandates(k))
  BY <1>2 DEF Surjection, Mandates
<1>4. IsFiniteSet(Mandates(k))
  BY <1>1, <1>3, FS_Surjection
<1>5. Mandates(k) \subseteq Nat
  BY <1>1 DEF Mandates
<1> QED BY <1>4, <1>5, FS_CardinalityType

\* Each number below their count is the number of one mandate, and each mandate has one.
LEMMA MandatesNumbered ==
    ASSUME AuditBounds, NEW k \in Keys
    PROVE  /\ \A i \in Numbers(Mandates(k)) : MandateAt(k, i) \in Mandates(k)
           /\ \A m \in Mandates(k) : \E i \in Numbers(Mandates(k)) : MandateAt(k, i) = m
<1>1. PICK S : S = Mandates(k)
  OBVIOUS
<1>2. IsFiniteSet(S) /\ S \subseteq Nat
  BY <1>1, MandatesFinite
<1>3. PICK f : f = Number(S)
  OBVIOUS
<1>4. /\ \A m \in S : f[m] \in Numbers(S)
      /\ \A m, n \in S : f[m] = f[n] => m = n
      /\ \A i \in Numbers(S) : \E m \in S : f[m] = i
  <2>1. OneToOne(f, S)
    BY <1>2, <1>3, Numbered
  <2> QED BY <2>1 DEF OneToOne
<1>5. \A i : MandateAt(k, i) = CHOOSE m \in S : f[m] = i
  BY <1>1, <1>3 DEF MandateAt, Number, Below
<1>6. ASSUME NEW i \in Numbers(S) PROVE MandateAt(k, i) \in S /\ f[MandateAt(k, i)] = i
  BY <1>4, <1>5
<1>7. ASSUME NEW m \in S PROVE \E i \in Numbers(S) : MandateAt(k, i) = m
  BY <1>4, <1>6
<1> QED BY <1>1, <1>6, <1>7

-----------------------------------------------------------------------------
(* Lemmas about the packets made.                                          *)

\* A sequence of numbers that grows by one.
LEMMA SeqGrows ==
    ASSUME NEW S, NEW s \in Seq(S), NEW x \in S, NEW z, z = Append(s, x)
    PROVE  /\ z \in Seq(S) /\ Len(s) \in Nat /\ Len(z) = Len(s) + 1
           /\ DOMAIN s = 1 .. Len(s) /\ DOMAIN z = 1 .. (Len(s) + 1)
           /\ z[Len(s) + 1] = x /\ \A i \in DOMAIN s : z[i] = s[i]
OBVIOUS

\* No packet is made at first.
LEMMA MadeNothing ==
    ASSUME AuditBounds, NEW k \in Keys, NEW P
    PROVE  MadeOK(k, <<>>, P)
BY MandatesFinite DEF MadeOK

\* One more packet is made.
LEMMA MadeOneMore ==
    ASSUME AuditBounds, NEW k \in Keys, NEW made \in Seq(Nat), NEW P, MadeOK(k, made, P),
           Len(made) < Cardinality(Mandates(k)),
           NEW i \in Nat, i \in DOMAIN P, P[i] = GroupAfter(k, made), NEW z, z = Append(made, i)
    PROVE  z \in Seq(Nat) /\ MadeOK(k, z, P)
<1>1. /\ z \in Seq(Nat) /\ Len(made) \in Nat /\ Len(z) = Len(made) + 1
      /\ DOMAIN made = 1 .. Len(made) /\ DOMAIN z = 1 .. (Len(made) + 1)
      /\ z[Len(made) + 1] = i /\ \A n \in DOMAIN made : z[n] = made[n]
  OBVIOUS
<1>2. Cardinality(Mandates(k)) \in Nat
  BY MandatesFinite
<1>3. Len(z) <= Cardinality(Mandates(k))
  BY <1>1, <1>2
<1>4. ASSUME NEW n \in DOMAIN z
      PROVE  z[n] \in DOMAIN P /\ P[z[n]] = GroupOf(k, MandateAt(k, n - 1))
  <2>1. CASE n \in DOMAIN made
    BY <1>1, <2>1 DEF MadeOK
  <2>2. CASE n = Len(made) + 1
    <3>1. n - 1 = Len(made)
      BY <1>1, <2>2
    <3> QED BY <1>1, <2>2, <3>1 DEF GroupAfter
  <2> QED BY <1>1, <2>1, <2>2
<1> QED BY <1>1, <1>3, <1>4 DEF MadeOK

\* The chain that grows keeps the packets made.
LEMMA MadeStays ==
    ASSUME NEW k, NEW made, NEW P, NEW Q, MadeOK(k, made, P),
           DOMAIN P \subseteq DOMAIN Q, \A i \in DOMAIN P : Q[i] = P[i]
    PROVE  MadeOK(k, made, Q)
BY DEF MadeOK

\* With one packet for each mandate, the packets are those of the mandates.
LEMMA MadeAll ==
    ASSUME AuditBounds, NEW k \in Keys, NEW made \in Seq(Nat), NEW P, MadeOK(k, made, P),
           Len(made) = Cardinality(Mandates(k))
    PROVE  {P[made[i]] : i \in DOMAIN made} = {GroupOf(k, m) : m \in Mandates(k)}
<1>1. Cardinality(Mandates(k)) \in Nat /\ DOMAIN made = 1 .. Cardinality(Mandates(k))
  BY MandatesFinite
<1>2. /\ \A i \in Numbers(Mandates(k)) : MandateAt(k, i) \in Mandates(k)
      /\ \A m \in Mandates(k) : \E i \in Numbers(Mandates(k)) : MandateAt(k, i) = m
  BY MandatesNumbered
<1>3. \A i \in DOMAIN made : i - 1 \in Numbers(Mandates(k)) /\ P[made[i]] = GroupOf(k, MandateAt(k, i - 1))
  BY <1>1 DEF MadeOK, Numbers
<1>4. \A n \in Numbers(Mandates(k)) : n + 1 \in DOMAIN made /\ (n + 1) - 1 = n
  BY <1>1 DEF Numbers
<1>5. ASSUME NEW i \in DOMAIN made PROVE \E m \in Mandates(k) : P[made[i]] = GroupOf(k, m)
  BY <1>2, <1>3
<1>6. ASSUME NEW m \in Mandates(k) PROVE \E i \in DOMAIN made : P[made[i]] = GroupOf(k, m)
  <2>1. PICK n \in Numbers(Mandates(k)) : MandateAt(k, n) = m
    BY <1>2
  <2>2. PICK i : i = n + 1
    OBVIOUS
  <2>3. i \in DOMAIN made /\ i - 1 = n
    BY <1>4, <2>2
  <2> QED BY <1>3, <2>1, <2>3
<1> QED BY <1>5, <1>6

-----------------------------------------------------------------------------
(* Lemmas about the steps of a job.                                        *)

\* The job of k becomes j and no other changes.
Turns(k, j) == j \in Jobs /\ job' \in [Keys -> Jobs] /\ job'[k] = j /\ \A u \in Keys \ {k} : job'[u] = job[u]

\* The job of k goes on at another step.
LEMMA GotoTurns ==
    ASSUME AuditTypes, NEW k \in Keys, NEW where \in Pcs, Goto(k, where)
    PROVE  \E j \in Jobs : /\ Turns(k, j) /\ j.pc = where
                           /\ j.run = job[k].run /\ j.mined = job[k].mined /\ j.made = job[k].made
<1>1. PICK j : j = [job[k] EXCEPT !.pc = where]
  OBVIOUS
<1>2. job \in [Keys -> Jobs] /\ job[k] \in Jobs
  BY DEF AuditTypes
<1>3. /\ j \in Jobs /\ j.pc = where
      /\ j.run = job[k].run /\ j.mined = job[k].mined /\ j.made = job[k].made
  BY <1>1, <1>2 DEF Jobs
<1>4. job' = [job EXCEPT ![k] = j]
  BY <1>1 DEF Goto
<1>5. Turns(k, j)
  BY <1>2, <1>3, <1>4 DEF Turns
<1> QED BY <1>3, <1>5

\* The job of k has made packet i.
LEMMA MadeTurns ==
    ASSUME AuditTypes, NEW k \in Keys, NEW i \in Nat, Made(k, i)
    PROVE  \E j \in Jobs : /\ Turns(k, j) /\ j.pc = "group"
                           /\ j.run = job[k].run /\ j.mined = 0 /\ j.made = Append(job[k].made, i)
<1>1. PICK z : z = Append(job[k].made, i)
  OBVIOUS
<1>2. job \in [Keys -> Jobs] /\ job[k] \in Jobs /\ job[k].made \in Seq(Nat)
  BY DEF AuditTypes, Jobs
<1>3. z \in Seq(Nat)
  BY <1>1, <1>2
<1>4. PICK j : j = [job[k] EXCEPT !.pc = "group", !.made = z, !.mined = 0]
  OBVIOUS
<1>5. j \in Jobs /\ j.pc = "group" /\ j.run = job[k].run /\ j.mined = 0 /\ j.made = z
  BY <1>2, <1>3, <1>4 DEF Jobs, Pcs
<1>6. job' = [job EXCEPT ![k] = j]
  BY <1>1, <1>4 DEF Made
<1>7. Turns(k, j)
  BY <1>2, <1>5, <1>6 DEF Turns
<1> QED BY <1>1, <1>5, <1>7

\* A job settles: its entry is there, with a timer of its own.
LEMMA SettleTurns ==
    ASSUME AuditTypes, NEW k \in Keys, NEW ok \in BOOLEAN, Settle(k, ok)
    PROVE  /\ IdleJob \in Jobs /\ Turns(k, IdleJob)
           /\ \E e \in Entries :
                /\ e.run = job[k].run /\ e.ok = ok /\ e.made = job[k].made
                /\ results' \in [Keys -> Entries] /\ results'[k] = e
                /\ \A u \in Keys \ {k} : results'[u] = results[u]
                /\ timers' = timers \cup {[key |-> k, entry |-> e]}
                /\ timers' \in SUBSET [key : Keys, entry : Entries]
<1>1. PICK e : e = [run |-> job[k].run, ok |-> ok, made |-> job[k].made]
  OBVIOUS
<1>2. job \in [Keys -> Jobs] /\ job[k] \in Jobs /\ results \in [Keys -> Entries]
  BY DEF AuditTypes
<1>3. e \in Entries /\ e.run = job[k].run /\ e.ok = ok /\ e.made = job[k].made
  BY <1>1, <1>2 DEF Jobs, Entries
<1>4. /\ results' = [results EXCEPT ![k] = e] /\ job' = [job EXCEPT ![k] = IdleJob]
      /\ timers' = timers \cup {[key |-> k, entry |-> e]}
  BY <1>1 DEF Settle
<1>5. IdleJob \in Jobs
  BY DEF IdleJob, Jobs, Pcs
<1>6. Turns(k, IdleJob)
  BY <1>2, <1>4, <1>5 DEF Turns
<1>7. /\ results' \in [Keys -> Entries] /\ results'[k] = e
      /\ \A u \in Keys \ {k} : results'[u] = results[u]
  BY <1>2, <1>3, <1>4
<1>8. timers' \in SUBSET [key : Keys, entry : Entries]
  BY <1>3, <1>4 DEF AuditTypes
<1> QED BY <1>3, <1>4, <1>5, <1>6, <1>7, <1>8

\* A job that keeps its place, while more groups are given up and more jobs begin.
LEMMA JobFrame ==
    ASSUME NEW k, NEW j, NEW P, NEW A, NEW B, NEW L, NEW M, NEW J \in Nat, NEW K \in Nat, j.run \in Nat,
           JobOK(k, j, P, A, L, J), A = k <=> B = k, L \subseteq M, J <= K
    PROVE  JobOK(k, j, P, B, M, K)
BY DEF JobOK

\* The turn of one key keeps the jobs of the others.
LEMMA JobTurn ==
    ASSUME AuditTypes, JobInv, NEW k \in Keys, NEW j, Turns(k, j), jobs' \in Nat,
           packets' = packets, lost \subseteq lost', jobs <= jobs',
           \A u \in Keys \ {k} : adminLock = u <=> adminLock' = u,
           JobOK(k, j, packets, adminLock', lost', jobs')
    PROVE  JobInv'
<1>1. ASSUME NEW u \in Keys PROVE JobOK(u, job'[u], packets', adminLock', lost', jobs')
  <2>1. CASE u = k
    BY <2>1 DEF Turns
  <2>2. CASE u # k
    <3>1. job'[u] = job[u] /\ job[u].run \in Nat /\ jobs \in Nat
      BY <2>2 DEF Turns, AuditTypes, Jobs
    <3>2. JobOK(u, job[u], packets, adminLock, lost, jobs)
      BY DEF JobInv
    <3>3. adminLock = u <=> adminLock' = u
      BY <2>2
    <3>4. JobOK(u, job[u], packets, adminLock', lost', jobs')
      BY <3>1, <3>2, <3>3, JobFrame
    <3> QED BY <3>1, <3>4
  <2> QED BY <2>1, <2>2
<1> QED BY <1>1 DEF JobInv

\* The turn of one key keeps the broadcasts of the others.
LEMMA ChainTurn ==
    ASSUME AuditTypes, ChainInv, NEW k \in Keys, NEW j, Turns(k, j), jobs' \in Nat,
           packets' = packets, lost \subseteq lost', jobs <= jobs', pending' \subseteq [reqs : SUBSET Requests, by : Keys, run : Nat],
           \A x \in pending' : x.by # k => x \in pending,
           \A x \in pending' : x.by = k => PendingOK(x, j, lost', jobs'),
           \A x \in pending' : x.reqs \in lost' \/ Old(packets, x.reqs)
    PROVE  ChainInv'
<1>1. ASSUME NEW x \in pending' PROVE PendingOK(x, job'[x.by], lost', jobs')
  <2>1. CASE x.by = k
    BY <2>1 DEF Turns
  <2>2. CASE x.by # k
    <3>1. x \in pending /\ x.by \in Keys \ {k} /\ x.run \in Nat /\ jobs \in Nat
      BY <2>2 DEF AuditTypes
    <3>2. PendingOK(x, job[x.by], lost, jobs)
      BY <3>1 DEF ChainInv
    <3>3. job'[x.by] = job[x.by]
      BY <3>1 DEF Turns
    <3>4. PendingOK(x, job[x.by], lost', jobs')
      BY <3>1, <3>2 DEF PendingOK
    <3> QED BY <3>3, <3>4
  <2> QED BY <2>1, <2>2
<1>2. \A i, n \in DOMAIN packets' :
        i < n /\ n - i <= lookback /\ packets'[i] = packets'[n] => packets'[i] \in lost'
  BY DEF ChainInv
<1>3. \A x \in pending' : x.reqs \in lost' \/ Old(packets', x.reqs)
  OBVIOUS
<1> QED BY <1>1, <1>2, <1>3 DEF ChainInv

\* Entries that stay, while no idle key begins a job.
LEMMA FlightTurn ==
    ASSUME AuditTypes, FlightInv, UNCHANGED <<results, timers>>, packets' = packets, jobs' = jobs,
           \A u \in Keys : job'[u].pc # "idle" => job[u].pc # "idle"
    PROVE  FlightInv'
BY DEF FlightInv

\* A key that leaves the critical section frees it for nobody else.
LEMMA Frees ==
    ASSUME AuditBounds, AuditTypes, NEW k \in Keys, Free(k)
    PROVE  /\ adminLock' \in Keys \cup {{}} /\ adminLock' # k
           /\ \A u \in Keys \ {k} : adminLock = u <=> adminLock' = u
BY DEF AuditBounds, AuditTypes, Free

\* The group a key works on.
LEMMA CurrentIs ==
    ASSUME NEW k
    PROVE  Current(k) = GroupAfter(k, job[k].made)
BY DEF Current, GroupAfter, MandateAt

\* A group is a set of requests.
LEMMA GroupsOfRequests ==
    ASSUME NEW k \in Keys, NEW m
    PROVE  GroupOf(k, m) \in SUBSET Requests
BY DEF GroupOf, Requests

\* What is known of the job of a key.
LEMMA JobKnown ==
    ASSUME AuditTypes, JobInv, NEW k \in Keys
    PROVE  /\ job[k] \in Jobs /\ job[k].run \in Nat /\ job[k].made \in Seq(Nat) /\ job[k].mined \in Nat
           /\ job[k].pc \in Pcs
           /\ JobOK(k, job[k], packets, adminLock, lost, jobs)
           /\ jobs \in Nat
BY DEF AuditTypes, JobInv, Jobs

\* While a key works in the critical section, no other does.
LEMMA Alone ==
    ASSUME JobInv, NEW k \in Keys, job[k].pc \in Critical, NEW u \in Keys, job[u].pc \in Critical
    PROVE  u = k
BY DEF JobInv, JobOK

\* A key without a job has a job of run 0.
LEMMA IdleOK ==
    ASSUME AuditBounds, NEW k \in Keys, NEW P, NEW A, A # k, NEW L, NEW J \in Nat
    PROVE  JobOK(k, IdleJob, P, A, L, J)
<1>1. MadeOK(k, <<>>, P)
  BY MadeNothing
<1> QED BY <1>1 DEF JobOK, IdleJob, Critical

\* A job that settles keeps what is known of the flights.
LEMMA SettleKeeps ==
    ASSUME AuditTypes, JobInv, FlightInv, NEW k \in Keys, NEW ok \in BOOLEAN, job[k].pc # "idle", Settle(k, ok),
           packets' = packets, jobs' = jobs, ok => Len(job[k].made) = Cardinality(Mandates(k))
    PROVE  FlightInv'
<1>1. PICK e \in Entries :
        /\ e.run = job[k].run /\ e.ok = ok /\ e.made = job[k].made
        /\ results' \in [Keys -> Entries] /\ results'[k] = e
        /\ \A u \in Keys \ {k} : results'[u] = results[u]
        /\ timers' = timers \cup {[key |-> k, entry |-> e]}
  BY SettleTurns
<1>2. Turns(k, IdleJob)
  BY SettleTurns
<1>3. JobOK(k, job[k], packets, adminLock, lost, jobs)
  BY DEF JobInv
<1>4. e.run # 0 /\ e.run <= jobs /\ EntryOK(k, e, packets)
  BY <1>1, <1>3 DEF JobOK, EntryOK
<1>5. results[k].run = 0
  BY DEF FlightInv
<1>6. ASSUME NEW u \in Keys
      PROVE  /\ results'[u].run <= jobs' /\ (job'[u].pc # "idle" => results'[u].run = 0)
             /\ results'[u].run = 0 => results'[u] = NoEntry
             /\ EntryOK(u, results'[u], packets')
  <2>1. CASE u = k
    BY <1>1, <1>2, <1>4, <2>1 DEF Turns, IdleJob
  <2>2. CASE u # k
    BY <1>1, <1>2, <2>2 DEF Turns, FlightInv
  <2> QED BY <2>1, <2>2
<1>7. ASSUME NEW t \in timers' PROVE t.entry.run # 0 /\ (t.entry.ok => results'[t.key] = t.entry)
  <2>1. CASE t \in timers
    <3>1. t.entry.run # 0 /\ (t.entry.ok => results[t.key] = t.entry) /\ t.key \in Keys
      BY <2>1 DEF FlightInv, AuditTypes
    <3>2. t.entry.ok => t.key # k
      BY <1>5, <3>1
    <3> QED BY <1>1, <3>1, <3>2
  <2>2. CASE t = [key |-> k, entry |-> e]
    <3>1. t.key = k /\ t.entry = e
      BY <2>2
    <3> QED BY <1>1, <1>4, <3>1
  <2> QED BY <1>1, <2>1, <2>2
<1> QED BY <1>6, <1>7 DEF FlightInv

\* A job that fails, whatever it has sent last counted as given up.
LEMMA FailKeeps ==
    ASSUME AuditBounds, AuditTypes, JobInv, FlightInv, ChainInv, NEW k \in Keys, job[k].pc # "idle", Fail(k),
           packets' = packets, jobs' = jobs, terminal' = terminal, lost \subseteq lost',
           taken' \in 0 .. dailyCap, broadcasts' \in Nat,
           pending' \subseteq [reqs : SUBSET Requests, by : Keys, run : Nat],
           \A x \in pending' : x \notin pending =>
               x.by = k /\ x.run # 0 /\ x.run <= jobs /\ x.reqs \in lost',
           job[k].pc = "wait" => GroupAfter(k, job[k].made) \in lost'
    PROVE  AuditTypes' /\ JobInv' /\ FlightInv' /\ ChainInv' /\ job' \in [Keys -> Jobs]
           /\ \A u \in Keys : job'[u].pc = "send" => job[u].pc = "send" /\ u # k
<1>1. Settle(k, FALSE) /\ Free(k)
  BY DEF Fail
<1>2. Turns(k, IdleJob) /\ IdleJob \in Jobs /\ results' \in [Keys -> Entries]
      /\ timers' \in SUBSET [key : Keys, entry : Entries]
  BY <1>1, SettleTurns
<1>3. /\ adminLock' \in Keys \cup {{}} /\ adminLock' # k
      /\ \A u \in Keys \ {k} : adminLock = u <=> adminLock' = u
  BY <1>1, Frees
<1>4. jobs \in Nat /\ jobs' \in Nat /\ jobs <= jobs'
  BY DEF AuditTypes
<1>5. AuditTypes'
  BY <1>2, <1>3, <1>4 DEF AuditTypes, Turns
<1>6. JobInv'
  <2>1. JobOK(k, IdleJob, packets, adminLock', lost', jobs')
    BY <1>3, <1>4, IdleOK
  <2> QED BY <1>2, <1>3, <1>4, <2>1, JobTurn
<1>7. FlightInv'
  BY <1>1, SettleKeeps
<1>8. ChainInv'
  <2>1. ASSUME NEW x \in pending' PROVE x.by = k => PendingOK(x, IdleJob, lost', jobs')
    <3>1. CASE x \in pending
      <4>1. PendingOK(x, job[x.by], lost, jobs)
        BY <3>1 DEF ChainInv
      <4> QED BY <1>4, <4>1 DEF PendingOK, IdleJob
    <3>2. CASE x \notin pending
      BY <3>2 DEF PendingOK, IdleJob
    <3> QED BY <3>1, <3>2
  <2>2. \A x \in pending' : x.reqs \in lost' \/ Old(packets, x.reqs)
    BY DEF ChainInv
  <2> QED BY <1>2, <1>4, <2>1, <2>2, ChainTurn
<1>9. \A u \in Keys : job'[u].pc = "send" => job[u].pc = "send" /\ u # k
  BY <1>2 DEF Turns, IdleJob
<1> QED BY <1>2, <1>5, <1>6, <1>7, <1>8, <1>9 DEF Turns

\* A job that goes on with what it knows, and sends nothing.
LEMMA GoesOn ==
    ASSUME AuditBounds, AuditTypes, JobInv, FlightInv, ChainInv, NEW k \in Keys, NEW j, Turns(k, j),
           job[k].pc # "idle", j.run = job[k].run,
           job[k].pc = "wait" => job[k].mined # 0,
           UNCHANGED <<results, timers>>, packets' = packets, jobs' = jobs, terminal' = terminal,
           lost \subseteq lost', pending' = pending, broadcasts' = broadcasts, taken' \in 0 .. dailyCap,
           adminLock' \in Keys \cup {{}}, \A u \in Keys \ {k} : adminLock = u <=> adminLock' = u,
           JobOK(k, j, packets, adminLock', lost', jobs)
    PROVE  AuditTypes' /\ JobInv' /\ FlightInv' /\ ChainInv'
<1>1. jobs \in Nat /\ jobs' \in Nat /\ jobs <= jobs'
  BY DEF AuditTypes
<1>2. AuditTypes'
  BY DEF AuditTypes, Turns
<1>3. JobInv'
  BY <1>1, JobTurn
<1>4. FlightInv'
  <2>1. \A u \in Keys : job'[u].pc # "idle" => job[u].pc # "idle"
    BY DEF Turns
  <2> QED BY <2>1, FlightTurn
<1>5. ChainInv'
  <2>1. pending' \subseteq [reqs : SUBSET Requests, by : Keys, run : Nat]
    BY DEF AuditTypes
  <2>2. ASSUME NEW x \in pending', x.by = k PROVE PendingOK(x, j, lost', jobs')
    <3>1. PendingOK(x, job[k], lost, jobs)
      BY <2>2 DEF ChainInv
    <3> QED BY <3>1 DEF PendingOK
  <2>3. \A x \in pending' : x.reqs \in lost' \/ Old(packets, x.reqs)
    BY DEF ChainInv
  <2> QED BY <1>1, <2>1, <2>2, <2>3, ChainTurn
<1> QED BY <1>2, <1>3, <1>4, <1>5

-----------------------------------------------------------------------------
(* The steps of a job.                                                     *)

\* A job that fails before it sends anything, or while it waits.
LEMMA FailsQuietly ==
    ASSUME AuditBounds, AuditInv, NEW k \in Keys, job[k].pc # "idle", Fail(k),
           UNCHANGED <<terminal, packets, pending, broadcasts, jobs>>, lost \subseteq lost',
           taken' \in 0 .. dailyCap, taken <= taken',
           job[k].pc = "wait" => GroupAfter(k, job[k].made) \in lost'
    PROVE  AuditInv'
<1>1. AuditTypes /\ JobInv /\ FlightInv /\ ChainInv /\ QuotaInv
  BY DEF AuditInv
<1>2. /\ broadcasts \in Nat /\ pending \subseteq [reqs : SUBSET Requests, by : Keys, run : Nat]
      /\ taken \in Nat /\ taken' \in Nat
  BY <1>1 DEF AuditTypes, AuditBounds
<1>3. /\ AuditTypes' /\ JobInv' /\ FlightInv' /\ ChainInv'
      /\ \A u \in Keys : job'[u].pc = "send" => job[u].pc = "send" /\ u # k
  BY <1>1, <1>2, FailKeeps
<1>4. QuotaInv'
  BY <1>1, <1>2, <1>3 DEF QuotaInv
<1> QED BY <1>3, <1>4 DEF AuditInv

\* The validation of the requests.
LEMMA ValidateKeeps ==
    ASSUME AuditBounds, AuditInv, NEW k \in Keys, Validate(k)
    PROVE  AuditInv'
<1>1. /\ job[k].pc = "validate" /\ UNCHANGED <<terminal, packets, pending, taken, broadcasts, lost, jobs>>
      /\ AuditTypes /\ JobInv /\ FlightInv /\ ChainInv /\ QuotaInv
  BY DEF Validate, AuditInv
<1>2. taken' \in 0 .. dailyCap /\ taken <= taken' /\ dailyCap \in Nat
  BY <1>1 DEF AuditTypes, AuditBounds
<1>3. ASSUME Goto(k, "group"), UNCHANGED <<results, timers, adminLock>> PROVE AuditInv'
  <2>1. PICK j \in Jobs : /\ Turns(k, j) /\ j.pc = "group"
                          /\ j.run = job[k].run /\ j.mined = job[k].mined /\ j.made = job[k].made
    BY <1>1, <1>3, GotoTurns DEF Pcs
  <2>2. JobOK(k, job[k], packets, adminLock, lost, jobs)
    BY <1>1, JobKnown
  <2>3. JobOK(k, j, packets, adminLock', lost, jobs)
    BY <1>1, <1>3, <2>1, <2>2 DEF JobOK, Critical
  <2>4. adminLock' \in Keys \cup {{}} /\ \A u \in Keys \ {k} : adminLock = u <=> adminLock' = u
    BY <1>1, <1>3 DEF AuditTypes
  <2>5. AuditTypes' /\ JobInv' /\ FlightInv' /\ ChainInv'
    BY <1>1, <1>2, <1>3, <2>1, <2>3, <2>4, GoesOn
  <2>6. QuotaInv'
    BY <1>1, <2>1 DEF QuotaInv, Turns
  <2> QED BY <2>5, <2>6 DEF AuditInv
<1>4. ASSUME Fail(k) PROVE AuditInv'
  <2>1. lost \subseteq lost'
    BY <1>1
  <2> QED BY <1>1, <1>2, <1>4, <2>1, FailsQuietly
<1> QED BY <1>3, <1>4 DEF Validate

\* The next group enters the critical section, or the job is done.
LEMMA NextGroupKeeps ==
    ASSUME AuditBounds, AuditInv, NEW k \in Keys, NextGroup(k)
    PROVE  AuditInv'
<1>1. /\ job[k].pc = "group" /\ UNCHANGED <<terminal, packets, pending, taken, broadcasts, lost, jobs>>
      /\ AuditTypes /\ JobInv /\ FlightInv /\ ChainInv /\ QuotaInv
  BY DEF NextGroup, AuditInv
<1>2. taken' \in 0 .. dailyCap /\ dailyCap \in Nat
  BY <1>1 DEF AuditTypes, AuditBounds
<1>3. /\ JobOK(k, job[k], packets, adminLock, lost, jobs) /\ jobs \in Nat
      /\ Len(job[k].made) \in Nat /\ Cardinality(Mandates(k)) \in Nat
  BY <1>1, JobKnown, MandatesFinite
<1>4. ASSUME Len(job[k].made) = Cardinality(Mandates(k)), Settle(k, TRUE), adminLock' = adminLock
      PROVE  AuditInv'
  <2>1. Turns(k, IdleJob) /\ IdleJob \in Jobs /\ results' \in [Keys -> Entries]
        /\ timers' \in SUBSET [key : Keys, entry : Entries]
    BY <1>1, <1>4, SettleTurns
  <2>2. AuditTypes'
    BY <1>1, <1>4, <2>1 DEF AuditTypes, Turns
  <2>3. adminLock # k
    BY <1>1, <1>3 DEF JobOK, Critical
  <2>4. JobOK(k, IdleJob, packets, adminLock', lost', jobs')
    BY <1>1, <1>3, <1>4, <2>3, IdleOK
  <2>5. JobInv'
    BY <1>1, <1>3, <1>4, <2>1, <2>4, JobTurn
  <2>6. FlightInv'
    BY <1>1, <1>4, SettleKeeps
  <2>7. ChainInv'
    <3>1. ASSUME NEW x \in pending', x.by = k PROVE PendingOK(x, IdleJob, lost', jobs')
      <4>1. PendingOK(x, job[k], lost, jobs)
        BY <1>1, <3>1 DEF ChainInv
      <4> QED BY <1>1, <4>1 DEF PendingOK, IdleJob
    <3>2. /\ pending' \subseteq [reqs : SUBSET Requests, by : Keys, run : Nat]
          /\ \A x \in pending' : x.reqs \in lost' \/ Old(packets, x.reqs)
      BY <1>1 DEF AuditTypes, ChainInv
    <3> QED BY <1>1, <1>3, <2>1, <3>1, <3>2, ChainTurn
  <2>8. QuotaInv'
    BY <1>1, <2>1 DEF QuotaInv, Turns, IdleJob
  <2> QED BY <2>2, <2>5, <2>6, <2>7, <2>8 DEF AuditInv
<1>5. ASSUME Len(job[k].made) # Cardinality(Mandates(k)), adminLock = {}, adminLock' = k, Goto(k, "find"),
             UNCHANGED <<results, timers>>
      PROVE  AuditInv'
  <2>1. PICK j \in Jobs : /\ Turns(k, j) /\ j.pc = "find"
                          /\ j.run = job[k].run /\ j.mined = job[k].mined /\ j.made = job[k].made
    BY <1>1, <1>5, GotoTurns DEF Pcs
  <2>2. JobOK(k, j, packets, adminLock', lost, jobs)
    BY <1>1, <1>3, <1>5, <2>1 DEF JobOK, Critical, MadeOK
  <2>3. adminLock' \in Keys \cup {{}} /\ \A u \in Keys \ {k} : adminLock = u <=> adminLock' = u
    BY <1>5 DEF AuditBounds
  <2>4. AuditTypes' /\ JobInv' /\ FlightInv' /\ ChainInv'
    BY <1>1, <1>2, <1>5, <2>1, <2>2, <2>3, GoesOn
  <2>5. QuotaInv'
    BY <1>1, <2>1 DEF QuotaInv, Turns
  <2> QED BY <2>4, <2>5 DEF AuditInv
<1> QED BY <1>4, <1>5 DEF NextGroup

\* A packet is found and reused, or none that is still read is there.
LEMMA FindKeeps ==
    ASSUME AuditBounds, AuditInv, NEW k \in Keys, Find(k)
    PROVE  AuditInv'
<1>1. /\ job[k].pc = "find" /\ UNCHANGED <<terminal, packets, pending, taken, broadcasts, jobs>>
      /\ AuditTypes /\ JobInv /\ FlightInv /\ ChainInv /\ QuotaInv
  BY DEF Find, AuditInv
<1>2. taken' \in 0 .. dailyCap /\ taken <= taken' /\ dailyCap \in Nat /\ lookback \in Nat
  BY <1>1 DEF AuditTypes, AuditBounds
<1>3. /\ JobOK(k, job[k], packets, adminLock, lost, jobs) /\ jobs \in Nat /\ job[k].made \in Seq(Nat)
      /\ DOMAIN packets = 1 .. Len(packets) /\ Len(packets) \in Nat
  BY <1>1, JobKnown DEF AuditTypes
<1>4. PICK g : g = Current(k)
  OBVIOUS
<1>5. g = GroupAfter(k, job[k].made)
  BY <1>4, CurrentIs
<1>6. ASSUME NEW i \in Found(g), Made(k, i), Free(k), UNCHANGED <<results, timers, lost>>
      PROVE  AuditInv'
  <2>1. i \in DOMAIN packets /\ packets[i] = g /\ i \in Nat
    BY <1>3, <1>6 DEF Found
  <2>2. PICK j \in Jobs : /\ Turns(k, j) /\ j.pc = "group"
                          /\ j.run = job[k].run /\ j.mined = 0 /\ j.made = Append(job[k].made, i)
    BY <1>1, <1>6, <2>1, MadeTurns
  <2>3. /\ adminLock' \in Keys \cup {{}} /\ adminLock' # k
        /\ \A u \in Keys \ {k} : adminLock = u <=> adminLock' = u
    BY <1>1, <1>6, Frees
  <2>4. MadeOK(k, job[k].made, packets) /\ Len(job[k].made) < Cardinality(Mandates(k))
    BY <1>1, <1>3 DEF JobOK, Critical
  <2>5. MadeOK(k, j.made, packets)
    BY <1>3, <1>5, <2>1, <2>2, <2>4, MadeOneMore
  <2>6. JobOK(k, j, packets, adminLock', lost', jobs)
    BY <1>1, <1>3, <2>2, <2>3, <2>5 DEF JobOK, Critical
  <2>7. AuditTypes' /\ JobInv' /\ FlightInv' /\ ChainInv'
    BY <1>1, <1>2, <1>6, <2>2, <2>3, <2>6, GoesOn
  <2>8. QuotaInv'
    BY <1>1, <2>2 DEF QuotaInv, Turns
  <2> QED BY <2>7, <2>8 DEF AuditInv
<1>7. ASSUME Goto(k, "consume"), UNCHANGED <<results, timers, adminLock>>,
             lost \subseteq lost', g \in lost' \/ Found(g) = {}
      PROVE  AuditInv'
  <2>1. PICK j \in Jobs : /\ Turns(k, j) /\ j.pc = "consume"
                          /\ j.run = job[k].run /\ j.mined = job[k].mined /\ j.made = job[k].made
    BY <1>1, <1>7, GotoTurns DEF Pcs
  <2>2. ASSUME Found(g) = {} PROVE Old(packets, g)
    <3> SUFFICES ASSUME NEW i \in DOMAIN packets, packets[i] = g PROVE i + lookback <= Len(packets)
      BY DEF Old
    <3>1. i \in Nat /\ ~(i > Len(packets) - lookback)
      BY <1>3, <2>2 DEF Found
    <3> QED BY <1>2, <1>3, <3>1
  <2>3. g \in lost' \/ Old(packets, g)
    BY <1>7, <2>2
  <2>4. JobOK(k, j, packets, adminLock', lost', jobs)
    BY <1>1, <1>3, <1>5, <1>7, <2>1, <2>3 DEF JobOK, Critical
  <2>5. adminLock' \in Keys \cup {{}} /\ \A u \in Keys \ {k} : adminLock = u <=> adminLock' = u
    BY <1>1, <1>7 DEF AuditTypes
  <2>6. AuditTypes' /\ JobInv' /\ FlightInv' /\ ChainInv'
    BY <1>1, <1>2, <1>7, <2>1, <2>4, <2>5, GoesOn
  <2>7. QuotaInv'
    BY <1>1, <2>1 DEF QuotaInv, Turns
  <2> QED BY <2>6, <2>7 DEF AuditInv
<1>8. ASSUME Fail(k), UNCHANGED lost PROVE AuditInv'
  <2>1. lost \subseteq lost'
    BY <1>8
  <2> QED BY <1>1, <1>2, <1>8, <2>1, FailsQuietly
<1>9. \A i \in Newest(Found(g)) : i \in Found(g)
  BY DEF Newest
<1>10. lost' = lost \/ lost' = lost \cup {g} => lost \subseteq lost'
  OBVIOUS
<1> QED BY <1>4, <1>6, <1>7, <1>8, <1>9, <1>10 DEF Find

\* Quota is taken, or the job fails.
LEMMA ConsumeKeeps ==
    ASSUME AuditBounds, AuditInv, NEW k \in Keys, Consume(k)
    PROVE  AuditInv'
<1>1. /\ job[k].pc = "consume" /\ UNCHANGED <<terminal, packets, pending, broadcasts, lost, jobs>>
      /\ AuditTypes /\ JobInv /\ FlightInv /\ ChainInv /\ QuotaInv
  BY DEF Consume, AuditInv
<1>2. taken \in 0 .. dailyCap /\ dailyCap \in Nat /\ broadcasts \in Nat
  BY <1>1 DEF AuditTypes, AuditBounds
<1>3. JobOK(k, job[k], packets, adminLock, lost, jobs)
  BY <1>1, JobKnown
<1>4. ASSUME taken < dailyCap, Consumed, Goto(k, "send"), UNCHANGED <<results, timers, adminLock>>
      PROVE  AuditInv'
  <2>1. PICK j \in Jobs : /\ Turns(k, j) /\ j.pc = "send"
                          /\ j.run = job[k].run /\ j.mined = job[k].mined /\ j.made = job[k].made
    BY <1>1, <1>4, GotoTurns DEF Pcs
  <2>2. JobOK(k, j, packets, adminLock', lost, jobs)
    BY <1>1, <1>3, <1>4, <2>1 DEF JobOK, Critical
  <2>3. adminLock' \in Keys \cup {{}} /\ \A u \in Keys \ {k} : adminLock = u <=> adminLock' = u
    BY <1>1, <1>4 DEF AuditTypes
  <2>4. taken' \in 0 .. dailyCap /\ taken' = taken + 1
    BY <1>2, <1>4 DEF Consumed
  <2>5. AuditTypes' /\ JobInv' /\ FlightInv' /\ ChainInv'
    BY <1>1, <1>4, <2>1, <2>2, <2>3, <2>4, GoesOn
  <2>6. broadcasts' = broadcasts /\ broadcasts <= taken
    BY <1>1 DEF QuotaInv
  <2>7. QuotaInv'
    BY <1>2, <2>4, <2>6 DEF QuotaInv
  <2> QED BY <2>5, <2>7 DEF AuditInv
<1>5. ASSUME Fail(k), taken' \in 0 .. dailyCap, taken <= taken' PROVE AuditInv'
  <2>1. lost \subseteq lost'
    BY <1>1
  <2> QED BY <1>1, <1>5, <2>1, FailsQuietly
<1>6. ASSUME Fail(k), UNCHANGED taken \/ (taken < dailyCap /\ Consumed) PROVE AuditInv'
  <2>1. taken' \in 0 .. dailyCap /\ taken <= taken'
    BY <1>2, <1>6 DEF Consumed
  <2> QED BY <1>5, <1>6, <2>1
<1> QED BY <1>4, <1>6 DEF Consume

\* The transaction is sent, or the job fails, whether it was sent or not.
LEMMA BroadcastKeeps ==
    ASSUME AuditBounds, AuditInv, NEW k \in Keys, Broadcast(k)
    PROVE  AuditInv'
<1>1. /\ job[k].pc = "send" /\ UNCHANGED <<terminal, packets, taken, jobs>>
      /\ AuditTypes /\ JobInv /\ FlightInv /\ ChainInv /\ QuotaInv
  BY DEF Broadcast, AuditInv
<1>2. /\ taken \in 0 .. dailyCap /\ taken' \in 0 .. dailyCap /\ dailyCap \in Nat /\ broadcasts \in Nat
      /\ pending \subseteq [reqs : SUBSET Requests, by : Keys, run : Nat] /\ broadcasts < taken
  BY <1>1 DEF AuditTypes, AuditBounds, QuotaInv
<1>3. /\ job[k] \in Jobs /\ job[k].run \in Nat
      /\ JobOK(k, job[k], packets, adminLock, lost, jobs) /\ jobs \in Nat
  BY <1>1, JobKnown
<1>4. PICK g : g = Current(k)
  OBVIOUS
<1>5. g = GroupAfter(k, job[k].made) /\ g \in SUBSET Requests
  BY <1>4, CurrentIs, GroupsOfRequests DEF GroupAfter
<1>6. g \in lost \/ Old(packets, g)
  BY <1>1, <1>3, <1>5 DEF JobOK
<1>7. PICK x : x = [reqs |-> g, by |-> k, run |-> job[k].run]
  OBVIOUS
<1>8. /\ x \in [reqs : SUBSET Requests, by : Keys, run : Nat]
      /\ x.reqs = g /\ x.by = k /\ x.run = job[k].run /\ x.run # 0 /\ x.run <= jobs
  BY <1>1, <1>3, <1>5, <1>7 DEF JobOK
<1>9. \A u \in Keys : job[u].pc = "send" => u = k
  <2>1. job[k].pc \in Critical /\ \A u \in Keys : job[u].pc = "send" => job[u].pc \in Critical
    BY <1>1 DEF Critical
  <2> QED BY <1>1, <2>1, Alone
<1>10. ASSUME pending' = pending \cup {x}, broadcasts' = broadcasts + 1, Goto(k, "wait"),
              UNCHANGED <<results, timers, adminLock, lost>>
       PROVE  AuditInv'
  <2>1. PICK j \in Jobs : /\ Turns(k, j) /\ j.pc = "wait"
                          /\ j.run = job[k].run /\ j.mined = job[k].mined /\ j.made = job[k].made
    BY <1>1, <1>10, GotoTurns DEF Pcs
  <2>2. JobOK(k, j, packets, adminLock', lost', jobs') /\ j.mined = 0
    BY <1>1, <1>3, <1>10, <2>1 DEF JobOK, Critical
  <2>3. /\ adminLock' \in Keys \cup {{}} /\ \A u \in Keys \ {k} : adminLock = u <=> adminLock' = u
        /\ jobs' \in Nat /\ jobs <= jobs' /\ lost \subseteq lost'
        /\ pending' \subseteq [reqs : SUBSET Requests, by : Keys, run : Nat]
    BY <1>1, <1>2, <1>3, <1>8, <1>10 DEF AuditTypes
  <2>4. AuditTypes'
    BY <1>1, <1>2, <1>10, <2>1, <2>3 DEF AuditTypes, Turns
  <2>5. JobInv'
    BY <1>1, <2>1, <2>2, <2>3, JobTurn
  <2>6. FlightInv'
    <3>1. \A u \in Keys : job'[u].pc # "idle" => job[u].pc # "idle"
      BY <1>1, <2>1 DEF Turns
    <3> QED BY <1>1, <1>10, <3>1, FlightTurn
  <2>7. ChainInv'
    <3>1. ASSUME NEW y \in pending', y.by = k PROVE PendingOK(y, j, lost', jobs')
      <4>1. CASE y = x
        BY <1>1, <1>5, <1>8, <2>1, <2>2, <4>1 DEF PendingOK
      <4>2. CASE y # x
        <5>1. y \in pending /\ PendingOK(y, job[k], lost, jobs)
          BY <1>1, <1>10, <3>1, <4>2 DEF ChainInv
        <5>2. y.run # job[k].run
          BY <1>1, <5>1 DEF PendingOK
        <5> QED BY <1>1, <1>10, <2>1, <5>1, <5>2 DEF PendingOK
      <4> QED BY <4>1, <4>2
    <3>2. \A y \in pending' : y.by # k => y \in pending
      BY <1>8, <1>10
    <3>3. \A y \in pending' : y.reqs \in lost' \/ Old(packets, y.reqs)
      BY <1>1, <1>6, <1>8, <1>10 DEF ChainInv
    <3> QED BY <1>1, <2>1, <2>3, <3>1, <3>2, <3>3, ChainTurn
  <2>8. QuotaInv'
    <3>1. \A u \in Keys : job'[u].pc # "send"
      BY <1>9, <2>1 DEF Turns
    <3> QED BY <1>1, <1>2, <1>10, <3>1 DEF QuotaInv
  <2> QED BY <2>4, <2>5, <2>6, <2>7, <2>8 DEF AuditInv
<1>11. ASSUME Fail(k), pending' = pending \cup {x}, broadcasts' = broadcasts + 1, lost' = lost \cup {g}
       PROVE  AuditInv'
  <2>1. /\ lost \subseteq lost' /\ broadcasts' \in Nat /\ job[k].pc # "idle" /\ job[k].pc # "wait"
        /\ pending' \subseteq [reqs : SUBSET Requests, by : Keys, run : Nat]
        /\ \A y \in pending' : y \notin pending =>
                y.by = k /\ y.run # 0 /\ y.run <= jobs /\ y.reqs \in lost'
    BY <1>1, <1>2, <1>8, <1>11
  <2>2. /\ AuditTypes' /\ JobInv' /\ FlightInv' /\ ChainInv'
        /\ \A u \in Keys : job'[u].pc = "send" => job[u].pc = "send" /\ u # k
    BY <1>1, <1>2, <1>11, <2>1, FailKeeps
  <2>3. \A u \in Keys : job'[u].pc # "send"
    BY <1>9, <2>2
  <2>4. QuotaInv'
    BY <1>1, <1>2, <1>11, <2>3 DEF QuotaInv
  <2> QED BY <2>2, <2>4 DEF AuditInv
<1>12. ASSUME Fail(k), UNCHANGED <<pending, broadcasts, lost>> PROVE AuditInv'
  <2>1. lost \subseteq lost' /\ taken <= taken'
    BY <1>1, <1>2, <1>12
  <2> QED BY <1>1, <1>2, <1>12, <2>1, FailsQuietly
<1> QED BY <1>4, <1>7, <1>10, <1>11, <1>12 DEF Broadcast

\* The receipt comes, or the job gives up.
LEMMA ReceiptKeeps ==
    ASSUME AuditBounds, AuditInv, NEW k \in Keys, Receipt(k)
    PROVE  AuditInv'
<1>1. /\ job[k].pc = "wait" /\ UNCHANGED <<terminal, packets, pending, taken, broadcasts, jobs>>
      /\ AuditTypes /\ JobInv /\ FlightInv /\ ChainInv /\ QuotaInv
  BY DEF Receipt, AuditInv
<1>2. taken \in 0 .. dailyCap /\ taken' \in 0 .. dailyCap /\ taken <= taken' /\ dailyCap \in Nat
  BY <1>1 DEF AuditTypes, AuditBounds
<1>3. /\ job[k].made \in Seq(Nat) /\ job[k].mined \in Nat
      /\ JobOK(k, job[k], packets, adminLock, lost, jobs)
  BY <1>1, JobKnown
<1>4. Current(k) = GroupAfter(k, job[k].made)
  BY CurrentIs
<1>5. ASSUME job[k].mined # 0, Made(k, job[k].mined), Free(k), UNCHANGED <<results, timers, lost>>
      PROVE  AuditInv'
  <2>1. PICK i : i = job[k].mined
    OBVIOUS
  <2>2. i \in Nat /\ i \in DOMAIN packets /\ packets[i] = GroupAfter(k, job[k].made) /\ Made(k, i)
    BY <1>1, <1>3, <1>5, <2>1 DEF JobOK
  <2>3. PICK j \in Jobs : /\ Turns(k, j) /\ j.pc = "group"
                          /\ j.run = job[k].run /\ j.mined = 0 /\ j.made = Append(job[k].made, i)
    BY <1>1, <2>2, MadeTurns
  <2>4. /\ adminLock' \in Keys \cup {{}} /\ adminLock' # k
        /\ \A u \in Keys \ {k} : adminLock = u <=> adminLock' = u
    BY <1>1, <1>5, Frees
  <2>5. MadeOK(k, job[k].made, packets) /\ Len(job[k].made) < Cardinality(Mandates(k))
    BY <1>1, <1>3 DEF JobOK, Critical
  <2>6. MadeOK(k, j.made, packets)
    BY <1>3, <2>2, <2>3, <2>5, MadeOneMore
  <2>7. JobOK(k, j, packets, adminLock', lost, jobs)
    BY <1>1, <1>3, <2>3, <2>4, <2>6 DEF JobOK, Critical
  <2>8. AuditTypes' /\ JobInv' /\ FlightInv' /\ ChainInv'
    BY <1>1, <1>2, <1>5, <2>3, <2>4, <2>7, GoesOn
  <2>9. QuotaInv'
    BY <1>1, <2>3 DEF QuotaInv, Turns
  <2> QED BY <2>8, <2>9 DEF AuditInv
<1>6. ASSUME Fail(k), lost' = lost \cup {Current(k)} PROVE AuditInv'
  <2>1. lost \subseteq lost' /\ GroupAfter(k, job[k].made) \in lost'
    BY <1>4, <1>6
  <2> QED BY <1>1, <1>2, <1>6, <2>1, FailsQuietly
<1> QED BY <1>5, <1>6 DEF Receipt

-----------------------------------------------------------------------------
(* The steps of the clients, the timers, the chain and the process.        *)

\* The empty entry is an entry, and says nothing.
LEMMA NoEntryIs ==
    NoEntry \in Entries /\ NoEntry.run = 0 /\ ~NoEntry.ok /\ (\A k, P : EntryOK(k, NoEntry, P))
BY DEF NoEntry, Entries, EntryOK

\* An entry that goes, of a success whose timers all go or of a failure.
LEMMA EntryGoes ==
    ASSUME AuditInv, NEW k \in Keys, results' = [results EXCEPT ![k] = NoEntry], timers' \subseteq timers,
           UNCHANGED <<terminal, packets, pending, job, adminLock, taken, broadcasts, lost, jobs>>,
           \A t \in timers' : t.key = k => ~t.entry.ok
    PROVE  AuditInv'
<1>1. AuditTypes /\ JobInv /\ FlightInv /\ ChainInv /\ QuotaInv
  BY DEF AuditInv
<1>2. results' \in [Keys -> Entries] /\ results'[k] = NoEntry /\ \A u \in Keys \ {k} : results'[u] = results[u]
  BY <1>1, NoEntryIs DEF AuditTypes
<1>3. AuditTypes'
  BY <1>1, <1>2 DEF AuditTypes
<1>4. JobInv' /\ ChainInv' /\ QuotaInv'
  BY <1>1 DEF JobInv, ChainInv, QuotaInv
<1>5. ASSUME NEW u \in Keys
      PROVE  /\ results'[u].run <= jobs' /\ (job'[u].pc # "idle" => results'[u].run = 0)
             /\ results'[u].run = 0 => results'[u] = NoEntry
             /\ EntryOK(u, results'[u], packets')
  <2>1. CASE u = k
    BY <1>1, <1>2, <2>1, NoEntryIs DEF AuditTypes
  <2>2. CASE u # k
    BY <1>1, <1>2, <2>2 DEF FlightInv
  <2> QED BY <2>1, <2>2
<1>6. ASSUME NEW t \in timers' PROVE t.entry.run # 0 /\ (t.entry.ok => results'[t.key] = t.entry)
  <2>1. t.key \in Keys /\ t.entry.run # 0 /\ (t.entry.ok => results[t.key] = t.entry)
    BY <1>1 DEF AuditTypes, FlightInv
  <2> QED BY <1>2, <2>1
<1>7. FlightInv'
  BY <1>5, <1>6 DEF FlightInv
<1> QED BY <1>3, <1>4, <1>7 DEF AuditInv

\* A key begins a run of its own.
LEMMA BeginKeeps ==
    ASSUME AuditBounds, AuditInv, NEW k \in Keys, results[k].run = 0, ~Running(k), jobs' = jobs + 1,
           job' = [job EXCEPT ![k] = [IdleJob EXCEPT !.pc = "validate", !.run = jobs + 1]],
           UNCHANGED <<results, timers>>,
           UNCHANGED <<terminal, packets, pending, adminLock, taken, broadcasts, lost>>
    PROVE  AuditInv'
<1>1. AuditTypes /\ JobInv /\ FlightInv /\ ChainInv /\ QuotaInv
  BY DEF AuditInv
<1>2. /\ job[k].pc = "idle" /\ jobs \in Nat /\ jobs' \in Nat /\ jobs <= jobs' /\ job \in [Keys -> Jobs]
      /\ JobOK(k, job[k], packets, adminLock, lost, jobs)
  BY <1>1, JobKnown DEF Running, AuditTypes
<1>3. PICK j : j = [IdleJob EXCEPT !.pc = "validate", !.run = jobs + 1]
  OBVIOUS
<1>4. j \in Jobs /\ j.pc = "validate" /\ j.run = jobs + 1 /\ j.mined = 0 /\ j.made = <<>>
  <2>1. IdleJob \in Jobs /\ IdleJob.mined = 0 /\ IdleJob.made = <<>>
    BY DEF IdleJob, Jobs, Pcs
  <2>2. PICK n \in Nat : n = jobs + 1
    BY <1>2
  <2>3. j = [IdleJob EXCEPT !.pc = "validate", !.run = n]
    BY <1>3, <2>2
  <2>4. j \in Jobs /\ j.pc = "validate" /\ j.run = n /\ j.mined = 0 /\ j.made = <<>>
    BY <2>1, <2>3 DEF Jobs, Pcs
  <2> QED BY <2>2, <2>4
<1>5. Turns(k, j)
  BY <1>2, <1>3, <1>4 DEF Turns
<1>6. job[k].run = 0 /\ adminLock # k
  BY <1>2 DEF JobOK, Critical
<1>7. JobOK(k, j, packets, adminLock', lost', jobs')
  <2>1. MadeOK(k, <<>>, packets)
    BY MadeNothing
  <2> QED BY <1>2, <1>4, <1>6, <2>1 DEF JobOK, Critical
<1>8. lost \subseteq lost' /\ \A u \in Keys \ {k} : adminLock = u <=> adminLock' = u
  OBVIOUS
<1>9. AuditTypes'
  BY <1>1, <1>2, <1>5 DEF AuditTypes, Turns
<1>10. JobInv'
  BY <1>1, <1>2, <1>5, <1>7, <1>8, JobTurn
<1>11. FlightInv'
  <2>1. ASSUME NEW u \in Keys
        PROVE  results'[u].run <= jobs' /\ (job'[u].pc # "idle" => results'[u].run = 0)
    <3>1. results[u].run <= jobs /\ results[u].run \in Nat
      BY <1>1 DEF FlightInv, AuditTypes, Entries
    <3>2. job[u].pc # "idle" => results[u].run = 0
      BY <1>1 DEF FlightInv
    <3> QED BY <1>2, <1>5, <3>1, <3>2 DEF Turns
  <2> QED BY <1>1, <2>1 DEF FlightInv
<1>12. ChainInv'
  <2>1. ASSUME NEW x \in pending', x.by = k PROVE PendingOK(x, j, lost', jobs')
    <3>1. PendingOK(x, job[k], lost, jobs) /\ x.run \in Nat
      BY <1>1, <2>1 DEF ChainInv, AuditTypes
    <3> QED BY <1>2, <1>4, <1>6, <3>1 DEF PendingOK
  <2>2. /\ pending' \subseteq [reqs : SUBSET Requests, by : Keys, run : Nat]
        /\ \A x \in pending' : x.reqs \in lost' \/ Old(packets, x.reqs)
    BY <1>1 DEF AuditTypes, ChainInv
  <2> QED BY <1>1, <1>2, <1>5, <1>8, <2>1, <2>2, ChainTurn
<1>13. QuotaInv'
  BY <1>1, <1>4, <1>5 DEF QuotaInv, Turns
<1> QED BY <1>9, <1>10, <1>11, <1>12, <1>13 DEF AuditInv

\* What a step that changes nothing of the packets keeps.
LEMMA SameKeeps ==
    ASSUME AuditInv, terminal' \in SUBSET Requests,
           UNCHANGED <<packets, pending, flights, adminLock, taken, broadcasts, lost, jobs>>
    PROVE  AuditInv'
<1>1. AuditTypes /\ JobInv /\ FlightInv /\ ChainInv /\ QuotaInv /\ UNCHANGED <<job, results, timers>>
  BY DEF AuditInv, flights
<1>2. AuditTypes' /\ JobInv'
  BY <1>1 DEF AuditTypes, JobInv
<1>3. FlightInv' /\ ChainInv' /\ QuotaInv'
  BY <1>1 DEF FlightInv, ChainInv, QuotaInv
<1> QED BY <1>2, <1>3 DEF AuditInv

\* A client asks: a success again, a failure once, a run that is there or a new one.
LEMMA TakeKeeps ==
    ASSUME AuditBounds, AuditInv, NEW k \in Keys, Take(k)
    PROVE  AuditInv'
<1>1. UNCHANGED <<terminal, packets, pending, adminLock, taken, broadcasts, lost, faults>>
  BY DEF Take
<1>2. ASSUME UNCHANGED <<flights, jobs>> PROVE AuditInv'
  BY <1>1, <1>2, SameKeeps DEF AuditInv, AuditTypes
<1>3. ASSUME results[k].run # 0, ~results[k].ok, results' = [results EXCEPT ![k] = NoEntry],
             UNCHANGED <<job, timers, jobs>>
      PROVE  AuditInv'
  <2>1. \A t \in timers' : t.key = k => ~t.entry.ok
    BY <1>3 DEF AuditInv, FlightInv
  <2> QED BY <1>1, <1>3, <2>1, EntryGoes
<1>4. ASSUME results[k].run = 0, ~Running(k), jobs' = jobs + 1,
             job' = [job EXCEPT ![k] = [IdleJob EXCEPT !.pc = "validate", !.run = jobs + 1]],
             UNCHANGED <<results, timers>>
      PROVE  AuditInv'
  BY <1>1, <1>4, BeginKeeps
<1> QED BY <1>2, <1>3, <1>4 DEF Take

\* An entry's timer fires.
LEMMA EvictKeeps ==
    ASSUME AuditInv, NEW t \in timers, Evict(t)
    PROVE  AuditInv'
<1>1. /\ timers' = timers \ {t} /\ AuditTypes /\ JobInv /\ FlightInv /\ ChainInv /\ QuotaInv
      /\ UNCHANGED <<terminal, packets, pending, job, adminLock, taken, broadcasts, lost, jobs, faults>>
  BY DEF Evict, AuditInv
<1>2. t \in [key : Keys, entry : Entries] /\ t.key \in Keys
  BY <1>1 DEF AuditTypes
<1>3. ASSUME OwnEntry(t), results' = [results EXCEPT ![t.key] = NoEntry] PROVE AuditInv'
  <2>1. ASSUME NEW s \in timers', s.key = t.key PROVE ~s.entry.ok
    <3>1. s \in timers /\ s # t /\ s \in [key : Keys, entry : Entries]
      BY <1>1 DEF AuditTypes
    <3>2. s.entry # t.entry
      BY <1>2, <2>1, <3>1
    <3>3. s.entry.ok => results[s.key] = s.entry
      BY <1>1, <3>1 DEF FlightInv
    <3> QED BY <1>3, <2>1, <3>2, <3>3 DEF OwnEntry
  <2> QED BY <1>1, <1>2, <1>3, <2>1, EntryGoes
<1>4. ASSUME results' = results PROVE AuditInv'
  <2>1. AuditTypes' /\ JobInv'
    BY <1>1, <1>4 DEF AuditTypes, JobInv
  <2>2. FlightInv' /\ ChainInv' /\ QuotaInv'
    BY <1>1, <1>4 DEF FlightInv, ChainInv, QuotaInv
  <2> QED BY <2>1, <2>2 DEF AuditInv
<1> QED BY <1>3, <1>4 DEF Evict

\* A request reaches its final state.
LEMMA TerminateKeeps ==
    ASSUME AuditInv, NEW r \in Requests, Terminate(r)
    PROVE  AuditInv'
<1>1. terminal' \in SUBSET Requests
  BY DEF Terminate, AuditInv, AuditTypes
<1> QED BY <1>1, SameKeeps DEF Terminate

\* The chain takes up a broadcast: nobody else is about to send the same requests.
LEMMA MineKeeps ==
    ASSUME AuditBounds, AuditInv, NEW x \in pending, Mine(x)
    PROVE  AuditInv'
<1>1. /\ pending' = pending \ {x} /\ packets' = Append(packets, x.reqs)
      /\ UNCHANGED <<terminal, results, timers, adminLock, taken, broadcasts, lost, jobs>>
      /\ AuditTypes /\ JobInv /\ FlightInv /\ ChainInv /\ QuotaInv
  BY DEF Mine, AuditInv
<1>2. PICK P : P = packets
  OBVIOUS
<1>3. PICK Q : Q = packets'
  OBVIOUS
<1>4. PICK g : g = x.reqs
  OBVIOUS
<1>5. PICK n : n = Len(P)
  OBVIOUS
<1>6. /\ P \in Seq(SUBSET Requests) /\ g \in SUBSET Requests /\ x.by \in Keys /\ x.run \in Nat
      /\ lookback \in Nat /\ jobs \in Nat
  BY <1>1, <1>2, <1>4 DEF AuditTypes, AuditBounds
<1>7. /\ Q \in Seq(SUBSET Requests) /\ n \in Nat /\ Len(Q) = n + 1
      /\ DOMAIN P = 1 .. n /\ DOMAIN Q = 1 .. (n + 1)
      /\ Q[n + 1] = g /\ \A i \in DOMAIN P : Q[i] = P[i]
  <2>1. Q = Append(P, g)
    BY <1>1, <1>2, <1>3, <1>4
  <2> QED BY <1>5, <1>6, <2>1, SeqGrows
<1>8. PendingOK(x, job[x.by], lost, jobs) /\ (g \in lost \/ Old(P, g))
  BY <1>1, <1>2, <1>4 DEF ChainInv
<1>9. g \notin lost => /\ job[x.by].run = x.run /\ job[x.by].pc = "wait" /\ job[x.by].mined = 0
                       /\ GroupAfter(x.by, job[x.by].made) = g
  BY <1>4, <1>8 DEF PendingOK
\* What is old stays so, and the broadcast's own requests are not awaited by others.
<1>10. ASSUME NEW h, Old(P, h), h # g PROVE Old(Q, h)
  <2> SUFFICES ASSUME NEW i \in DOMAIN Q, Q[i] = h PROVE i + lookback <= Len(Q)
    BY DEF Old
  <2>1. i \in DOMAIN P
    BY <1>7, <1>10
  <2>2. i + lookback <= n
    BY <1>5, <1>7, <1>10, <2>1 DEF Old
  <2> QED BY <1>6, <1>7, <2>1, <2>2
\* The job of each key.
<1>11. \A u \in Keys \ {x.by} : job'[u] = job[u]
  BY <1>1, <1>6 DEF Mine, AuditTypes
<1>12. job \in [Keys -> Jobs]
  BY <1>1 DEF AuditTypes
<1>13. /\ job' \in [Keys -> Jobs]
       /\ job[x.by].run = x.run /\ job[x.by].pc = "wait" =>
             /\ job'[x.by].pc = "wait" /\ job'[x.by].run = x.run /\ job'[x.by].made = job[x.by].made
             /\ job'[x.by].mined = n + 1
       /\ ~(job[x.by].run = x.run /\ job[x.by].pc = "wait") => job'[x.by] = job[x.by]
  <2>1. CASE job[x.by].run = x.run /\ job[x.by].pc = "wait"
    <3>1. PICK b : b = x.by
      OBVIOUS
    <3>2. PICK m \in Nat : m = n + 1
      BY <1>7
    <3>3. job' = [job EXCEPT ![b].mined = m]
      BY <1>2, <1>5, <2>1, <3>1, <3>2 DEF Mine
    <3>4. PICK j : j = [job[b] EXCEPT !.mined = m]
      OBVIOUS
    <3>5. job[b] \in Jobs /\ b \in Keys
      BY <1>6, <1>12, <3>1
    <3>6. j \in Jobs /\ j.pc = job[b].pc /\ j.run = job[b].run /\ j.made = job[b].made /\ j.mined = m
      BY <3>4, <3>5 DEF Jobs
    <3>7. job' = [job EXCEPT ![b] = j]
      BY <3>3, <3>4
    <3>8. job' \in [Keys -> Jobs] /\ job'[b] = j
      BY <1>12, <3>5, <3>6, <3>7
    <3> QED BY <2>1, <3>1, <3>2, <3>6, <3>8
  <2>2. CASE ~(job[x.by].run = x.run /\ job[x.by].pc = "wait")
    BY <1>12, <2>2 DEF Mine
  <2> QED BY <2>1, <2>2
<1>14. AuditTypes'
  BY <1>1, <1>3, <1>7, <1>13 DEF AuditTypes
<1>15. JobInv'
  <2>1. ASSUME NEW u \in Keys PROVE JobOK(u, job'[u], Q, adminLock, lost, jobs)
    <3>1. JobOK(u, job[u], P, adminLock, lost, jobs) /\ job[u].mined \in Nat
      BY <1>1, <1>2, JobKnown
    <3>2. MadeOK(u, job[u].made, Q)
      <4>1. DOMAIN P \subseteq DOMAIN Q
        BY <1>7
      <4> QED BY <1>7, <3>1, <4>1, MadeStays DEF JobOK
    <3>3. ASSUME job[u].pc \in {"consume", "send"}
          PROVE  GroupAfter(u, job[u].made) \in lost \/ Old(Q, GroupAfter(u, job[u].made))
      <4>1. GroupAfter(u, job[u].made) \in lost \/ Old(P, GroupAfter(u, job[u].made))
        BY <3>1, <3>3 DEF JobOK
      <4>2. g \in lost
        <5> SUFFICES ASSUME g \notin lost PROVE FALSE
          OBVIOUS
        <5>1. job[x.by].pc = "wait"
          BY <1>9
        <5>2. job[x.by].pc \in Critical /\ job[u].pc \in Critical
          BY <3>3, <5>1 DEF Critical
        <5>3. u = x.by
          BY <1>1, <1>6, <5>2, Alone
        <5> QED BY <3>3, <5>1, <5>3
      <4> QED BY <1>10, <4>1, <4>2
    <3>4. ASSUME job[u].pc = "wait", job[u].mined # 0
          PROVE  job[u].mined \in DOMAIN Q /\ Q[job[u].mined] = GroupAfter(u, job[u].made)
      <4>1. job[u].mined \in DOMAIN P /\ P[job[u].mined] = GroupAfter(u, job[u].made)
        BY <3>1, <3>4 DEF JobOK
      <4> QED BY <1>7, <4>1
    <3>5. JobOK(u, job[u], Q, adminLock, lost, jobs)
      BY <3>1, <3>2, <3>3, <3>4 DEF JobOK
    <3>6. CASE u # x.by \/ ~(job[u].run = x.run /\ job[u].pc = "wait")
      BY <1>11, <1>13, <3>5, <3>6
    <3>7. CASE u = x.by /\ job[u].run = x.run /\ job[u].pc = "wait"
      <4>1. /\ job'[u].pc = "wait" /\ job'[u].run = job[u].run /\ job'[u].made = job[u].made
            /\ job'[u].mined = n + 1
        BY <1>13, <3>7
      <4>2. n + 1 \in DOMAIN Q /\ Q[n + 1] = GroupAfter(u, job[u].made)
        BY <1>4, <1>7, <1>8, <3>7 DEF PendingOK
      <4> QED BY <3>5, <3>7, <4>1, <4>2 DEF JobOK
    <3> QED BY <3>6, <3>7
  <2> QED BY <1>1, <1>3, <2>1 DEF JobInv
<1>16. FlightInv'
  <2>1. ASSUME NEW u \in Keys
        PROVE  (job'[u].pc # "idle" => results[u].run = 0) /\ EntryOK(u, results[u], Q)
    <3>1. job'[u].pc # "idle" => job[u].pc # "idle"
      BY <1>11, <1>13
    <3>2. EntryOK(u, results[u], P) /\ (job[u].pc # "idle" => results[u].run = 0)
      BY <1>1, <1>2 DEF FlightInv
    <3>3. DOMAIN P \subseteq DOMAIN Q
      BY <1>7
    <3>4. EntryOK(u, results[u], Q)
      BY <1>7, <3>2, <3>3, MadeStays DEF EntryOK
    <3> QED BY <3>1, <3>2, <3>4
  <2> QED BY <1>1, <1>3, <2>1 DEF FlightInv
<1>17. ChainInv'
  <2>1. ASSUME NEW i \in DOMAIN Q, NEW k \in DOMAIN Q, i < k, k - i <= lookback, Q[i] = Q[k]
        PROVE  Q[i] \in lost
    <3>1. i \in DOMAIN P /\ Q[i] = P[i] /\ i \in Nat /\ k \in Nat
      BY <1>7, <2>1
    <3>2. CASE k \in DOMAIN P
      BY <1>1, <1>2, <1>7, <2>1, <3>1, <3>2 DEF ChainInv
    <3>3. CASE k = n + 1
      <4>1. P[i] = g
        BY <1>7, <2>1, <3>1, <3>3
      <4>2. ~Old(P, g)
        <5> SUFFICES ASSUME i + lookback <= Len(P) PROVE FALSE
          BY <3>1, <4>1 DEF Old
        <5> QED BY <1>5, <1>6, <1>7, <2>1, <3>1, <3>3
      <4> QED BY <1>8, <3>1, <4>1, <4>2
    <3> QED BY <1>7, <3>2, <3>3
  <2>2. ASSUME NEW y \in pending, y # x
        PROVE  PendingOK(y, job'[y.by], lost, jobs) /\ (y.reqs \in lost \/ Old(Q, y.reqs))
    <3>1. /\ PendingOK(y, job[y.by], lost, jobs) /\ (y.reqs \in lost \/ Old(P, y.reqs)) /\ y.by \in Keys
          /\ y \in [reqs : SUBSET Requests, by : Keys, run : Nat]
          /\ x \in [reqs : SUBSET Requests, by : Keys, run : Nat]
      BY <1>1, <1>2 DEF ChainInv, AuditTypes
    <3>2. ~(y.by = x.by /\ y.run = x.run /\ y.reqs = x.reqs)
      BY <2>2, <3>1
    <3>3. ~(y.by = x.by /\ y.run = job[y.by].run /\ x.run = job[x.by].run)
      BY <1>8, <3>1, <3>2 DEF PendingOK
    <3>4. PendingOK(y, job'[y.by], lost, jobs)
      <4>1. CASE y.by = x.by /\ job[x.by].run = x.run /\ job[x.by].pc = "wait"
        BY <1>13, <3>1, <3>3, <4>1 DEF PendingOK
      <4>2. CASE ~(y.by = x.by /\ job[x.by].run = x.run /\ job[x.by].pc = "wait")
        BY <1>11, <1>13, <3>1, <4>2
      <4> QED BY <4>1, <4>2
    <3>5. ASSUME y.reqs \notin lost PROVE Old(Q, y.reqs)
      <4>1. job[y.by].pc = "wait" /\ y.run = job[y.by].run
        BY <3>1, <3>5 DEF PendingOK
      <4>2. y.reqs # g
        <5> SUFFICES ASSUME y.reqs = g PROVE FALSE
          OBVIOUS
        <5>1. job[x.by].pc = "wait" /\ x.run = job[x.by].run
          BY <1>9, <3>5
        <5>2. job[x.by].pc \in Critical /\ job[y.by].pc \in Critical
          BY <4>1, <5>1 DEF Critical
        <5>3. y.by = x.by
          BY <1>1, <1>6, <3>1, <5>2, Alone
        <5> QED BY <3>3, <4>1, <5>1, <5>3
      <4> QED BY <1>10, <3>1, <3>5, <4>2
    <3> QED BY <3>4, <3>5
  <2>3. \A y \in pending' : y \in pending /\ y # x
    BY <1>1
  <2> QED BY <1>1, <1>3, <2>1, <2>2, <2>3 DEF ChainInv
<1>18. QuotaInv'
  <2>1. \A u \in Keys : job'[u].pc = "send" => job[u].pc = "send"
    BY <1>11, <1>13
  <2> QED BY <1>1, <2>1 DEF QuotaInv
<1> QED BY <1>14, <1>15, <1>16, <1>17, <1>18 DEF AuditInv

\* The process dies: its flights are gone, and who waited for a receipt gave it up.
LEMMA CrashKeeps ==
    ASSUME AuditBounds, AuditInv, Crash
    PROVE  AuditInv'
<1>1. /\ job' = [k \in Keys |-> IdleJob] /\ results' = [k \in Keys |-> NoEntry] /\ timers' = {}
      /\ adminLock' = {} /\ UNCHANGED <<terminal, packets, pending, taken, broadcasts, jobs>>
      /\ lost' = lost \cup {Current(k) : k \in {q \in Keys : job[q].pc = "wait"}}
      /\ AuditTypes /\ JobInv /\ FlightInv /\ ChainInv /\ QuotaInv
  BY DEF Crash, AuditInv
<1>2. /\ \A k \in Keys : job'[k] = IdleJob /\ results'[k] = NoEntry /\ adminLock' # k
      /\ lost \subseteq lost' /\ jobs \in Nat
  BY <1>1 DEF AuditBounds, AuditTypes
<1>3. IdleJob \in Jobs /\ IdleJob.pc = "idle" /\ IdleJob.run = 0
  BY DEF IdleJob, Jobs, Pcs
<1>4. AuditTypes'
  BY <1>1, <1>3, NoEntryIs DEF AuditTypes
<1>5. JobInv'
  BY <1>1, <1>2, IdleOK DEF JobInv
<1>6. FlightInv'
  BY <1>1, <1>2, <1>3, NoEntryIs DEF FlightInv
<1>7. ChainInv'
  <2>1. ASSUME NEW x \in pending PROVE PendingOK(x, IdleJob, lost', jobs)
    <3>1. PendingOK(x, job[x.by], lost, jobs) /\ x.by \in Keys
      BY <1>1 DEF ChainInv, AuditTypes
    <3>2. x.reqs \in lost'
      <4>1. CASE x.run # job[x.by].run
        BY <1>2, <3>1, <4>1 DEF PendingOK
      <4>2. CASE x.run = job[x.by].run
        <5>1. job[x.by].pc = "wait" /\ GroupAfter(x.by, job[x.by].made) = x.reqs
          BY <3>1, <4>2 DEF PendingOK
        <5>2. Current(x.by) = x.reqs
          BY <5>1, CurrentIs
        <5> QED BY <1>1, <3>1, <5>1, <5>2
      <4> QED BY <4>1, <4>2
    <3> QED BY <1>3, <3>1, <3>2 DEF PendingOK
  <2>2. \A x \in pending : x.by \in Keys
    BY <1>1 DEF AuditTypes
  <2> QED BY <1>1, <1>2, <2>1, <2>2 DEF ChainInv
<1>8. QuotaInv'
  BY <1>1, <1>2, <1>3 DEF QuotaInv
<1> QED BY <1>4, <1>5, <1>6, <1>7, <1>8 DEF AuditInv

-----------------------------------------------------------------------------
(* The theorem.                                                            *)

\* The first state satisfies the invariant.
LEMMA AuditStarts ==
    ASSUME AuditBounds, Init
    PROVE  AuditInv
<1>1. /\ terminal \in SUBSET Requests
      /\ packets = <<>> /\ pending = {} /\ timers = {} /\ adminLock = {} /\ taken = 0 /\ broadcasts = 0
      /\ lost = {} /\ jobs = 0
      /\ job = [k \in Keys |-> IdleJob] /\ results = [k \in Keys |-> NoEntry] /\ dailyCap \in Nat
  BY DEF Init, AuditBounds
<1>2. \A k \in Keys : job[k] = IdleJob /\ results[k] = NoEntry /\ adminLock # k
  BY <1>1 DEF AuditBounds
<1>3. IdleJob \in Jobs /\ IdleJob.pc = "idle" /\ IdleJob.run = 0
  BY DEF IdleJob, Jobs, Pcs
<1>4. AuditTypes
  BY <1>1, <1>3, NoEntryIs DEF AuditTypes
<1>5. JobInv
  BY <1>1, <1>2, IdleOK DEF JobInv
<1>6. FlightInv
  BY <1>1, <1>2, <1>3, NoEntryIs DEF FlightInv
<1>7. ChainInv /\ QuotaInv
  BY <1>1, <1>2, <1>3 DEF ChainInv, QuotaInv
<1> QED BY <1>4, <1>5, <1>6, <1>7 DEF AuditInv

\* Every step keeps it.
LEMMA AuditStep ==
    ASSUME AuditBounds, AuditInv, [Next]_vars
    PROVE  AuditInv'
<1>1. ASSUME NEW k \in Keys, JobStep(k) PROVE AuditInv'
  BY <1>1, ValidateKeeps, NextGroupKeeps, FindKeeps, ConsumeKeeps, BroadcastKeeps, ReceiptKeeps DEF JobStep
<1>2. ASSUME NEW k \in Keys, Take(k) PROVE AuditInv'
  BY <1>2, TakeKeeps
<1>3. ASSUME NEW t \in timers, Evict(t) PROVE AuditInv'
  BY <1>3, EvictKeeps
<1>4. ASSUME NEW x \in pending, Mine(x) PROVE AuditInv'
  BY <1>4, MineKeeps
<1>5. ASSUME NEW r \in Requests, Terminate(r) PROVE AuditInv'
  BY <1>5, TerminateKeeps
<1>6. ASSUME Crash PROVE AuditInv'
  BY <1>6, CrashKeeps
<1>7. ASSUME UNCHANGED vars PROVE AuditInv'
  BY <1>7, SameKeeps DEF vars, AuditInv, AuditTypes
<1> QED BY <1>1, <1>2, <1>3, <1>4, <1>5, <1>6, <1>7 DEF Next, Malformed

\* The invariant has the safety of the packets.
LEMMA AuditPromises ==
    ASSUME AuditBounds, AuditInv
    PROVE  PacketsSafe
<1>1. AuditTypes /\ JobInv /\ FlightInv /\ ChainInv /\ QuotaInv
  BY DEF AuditInv
<1>2. AuditTypeOK
  <2>1. ASSUME NEW k \in Keys
        PROVE  results[k].run \in 0 .. jobs /\ Len(job[k].made) <= Cardinality(Mandates(k))
    <3>1. JobOK(k, job[k], packets, adminLock, lost, jobs) /\ jobs \in Nat
      BY <1>1, JobKnown
    <3>2. results[k].run \in Nat /\ results[k].run <= jobs
      BY <1>1 DEF AuditTypes, FlightInv, Entries
    <3> QED BY <3>1, <3>2 DEF JobOK, MadeOK
  <2> QED BY <1>1, <2>1 DEF AuditTypeOK, AuditTypes
<1>3. SuccessIsRedelivered
  BY <1>1 DEF SuccessIsRedelivered, FlightInv
<1>4. ResultsAreComplete
  <2> SUFFICES ASSUME NEW k \in Keys, results[k].ok
               PROVE  {packets[results[k].made[i]] : i \in DOMAIN results[k].made}
                          = {GroupOf(k, m) : m \in Mandates(k)}
    BY DEF ResultsAreComplete
  <2>1. MadeOK(k, results[k].made, packets) /\ Len(results[k].made) = Cardinality(Mandates(k))
    BY <1>1 DEF FlightInv, EntryOK
  <2>2. results[k].made \in Seq(Nat)
    BY <1>1 DEF AuditTypes, Entries
  <2> QED BY <2>1, <2>2, MadeAll
<1>5. NoNeedlessPackets /\ QuotaBeforeBroadcast
  BY <1>1 DEF NoNeedlessPackets, QuotaBeforeBroadcast, ChainInv, QuotaInv
<1> QED BY <1>2, <1>3, <1>4, <1>5 DEF PacketsSafe

\* The packets are safe: a settled success is handed out until its own timer, names a packet of
\* the chain for every mandate, and no packet is sent uncounted, or twice without need.
THEOREM PacketsAreSafe ==
    ASSUME AuditBounds
    PROVE  Spec => []PacketsSafe
<1>1. Init => AuditInv
  BY AuditStarts
<1>2. AuditInv /\ [Next]_vars => AuditInv'
  BY AuditStep
<1>3. AuditInv => PacketsSafe
  BY AuditPromises
<1> QED BY <1>1, <1>2, <1>3, PTL DEF Spec
=============================================================================
