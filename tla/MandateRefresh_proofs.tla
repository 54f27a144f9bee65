------------------------ MODULE MandateRefresh_proofs ------------------------
(***************************************************************************)
(* Theorems about MandateRefresh, for any delegates, visitors, requests,   *)
(* proposals made elsewhere, crashes and failed calls: every mandate the   *)
(* pipelines activate has assets of its own behind it, and what the        *)
(* journal and demoReady say of them is true.                              *)
(***************************************************************************)
EXTENDS MandateRefresh, FiniteSetTheorems, TLAPS

-----------------------------------------------------------------------------
(* The state, as values.                                                   *)

Watching == {"next", "gas", "topup", "mandate", "look", "scan"}
Backing  == {"fund", "faucet", "approve", "wrap"}
Matched  == {"propose", "receipt", "activate"}      \* wrapped for, not yet activated
Pcs      == Watching \cup Backing \cup Matched \cup {"idle", "record", "failed"}
JobRecs  == [pc : Pcs, at : Nat, who : Delegates, seen : Nat, id : Nat, backed : BOOLEAN]

Probing   == {"requests", "gas", "budget", "ready"}     \* past the evidence
ProbeRecs == [pc : Probing \cup {"idle", "mandate", "notReady"}, who : Delegates, id : Nat]

Minting(m, d) == [id |-> m, of |-> d, backed |-> TRUE]
Mintings      == [id : Nat, of : Delegates, backed : {TRUE}]

\* The run j of pipeline w, for the mandates O proposed and the activations M.
JobOK(w, j, O, M) ==
    /\ j.at <= Len(DEMO_DELEGATES)
    /\ j.pc \in Watching => w # "provision"
    /\ j.pc \in Matched \cup {"record"} => j.backed = TRUE
    /\ j.pc \in {"receipt", "activate", "record"} => j.id \in 1 .. Len(O) /\ O[j.id] = j.who
    /\ j.pc = "record" => Minting(j.id, j.who) \in M

JobsOK ==
    /\ job \in [Jobs -> JobRecs]
    /\ \A w \in Jobs : JobOK(w, job[w], ownerOf, minted)

ChainOK == RefreshTypeOK /\ ownerOf \in Seq(Delegates) /\ refreshing \in BOOLEAN

\* What was activated is a proposal of its delegate, with assets.
MintedOK ==
    /\ minted \subseteq Mintings /\ IsFiniteSet(minted)
    /\ \A x \in minted : x.id \in 1 .. Len(ownerOf) /\ ownerOf[x.id] = x.of

\* Of what was wrapped, each activation and each proposal under way has its own.
Awaited == {w \in Jobs : job[w].pc \in Matched}
BackedOK == Cardinality(minted) + Cardinality(Awaited) <= wrapped

\* A journal J holds only activations.
Proven(J) == \A d \in Delegates : J[d] # 0 => Minting(J[d], d) \in minted

ProbeOK ==
    /\ probe \in ProbeRecs
    /\ probe.pc = "mandate" => probe.id # 0
    /\ probe.pc \in Probing => Minting(probe.id, probe.who) \in minted

CycleOK ==
    /\ OneRefreshAtATime
    /\ refreshing = TRUE <=> \E c \in Cycles : job[c].pc # "idle"

RefreshInv ==
    /\ ChainOK /\ JobsOK /\ MintedOK /\ BackedOK
    /\ Proven(mem) /\ Proven(disk) /\ ProbeOK /\ CycleOK

LEMMA First == RefreshBounds => DEMO_DELEGATES[1] \in Delegates /\ IdleJob \in JobRecs
  BY DEF RefreshBounds, Delegates, IdleJob, JobRecs, Pcs

LEMMA RefreshInit == RefreshBounds /\ Init => RefreshInv
<1> SUFFICES ASSUME RefreshBounds, Init PROVE RefreshInv
  OBVIOUS
<1>1. DEMO_DELEGATES[1] \in Delegates /\ IdleJob \in JobRecs
  BY First
<1>2. ownerOf \in Seq(Delegates) /\ Len(ownerOf) = 1 /\ ownerOf[1] = DEMO_DELEGATES[1]
  BY <1>1 DEF Init
<1>3. ChainOK
  <2>1. /\ active \in [Delegates -> 0 .. 1] /\ mem \in [Delegates -> 0 .. 1]
        /\ disk \in [Delegates -> 0 .. 1] /\ unfit \subseteq 1 .. 1
    BY DEF Init
  <2>2. slot \subseteq Delegates /\ gasLow \subseteq Delegates
    BY <1>1 DEF Init
  <2>3. adminLock = "free" /\ wrapped = 0 /\ cache \in [Delegates -> {"none", "low", "ok"}]
    BY DEF Init
  <2>4. refreshing \in BOOLEAN
    BY DEF Init
  <2> QED BY <1>2, <2>1, <2>2, <2>3, <2>4 DEF ChainOK, RefreshTypeOK
<1>4. job = [w \in Jobs |-> IdleJob] /\ IdleJob.pc = "idle" /\ IdleJob.at = 0
  BY DEF Init, IdleJob
<1>5. JobsOK
  BY <1>1, <1>4 DEF JobsOK, JobOK, Watching, Matched, RefreshBounds
<1>6. MintedOK
  BY FS_EmptySet DEF Init, MintedOK
<1>7. Awaited = {}
  BY <1>4 DEF Awaited, Matched
<1>8. BackedOK
  BY <1>7, FS_EmptySet DEF Init, BackedOK
<1>9. Proven(mem) /\ Proven(disk)
  BY DEF Init, Proven
<1>10. ProbeOK
  BY <1>1 DEF Init, ProbeOK, IdleProbe, ProbeRecs, Probing
<1>11. CycleOK
  BY <1>4 DEF Init, CycleOK, OneRefreshAtATime, Cycles, Jobs
<1> QED BY <1>3, <1>5, <1>6, <1>8, <1>9, <1>10, <1>11 DEF RefreshInv

-----------------------------------------------------------------------------
(* What a step of the pipeline w does.                                     *)

JobMove(w) == job' \in [Jobs -> JobRecs] /\ \A v \in Jobs \ {w} : job'[v] = job[v]

\* It begins no proposal and claims nothing of the chain.
Harmless(w) ==
    /\ JobMove(w)
    /\ \A O, M : JobOK(w, job'[w], O, M)
    /\ job'[w].pc \notin Matched

\* It activates for a proposal under way, and begins one only for what it wrapped.
Counts(w) ==
    \/ minted' = minted /\ wrapped' = wrapped + 1
    \/ minted' = minted /\ wrapped' = wrapped /\ (job'[w].pc \in Matched => job[w].pc \in Matched)
    \/ /\ wrapped' = wrapped /\ job[w].pc \in Matched /\ job'[w].pc \notin Matched
       /\ \E x : minted' = minted \cup {x}

\* A cycle that is under way stays so until it ends, and then the flag is dropped.
CycleMove(w) ==
    IF w \in Cycles /\ job'[w].pc = "idle" THEN refreshing' = FALSE
    ELSE refreshing' = refreshing /\ (w \in Cycles => job[w].pc # "idle")

Effect(w) ==
    /\ JobMove(w) /\ JobOK(w, job'[w], ownerOf', minted')
    /\ Counts(w) /\ CycleMove(w)

LEMMA StepMoves ==
    ASSUME JobsOK, NEW w \in Jobs, NEW pc \in Pcs, Step(w, pc)
    PROVE  /\ JobMove(w) /\ job'[w].pc = pc /\ job'[w].backed = job[w].backed
           /\ job'[w].id = job[w].id /\ job'[w].who = job[w].who /\ job'[w].at = job[w].at
  BY DEF JobsOK, Step, JobMove, JobRecs

LEMMA HarmlessStep ==
    ASSUME JobsOK, NEW w \in Jobs, NEW pc \in Pcs, Step(w, pc),
           pc \notin Matched \cup {"record"}, pc \in Watching => w # "provision"
    PROVE  Harmless(w) /\ job'[w].pc = pc
<1>1. /\ JobMove(w) /\ job'[w].pc = pc /\ job'[w].at = job[w].at
  BY StepMoves
<1>2. job[w].at <= Len(DEMO_DELEGATES)
  BY DEF JobsOK, JobOK
<1> QED BY <1>1, <1>2 DEF Harmless, JobOK, Matched

\* The catch leaves the pipeline where it claims nothing, and is no end of a cycle.
LEMMA GiveUpHarmless ==
    ASSUME JobsOK, NEW w \in Jobs, GiveUp(w)
    PROVE  Harmless(w) /\ job'[w].pc # "idle"
<1>1. CASE w = "provision"
  <2>1. Step(w, "failed")
    BY <1>1 DEF GiveUp
  <2> QED BY <2>1, HarmlessStep DEF Pcs, Matched, Watching
<1>2. CASE w # "provision"
  <2>1. Step(w, "next")
    BY <1>2 DEF GiveUp
  <2> QED BY <1>2, <2>1, HarmlessStep DEF Pcs, Matched, Watching
<1> QED BY <1>1, <1>2

LEMMA HarmlessEffect ==
    ASSUME NEW w \in Jobs, Harmless(w), job[w].pc # "idle", job'[w].pc # "idle",
           minted' = minted, wrapped' = wrapped, refreshing' = refreshing
    PROVE  Effect(w)
  BY DEF Harmless, Effect, Counts, CycleMove

LEMMA WatchEffect ==
    ASSUME ChainOK, JobsOK, NEW w \in Jobs,
           GasCheck(w) \/ GasTopUp(w) \/ ReadActive(w) \/ Look(w) \/ Scan(w) \/ Fund(w)
    PROVE  Effect(w)
<1>1. job[w].pc \in {"gas", "topup", "mandate", "look", "scan", "fund"}
  BY DEF GasCheck, GasTopUp, ReadActive, Look, Scan, Fund
<1>2. minted' = minted /\ wrapped' = wrapped /\ refreshing' = refreshing
  BY DEF GasCheck, GasTopUp, ReadActive, Look, Scan, Fund, chain
<1>3. job[w].pc \in Watching => w # "provision"
  BY DEF JobsOK, JobOK
<1>4. Harmless(w) /\ job'[w].pc # "idle"
  <2>1. ASSUME NEW pc \in {"mandate", "next", "topup", "scan", "fund"}, Step(w, pc),
               job[w].pc \in Watching
        PROVE  Harmless(w) /\ job'[w].pc # "idle"
    BY <1>3, <2>1, HarmlessStep DEF Pcs, Matched, Watching, Backing
  <2>2. ASSUME Step(w, "faucet") PROVE Harmless(w) /\ job'[w].pc # "idle"
    BY <2>2, HarmlessStep DEF Pcs, Matched, Watching, Backing
  <2>3. CASE GasCheck(w)
    BY <2>1, <2>3, GiveUpHarmless DEF GasCheck, Fails, Watching
  <2>4. CASE GasTopUp(w)
    BY <2>1, <2>4, GiveUpHarmless DEF GasTopUp, Fails, Watching
  <2>5. CASE ReadActive(w)
    <3>1. CASE Fails(w)
      BY <3>1, GiveUpHarmless DEF Fails
    <3>2. ASSUME NEW pc \in {"scan", "look"},
                 job' = [job EXCEPT ![w].seen = active[job[w].who], ![w].pc = pc]
          PROVE  Harmless(w) /\ job'[w].pc # "idle"
      <4>1. job[w].at <= Len(DEMO_DELEGATES) /\ w # "provision"
        BY <1>3, <2>5 DEF ReadActive, Watching, JobsOK, JobOK
      <4>2. active[job[w].who] \in Nat /\ pc \in Pcs
        BY DEF ChainOK, RefreshTypeOK, JobsOK, JobRecs, Pcs, Watching
      <4>3. PICK n : n = active[job[w].who]
        OBVIOUS
      <4>4. job \in [Jobs -> JobRecs]
        BY DEF JobsOK
      <4>5. /\ JobMove(w) /\ job'[w].pc = pc /\ job'[w].at = job[w].at
        BY <3>2, <4>2, <4>3, <4>4 DEF JobMove, JobRecs
      <4> QED BY <4>1, <4>5 DEF Harmless, JobOK, Matched
    <3>3. CASE ~Fails(w)
      BY <2>5, <3>2, <3>3 DEF ReadActive
    <3> QED BY <3>1, <3>3
  <2>6. CASE Look(w)
    BY <2>1, <2>6, GiveUpHarmless DEF Look, Fails, Watching
  <2>7. CASE Scan(w)
    BY <2>1, <2>7, GiveUpHarmless DEF Scan, Fails, Watching
  <2>8. CASE Fund(w)
    BY <2>2, <2>8, GiveUpHarmless DEF Fund, Fails
  <2> QED BY <2>3, <2>4, <2>5, <2>6, <2>7, <2>8
<1> QED BY <1>1, <1>2, <1>4, HarmlessEffect

LEMMA NextDelegateEffect ==
    ASSUME RefreshBounds, ChainOK, JobsOK, NEW w \in Jobs, NextDelegate(w)
    PROVE  Effect(w)
<1>1. /\ job[w].pc = "next" /\ w # "provision" /\ w \in Cycles /\ job[w].at <= Len(DEMO_DELEGATES)
      /\ job \in [Jobs -> JobRecs] /\ job[w].at \in Nat
  BY DEF NextDelegate, JobsOK, JobOK, Watching, Jobs, JobRecs
<1>2. minted' = minted /\ wrapped' = wrapped
  BY DEF NextDelegate
<1>3. IdleJob \in JobRecs
  BY First
<1>4. CASE job[w].at = Len(DEMO_DELEGATES)
  <2>1. job' = [job EXCEPT ![w] = IdleJob] /\ refreshing' = FALSE
    BY <1>4 DEF NextDelegate
  <2>2. JobMove(w) /\ job'[w] = IdleJob
    BY <1>1, <1>3, <2>1 DEF JobMove
  <2>3. job'[w].pc = "idle" /\ job'[w].at = 0
    BY <2>2 DEF IdleJob
  <2>4. JobOK(w, job'[w], ownerOf', minted')
    BY <2>3 DEF JobOK, Watching, Matched, RefreshBounds
  <2> QED BY <1>1, <1>2, <2>1, <2>2, <2>3, <2>4 DEF Effect, Counts, CycleMove, Matched
<1>5. CASE job[w].at # Len(DEMO_DELEGATES)
  <2>1. PICK n \in Nat : n = job[w].at + 1
    BY <1>1
  <2>2. n \in 1 .. Len(DEMO_DELEGATES)
    BY <1>1, <1>5, <2>1 DEF RefreshBounds
  <2>3. DEMO_DELEGATES[n] \in Delegates
    BY <2>2 DEF Delegates, RefreshBounds
  <2>4. PICK new : new = [IdleJob EXCEPT !.pc = "gas", !.at = n, !.who = DEMO_DELEGATES[n]]
    OBVIOUS
  <2>5. new \in JobRecs /\ new.pc = "gas" /\ new.at = n
    BY <1>3, <2>3, <2>4 DEF JobRecs, Pcs, Watching
  <2>6. job' = [job EXCEPT ![w] = new] /\ refreshing' = refreshing
    BY <1>1, <1>5, <2>1, <2>4 DEF NextDelegate
  <2>7. JobMove(w) /\ job'[w] = new
    BY <1>1, <2>5, <2>6 DEF JobMove
  <2>8. JobOK(w, job'[w], ownerOf', minted')
    BY <1>1, <2>2, <2>5, <2>7 DEF JobOK, Watching, Matched
  <2> QED BY <1>1, <1>2, <2>5, <2>6, <2>7, <2>8 DEF Effect, Counts, CycleMove, Matched
<1> QED BY <1>4, <1>5

\* A record of the pipeline with another step and one more field changed.
LEMMA BackedMove ==
    ASSUME JobsOK, NEW w \in Jobs, NEW pc \in Pcs, NEW b \in BOOLEAN,
           job' = [job EXCEPT ![w].pc = pc, ![w].backed = b]
    PROVE  /\ JobMove(w) /\ job'[w].pc = pc /\ job'[w].backed = b
           /\ job'[w].at = job[w].at /\ job'[w].id = job[w].id /\ job'[w].who = job[w].who
  BY DEF JobsOK, JobMove, JobRecs

LEMMA IdMove ==
    ASSUME JobsOK, NEW w \in Jobs, NEW pc \in Pcs, NEW n \in Nat,
           job' = [job EXCEPT ![w].pc = pc, ![w].id = n]
    PROVE  /\ JobMove(w) /\ job'[w].pc = pc /\ job'[w].id = n
           /\ job'[w].at = job[w].at /\ job'[w].backed = job[w].backed /\ job'[w].who = job[w].who
  BY DEF JobsOK, JobMove, JobRecs

LEMMA SendEffect ==
    ASSUME ChainOK, JobsOK, NEW w \in Jobs, Send(w)
    PROVE  Effect(w)
<1>1. job[w].pc \in {"faucet", "approve", "wrap"} /\ job[w].at <= Len(DEMO_DELEGATES)
  BY DEF Send, AfterSend, JobsOK, JobOK
<1>2. minted' = minted /\ refreshing' = refreshing
  BY DEF Send
<1>3. CASE Fails(w)
  <2>1. Harmless(w) /\ job'[w].pc # "idle"
    BY <1>3, GiveUpHarmless DEF Fails
  <2>2. wrapped' \in {wrapped, wrapped + 1}
    <3>1. wrapped \in Nat
      BY DEF ChainOK, RefreshTypeOK
    <3>2. job'[w].pc \in Matched => FALSE
      BY <2>1 DEF Harmless
    <3>3. \/ wrapped' \in {wrapped, wrapped + IF job[w].pc = "wrap" THEN 1 ELSE 0}
          \/ wrapped' = wrapped + IF job[w].pc = "wrap" THEN 1 ELSE 0
      BY DEF Send
    <3> QED BY <3>1, <3>3
  <2> QED BY <1>1, <1>2, <2>1, <2>2 DEF Harmless, Effect, Counts, CycleMove
<1>4. CASE ~Fails(w)
  <2>1. PICK pc : pc = AfterSend[job[w].pc]
    OBVIOUS
  <2>2. /\ job[w].pc = "wrap" => pc = "propose"
        /\ job[w].pc # "wrap" => pc \in {"approve", "wrap"}
    BY <1>1, <2>1 DEF AfterSend
  <2>3. PICK b \in BOOLEAN : b = (job[w].pc = "wrap")
    OBVIOUS
  <2>4. /\ job' = [job EXCEPT ![w].pc = pc, ![w].backed = b]
        /\ wrapped' = wrapped + IF job[w].pc = "wrap" THEN 1 ELSE 0
    BY <1>4, <2>1, <2>3 DEF Send
  <2>5. pc \in Pcs
    BY <2>2 DEF Pcs, Backing, Matched
  <2>6. /\ JobMove(w) /\ job'[w].pc = pc /\ job'[w].backed = b /\ job'[w].at = job[w].at
    BY <2>4, <2>5, BackedMove
  <2>7. CASE job[w].pc = "wrap"
    <3>1. pc = "propose" /\ b = TRUE /\ wrapped' = wrapped + 1
      BY <2>2, <2>3, <2>4, <2>7
    <3>2. JobOK(w, job'[w], ownerOf', minted')
      BY <1>1, <2>6, <3>1 DEF JobOK, Watching, Matched
    <3> QED BY <1>1, <1>2, <2>6, <3>1, <3>2 DEF Effect, Counts, CycleMove
  <2>8. CASE job[w].pc # "wrap"
    <3>1. pc \in {"approve", "wrap"} /\ wrapped' = wrapped
      BY <2>2, <2>4, <2>8 DEF ChainOK, RefreshTypeOK
    <3>2. JobOK(w, job'[w], ownerOf', minted')
      BY <1>1, <2>6, <3>1 DEF JobOK, Watching, Matched
    <3>3. job'[w].pc \notin Matched /\ job'[w].pc # "idle" /\ job[w].pc # "idle"
      BY <1>1, <2>6, <3>1 DEF Matched
    <3> QED BY <1>2, <2>6, <3>1, <3>2, <3>3 DEF Effect, Counts, CycleMove
  <2> QED BY <2>7, <2>8
<1> QED BY <1>3, <1>4

LEMMA ProposeEffect ==
    ASSUME ChainOK, JobsOK, NEW w \in Jobs, Propose(w)
    PROVE  Effect(w)
<1>1. job[w].pc = "propose" /\ job[w].at <= Len(DEMO_DELEGATES) /\ job[w].backed = TRUE
  BY DEF Propose, JobsOK, JobOK, Matched
<1>2. minted' = minted /\ refreshing' = refreshing /\ wrapped' = wrapped
  BY DEF Propose
<1>3. CASE Fails(w)
  <2>1. Harmless(w) /\ job'[w].pc # "idle"
    BY <1>3, GiveUpHarmless DEF Fails
  <2> QED BY <1>1, <1>2, <2>1, HarmlessEffect
<1>4. CASE ~Fails(w)
  <2>1. ownerOf \in Seq(Delegates) /\ job[w].who \in Delegates
    BY DEF ChainOK, JobsOK, JobRecs
  <2>2. PICK n \in Nat : n = Len(ownerOf) + 1
    BY <2>1
  <2>3. /\ ownerOf' = Append(ownerOf, job[w].who)
        /\ job' = [job EXCEPT ![w].pc = "receipt", ![w].id = n]
    BY <1>4, <2>2 DEF Propose, Mined
  <2>4. /\ JobMove(w) /\ job'[w].pc = "receipt" /\ job'[w].id = n /\ job'[w].at = job[w].at
        /\ job'[w].backed = TRUE /\ job'[w].who = job[w].who
    BY <1>1, <2>3, IdMove DEF Pcs, Matched
  <2>5. n \in 1 .. Len(ownerOf') /\ ownerOf'[n] = job[w].who
    BY <2>1, <2>2, <2>3
  <2>6. JobOK(w, job'[w], ownerOf', minted')
    BY <1>1, <2>4, <2>5 DEF JobOK, Watching, Matched
  <2> QED BY <1>1, <1>2, <2>4, <2>6 DEF Effect, Counts, CycleMove, Matched
<1> QED BY <1>3, <1>4

LEMMA ReceiptEffect ==
    ASSUME JobsOK, NEW w \in Jobs, Receipt(w)
    PROVE  Effect(w)
<1>1. /\ job[w].pc = "receipt" /\ job[w].at <= Len(DEMO_DELEGATES) /\ job[w].backed = TRUE
      /\ job[w].id \in 1 .. Len(ownerOf) /\ ownerOf[job[w].id] = job[w].who /\ job[w].id \in Nat
  BY DEF Receipt, JobsOK, JobOK, Matched, JobRecs
<1>2. minted' = minted /\ refreshing' = refreshing /\ wrapped' = wrapped /\ ownerOf' = ownerOf
  BY DEF Receipt, chain
<1>3. PICK n \in Nat : n = job[w].id
  BY <1>1
<1>4. job' = [job EXCEPT ![w].pc = "activate", ![w].id = n]
  BY <1>3 DEF Receipt, IdFromReceipt
<1>5. /\ JobMove(w) /\ job'[w].pc = "activate" /\ job'[w].id = n /\ job'[w].at = job[w].at
      /\ job'[w].backed = TRUE /\ job'[w].who = job[w].who
  BY <1>1, <1>4, IdMove DEF Pcs, Matched
<1>6. JobOK(w, job'[w], ownerOf', minted')
  BY <1>1, <1>2, <1>3, <1>5 DEF JobOK, Watching, Matched
<1> QED BY <1>1, <1>2, <1>5, <1>6 DEF Effect, Counts, CycleMove, Matched

LEMMA ActivateEffect ==
    ASSUME JobsOK, NEW w \in Jobs, Activate(w)
    PROVE  Effect(w)
<1>1. /\ job[w].pc = "activate" /\ job[w].at <= Len(DEMO_DELEGATES) /\ job[w].backed = TRUE
      /\ job[w].id \in 1 .. Len(ownerOf) /\ ownerOf[job[w].id] = job[w].who
  BY DEF Activate, JobsOK, JobOK, Matched
<1>2. refreshing' = refreshing /\ wrapped' = wrapped /\ ownerOf' = ownerOf
  BY DEF Activate
<1>3. PICK x : x = Minting(job[w].id, job[w].who)
  OBVIOUS
<1>4. minted' = minted \/ minted' = minted \cup {x}
  BY <1>1, <1>3 DEF Activate, Minting
<1>5. CASE GiveUp(w)
  <2>1. Harmless(w) /\ job'[w].pc # "idle"
    BY <1>5, GiveUpHarmless
  <2> QED BY <1>1, <1>2, <1>4, <2>1 DEF Harmless, Effect, Counts, CycleMove, Matched
<1>6. CASE ~GiveUp(w)
  <2>1. Step(w, "record") /\ minted' = minted \cup {x}
    BY <1>1, <1>3, <1>6 DEF Activate, Fails, Minting
  <2>2. /\ JobMove(w) /\ job'[w].pc = "record" /\ job'[w].backed = job[w].backed
        /\ job'[w].id = job[w].id /\ job'[w].who = job[w].who /\ job'[w].at = job[w].at
    BY <2>1, StepMoves DEF Pcs
  <2>3. JobOK(w, job'[w], ownerOf', minted')
    BY <1>1, <1>2, <1>3, <2>1, <2>2 DEF JobOK, Watching, Matched
  <2> QED BY <1>1, <1>2, <2>1, <2>2, <2>3 DEF Effect, Counts, CycleMove, Matched
<1> QED BY <1>5, <1>6

LEMMA RecordEffect ==
    ASSUME JobsOK, NEW w \in Jobs, Record(w)
    PROVE  Effect(w)
<1>1. job[w].pc = "record"
  BY DEF Record
<1>2. minted' = minted /\ refreshing' = refreshing /\ wrapped' = wrapped
  BY DEF Record
<1>3. CASE Fails(w)
  <2>1. Harmless(w) /\ job'[w].pc # "idle"
    BY <1>3, GiveUpHarmless DEF Fails
  <2> QED BY <1>1, <1>2, <2>1, HarmlessEffect
<1>4. CASE w = "provision" /\ Step(w, "idle")
  <2>1. Harmless(w) /\ w \notin Cycles
    BY <1>4, HarmlessStep DEF Pcs, Matched, Watching, Cycles
  <2> QED BY <1>2, <2>1 DEF Harmless, Effect, Counts, CycleMove
<1>5. CASE w # "provision" /\ Step(w, "next")
  <2>1. Harmless(w) /\ job'[w].pc = "next"
    BY <1>5, HarmlessStep DEF Pcs, Matched, Watching
  <2> QED BY <1>1, <1>2, <2>1, HarmlessEffect
<1> QED BY <1>3, <1>4, <1>5 DEF Record

LEMMA JobEffect ==
    ASSUME RefreshBounds, ChainOK, JobsOK, NEW w \in Jobs, JobStep(w)
    PROVE  Effect(w)
  BY WatchEffect, NextDelegateEffect, SendEffect, ProposeEffect, ReceiptEffect, ActivateEffect,
     RecordEffect DEF JobStep

-----------------------------------------------------------------------------
(* What the chain and the journal do.                                      *)

\* Mandates proposed and activations are only added.
Kept ==
    /\ Len(ownerOf) <= Len(ownerOf')
    /\ \A m \in 1 .. Len(ownerOf) : ownerOf'[m] = ownerOf[m]
    /\ minted \subseteq minted'

\* The actions that leave the pipelines alone, or kick a cycle.
Aside ==
    \/ StartCycle \/ IntervalPasses
    \/ \E d \in Delegates : Request(d) \/ Settle(d) \/ ProposeElsewhere(d) \/ CacheExpires(d) \/ Ask(d)
    \/ AskMandate \/ AskRequests \/ AskGas \/ AskBudget

LEMMA NextCases ==
    ASSUME [Next]_vars
    PROVE  \/ UNCHANGED vars \/ Crash \/ Aside
           \/ \E w \in Jobs : JobStep(w)
           \/ \E d \in Visitors : Provision(d)
  BY DEF Next, Aside

\* The mandates proposed are those of before, or one more for a delegate.
LEMMA Proposals ==
    ASSUME ChainOK, JobsOK, [Next]_vars
    PROVE  ownerOf' = ownerOf \/ \E d \in Delegates : ownerOf' = Append(ownerOf, d)
<1>1. \A w \in Jobs : job[w].who \in Delegates
  BY DEF JobsOK, JobRecs
<1>2. ASSUME NEW w \in Jobs, JobStep(w)
      PROVE  ownerOf' = ownerOf \/ \E d \in Delegates : ownerOf' = Append(ownerOf, d)
  <2>1. CASE Propose(w)
    BY <1>1, <2>1 DEF Propose, Mined
  <2> QED BY <1>2, <2>1 DEF JobStep, NextDelegate, GasCheck, GasTopUp, ReadActive, Look, Scan, Fund,
                            Send, Receipt, Activate, Record, chain
<1>3. ASSUME Aside
      PROVE  ownerOf' = ownerOf \/ \E d \in Delegates : ownerOf' = Append(ownerOf, d)
  BY <1>3 DEF Aside, StartCycle, IntervalPasses, Request, Settle, ProposeElsewhere, Mined,
              CacheExpires, Ask, AskMandate, AskRequests, AskGas, AskBudget, chain
<1>4. CASE Crash
  BY <1>4 DEF Crash, chain
<1>5. CASE \E d \in Visitors : Provision(d)
  BY <1>5 DEF Provision, chain
<1>6. CASE UNCHANGED vars
  BY <1>6 DEF vars, chain
<1> QED BY <1>2, <1>3, <1>4, <1>5, <1>6, NextCases

\* Only an activation adds to minted.
LEMMA Activations ==
    ASSUME RefreshBounds, ChainOK, JobsOK, [Next]_vars
    PROVE  minted' = minted \/ \E w \in Jobs : Activate(w)
<1>1. ASSUME NEW w \in Jobs, JobStep(w) PROVE minted' = minted \/ Activate(w)
  BY <1>1 DEF JobStep, NextDelegate, GasCheck, GasTopUp, ReadActive, Look, Scan, Fund,
              Send, Propose, Receipt, Record
<1>2. ASSUME Aside PROVE minted' = minted
  BY <1>2 DEF Aside, StartCycle, IntervalPasses, Request, Settle, ProposeElsewhere,
              CacheExpires, Ask, AskMandate, AskRequests, AskGas, AskBudget
<1>3. CASE Crash
  BY <1>3 DEF Crash
<1>4. CASE \E d \in Visitors : Provision(d)
  BY <1>4 DEF Provision
<1>5. CASE UNCHANGED vars
  BY <1>5 DEF vars
<1> QED BY <1>1, <1>2, <1>3, <1>4, <1>5, NextCases

LEMMA KeptNext ==
    ASSUME RefreshBounds, ChainOK, JobsOK, [Next]_vars
    PROVE  Kept /\ ownerOf' \in Seq(Delegates)
<1>1. ownerOf \in Seq(Delegates)
  BY DEF ChainOK
<1>2. minted \subseteq minted'
  BY Activations DEF Activate
<1>3. CASE ownerOf' = ownerOf
  BY <1>1, <1>2, <1>3 DEF Kept
<1>4. ASSUME NEW d \in Delegates, ownerOf' = Append(ownerOf, d)
      PROVE  Kept /\ ownerOf' \in Seq(Delegates)
  BY <1>1, <1>2, <1>4 DEF Kept
<1> QED BY <1>3, <1>4, Proposals

\* The mandates of before are mandates now.
LEMMA Ranges ==
    ASSUME RefreshBounds, ChainOK, JobsOK, [Next]_vars
    PROVE  /\ 0 .. Len(ownerOf) \subseteq 0 .. Len(ownerOf')
           /\ 1 .. Len(ownerOf) \subseteq 1 .. Len(ownerOf')
           /\ Len(ownerOf) \in Nat /\ Len(ownerOf') \in Nat
<1>1. Kept /\ ownerOf' \in Seq(Delegates) /\ ownerOf \in Seq(Delegates)
  BY KeptNext DEF ChainOK
<1>2. Len(ownerOf) \in Nat /\ Len(ownerOf') \in Nat /\ Len(ownerOf) <= Len(ownerOf')
  BY <1>1 DEF Kept
<1> QED BY <1>2

LEMMA ActiveNext ==
    ASSUME RefreshBounds, ChainOK, JobsOK, [Next]_vars
    PROVE  active' \in [Delegates -> 0 .. Len(ownerOf')]
<1>1. /\ active \in [Delegates -> 0 .. Len(ownerOf)]
      /\ active \in [Delegates -> 0 .. Len(ownerOf')]
  BY Ranges DEF ChainOK, RefreshTypeOK
<1>2. ASSUME NEW w \in Jobs, Activate(w) PROVE active' \in [Delegates -> 0 .. Len(ownerOf')]
  <2>1. job[w].id \in 1 .. Len(ownerOf) /\ job[w].id \in 0 .. Len(ownerOf')
    BY <1>2, Ranges DEF Activate, JobsOK, JobOK
  <2>2. active' = active \/ active' = [active EXCEPT ![ownerOf[job[w].id]] = job[w].id]
    BY <1>2 DEF Activate
  <2>3. CASE active' = active
    BY <1>1, <2>3
  <2>4. CASE active' = [active EXCEPT ![ownerOf[job[w].id]] = job[w].id]
    BY <1>1, <2>1, <2>4
  <2> QED BY <2>2, <2>3, <2>4
<1>3. ASSUME NEW w \in Jobs, JobStep(w) PROVE active' = active \/ Activate(w)
  BY <1>3 DEF JobStep, NextDelegate, GasCheck, GasTopUp, ReadActive, Look, Scan, Fund,
              Send, Propose, Receipt, Record, chain
<1>4. ASSUME Aside PROVE active' = active
  BY <1>4 DEF Aside, StartCycle, IntervalPasses, Request, Settle, ProposeElsewhere,
              CacheExpires, Ask, AskMandate, AskRequests, AskGas, AskBudget, chain
<1>5. CASE Crash
  BY <1>1, <1>5 DEF Crash, chain
<1>6. CASE \E d \in Visitors : Provision(d)
  BY <1>1, <1>6 DEF Provision, chain
<1>7. CASE UNCHANGED vars
  BY <1>1, <1>7 DEF vars, chain
<1> QED BY <1>1, <1>2, <1>3, <1>4, <1>5, <1>6, <1>7, NextCases

\* The journal notes an activation of the pipeline that records.
LEMMA JournalMoves ==
    ASSUME [Next]_vars
    PROVE  \/ mem' \in {mem, disk} /\ disk' = disk
           \/ \E w \in Jobs : job[w].pc = "record" /\ mem' = Note(w) /\ disk' \in {disk, mem'}
<1>1. ASSUME NEW w \in Jobs, JobStep(w)
      PROVE  \/ mem' = mem /\ disk' = disk
             \/ job[w].pc = "record" /\ mem' = Note(w) /\ disk' \in {disk, mem'}
  BY <1>1 DEF JobStep, NextDelegate, GasCheck, GasTopUp, ReadActive, Look, Scan, Fund,
              Send, Propose, Receipt, Activate, Record, journal
<1>2. ASSUME Aside PROVE mem' = mem /\ disk' = disk
  BY <1>2 DEF Aside, StartCycle, IntervalPasses, Request, Settle, ProposeElsewhere,
              CacheExpires, Ask, AskMandate, AskRequests, AskGas, AskBudget, journal
<1>3. CASE Crash
  BY <1>3 DEF Crash
<1>4. CASE \E d \in Visitors : Provision(d)
  BY <1>4 DEF Provision, journal
<1>5. CASE UNCHANGED vars
  BY <1>5 DEF vars, journal
<1> QED BY <1>1, <1>2, <1>3, <1>4, <1>5, NextCases

LEMMA JournalNext ==
    ASSUME RefreshBounds, RefreshInv, [Next]_vars
    PROVE  /\ mem' \in [Delegates -> 0 .. Len(ownerOf')]
           /\ disk' \in [Delegates -> 0 .. Len(ownerOf')]
           /\ Proven(mem)' /\ Proven(disk)'
<1>1. ChainOK /\ JobsOK /\ Proven(mem) /\ Proven(disk)
  BY DEF RefreshInv
<1>2. minted \subseteq minted'
  BY <1>1, KeptNext DEF Kept
<1>3. /\ mem \in [Delegates -> 0 .. Len(ownerOf')] /\ disk \in [Delegates -> 0 .. Len(ownerOf')]
      /\ 1 .. Len(ownerOf) \subseteq 0 .. Len(ownerOf')
  <2>1. /\ 0 .. Len(ownerOf) \subseteq 0 .. Len(ownerOf')
        /\ 1 .. Len(ownerOf) \subseteq 1 .. Len(ownerOf')
    BY <1>1, Ranges
  <2>2. mem \in [Delegates -> 0 .. Len(ownerOf)] /\ disk \in [Delegates -> 0 .. Len(ownerOf)]
    BY <1>1 DEF ChainOK, RefreshTypeOK
  <2> QED BY <2>1, <2>2
<1>4. ASSUME NEW J, J \in {mem, disk}
      PROVE  J \in [Delegates -> 0 .. Len(ownerOf')] /\ \A d \in Delegates : J[d] # 0 => Minting(J[d], d) \in minted'
  BY <1>1, <1>2, <1>3, <1>4 DEF Proven
<1>5. ASSUME NEW w \in Jobs, job[w].pc = "record"
      PROVE  /\ Note(w) \in [Delegates -> 0 .. Len(ownerOf')]
             /\ \A d \in Delegates : Note(w)[d] # 0 => Minting(Note(w)[d], d) \in minted'
  <2>1. /\ job[w].id \in 1 .. Len(ownerOf) /\ Minting(job[w].id, job[w].who) \in minted'
        /\ job[w].who \in Delegates
    BY <1>1, <1>2, <1>5 DEF JobsOK, JobOK, JobRecs
  <2>2. \A d \in Delegates : Note(w)[d] = IF d = job[w].who THEN job[w].id ELSE mem[d]
    BY <1>3 DEF Note
  <2>3. Note(w) \in [Delegates -> 0 .. Len(ownerOf')]
    BY <1>3, <2>1 DEF Note
  <2> QED BY <1>4, <2>1, <2>2, <2>3
<1>6. /\ mem' \in [Delegates -> 0 .. Len(ownerOf')] /\ disk' \in [Delegates -> 0 .. Len(ownerOf')]
      /\ \A d \in Delegates : mem'[d] # 0 => Minting(mem'[d], d) \in minted'
      /\ \A d \in Delegates : disk'[d] # 0 => Minting(disk'[d], d) \in minted'
  <2>1. CASE mem' \in {mem, disk} /\ disk' = disk
    BY <1>4, <2>1
  <2>2. ASSUME NEW w \in Jobs, job[w].pc = "record", mem' = Note(w), disk' \in {disk, mem'}
        PROVE  /\ mem' \in [Delegates -> 0 .. Len(ownerOf')]
               /\ disk' \in [Delegates -> 0 .. Len(ownerOf')]
               /\ \A d \in Delegates : mem'[d] # 0 => Minting(mem'[d], d) \in minted'
               /\ \A d \in Delegates : disk'[d] # 0 => Minting(disk'[d], d) \in minted'
    BY <1>4, <1>5, <2>2
  <2> QED BY <2>1, <2>2, JournalMoves
<1> QED BY <1>6 DEF Proven, Minting

LEMMA UsersNext ==
    ASSUME RefreshBounds, ChainOK, JobsOK, [Next]_vars
    PROVE  unfit' \subseteq 1 .. Len(ownerOf') /\ slot' \subseteq Delegates /\ gasLow' \subseteq Delegates
<1>1. unfit \subseteq 1 .. Len(ownerOf') /\ slot \subseteq Delegates /\ gasLow \subseteq Delegates
  <2>1. 1 .. Len(ownerOf) \subseteq 1 .. Len(ownerOf')
    BY Ranges
  <2> QED BY <2>1 DEF ChainOK, RefreshTypeOK
<1>2. ASSUME NEW d \in Delegates, Request(d)
      PROVE  unfit' \subseteq 1 .. Len(ownerOf') /\ slot' \subseteq Delegates /\ gasLow' \subseteq Delegates
  <2>1. active[d] \in 1 .. Len(ownerOf')
    <3>1. active[d] \in 0 .. Len(ownerOf) /\ active[d] # 0
      BY <1>2 DEF Request, ChainOK, RefreshTypeOK
    <3>2. Len(ownerOf) \in Nat /\ 1 .. Len(ownerOf) \subseteq 1 .. Len(ownerOf')
      BY Ranges
    <3>3. active[d] \in 1 .. Len(ownerOf)
      BY <3>1, <3>2
    <3> QED BY <3>2, <3>3
  <2> QED BY <1>1, <1>2, <2>1 DEF Request
<1>3. ASSUME NEW w \in Jobs, JobStep(w) PROVE unfit' = unfit /\ slot' = slot /\ gasLow' \subseteq gasLow
  BY <1>3 DEF JobStep, NextDelegate, GasCheck, GasTopUp, ReadActive, Look, Scan, Fund,
              Send, Propose, Receipt, Activate, Record, chain
<1>4. ASSUME Aside, ~\E d \in Delegates : Request(d)
      PROVE  unfit' = unfit /\ slot' \subseteq slot /\ gasLow' = gasLow
  BY <1>4 DEF Aside, StartCycle, IntervalPasses, Settle, ProposeElsewhere,
              CacheExpires, Ask, AskMandate, AskRequests, AskGas, AskBudget, chain
<1>5. CASE Crash
  BY <1>1, <1>5 DEF Crash, chain
<1>6. CASE \E d \in Visitors : Provision(d)
  BY <1>1, <1>6 DEF Provision, chain
<1>7. CASE UNCHANGED vars
  BY <1>1, <1>7 DEF vars, chain
<1> QED BY <1>1, <1>2, <1>3, <1>4, <1>5, <1>6, <1>7, NextCases

LEMMA LockNext ==
    ASSUME ChainOK, [Next]_vars
    PROVE  adminLock' \in Jobs \cup {"free"}
<1>1. adminLock \in Jobs \cup {"free"}
  BY DEF ChainOK, RefreshTypeOK
<1>2. ASSUME NEW w \in Jobs, Fails(w) PROVE adminLock' \in {adminLock, "free"}
  BY <1>2 DEF Fails
<1>3. ASSUME NEW w \in Jobs, JobStep(w) PROVE adminLock' \in {adminLock, w, "free"}
  BY <1>2, <1>3 DEF JobStep, NextDelegate, GasCheck, GasTopUp, ReadActive, Look, Scan, Fund,
              Send, Propose, Receipt, Activate, Record, Enter, Leave
<1>4. ASSUME Aside PROVE adminLock' = adminLock
  BY <1>4 DEF Aside, StartCycle, IntervalPasses, Request, Settle, ProposeElsewhere,
              CacheExpires, Ask, AskMandate, AskRequests, AskGas, AskBudget
<1>5. CASE Crash
  BY <1>5 DEF Crash, Leave
<1>6. CASE \E d \in Visitors : Provision(d)
  BY <1>1, <1>6 DEF Provision
<1>7. CASE UNCHANGED vars
  BY <1>1, <1>7 DEF vars
<1> QED BY <1>1, <1>3, <1>4, <1>5, <1>6, <1>7, NextCases

LEMMA CacheNext ==
    ASSUME ChainOK, ProbeOK, [Next]_vars
    PROVE  cache' \in [Delegates -> {"none", "low", "ok"}]
<1>1. cache \in [Delegates -> {"none", "low", "ok"}] /\ probe.who \in Delegates
  BY DEF ChainOK, RefreshTypeOK, ProbeOK, ProbeRecs
<1>2. ASSUME NEW w \in Jobs, JobStep(w) PROVE cache' = cache
  BY <1>2 DEF JobStep, NextDelegate, GasCheck, GasTopUp, ReadActive, Look, Scan, Fund,
              Send, Propose, Receipt, Activate, Record
<1>3. CASE AskBudget
  <2>1. ASSUME NEW known \in {"low", "ok", "none"}, cache' = [cache EXCEPT ![probe.who] = known]
        PROVE  cache' \in [Delegates -> {"none", "low", "ok"}]
    BY <1>1, <2>1
  <2>2. cache[probe.who] \in {"none", "low", "ok"}
    BY <1>1
  <2> QED BY <1>1, <1>3, <2>1, <2>2 DEF AskBudget
<1>4. ASSUME NEW d \in Delegates, CacheExpires(d) PROVE cache' \in [Delegates -> {"none", "low", "ok"}]
  BY <1>1, <1>4 DEF CacheExpires
<1>5. ASSUME Aside, ~AskBudget, ~\E d \in Delegates : CacheExpires(d) PROVE cache' = cache
  BY <1>5 DEF Aside, StartCycle, IntervalPasses, Request, Settle, ProposeElsewhere,
              Ask, AskMandate, AskRequests, AskGas
<1>6. CASE Crash
  BY <1>6 DEF Crash
<1>7. CASE \E d \in Visitors : Provision(d)
  BY <1>1, <1>7 DEF Provision
<1>8. CASE UNCHANGED vars
  BY <1>1, <1>8 DEF vars
<1> QED BY <1>1, <1>2, <1>3, <1>4, <1>5, <1>6, <1>7, <1>8, NextCases

-----------------------------------------------------------------------------
(* Cycles.  A kick or the interval starts one when none is under way.      *)

Kicked ==
    \/ UNCHANGED <<refreshing, job>>
    \/ /\ refreshing # TRUE /\ refreshing' = TRUE
       /\ \E c \in Cycles : job[c].pc = "idle" /\ job' = [job EXCEPT ![c] = [IdleJob EXCEPT !.pc = "next"]]

LEMMA KickStarts ==
    ASSUME CycleOK, kickRefresh \/ kickTreasuryRefresh \/ NoKick \/ Start
    PROVE  Kicked
<1>1. CASE UNCHANGED <<refreshing, job>>
  BY <1>1 DEF Kicked
<1>2. CASE ~UNCHANGED <<refreshing, job>>
  <2> DEFINE w == CHOOSE c \in Cycles : job[c].pc = "idle"
  <2>1. /\ refreshing # TRUE /\ refreshing' = TRUE
        /\ job' = [job EXCEPT ![w] = [IdleJob EXCEPT !.pc = "next"]]
    BY <1>2 DEF kickRefresh, kickTreasuryRefresh, NoKick, Start, CycleDue
  <2>2. \A c \in Cycles : job[c].pc = "idle"
    BY <2>1 DEF CycleOK
  <2>3. w \in Cycles /\ job[w].pc = "idle"
    BY <2>2 DEF Cycles
  <2> QED BY <2>1, <2>3 DEF Kicked
<1> QED BY <1>1, <1>2

LEMMA AsideKicks ==
    ASSUME CycleOK, Aside
    PROVE  Kicked /\ minted' = minted /\ wrapped' = wrapped
<1>1. minted' = minted /\ wrapped' = wrapped
  BY DEF Aside, StartCycle, IntervalPasses, Request, Settle, ProposeElsewhere,
         CacheExpires, Ask, AskMandate, AskRequests, AskGas, AskBudget
<1>2. kickRefresh \/ kickTreasuryRefresh \/ NoKick \/ Start \/ UNCHANGED <<refreshing, job>>
  BY DEF Aside, StartCycle, IntervalPasses, Request, Settle, ProposeElsewhere,
         CacheExpires, Ask, AskMandate, AskRequests, AskGas, AskBudget
<1>3. Kicked
  BY <1>2, KickStarts DEF Kicked
<1> QED BY <1>1, <1>3

\* One job is replaced by another that claims nothing.
LEMMA Replaced ==
    ASSUME RefreshBounds, JobsOK, NEW w \in Jobs, NEW new \in JobRecs,
           new.pc \in {"next", "fund"}, new.at = 0,
           new.pc = "next" => w # "provision", job' = [job EXCEPT ![w] = new]
    PROVE  Harmless(w) /\ job'[w].pc = new.pc
<1>1. JobMove(w) /\ job'[w] = new
  BY DEF JobMove, JobsOK
<1>2. Len(DEMO_DELEGATES) \in Nat
  BY DEF RefreshBounds
<1>3. new.at <= Len(DEMO_DELEGATES)
  BY <1>2
<1>4. new.pc \notin Matched /\ new.pc # "record" /\ new.pc \notin {"receipt", "activate", "record"}
  BY DEF Matched
<1>5. new.pc \in Watching => w # "provision"
  BY DEF Watching
<1>6. \A O, M : JobOK(w, new, O, M)
  BY <1>3, <1>4, <1>5 DEF JobOK
<1> QED BY <1>1, <1>4, <1>6 DEF Harmless

\* What a pipeline was allowed stays so on a longer chain.
LEMMA StaysOK ==
    ASSUME Kept, ownerOf \in Seq(Delegates), ownerOf' \in Seq(Delegates), NEW w, NEW j \in JobRecs,
           JobOK(w, j, ownerOf, minted)
    PROVE  JobOK(w, j, ownerOf', minted')
<1>1. Len(ownerOf) \in Nat /\ Len(ownerOf') \in Nat /\ Len(ownerOf) <= Len(ownerOf')
  BY DEF Kept
<1>2. j.id \in 1 .. Len(ownerOf) => j.id \in 1 .. Len(ownerOf') /\ ownerOf'[j.id] = ownerOf[j.id]
  BY <1>1 DEF Kept
<1> QED BY <1>2 DEF JobOK, Kept

LEMMA MovedOK ==
    ASSUME Kept, ownerOf \in Seq(Delegates), ownerOf' \in Seq(Delegates), JobsOK,
           NEW w \in Jobs, JobMove(w), JobOK(w, job'[w], ownerOf', minted')
    PROVE  JobsOK'
<1>1. ASSUME NEW v \in Jobs PROVE JobOK(v, job'[v], ownerOf', minted')
  <2>1. CASE v = w
    BY <2>1
  <2>2. CASE v # w
    <3>1. job'[v] = job[v] /\ job[v] \in JobRecs /\ JobOK(v, job[v], ownerOf, minted)
      BY <2>2 DEF JobMove, JobsOK
    <3> QED BY <3>1, StaysOK
  <2> QED BY <2>1, <2>2
<1>2. job' \in [Jobs -> JobRecs]
  BY DEF JobMove
<1> QED BY <1>1, <1>2 DEF JobsOK

\* The jobs, whatever moves.
LEMMA KickedJobs ==
    ASSUME RefreshBounds, RefreshInv, [Next]_vars, Kicked
    PROVE  JobsOK' /\ CycleOK' /\ Awaited' = Awaited
<1>1. /\ Kept /\ ownerOf \in Seq(Delegates) /\ ownerOf' \in Seq(Delegates)
      /\ JobsOK /\ CycleOK
  BY KeptNext DEF RefreshInv, ChainOK
<1>2. CASE UNCHANGED <<refreshing, job>>
  <2>1. \A w \in Jobs : JobOK(w, job[w], ownerOf', minted')
    BY <1>1, StaysOK DEF JobsOK
  <2>2. JobsOK'
    BY <1>1, <1>2, <2>1 DEF JobsOK
  <2> QED BY <1>1, <1>2, <2>2 DEF CycleOK, OneRefreshAtATime, Awaited
<1>3. CASE ~UNCHANGED <<refreshing, job>>
  <2>1. PICK c \in Cycles : /\ job[c].pc = "idle" /\ refreshing # TRUE /\ refreshing' = TRUE
                            /\ job' = [job EXCEPT ![c] = [IdleJob EXCEPT !.pc = "next"]]
    BY <1>3 DEF Kicked
  <2>2. PICK new : new = [IdleJob EXCEPT !.pc = "next"]
    OBVIOUS
  <2>3. new \in JobRecs /\ new.pc = "next" /\ new.at = 0
    BY <2>2, First DEF JobRecs, Pcs, Watching, IdleJob
  <2>4. c \in Jobs /\ c # "provision"
    BY DEF Cycles, Jobs
  <2>5. Harmless(c) /\ job'[c].pc = "next"
    BY <1>1, <2>1, <2>2, <2>3, <2>4, Replaced
  <2>6. JobsOK'
    BY <1>1, <2>4, <2>5, MovedOK DEF Harmless
  <2>7. \A v \in Jobs \ {c} : job'[v] = job[v]
    BY <2>5 DEF Harmless, JobMove
  <2>8. \A v \in Cycles : job[v].pc = "idle" /\ v \in Jobs
    BY <1>1, <2>1 DEF CycleOK, Jobs
  <2>9. CycleOK'
    BY <2>1, <2>5, <2>7, <2>8 DEF CycleOK, OneRefreshAtATime
  <2>10. Awaited' = Awaited
    BY <2>1, <2>5, <2>7 DEF Awaited, Harmless, Matched
  <2> QED BY <2>6, <2>9, <2>10
<1> QED BY <1>2, <1>3

LEMMA ProvisionHarmless ==
    ASSUME RefreshBounds, JobsOK, NEW d \in Visitors, Provision(d)
    PROVE  /\ Harmless("provision") /\ minted' = minted /\ wrapped' = wrapped
           /\ refreshing' = refreshing /\ job["provision"].pc \in {"idle", "failed"}
<1>1. PICK new : new = [IdleJob EXCEPT !.pc = "fund", !.who = d]
  OBVIOUS
<1>2. d \in Delegates /\ "provision" \in Jobs
  BY DEF Delegates, Jobs
<1>3. new \in JobRecs /\ new.pc = "fund" /\ new.at = 0
  BY <1>1, <1>2, First DEF JobRecs, Pcs, Backing, IdleJob
<1>4. Harmless("provision")
  BY <1>1, <1>2, <1>3, Replaced DEF Provision
<1> QED BY <1>4 DEF Provision

LEMMA JobsNext ==
    ASSUME RefreshBounds, RefreshInv, [Next]_vars
    PROVE  JobsOK' /\ CycleOK'
<1>1. /\ Kept /\ ownerOf \in Seq(Delegates) /\ ownerOf' \in Seq(Delegates)
      /\ JobsOK /\ CycleOK /\ ChainOK
  BY KeptNext DEF RefreshInv, ChainOK
<1>2. ASSUME NEW w \in Jobs, JobStep(w) PROVE JobsOK' /\ CycleOK'
  <2>1. Effect(w)
    BY <1>1, <1>2, JobEffect
  <2>2. JobsOK'
    BY <1>1, <2>1, MovedOK DEF Effect
  <2>3. /\ \A v \in Cycles : v # w => job'[v] = job[v]
        /\ CycleMove(w)
    BY <2>1 DEF Effect, JobMove, Jobs
  <2>4. CASE w \in Cycles /\ job'[w].pc = "idle"
    <3>1. \A v \in Cycles : v # w => job[v].pc = "idle"
      <4>1. job[w].pc # "idle"
        BY <1>2 DEF JobStep, NextDelegate, GasCheck, GasTopUp, ReadActive, Look, Scan, Fund,
              Send, AfterSend, Propose, Receipt, Activate, Record
      <4> QED BY <1>1, <2>4, <4>1 DEF CycleOK, OneRefreshAtATime
    <3> QED BY <2>2, <2>3, <2>4, <3>1 DEF CycleOK, OneRefreshAtATime, CycleMove
  <2>5. CASE w \in Cycles /\ job'[w].pc # "idle"
    BY <1>1, <2>2, <2>3, <2>5 DEF CycleOK, OneRefreshAtATime, CycleMove
  <2>6. CASE w \notin Cycles
    BY <1>1, <2>2, <2>3, <2>6 DEF CycleOK, OneRefreshAtATime, CycleMove
  <2> QED BY <2>4, <2>5, <2>6
<1>3. CASE Aside
  BY <1>1, <1>3, AsideKicks, KickedJobs
<1>4. CASE Crash
  <2>1. job' = [w \in Jobs |-> IdleJob] /\ refreshing' = FALSE /\ IdleJob.pc = "idle" /\ IdleJob.at = 0
    BY <1>4 DEF Crash, IdleJob
  <2>2. IdleJob \in JobRecs /\ Len(DEMO_DELEGATES) \in Nat
    BY First DEF RefreshBounds
  <2>3. \A w, O, M : JobOK(w, IdleJob, O, M)
    BY <2>1, <2>2 DEF JobOK, Watching, Matched
  <2>4. JobsOK'
    BY <2>1, <2>2, <2>3 DEF JobsOK
  <2>5. CycleOK'
    BY <2>1 DEF CycleOK, OneRefreshAtATime, Jobs
  <2> QED BY <2>4, <2>5
<1>5. ASSUME NEW d \in Visitors, Provision(d) PROVE JobsOK' /\ CycleOK'
  <2>1. Harmless("provision") /\ refreshing' = refreshing
    BY <1>1, <1>5, ProvisionHarmless
  <2>2. JobsOK'
    BY <1>1, <2>1, MovedOK DEF Harmless, Jobs
  <2>3. \A v \in Cycles : job'[v] = job[v]
    BY <2>1 DEF Harmless, JobMove, Jobs, Cycles
  <2> QED BY <1>1, <2>1, <2>2, <2>3 DEF CycleOK, OneRefreshAtATime
<1>6. CASE UNCHANGED vars
  BY <1>6, KickedJobs DEF Kicked, vars
<1> QED BY <1>2, <1>3, <1>4, <1>5, <1>6, NextCases

-----------------------------------------------------------------------------
(* Assets.                                                                 *)

LEMMA MintedNext ==
    ASSUME RefreshBounds, RefreshInv, [Next]_vars
    PROVE  MintedOK'
<1>1. /\ Kept /\ ChainOK /\ JobsOK /\ MintedOK
      /\ ownerOf' \in Seq(Delegates) /\ ownerOf \in Seq(Delegates)
  BY KeptNext DEF RefreshInv, ChainOK
<1>2. \A x \in minted : x.id \in 1 .. Len(ownerOf') /\ ownerOf'[x.id] = x.of
  <2>1. Len(ownerOf) \in Nat /\ Len(ownerOf') \in Nat /\ Len(ownerOf) <= Len(ownerOf')
    BY <1>1 DEF Kept
  <2> QED BY <1>1, <2>1 DEF MintedOK, Kept
<1>3. CASE minted' = minted
  BY <1>1, <1>2, <1>3 DEF MintedOK
<1>4. ASSUME NEW w \in Jobs, Activate(w) PROVE MintedOK'
  <2>1. /\ job[w].backed = TRUE /\ job[w].id \in 1 .. Len(ownerOf)
        /\ ownerOf[job[w].id] = job[w].who /\ job[w].who \in Delegates /\ job[w].id \in Nat
    BY <1>1, <1>4 DEF Activate, JobsOK, JobOK, JobRecs, Matched
  <2>2. job[w].id \in 1 .. Len(ownerOf') /\ ownerOf'[job[w].id] = job[w].who
    <3>1. ownerOf' = ownerOf
      BY <1>4 DEF Activate
    <3> QED BY <2>1, <3>1
  <2>3. PICK x : x = Minting(job[w].id, job[w].who)
    OBVIOUS
  <2>4. minted' = minted \/ minted' = minted \cup {x}
    BY <1>4, <2>1, <2>3 DEF Activate, Minting
  <2>5. x \in Mintings /\ x.id = job[w].id /\ x.of = job[w].who
    BY <2>1, <2>3 DEF Minting, Mintings
  <2>6. IsFiniteSet(minted \cup {x}) /\ minted \cup {x} \subseteq Mintings
    BY <1>1, <2>5, FS_AddElement DEF MintedOK
  <2>7. CASE minted' = minted \cup {x}
    BY <1>2, <2>2, <2>5, <2>6, <2>7 DEF MintedOK
  <2> QED BY <1>3, <2>4, <2>7
<1> QED BY <1>1, <1>3, <1>4, Activations

\* Three pipelines are finitely many.
LEMMA AwaitedFinite ==
    /\ IsFiniteSet(Awaited) /\ Cardinality(Awaited) \in Nat
    /\ IsFiniteSet(Awaited') /\ Cardinality(Awaited') \in Nat
<1>1. IsFiniteSet(Jobs)
  <2>1. Jobs = (({} \cup {"cycle1"}) \cup {"cycle2"}) \cup {"provision"}
    BY DEF Jobs, Cycles
  <2>2. IsFiniteSet(({} \cup {"cycle1"}) \cup {"cycle2"})
    BY FS_EmptySet, FS_AddElement
  <2>3. IsFiniteSet((({} \cup {"cycle1"}) \cup {"cycle2"}) \cup {"provision"})
    BY <2>2, FS_AddElement
  <2> QED BY <2>1, <2>3
<1>2. Awaited \in SUBSET Jobs /\ Awaited' \in SUBSET Jobs
  BY DEF Awaited
<1>3. IsFiniteSet(Awaited) /\ IsFiniteSet(Awaited')
  BY <1>1, <1>2, FS_Subset
<1> QED BY <1>3, FS_CardinalityType

\* Where nothing is activated and nothing begins to be awaited, the account still covers.
LEMMA FewerAwaited ==
    ASSUME ChainOK, MintedOK, BackedOK, Awaited' \subseteq Awaited, minted' = minted, wrapped' = wrapped
    PROVE  BackedOK'
<1>1. Cardinality(minted) \in Nat
  BY FS_CardinalityType DEF MintedOK
<1>2. Cardinality(Awaited') <= Cardinality(Awaited)
  BY AwaitedFinite, FS_Subset
<1>3. PICK a \in Nat, b \in Nat : a = Cardinality(Awaited) /\ b = Cardinality(Awaited')
  BY AwaitedFinite
<1>4. wrapped \in Nat
  BY DEF ChainOK, RefreshTypeOK
<1>5. Cardinality(minted) + b <= wrapped
  BY <1>1, <1>2, <1>3, <1>4 DEF BackedOK
<1> QED BY <1>3, <1>5 DEF BackedOK

LEMMA EffectBacked ==
    ASSUME ChainOK, MintedOK, BackedOK, NEW w \in Jobs, Effect(w)
    PROVE  BackedOK' /\ wrapped' \in Nat
<1>1. PICK a \in Nat, b \in Nat, c \in Nat :
          a = Cardinality(Awaited) /\ b = Cardinality(Awaited') /\ c = Cardinality(minted)
  BY AwaitedFinite, FS_CardinalityType DEF MintedOK
<1>2. wrapped \in Nat /\ c + a <= wrapped
  BY <1>1 DEF ChainOK, RefreshTypeOK, BackedOK
<1>3. \A v \in Jobs \ {w} : job'[v] = job[v]
  BY DEF Effect, JobMove
<1>4. CASE minted' = minted /\ wrapped' = wrapped /\ (job'[w].pc \in Matched => job[w].pc \in Matched)
  <2>1. Awaited' \subseteq Awaited
    BY <1>3, <1>4 DEF Awaited
  <2> QED BY <1>2, <1>4, <2>1, FewerAwaited
<1>5. CASE minted' = minted /\ wrapped' = wrapped + 1
  <2>1. Awaited' \in SUBSET (Awaited \cup {w})
    BY <1>3 DEF Awaited
  <2>2. IsFiniteSet(Awaited \cup {w}) /\ Cardinality(Awaited \cup {w}) \in {a, a + 1}
    BY <1>1, AwaitedFinite, FS_AddElement
  <2>3. b <= Cardinality(Awaited \cup {w})
    BY <1>1, <2>1, <2>2, FS_Subset
  <2>4. b <= a + 1
    BY <2>2, <2>3
  <2>5. c + b <= wrapped'
    BY <1>2, <1>5, <2>4
  <2> QED BY <1>1, <1>2, <1>5, <2>5 DEF BackedOK
<1>6. ASSUME wrapped' = wrapped, job[w].pc \in Matched, job'[w].pc \notin Matched,
             NEW x, minted' = minted \cup {x}
      PROVE  BackedOK' /\ wrapped' \in Nat
  <2>1. Awaited' = Awaited \ {w} /\ w \in Awaited
    BY <1>3, <1>6 DEF Awaited
  <2>2. Cardinality(Awaited \ {w}) = a - 1
    BY <1>1, <2>1, AwaitedFinite, FS_RemoveElement
  <2>3. b = a - 1
    BY <1>1, <2>1, <2>2
  <2>4. Cardinality(minted \cup {x}) \in {c, c + 1}
    BY <1>1, FS_AddElement DEF MintedOK
  <2>5. PICK e \in Nat : e = Cardinality(minted') /\ e <= c + 1
    BY <1>6, <2>4
  <2>6. e + b <= wrapped'
    BY <1>2, <1>6, <2>3, <2>5
  <2> QED BY <1>1, <1>2, <1>6, <2>5, <2>6 DEF BackedOK
<1> QED BY <1>4, <1>5, <1>6 DEF Effect, Counts

LEMMA BackedNext ==
    ASSUME RefreshBounds, RefreshInv, [Next]_vars
    PROVE  BackedOK' /\ wrapped' \in Nat
<1>1. ChainOK /\ JobsOK /\ MintedOK /\ BackedOK /\ CycleOK /\ wrapped \in Nat
  BY DEF RefreshInv, ChainOK, RefreshTypeOK
<1>2. ASSUME NEW w \in Jobs, JobStep(w) PROVE BackedOK' /\ wrapped' \in Nat
  BY <1>1, <1>2, JobEffect, EffectBacked
<1>3. CASE Aside
  <2>1. Awaited' = Awaited
    BY <1>1, <1>3, AsideKicks, KickedJobs
  <2> QED BY <1>1, <1>3, <2>1, AsideKicks, FewerAwaited
<1>4. CASE Crash
  <2>1. \A w \in Jobs : job'[w].pc = "idle"
    BY <1>4 DEF Crash, IdleJob
  <2>2. Awaited' \subseteq Awaited
    BY <2>1 DEF Awaited, Matched
  <2> QED BY <1>1, <1>4, <2>2, FewerAwaited DEF Crash
<1>5. ASSUME NEW d \in Visitors, Provision(d) PROVE BackedOK' /\ wrapped' \in Nat
  <2>1. Harmless("provision") /\ minted' = minted /\ wrapped' = wrapped
    BY <1>1, <1>5, ProvisionHarmless
  <2>2. Awaited' \subseteq Awaited
    BY <2>1 DEF Harmless, JobMove, Awaited
  <2> QED BY <1>1, <2>1, <2>2, FewerAwaited
<1>6. CASE UNCHANGED vars
  <2>1. Awaited' \subseteq Awaited
    BY <1>6 DEF vars, Awaited
  <2> QED BY <1>1, <1>6, <2>1, FewerAwaited DEF vars
<1> QED BY <1>2, <1>3, <1>4, <1>5, <1>6, NextCases

-----------------------------------------------------------------------------
(* demoReady.                                                              *)

LEMMA ProbeNext ==
    ASSUME RefreshBounds, RefreshInv, [Next]_vars
    PROVE  ProbeOK'
<1>1. /\ ChainOK /\ JobsOK /\ ProbeOK /\ Proven(mem) /\ minted \subseteq minted'
      /\ active \in [Delegates -> 0 .. Len(ownerOf)]
  BY KeptNext DEF RefreshInv, ChainOK, Kept, RefreshTypeOK
<1>2. probe \in ProbeRecs
  BY <1>1 DEF ProbeOK
<1>3. ASSUME probe' = probe PROVE ProbeOK'
  BY <1>1, <1>3 DEF ProbeOK, Minting
<1>4. ASSUME NEW answer, Say(answer), answer \in Probing \cup {"notReady"},
             answer # "notReady" => Minting(probe.id, probe.who) \in minted
      PROVE  ProbeOK'
  <2>1. probe' \in ProbeRecs /\ probe'.pc = answer /\ probe'.id = probe.id /\ probe'.who = probe.who
    BY <1>2, <1>4 DEF Say, ProbeRecs
  <2> QED BY <1>1, <1>4, <2>1 DEF ProbeOK, Minting, Probing
<1>5. ASSUME NEW d \in Delegates, Ask(d) PROVE ProbeOK'
  <2>1. active[d] \in Nat
    BY <1>1 DEF ChainOK
  <2>2. CASE active[d] = 0
    <3>1. probe' = [pc |-> "notReady", who |-> d, id |-> 0]
      BY <1>5, <2>2 DEF Ask
    <3> QED BY <3>1 DEF ProbeOK, ProbeRecs, Probing
  <2>3. CASE active[d] # 0
    <3>1. PICK n \in Nat : n = active[d] /\ n # 0
      BY <2>1, <2>3
    <3>2. probe' = [pc |-> "mandate", who |-> d, id |-> n]
      BY <1>5, <2>3, <3>1 DEF Ask
    <3> QED BY <3>1, <3>2 DEF ProbeOK, ProbeRecs, Probing
  <2> QED BY <2>2, <2>3
<1>6. CASE AskMandate
  <2>1. CASE isReady(probe.who, probe.id)
    <3>1. Minting(probe.id, probe.who) \in minted
      BY <1>1, <1>2, <1>6, <2>1 DEF AskMandate, isReady, Proven, ProbeOK, ProbeRecs
    <3>2. Say("requests")
      BY <1>6, <2>1 DEF AskMandate
    <3> QED BY <1>4, <3>1, <3>2 DEF Probing
  <2>2. CASE ~isReady(probe.who, probe.id)
    <3>1. Say("notReady")
      BY <1>6, <2>2 DEF AskMandate
    <3> QED BY <1>4, <3>1
  <2> QED BY <2>1, <2>2
<1>7. ASSUME NEW answer \in {"gas", "budget", "ready", "notReady"}, Say(answer), probe.pc \in Probing
      PROVE  ProbeOK'
  BY <1>1, <1>4, <1>7 DEF ProbeOK, Probing
<1>8. CASE AskRequests \/ AskGas \/ AskBudget
  <2>1. probe.pc \in Probing
    BY <1>8 DEF AskRequests, AskGas, AskBudget, Probing
  <2>2. Say("gas") \/ Say("budget") \/ Say("ready") \/ Say("notReady")
    BY <1>8 DEF AskRequests, AskGas, AskBudget
  <2> QED BY <1>7, <2>1, <2>2
<1>9. CASE Crash
  <2>1. probe' = IdleProbe /\ DEMO_DELEGATES[1] \in Delegates
    BY <1>9, First DEF Crash
  <2> QED BY <2>1 DEF ProbeOK, ProbeRecs, IdleProbe, Probing
<1>10. ASSUME NEW w \in Jobs, JobStep(w) PROVE probe' = probe
  BY <1>10 DEF JobStep, NextDelegate, GasCheck, GasTopUp, ReadActive, Look, Scan, Fund,
              Send, Propose, Receipt, Activate, Record
<1>11. CASE \E d \in Visitors : Provision(d)
  BY <1>3, <1>11 DEF Provision
<1>12. CASE UNCHANGED vars
  BY <1>3, <1>12 DEF vars
<1>13. CASE Aside
  <2>1. ASSUME ~(AskMandate \/ AskRequests \/ AskGas \/ AskBudget \/ \E d \in Delegates : Ask(d))
        PROVE  probe' = probe
    BY <1>13, <2>1 DEF Aside, StartCycle, IntervalPasses, Request, Settle, ProposeElsewhere, CacheExpires
  <2> QED BY <1>3, <1>5, <1>6, <1>8, <2>1
<1> QED BY <1>3, <1>9, <1>10, <1>11, <1>12, <1>13, NextCases

-----------------------------------------------------------------------------
(* Together.                                                               *)

LEMMA RefreshingNext ==
    ASSUME RefreshBounds, RefreshInv, [Next]_vars
    PROVE  refreshing' \in BOOLEAN
<1>1. refreshing \in BOOLEAN /\ CycleOK /\ ChainOK /\ JobsOK
  BY DEF RefreshInv, ChainOK
<1>2. ASSUME NEW w \in Jobs, JobStep(w) PROVE refreshing' \in BOOLEAN
  <2>1. CycleMove(w)
    BY <1>1, <1>2, JobEffect DEF Effect
  <2> QED BY <1>1, <2>1 DEF CycleMove
<1>3. CASE Aside
  BY <1>1, <1>3, AsideKicks DEF Kicked
<1>4. CASE Crash
  BY <1>4 DEF Crash
<1>5. CASE \E d \in Visitors : Provision(d)
  BY <1>1, <1>5 DEF Provision
<1>6. CASE UNCHANGED vars
  BY <1>1, <1>6 DEF vars
<1> QED BY <1>2, <1>3, <1>4, <1>5, <1>6, NextCases

LEMMA ChainNext ==
    ASSUME RefreshBounds, RefreshInv, [Next]_vars
    PROVE  ChainOK'
<1>1. ChainOK /\ JobsOK /\ ProbeOK
  BY DEF RefreshInv
<1>2. ownerOf' \in Seq(Delegates)
  BY <1>1, KeptNext
<1>3. active' \in [Delegates -> 0 .. Len(ownerOf')]
  BY <1>1, ActiveNext
<1>4. mem' \in [Delegates -> 0 .. Len(ownerOf')] /\ disk' \in [Delegates -> 0 .. Len(ownerOf')]
  BY JournalNext
<1>5. unfit' \subseteq 1 .. Len(ownerOf') /\ slot' \subseteq Delegates /\ gasLow' \subseteq Delegates
  BY <1>1, UsersNext
<1>6. adminLock' \in Jobs \cup {"free"} /\ cache' \in [Delegates -> {"none", "low", "ok"}]
  BY <1>1, LockNext, CacheNext
<1>7. wrapped' \in Nat
  BY BackedNext
<1>8. refreshing' \in BOOLEAN
  BY RefreshingNext
<1> QED BY <1>2, <1>3, <1>4, <1>5, <1>6, <1>7, <1>8 DEF ChainOK, RefreshTypeOK

LEMMA RefreshNext == RefreshBounds /\ RefreshInv /\ [Next]_vars => RefreshInv'
<1> SUFFICES ASSUME RefreshBounds, RefreshInv, [Next]_vars PROVE RefreshInv'
  OBVIOUS
<1>1. ChainOK' /\ JobsOK' /\ CycleOK' /\ MintedOK' /\ BackedOK'
  BY ChainNext, JobsNext, MintedNext, BackedNext
<1>2. Proven(mem)' /\ Proven(disk)' /\ ProbeOK'
  BY JournalNext, ProbeNext
<1> QED BY <1>1, <1>2 DEF RefreshInv

LEMMA RefreshSafe == RefreshInv => MandatesSafe
<1> SUFFICES ASSUME RefreshInv PROVE MandatesSafe
  OBVIOUS
<1>1. RefreshTypeOK /\ OneRefreshAtATime
  BY DEF RefreshInv, ChainOK, CycleOK
<1>2. \A x \in minted : x.backed = TRUE /\ ownerOf[x.id] = x.of
  BY DEF RefreshInv, MintedOK, Mintings
<1>3. Cardinality(minted) <= wrapped
  <2>1. PICK a \in Nat, c \in Nat : a = Cardinality(Awaited) /\ c = Cardinality(minted)
    BY AwaitedFinite, FS_CardinalityType DEF RefreshInv, MintedOK
  <2>2. c + a <= wrapped /\ wrapped \in Nat
    BY <2>1 DEF RefreshInv, BackedOK, ChainOK, RefreshTypeOK
  <2>3. c <= wrapped
    BY <2>2
  <2> QED BY <2>1, <2>3
<1>4. \A m, d : Minting(m, d).id = m /\ Minting(m, d).of = d /\ Minting(m, d).backed
  BY DEF Minting
<1>5. MandatesAreBacked /\ ActivatesItsOwn
  BY <1>2, <1>3 DEF MandatesAreBacked, ActivatesItsOwn
<1>6. EvidenceIsTrue
  BY <1>4 DEF RefreshInv, Proven, EvidenceIsTrue
<1>7. ReadyIsBacked
  BY <1>4 DEF RefreshInv, ProbeOK, ReadyIsBacked, Probing
<1> QED BY <1>1, <1>5, <1>6, <1>7 DEF MandatesSafe

\* Whatever runs, fails, crashes or is proposed elsewhere, every mandate the pipelines of
\* the provisioner activate has a wrap of its own behind it and is the one its pipeline
\* proposed, the journal and a ready answer name such mandates only, and cycles never
\* overlap (refreshDemoMandateIfDrained, fundDemoTreasury, provision and demoReady).
THEOREM MandatesStaySafe ==
    ASSUME RefreshBounds
    PROVE  Init /\ [][Next]_vars => []MandatesSafe
<1>1. Init => RefreshInv
  BY RefreshInit
<1>2. RefreshInv /\ [Next]_vars => RefreshInv'
  BY RefreshNext
<1>3. RefreshInv => MandatesSafe
  BY RefreshSafe
<1> QED BY <1>1, <1>2, <1>3, PTL

=============================================================================
