---------------------------- MODULE AuditPackets ----------------------------
(***************************************************************************)
(* Audit packets on request: the HTTP layer keeps one flight per key and   *)
(* redelivers its success; the job validates the requests, groups them by  *)
(* mandate and, for each group, reuses the packet of the chain or creates  *)
(* one, in the admin wallet's critical section.  Receipts get lost, calls  *)
(* fail, the process restarts; what was broadcast is mined whenever.       *)
(***************************************************************************)
EXTENDS Integers, Sequences, FiniteSets

CONSTANTS
    Keys,               \* the sets of requests clients ask packets for
    mandateOf,          \* request -> its mandate
    dailyCap,           \* the quota of sponsored packets
    lookback,           \* how many of the last packets findAuditPacket reads (200)
    MaxJobs,            \* bound on the jobs that are run
    MaxFaults           \* bound on crashes, failed calls and lost receipts

AuditBounds ==
    /\ \A k \in Keys : IsFiniteSet(k) /\ k # {}
    /\ mandateOf \in [UNION Keys -> Nat]
    /\ dailyCap \in Nat /\ lookback \in Nat /\ MaxJobs \in Nat /\ MaxFaults \in Nat

Requests == UNION Keys

VARIABLES
    terminal,           \* requests in the final state of their scenario
    packets,            \* the packets of the chain, in order: their sets of requests
    pending,            \* broadcast and not mined: requests and who broadcast it
    job,                \* key -> the run of performDemoAuditPacket
    results,            \* key -> the settled entry, run 0 for none
    timers,             \* settlements whose eviction timer has not fired: key and entry
    adminLock,          \* the key in the admin wallet's critical section, or {}
    taken,              \* quota taken
    broadcasts,         \* history: transactions sent
    lost,               \* history: groups whose sender gave up on a broadcast, or missed their packet
    jobs, faults

flights == <<job, results, timers>>
vars == <<terminal, packets, pending, flights, adminLock, taken, broadcasts, lost, jobs, faults>>

NoEntry == [run |-> 0, ok |-> FALSE, made |-> <<>>]
IdleJob == [pc |-> "idle", run |-> 0, mined |-> 0, made |-> <<>>]

Init ==
    /\ terminal \in SUBSET Requests
    /\ packets = <<>> /\ pending = {}
    /\ job = [k \in Keys |-> IdleJob] /\ results = [k \in Keys |-> NoEntry] /\ timers = {}
    /\ adminLock = {} /\ taken = 0 /\ broadcasts = 0 /\ lost = {}
    /\ jobs = 0 /\ faults = 0

Fault == faults < MaxFaults /\ faults' = faults + 1
Goto(k, pc) == job' = [job EXCEPT ![k].pc = pc]
Free(k) == adminLock' = IF adminLock = k THEN {} ELSE adminLock

-----------------------------------------------------------------------------
(* The single flight                                                       *)

Running(k) == job[k].pc # "idle"

\* take: a success is handed out again and again, a failure once; one run per key.
Take(k) ==
    /\ \/ results[k].run # 0 /\ results[k].ok /\ UNCHANGED <<flights, jobs>>
       \/ /\ results[k].run # 0 /\ ~results[k].ok
          /\ results' = [results EXCEPT ![k] = NoEntry]
          /\ UNCHANGED <<job, timers, jobs>>
       \/ results[k].run = 0 /\ Running(k) /\ UNCHANGED <<flights, jobs>>
       \/ /\ results[k].run = 0 /\ ~Running(k) /\ jobs < MaxJobs
          /\ jobs' = jobs + 1
          /\ job' = [job EXCEPT ![k] = [IdleJob EXCEPT !.pc = "validate", !.run = jobs + 1]]
          /\ UNCHANGED <<results, timers>>
    /\ UNCHANGED <<terminal, packets, pending, adminLock, taken, broadcasts, lost, faults>>

\* startDemoAuditPacket refuses what names no requests of the run.
Malformed == UNCHANGED vars

\* The entry is set, the job is gone, and the entry's timer starts.
Settle(k, ok) ==
    LET entry == [run |-> job[k].run, ok |-> ok, made |-> job[k].made]
    IN  /\ results' = [results EXCEPT ![k] = entry]
        /\ job' = [job EXCEPT ![k] = IdleJob]
        /\ timers' = timers \cup {[key |-> k, entry |-> entry]}

\* mutant: whatever entry is there goes
EvictAny(t) == TRUE
OwnEntry(t) == results[t.key] = t.entry

Evict(t) ==
    /\ timers' = timers \ {t}
    /\ results' = IF OwnEntry(t) THEN [results EXCEPT ![t.key] = NoEntry] ELSE results
    /\ UNCHANGED <<terminal, packets, pending, job, adminLock, taken, broadcasts, lost, jobs, faults>>

Fail(k) == Settle(k, FALSE) /\ Free(k)

-----------------------------------------------------------------------------
(* performDemoAuditPacket                                                  *)

\* Every request is in the final state of its scenario, or the job fails.
Validate(k) ==
    /\ job[k].pc = "validate"
    /\ \/ k \subseteq terminal /\ Goto(k, "group") /\ UNCHANGED <<results, timers, adminLock, faults>>
       \/ ~(k \subseteq terminal) /\ Fail(k) /\ UNCHANGED faults
       \/ Fault /\ Fail(k)
    /\ UNCHANGED <<terminal, packets, pending, taken, broadcasts, lost, jobs>>

Mandates(k) == {mandateOf[r] : r \in k}
GroupOf(k, m) == {r \in k : mandateOf[r] = m}

\* The mandates in ascending order; made has one packet for each group that is done.
Current(k) ==
    GroupOf(k, CHOOSE m \in Mandates(k) :
                   Cardinality({n \in Mandates(k) : n < m}) = Len(job[k].made))

\* The next group enters the critical section, or all are done.
NextGroup(k) ==
    /\ job[k].pc = "group"
    /\ IF Len(job[k].made) = Cardinality(Mandates(k))
       THEN Settle(k, TRUE) /\ UNCHANGED adminLock
       ELSE adminLock = {} /\ adminLock' = k /\ Goto(k, "find") /\ UNCHANGED <<results, timers>>
    /\ UNCHANGED <<terminal, packets, pending, taken, broadcasts, lost, jobs, faults>>

\* findAuditPacket: the last packets with exactly these requests, the newest first; what a
\* failed batch of reads was to return is skipped.
Found(g) == {i \in DOMAIN packets : packets[i] = g /\ i > Len(packets) - lookback}
Newest(S) == {i \in S : \A j \in S : j <= i}

Made(k, i) ==
    job' = [job EXCEPT ![k].pc = "group", ![k].made = Append(@, i), ![k].mined = 0]

Find(k) ==
    /\ job[k].pc = "find"
    /\ LET g == Current(k) IN
       \/ /\ \/ \E i \in Newest(Found(g)) : Made(k, i) /\ UNCHANGED faults
             \/ Fault /\ \E i \in Found(g) : Made(k, i)
          /\ Free(k)
          /\ UNCHANGED <<results, timers, lost>>
       \/ Found(g) = {} /\ Goto(k, "consume") /\ UNCHANGED <<results, timers, adminLock, lost, faults>>
       \/ /\ Fault /\ Goto(k, "consume") /\ lost' = lost \cup {g}
          /\ UNCHANGED <<results, timers, adminLock>>
       \/ Fault /\ Fail(k) /\ UNCHANGED lost
    /\ UNCHANGED <<terminal, packets, pending, taken, broadcasts, jobs>>

Consumed == taken' = taken + 1

\* The finance admin is checked and quota taken before anything is sent.
Consume(k) ==
    /\ job[k].pc = "consume"
    /\ \/ taken < dailyCap /\ Consumed /\ Goto(k, "send") /\ UNCHANGED <<results, timers, adminLock, faults>>
       \/ taken >= dailyCap /\ Fail(k) /\ UNCHANGED <<taken, faults>>
       \/ Fault /\ Fail(k) /\ (UNCHANGED taken \/ (taken < dailyCap /\ Consumed))
    /\ UNCHANGED <<terminal, packets, pending, broadcasts, lost, jobs>>

Broadcast(k) ==
    /\ job[k].pc = "send"
    /\ LET sent == /\ pending' = pending \cup {[reqs |-> Current(k), by |-> k, run |-> job[k].run]}
                   /\ broadcasts' = broadcasts + 1
       IN \/ sent /\ Goto(k, "wait") /\ UNCHANGED <<results, timers, adminLock, lost, faults>>
          \/ Fault /\ Fail(k) /\ sent /\ lost' = lost \cup {Current(k)}
          \/ Fault /\ Fail(k) /\ UNCHANGED <<pending, broadcasts, lost>>
    /\ UNCHANGED <<terminal, packets, taken, jobs>>

StoredAsSubmitted(k) == packets[job[k].mined] = Current(k)

\* The receipt, its single event and the stored packet, or no receipt in time.
Receipt(k) ==
    /\ job[k].pc = "wait"
    /\ \/ /\ job[k].mined # 0 /\ StoredAsSubmitted(k) /\ Made(k, job[k].mined) /\ Free(k)
          /\ UNCHANGED <<results, timers, lost, faults>>
       \/ Fault /\ Fail(k) /\ lost' = lost \cup {Current(k)}
    /\ UNCHANGED <<terminal, packets, pending, taken, broadcasts, jobs>>

-----------------------------------------------------------------------------

\* The chain takes up a broadcast; its sender may still be waiting for it.
Mine(x) ==
    /\ x \in pending /\ pending' = pending \ {x}
    /\ packets' = Append(packets, x.reqs)
    /\ job' = IF job[x.by].run = x.run /\ job[x.by].pc = "wait"
              THEN [job EXCEPT ![x.by].mined = Len(packets) + 1] ELSE job
    /\ UNCHANGED <<terminal, results, timers, adminLock, taken, broadcasts, lost, jobs, faults>>

Terminate(r) ==
    /\ r \notin terminal /\ terminal' = terminal \cup {r}
    /\ UNCHANGED <<packets, pending, flights, adminLock, taken, broadcasts, lost, jobs, faults>>

\* Flights are in memory; what was sent stays sent.
Crash ==
    /\ Fault
    /\ job' = [k \in Keys |-> IdleJob] /\ results' = [k \in Keys |-> NoEntry] /\ timers' = {}
    /\ adminLock' = {}
    /\ lost' = lost \cup {Current(k) : k \in {q \in Keys : job[q].pc = "wait"}}
    /\ UNCHANGED <<terminal, packets, pending, taken, broadcasts, jobs>>

JobStep(k) ==
    Validate(k) \/ NextGroup(k) \/ Find(k) \/ Consume(k) \/ Broadcast(k) \/ Receipt(k)

Next ==
    \/ \E k \in Keys : Take(k) \/ JobStep(k)
    \/ \E t \in timers : Evict(t)
    \/ \E x \in pending : Mine(x)
    \/ \E r \in Requests : Terminate(r)
    \/ Malformed \/ Crash

Spec == Init /\ [][Next]_vars

-----------------------------------------------------------------------------
(* Properties                                                              *)

AuditTypeOK ==
    /\ terminal \subseteq Requests /\ packets \in Seq(SUBSET Requests)
    /\ taken \in 0 .. dailyCap /\ adminLock \in Keys \cup {{}}
    /\ \A k \in Keys : results[k].run \in 0 .. jobs /\ Len(job[k].made) <= Cardinality(Mandates(k))

\* Until its own timer fires, a success stays there to be handed out again: no older
\* settlement takes it away.
SuccessIsRedelivered ==
    \A t \in timers : t.entry.ok => results[t.key] = t.entry

\* A result names, for every mandate of the key, a packet of the chain with exactly the
\* requests of that mandate.
ResultsAreComplete ==
    \A k \in Keys : results[k].ok =>
        {packets[results[k].made[i]] : i \in DOMAIN results[k].made}
            = {GroupOf(k, m) : m \in Mandates(k)}

\* A second packet with the same requests comes only of a broadcast nobody waited for, of a
\* lookup that failed, or so late that the first was no longer read.
NoNeedlessPackets ==
    \A i, j \in DOMAIN packets :
        i < j /\ j - i <= lookback /\ packets[i] = packets[j] => packets[i] \in lost

\* Whatever fails afterwards, nothing was sent that the quota did not count first.
QuotaBeforeBroadcast == broadcasts <= taken

\* The safety of the packets.
PacketsSafe ==
    /\ AuditTypeOK /\ SuccessIsRedelivered /\ ResultsAreComplete
    /\ NoNeedlessPackets /\ QuotaBeforeBroadcast
=============================================================================
