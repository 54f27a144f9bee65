--------------------------- MODULE FinalizeCourier ---------------------------
(***************************************************************************)
(* The couriers of finalize.  A POST to /api/finalize and the sweeper of   *)
(* the server run finalizeRequest, which owns a request while it works on  *)
(* it and sends through the admin lock; the keeper is a process of its own *)
(* with a key of its own.  Anybody else may finalize or expire a request   *)
(* as well.  What the decision is does not matter here: the proof fixes    *)
(* it.  One action runs from one await to the next.                        *)
(***************************************************************************)
EXTENDS Naturals, Sequences, FiniteSets

CONSTANTS
    MaxRequests,        \* bound on the requests, which are numbered from 1
    Posts,              \* the HTTP courier calls that may be under way
    Sweeper, Keeper,
    KeeperRuns,         \* whether somebody runs the keeper
    Treasury,           \* another user of the admin key: funding, gas, proposals
    MaxOther,           \* bound on the transactions of Treasury
    MaxFaults           \* bound on crashes, failed reads, lost answers, timeouts

Requests == 1 .. MaxRequests
Server   == Posts \cup {Sweeper}
Callers  == Server \cup {Keeper, Treasury}
Loops    == {Sweeper, Keeper}

CallersDistinct ==
    /\ Sweeper # Keeper /\ Sweeper # Treasury /\ Keeper # Treasury
    /\ {Sweeper, Keeper, Treasury} \cap Posts = {}
CourierBounds == MaxRequests \in Nat /\ MaxOther \in Nat /\ MaxFaults \in Nat /\ KeeperRuns \in BOOLEAN

VARIABLES
    chain,          \* request -> its state in the module
    resolved,       \* the requests whose decision handle the gateway can prove
    finalizing,     \* finalizingIds
    job,            \* what each caller is doing: pc, request, nonce, transaction
    cursor,         \* where the loops of the sweeper and the keeper stand
    queue,          \* the admin lock: its holder and those waiting
    tx,             \* the transactions of the admin and of the keeper, as sent
    settledBy,      \* request -> the transaction that finalized it, 0 for others
    faults

vars == <<chain, resolved, finalizing, job, cursor, queue, tx, settledBy, faults>>

RequestStates == {"None", "Requested", "AwaitingSafeApproval", "Settled"}
Idle == [pc |-> "idle", r |-> 0, nonce |-> 0, id |-> 0]
Pcs  == {"idle", "loop", "peek", "peekProbe", "expire", "read", "probe", "decrypt",
         "estimate", "nonce", "send", "receipt"}
NextId == Cardinality({r \in Requests : chain[r] # "None"}) + 1

Sender(c) == IF c = Keeper THEN "keeper" ELSE "admin"

Init ==
    /\ chain = [r \in Requests |-> "None"]
    /\ resolved = {} /\ finalizing = {}
    /\ job = [c \in Callers |-> Idle]
    /\ cursor = [c \in Loops |-> 1]
    /\ queue = <<>> /\ tx = <<>>
    /\ settledBy = [r \in Requests |-> 0]
    /\ faults = 0

Fault == faults < MaxFaults /\ faults' = faults + 1
At(c, pc) == job[c].pc = pc
To(c, pc) == job' = [job EXCEPT ![c].pc = pc]

-----------------------------------------------------------------------------
(* The admin lock                                                          *)

HoldsAdminLock(c) == queue # <<>> /\ Head(queue) = c
JoinQueue(c) == queue' = Append(queue, c)
LockKept(c) == queue    \* mutant: a failed task blocks those behind it
Unlocked(c) == IF HoldsAdminLock(c) THEN Tail(queue) ELSE queue

\* Only the keeper, whose key is its own, sends without the lock.
WithoutLock(c) == TRUE    \* mutant: the executor is not serial
MaySend(c) == c = Keeper \/ HoldsAdminLock(c)

\* A caller is done with its request: the sweeper and the keeper go on with the next.
GoOn(c) ==
    /\ job' = [job EXCEPT ![c] = IF c \in Loops THEN [Idle EXCEPT !.pc = "loop"] ELSE Idle]
    /\ IF c \in Loops THEN cursor' = [cursor EXCEPT ![c] = @ + 1] ELSE UNCHANGED cursor

\* mutant: a failure leaves the request owned
ReleasedStillOwned(c) ==
    /\ GoOn(c)
    /\ finalizing' = finalizing
    /\ queue' = Unlocked(c)

\* finalizeRequest returns or throws: the request is no longer owned.
Released(c) ==
    /\ GoOn(c)
    /\ finalizing' = finalizing \ (IF c \in Server THEN {job[c].r} ELSE {})
    /\ queue' = Unlocked(c)

-----------------------------------------------------------------------------
(* finalizeRequest                                                         *)

\* mutant: the request is not owned
OwnNothing(c, r) ==
    /\ job' = [job EXCEPT ![c] = [Idle EXCEPT !.pc = "read", !.r = r]]
    /\ UNCHANGED finalizing

\* Owns the request before the first await.
Own(c, r) ==
    /\ finalizing' = finalizing \cup {r}
    /\ job' = [job EXCEPT ![c] = [Idle EXCEPT !.pc = "read", !.r = r]]

Post(c, r) ==
    /\ At(c, "idle") /\ r \notin finalizing
    /\ Own(c, r)
    /\ UNCHANGED <<chain, resolved, cursor, queue, tx, settledBy, faults>>

ReadRequest(c) ==
    /\ At(c, "read")
    /\ \/ chain[job[c].r] = "Requested" /\ To(c, "probe")
          /\ UNCHANGED <<finalizing, cursor, queue, faults>>
       \/ chain[job[c].r] # "Requested" /\ Released(c) /\ UNCHANGED faults
       \/ Fault /\ Released(c)
    /\ UNCHANGED <<chain, resolved, tx, settledBy>>

\* areNoxHandlesResolved: any failure of the probe reads as not resolved.
Probe(c) ==
    /\ At(c, "probe")
    /\ \/ job[c].r \in resolved /\ To(c, "decrypt")
          /\ UNCHANGED <<finalizing, cursor, queue, faults>>
       \/ job[c].r \notin resolved /\ Released(c) /\ UNCHANGED faults
       \/ Fault /\ Released(c)
    /\ UNCHANGED <<chain, resolved, tx, settledBy>>

\* publicDecrypt is retried until it gives a proof or the retry boundary is reached.
Decrypt(c) ==
    /\ At(c, "decrypt")
    /\ \/ /\ To(c, "estimate")
          /\ IF c = Keeper THEN UNCHANGED queue ELSE JoinQueue(c)
          /\ UNCHANGED <<finalizing, cursor, faults>>
       \/ Fault /\ Released(c)
    /\ UNCHANGED <<chain, resolved, tx, settledBy>>

\* waitUntilNoxSimulatable: a finalize that would revert is retried until the
\* boundary and then given up without a broadcast.
Estimate(c) ==
    /\ At(c, "estimate") /\ c # Treasury
    /\ MaySend(c)
    /\ \/ chain[job[c].r] = "Requested" /\ To(c, "nonce")
          /\ UNCHANGED <<finalizing, cursor, queue, faults>>
       \/ chain[job[c].r] # "Requested" /\ Released(c) /\ UNCHANGED faults
       \/ Fault /\ Released(c)
    /\ UNCHANGED <<chain, resolved, tx, settledBy>>

\* writeContract asks the node for the sender's next nonce, pending ones included,
SentBy(s) == {i \in DOMAIN tx : tx[i].by = s}

TakeNonce(c) ==
    /\ At(c, "nonce") /\ MaySend(c)
    /\ job' = [job EXCEPT ![c].pc = "send", ![c].nonce = Cardinality(SentBy(Sender(c)))]
    /\ UNCHANGED <<chain, resolved, finalizing, cursor, queue, tx, settledBy, faults>>

\* and sends once.  An error may hide that the transaction was taken.
Sent(c, watched) ==
    tx' = Append(tx, [by |-> Sender(c), r |-> job[c].r, nonce |-> job[c].nonce,
                      status |-> "pending", watched |-> watched])

Send(c) ==
    /\ At(c, "send")
    /\ \/ /\ Sent(c, TRUE)
          /\ job' = [job EXCEPT ![c].pc = "receipt", ![c].id = Len(tx) + 1]
          /\ UNCHANGED <<finalizing, cursor, queue, faults>>
       \/ Fault /\ Sent(c, FALSE) /\ Released(c)
       \/ Fault /\ UNCHANGED tx /\ Released(c)
    /\ UNCHANGED <<chain, resolved, settledBy>>

\* The receipt, whatever it says, ends the job; so does a wait that times out.
Receipt(c) ==
    /\ At(c, "receipt")
    /\ \/ tx[job[c].id].status # "pending" /\ UNCHANGED <<tx, faults>>
       \/ /\ Fault /\ tx[job[c].id].status = "pending"
          /\ tx' = [tx EXCEPT ![job[c].id].watched = FALSE]
    /\ Released(c)
    /\ UNCHANGED <<chain, resolved, settledBy>>

-----------------------------------------------------------------------------
(* The loops of the sweeper and of the keeper                              *)

Started(c) ==
    /\ At(c, "idle") /\ To(c, "loop")
    /\ cursor' = [cursor EXCEPT ![c] = 1]
    /\ UNCHANGED <<chain, resolved, finalizing, queue, tx, settledBy, faults>>

\* The interval of the sweeper fires; while it is sweeping nothing happens.
StartSweep == Started(Sweeper)

\* The keeper's next round, or its process run once more.
StartKeeper == KeeperRuns /\ Started(Keeper)

\* A request another job owns is skipped; past the last one the loop ends.
Loop(c) ==
    /\ At(c, "loop")
    /\ LET r == cursor[c] IN
       \/ r >= NextId /\ job' = [job EXCEPT ![c] = Idle] /\ UNCHANGED cursor
       \/ r < NextId /\ c = Sweeper /\ r \in finalizing /\ GoOn(c)
       \/ /\ r < NextId /\ (c = Keeper \/ r \notin finalizing)
          /\ job' = [job EXCEPT ![c] = [Idle EXCEPT !.pc = "peek", !.r = r]]
          /\ UNCHANGED cursor
    /\ UNCHANGED <<chain, resolved, finalizing, queue, tx, settledBy, faults>>

\* What the read of the request at the cursor leads to; a failed read ends the loop.
Peeked(c, interest) ==
    /\ At(c, "peek")
    /\ \/ /\ chain[job[c].r] \in DOMAIN interest
          /\ To(c, interest[chain[job[c].r]])
          /\ UNCHANGED <<cursor, faults>>
       \/ chain[job[c].r] \notin DOMAIN interest /\ GoOn(c) /\ UNCHANGED faults
       \/ Fault /\ job' = [job EXCEPT ![c] = Idle] /\ UNCHANGED cursor
    /\ UNCHANGED <<chain, resolved, finalizing, queue, tx, settledBy>>

PeekSweep ==
    Peeked(Sweeper, [Requested |-> "peekProbe", AwaitingSafeApproval |-> "expire"])

\* The keeper only looks at pending requests and owns nothing.
PeekKeeper == Peeked(Keeper, [Requested |-> "probe"])

\* A ready request is handed to finalizeRequest, which looks again at who owns it.
PeekProbe ==
    /\ At(Sweeper, "peekProbe")
    /\ LET r == job[Sweeper].r IN
       \/ r \in resolved \ finalizing /\ Own(Sweeper, r) /\ UNCHANGED <<cursor, faults>>
       \/ r \notin resolved \ finalizing /\ GoOn(Sweeper) /\ UNCHANGED <<finalizing, faults>>
       \/ Fault /\ GoOn(Sweeper) /\ UNCHANGED finalizing
    /\ UNCHANGED <<chain, resolved, queue, tx, settledBy>>

\* The decision service's expire (module DemoDecision) rejects the escalation or leaves it.
ExpireEscalation ==
    /\ At(Sweeper, "expire")
    /\ chain' \in {chain, [chain EXCEPT ![job[Sweeper].r] = "Settled"]}
    /\ GoOn(Sweeper)
    /\ UNCHANGED <<resolved, finalizing, queue, tx, settledBy, faults>>

-----------------------------------------------------------------------------
(* Other users of the admin key; the chain; crashes                        *)

\* adminSend and the steps of fundDemoTreasury: lock, send, wait for the receipt.
SendOther ==
    /\ At(Treasury, "idle")
    /\ Cardinality({i \in DOMAIN tx : tx[i].r = 0}) < MaxOther
    /\ To(Treasury, "nonce")
    /\ JoinQueue(Treasury)
    /\ UNCHANGED <<chain, resolved, finalizing, cursor, tx, settledBy, faults>>

\* Transactions of one sender are mined in the order of their nonces; a finalize
\* of a request that is no longer pending reverts.
Mine(i) ==
    /\ tx[i].status = "pending"
    /\ \A j \in SentBy(tx[i].by) : tx[j].nonce < tx[i].nonce => tx[j].status # "pending"
    /\ LET r == tx[i].r
           takes == r # 0 /\ chain[r] = "Requested" IN
       /\ tx' = [tx EXCEPT ![i].status = IF r = 0 \/ takes THEN "mined" ELSE "reverted"]
       /\ IF takes
          THEN /\ \E s \in {"AwaitingSafeApproval", "Settled"} : chain' = [chain EXCEPT ![r] = s]
               /\ settledBy' = [settledBy EXCEPT ![r] = i]
          ELSE UNCHANGED <<chain, settledBy>>
    /\ UNCHANGED <<resolved, finalizing, job, cursor, queue, faults>>

RequestSpend(r) ==
    /\ r = NextId
    /\ chain' = [chain EXCEPT ![r] = "Requested"]
    /\ UNCHANGED <<resolved, finalizing, job, cursor, queue, tx, settledBy, faults>>

Resolve(r) ==
    /\ chain[r] # "None" /\ r \notin resolved
    /\ resolved' = resolved \cup {r}
    /\ UNCHANGED <<chain, finalizing, job, cursor, queue, tx, settledBy, faults>>

\* Anybody finalizes (with a proof) or expires the request; owners settle an escalation.
SettledElsewhere(r) ==
    /\ \/ chain[r] = "Requested" /\ r \in resolved
          /\ \E s \in {"AwaitingSafeApproval", "Settled"} : chain' = [chain EXCEPT ![r] = s]
       \/ chain[r] \in {"Requested", "AwaitingSafeApproval"}
          /\ chain' = [chain EXCEPT ![r] = "Settled"]
    /\ UNCHANGED <<resolved, finalizing, job, cursor, queue, tx, settledBy, faults>>

\* The server restarts: jobs, ownership and lock were in memory.
Crash ==
    /\ Fault
    /\ LET lost == {job[c].id : c \in Server \cup {Treasury}} IN
       tx' = [i \in DOMAIN tx |-> [tx[i] EXCEPT !.watched = @ /\ (i \notin lost)]]
    /\ job' = [c \in Callers |-> IF c = Keeper THEN job[c] ELSE Idle]
    /\ finalizing' = {} /\ queue' = <<>>
    /\ UNCHANGED <<chain, resolved, cursor, settledBy>>

Step(c) ==
    \/ ReadRequest(c) \/ Probe(c) \/ Decrypt(c) \/ Estimate(c)
    \/ TakeNonce(c) \/ Send(c) \/ Receipt(c)

\* The sweeper's own steps: it never stands at two of them.
ServerLoop == StartSweep \/ Loop(Sweeper) \/ PeekSweep \/ PeekProbe \/ ExpireEscalation

Next ==
    \/ \E c \in Posts, r \in Requests : Post(c, r)
    \/ \E c \in Callers : Step(c)
    \/ ServerLoop
    \/ StartKeeper \/ Loop(Keeper) \/ PeekKeeper
    \/ SendOther
    \/ \E i \in DOMAIN tx : Mine(i)
    \/ \E r \in Requests : RequestSpend(r) \/ Resolve(r) \/ SettledElsewhere(r)
    \/ Crash

\* The event loop runs what is ready, the interval keeps firing, what was sent is
\* mined.  No visitor, no keeper and nobody on the chain has to do anything.
Fairness ==
    /\ \A c \in Server \cup {Treasury} : WF_vars(Step(c))
    /\ WF_vars(ServerLoop)
    /\ WF_vars(\E i \in DOMAIN tx : Mine(i))

Spec == Init /\ [][Next]_vars /\ Fairness

-----------------------------------------------------------------------------
(* Properties                                                              *)

\* Types, and that the lock has each caller in line at most once.
CourierTypeOK ==
    /\ chain \in [Requests -> RequestStates]
    /\ resolved \subseteq Requests /\ finalizing \subseteq Requests
    /\ job \in [Callers -> [pc : Pcs, r : 0 .. MaxRequests, nonce : 0 .. Len(tx), id : 0 .. Len(tx)]]
    /\ cursor \in [Loops -> 1 .. MaxRequests + 1]
    /\ \A i, j \in DOMAIN queue : queue[i] \in Callers \ {Keeper} /\ (queue[i] = queue[j] => i = j)
    /\ \A i \in DOMAIN tx : tx[i].status \in {"pending", "mined", "reverted"}
    /\ faults \in 0 .. MaxFaults

\* An admin transaction that reverts was outrun by the keeper, by somebody outside,
\* or by an earlier one the server had lost sight of: never by one it was following.
OutrunOnly ==
    \A i \in DOMAIN tx :
        tx[i].status = "reverted" /\ tx[i].by = "admin" =>
            LET by == settledBy[tx[i].r] IN
            by # 0 => tx[by].by = "keeper" \/ ~tx[by].watched

\* A nonce about to be used is not used already, whichever jobs share the admin key.
NonceIsFresh ==
    \A i \in DOMAIN tx, c \in Callers :
        At(c, "send") /\ tx[i].by = Sender(c) => tx[i].nonce # job[c].nonce

\* finalizingIds is exactly the set of requests the server is finalizing, one job
\* each: no request is worked on twice and none is left owned by a job that is gone.
OwnershipIsExact ==
    LET Jobs(r) == {c \in Server : job[c].r = r /\ job[c].pc \notin {"peek", "peekProbe", "expire"}}
    IN  \A r \in Requests : Cardinality(Jobs(r)) = (IF r \in finalizing THEN 1 ELSE 0)

\* The safety of the courier.
CourierSafe == CourierTypeOK /\ OutrunOnly /\ NonceIsFresh /\ OwnershipIsExact

\* What the sweep alone has to bring out of Requested: a decision that can be proved.
Provable(r) == chain[r] = "Requested" /\ r \in resolved
=============================================================================
