---------------------------- MODULE DemoDecision ----------------------------
(***************************************************************************)
(* The decision service: a visitor approves or rejects an escalated        *)
(* request, the server signs the Safe transaction for it, and a watchdog   *)
(* rejects what nobody decided in time.  A journal on disk says who        *)
(* decided; every signature is made under one Safe lock.                   *)
(*                                                                         *)
(* One action runs from one await to the next.  An actor is the job of a   *)
(* request (jobs holds at most one per request), the watchdog, or an owner *)
(* whose governance action the server co-signs.  The run of a request is   *)
(* fixed by its memo, so a request stands for its run; identity checks,    *)
(* progress reports and messages are left out.                             *)
(***************************************************************************)
EXTENDS Naturals, Sequences, FiniteSets

CONSTANTS
    Requests,           \* the escalated requests of the module
    Watchdog, Owner,    \* the sweeper, and owner A through the governance relay
    decisionWindow,     \* in ticks of the server clock
    StaleReads,         \* whether a node may answer from an older block
    MaxTxs,             \* bound on the Safe transactions sent
    WatchdogTxs,        \* those of them only the watchdog may send
    MaxOwnerTxs,        \* bound on the governance actions among them
    MaxFaults,          \* bound on crashes, lost answers, failed writes and timeouts
    MaxTime             \* bound on the server clock, which starts at 1

Actors == Requests \cup {Watchdog, Owner}
TxIds  == 1 .. MaxTxs

ASSUME ActorsAssumption == {Watchdog, Owner, 0} \cap Requests = {} /\ Watchdog # Owner
ASSUME DecisionBoundsAssumption ==
    /\ decisionWindow \in Nat \ {0}
    /\ StaleReads \in BOOLEAN
    /\ MaxTxs \in Nat /\ WatchdogTxs \in Nat /\ MaxOwnerTxs \in Nat
    /\ MaxFaults \in Nat /\ MaxTime \in Nat

-----------------------------------------------------------------------------
VARIABLES
    now,            \* Date.now()
    chain,          \* request -> its state in the module
    awaitingFrom,   \* request -> when it really began to wait for the Safe, 0 before
    safeNonce,
    tx,             \* the Safe transactions, in the order signer B sent them
    nextTx,
    mem,            \* the journal's entries in memory
    disk,           \* the journal file
    queue,          \* the Safe lock: its holder and those waiting, in order
    actor,          \* what each actor is doing
    told,           \* request -> what was answered or attested about its decision
    faults

chainVars == <<chain, awaitingFrom, safeNonce, tx, nextTx>>
vars == <<now, chainVars, mem, disk, queue, actor, told, faults>>

UserActions   == {"approve", "reject"}
RequestStates == {"Requested", "AwaitingSafeApproval", "Executed", "Cancelled"}
Settled(r)    == chain[r] \in {"Executed", "Cancelled"}

\* The state the module's executeEscalated or cancelEscalated leaves.
Outcome(action) == IF action = "approve" THEN "Executed" ELSE "Cancelled"

NoIntent  == [action |-> "none", hash |-> 0]
NoReceipt == [origin |-> "none", action |-> "none", hash |-> 0]
NoEntry   == [awaitingSince |-> 0, intent |-> NoIntent, receipt |-> NoReceipt]
NoTx      == [nonce |-> 0, action |-> "none", request |-> 0, by |-> "none",
              sentAt |-> 0, status |-> "none"]
Idle      == [pc |-> "idle", request |-> 0, action |-> "none", by |-> "none",
              nonce |-> 0, tx |-> 0]

Init ==
    /\ now = 1
    /\ chain = [r \in Requests |-> "Requested"]
    /\ awaitingFrom = [r \in Requests |-> 0]
    /\ safeNonce = 0
    /\ tx = [i \in TxIds |-> NoTx]
    /\ nextTx = 1
    /\ mem  = [r \in Requests |-> NoEntry]
    /\ disk = [r \in Requests |-> NoEntry]
    /\ queue = <<>>
    /\ actor = [a \in Actors |-> Idle]
    /\ told = [r \in Requests |-> {}]
    /\ faults = 0

-----------------------------------------------------------------------------
(* The journal *)

Fault   == faults < MaxFaults /\ faults' = faults + 1
NoFault == faults' = faults

\* mutate: change the entries in memory, then write the whole file.  A failed write
\* rejects the call and leaves memory changed.
Persist(entries)      == mem' = entries /\ disk' = entries /\ NoFault
PersistFails(entries) == mem' = entries /\ disk' = disk /\ Fault
NoPersist             == UNCHANGED <<mem, disk>>

\* The first time a request was seen waiting is kept, but not beside a timeout receipt.
observeAwaiting(entries, r) ==
    IF entries[r].awaitingSince # 0 \/ entries[r].receipt.origin = "timeout"
    THEN entries
    ELSE [entries EXCEPT ![r].awaitingSince = now]

recordIntent(entries, r, action) ==
    [entries EXCEPT ![r].intent = [action |-> action, hash |-> 0]]

\* The store refuses a broadcast or a receipt that matches no intent; the lock is held
\* since the intent was written, so it never does.
recordBroadcast(r, hash) == [mem EXCEPT ![r].intent.hash = hash]

EntryCleared(r) == [mem EXCEPT ![r] = NoEntry]

clearIntent(r) ==
    IF mem[r].receipt.origin = "none" THEN [mem EXCEPT ![r].intent = NoIntent] ELSE mem

recordUserReceipt(r, action, hash) ==
    [mem EXCEPT ![r].receipt = [origin |-> "user", action |-> action, hash |-> hash]]

TimeoutReceiptAsGiven(r, hash) ==
    [mem EXCEPT ![r] = [NoEntry EXCEPT !.receipt =
        [origin |-> "timeout", action |-> "none", hash |-> hash]]]

\* The receipt of a timeout replaces the entry.
recordTimeoutReceipt(r, hash) ==
    [mem EXCEPT ![r] = [NoEntry EXCEPT !.receipt =
        [origin |-> "timeout", action |-> "reject", hash |-> hash]]]

matchingUserReceipt(entry, action) ==
    /\ entry.intent.action = action
    /\ entry.receipt.origin = "user" /\ entry.receipt.action = action

\* What terminalResult returns or throws that says how the request was decided.
terminalResult(seen, entry, action) ==
    CASE entry.receipt.origin = "timeout" /\ seen # "Requested" -> {"expired"}
      [] seen = "Executed" /\ action = "approve" /\ matchingUserReceipt(entry, "approve")
           -> {"approved"}
      [] seen = "Cancelled" /\ action = "reject" /\ matchingUserReceipt(entry, "reject")
           -> {"rejected"}
      [] OTHER -> {}

ByStateAlone(seen, entry) ==
    CASE seen = "Executed"  -> {"approved"}
      [] seen = "Cancelled" -> {"rejected"}
      [] OTHER              -> {}

\* What attest says: a state alone never names its author.
attestedOrigin(seen, entry) ==
    CASE entry.receipt.origin = "timeout" -> {"expired"}
      [] seen = "Executed"  /\ matchingUserReceipt(entry, "approve") -> {"approved"}
      [] seen = "Cancelled" /\ matchingUserReceipt(entry, "reject")  -> {"rejected"}
      [] OTHER -> {}

Tell(r, answers) == told' = [told EXCEPT ![r] = @ \cup answers]

-----------------------------------------------------------------------------
(* The chain as the server sees it, and the Safe lock *)

\* What a node may answer about a request: its state, or an older one.
readRequest(r) ==
    IF ~StaleReads THEN {chain[r]}
    ELSE {chain[r], "Requested"} \cup
         (IF awaitingFrom[r] # 0 THEN {"AwaitingSafeApproval"} ELSE {})

readNonce == IF StaleReads /\ safeNonce > 0 THEN {safeNonce - 1, safeNonce} ELSE {safeNonce}

Running == {a \in Actors : actor[a].pc \notin {"idle", "done"}}
\* An actor sends at most one transaction, and starts only when the bound leaves room.
Room(kept) == nextTx + Cardinality(Running) + kept <= MaxTxs

InQueue(a) == \E i \in 1 .. Len(queue) : queue[i] = a

\* withSafeLock: first come, first served.
JoinQueue(a) == queue' = Append(queue, a)
HoldsLock(a) == queue # <<>> /\ Head(queue) = a
KeepLock     == UNCHANGED queue
Unlock       == queue' = Tail(queue)

Go(a, pc) == actor' = [actor EXCEPT ![a].pc = pc]
\* A job keeps its result until it is delivered or evicted; the others move on.
Ended(a) == actor' = [actor EXCEPT ![a] =
                IF a \in Requests THEN [Idle EXCEPT !.pc = "done"] ELSE Idle]
EndUnlocked(a) == Ended(a) /\ Unlock

-----------------------------------------------------------------------------
(* The job of a request: start, then perform *)

Start(r, action) ==
    /\ actor[r].pc = "idle"
    /\ Room(WatchdogTxs) \/ mem[r].intent.hash # 0     \* recovery sends nothing
    /\ actor' = [actor EXCEPT ![r] = [Idle EXCEPT !.pc = "validating", !.request = r,
                                                  !.action = action]]
    /\ UNCHANGED <<now, chainVars, mem, disk, queue, told, faults>>

\* A failure is forgotten once delivered, a success after its retention.
Forget(r) ==
    /\ actor[r].pc = "done"
    /\ actor' = [actor EXCEPT ![r] = Idle]
    /\ UNCHANGED <<now, chainVars, mem, disk, queue, told, faults>>

Broadcasted(entry) == entry.intent.hash # 0 /\ entry.receipt.origin = "none"

\* The request and the entry are read before the lock: a journalled broadcast is
\* recovered, an undecided request goes on to be signed, everything else is answered.
Validate(r) ==
    LET entry  == mem[r]
        action == actor[r].action
        other  == entry.receipt.origin = "none" /\ entry.intent.action \notin {"none", action}
    IN  /\ actor[r].pc = "validating"
        /\ \E seen \in readRequest(r) :
             \/ /\ Broadcasted(entry) /\ ~other
                /\ Go(r, "recovering") /\ JoinQueue(r) /\ UNCHANGED told
             \/ /\ ~Broadcasted(entry) /\ ~other
                /\ seen = "AwaitingSafeApproval" /\ entry.receipt.origin = "none"
                /\ Go(r, "observing") /\ UNCHANGED <<queue, told>>
             \/ /\ other
                /\ Ended(r) /\ UNCHANGED <<queue, told>>
             \/ /\ ~Broadcasted(entry) /\ ~other
                /\ seen # "AwaitingSafeApproval" \/ entry.receipt.origin # "none"
                /\ Ended(r) /\ Tell(r, terminalResult(seen, entry, action))
                /\ UNCHANGED queue
        /\ UNCHANGED <<now, chainVars, mem, disk, faults>>

\* The amount is decrypted and checked before the lock is asked for.
Observe(r) ==
    LET noted == observeAwaiting(mem, r) IN
    /\ actor[r].pc = "observing"
    /\ \/ /\ noted = mem /\ NoPersist /\ NoFault
          /\ Go(r, "queued") /\ JoinQueue(r)
       \/ /\ noted # mem /\ Persist(noted)
          /\ Go(r, "queued") /\ JoinQueue(r)
       \/ /\ noted # mem /\ PersistFails(noted)
          /\ Ended(r) /\ UNCHANGED queue
       \/ /\ mem' = noted /\ disk' = (IF noted = mem THEN disk ELSE noted) /\ Fault
          /\ Ended(r) /\ UNCHANGED queue
    /\ UNCHANGED <<now, chainVars, told>>

\* Requests are made when the clock starts, at 1.
WindowOverSinceCreation(entries, r) == now - 1 >= decisionWindow

WindowOver(entries, r) == now - entries[r].awaitingSince >= decisionWindow

Signing(a, action, by) ==
    actor' = [actor EXCEPT ![a].pc = "signing", ![a].action = action, ![a].by = by]

\* Under the lock the request and the entry are read again.  The mandate of a request
\* that waits for the Safe is always active, so that check never refuses.
Decide(r) ==
    LET action == actor[r].action
        noted  == observeAwaiting(mem, r)
        meant  == recordIntent(noted, r, action)
    IN  /\ actor[r].pc = "queued" /\ HoldsLock(r)
        /\ \E seen \in readRequest(r) :
             \/ /\ seen # "AwaitingSafeApproval" \/ mem[r].receipt.origin = "timeout"
                /\ EndUnlocked(r) /\ Tell(r, terminalResult(seen, mem[r], action))
                /\ NoPersist /\ NoFault
             \/ /\ seen = "AwaitingSafeApproval" /\ mem[r].receipt.origin # "timeout"
                /\ UNCHANGED told
                /\ \/ /\ WindowOver(noted, r)
                      /\ Signing(r, "reject", "timeout") /\ KeepLock
                      /\ NoPersist /\ NoFault
                   \/ /\ ~WindowOver(noted, r)
                      /\ Signing(r, action, "user") /\ KeepLock
                      /\ Persist(meant)
                   \/ /\ ~WindowOver(noted, r)
                      /\ EndUnlocked(r)
                      /\ PersistFails(meant)
        /\ UNCHANGED <<now, chainVars>>

-----------------------------------------------------------------------------
(* executeUnlocked, shared by jobs, watchdog and governance relay *)

SignOver(a) ==
    /\ actor[a].pc = "signing"
    /\ \E n \in readNonce :
          actor' = [actor EXCEPT ![a].pc = "broadcasting", ![a].nonce = n]
    /\ UNCHANGED <<now, chainVars, mem, disk, queue, told, faults>>

Send(a) ==
    /\ nextTx \in TxIds        \* always so: Room was left for it
    /\ tx' = [tx EXCEPT ![nextTx] =
         [nonce |-> actor[a].nonce, action |-> actor[a].action, request |-> actor[a].request,
          by |-> actor[a].by, sentAt |-> now, status |-> "pending"]]
    /\ nextTx' = nextTx + 1

\* Whether gas can be estimated for what a signed, on what a node answers.
Estimated(a, nonce, seen) ==
    /\ actor[a].nonce = nonce
    /\ actor[a].action \in UserActions => seen = "AwaitingSafeApproval"

NotSent(a) == IF actor[a].by = "user" THEN Go(a, "clearing") /\ KeepLock ELSE EndUnlocked(a)

\* Gas is estimated first, so what would revert is not sent.  An error from the node may
\* hide that the transaction was taken.
Broadcast(a) ==
    /\ actor[a].pc = "broadcasting"
    /\ \E n \in readNonce, seen \in readRequest(actor[a].request) :
         \/ /\ ~Estimated(a, n, seen)
            /\ NotSent(a) /\ NoFault /\ UNCHANGED <<tx, nextTx>>
         \/ /\ Estimated(a, n, seen) /\ Send(a) /\ NoFault /\ KeepLock
            /\ actor' = [actor EXCEPT ![a].tx = nextTx, ![a].pc =
                           IF actor[a].by = "user" THEN "journalling" ELSE "confirming"]
         \/ /\ (Estimated(a, n, seen) /\ Send(a)) \/ UNCHANGED <<tx, nextTx>>
            /\ NotSent(a) /\ Fault
    /\ UNCHANGED <<now, chain, awaitingFrom, safeNonce, mem, disk, told>>

RecordBroadcast(r) ==
    /\ actor[r].pc = "journalling"
    /\ \/ Persist(recordBroadcast(r, actor[r].tx)) /\ Go(r, "confirming") /\ KeepLock
       \/ PersistFails(recordBroadcast(r, actor[r].tx)) /\ EndUnlocked(r)
    /\ UNCHANGED <<now, chainVars, told>>

ClearIntent(r) ==
    /\ actor[r].pc = "clearing"
    /\ Persist(clearIntent(r)) \/ PersistFails(clearIntent(r))
    /\ EndUnlocked(r)
    /\ UNCHANGED <<now, chainVars, told>>

ConfirmMined(a) ==
    /\ actor[a].pc = "confirming"
    /\ tx[actor[a].tx].status # "pending"
    /\ Go(a, "recording") /\ KeepLock /\ NoFault
    /\ UNCHANGED <<now, chainVars, mem, disk, told>>

\* waitForTransactionReceipt: a revert is an error, and so is waiting for too long.
Confirm(a) ==
    /\ actor[a].pc = "confirming"
    /\ \/ /\ tx[actor[a].tx].status = "success" /\ a # Owner
          /\ Go(a, "recording") /\ KeepLock /\ NoFault
       \/ /\ tx[actor[a].tx].status = "success" /\ a = Owner
          /\ EndUnlocked(a) /\ NoFault
       \/ /\ tx[actor[a].tx].status \in {"refused", "badNonce"}
          /\ EndUnlocked(a) /\ NoFault
       \/ /\ tx[actor[a].tx].status = "pending"
          /\ EndUnlocked(a) /\ Fault
    /\ UNCHANGED <<now, chainVars, mem, disk, told>>

UserAnswer(action) == IF action = "approve" THEN {"approved"} ELSE {"rejected"}

\* The hash is journalled once more, then the receipt; either write may fail.
RecordUser(r) ==
    LET receipt == recordUserReceipt(r, actor[r].action, actor[r].tx) IN
    /\ actor[r].pc = "recording" /\ actor[r].by = "user"
    /\ \/ Persist(receipt) /\ Tell(r, UserAnswer(actor[r].action))
       \/ PersistFails(mem) /\ UNCHANGED told
       \/ mem' = receipt /\ disk' = mem /\ Fault /\ UNCHANGED told
    /\ EndUnlocked(r)
    /\ UNCHANGED <<now, chainVars>>

RecordTimeout(a) ==
    LET r == actor[a].request
        receipt == recordTimeoutReceipt(r, actor[a].tx)
    IN  /\ actor[a].pc = "recording" /\ actor[a].by = "timeout"
        /\ \/ Persist(receipt) /\ Tell(r, IF a = Watchdog THEN {} ELSE {"expired"})
           \/ PersistFails(receipt) /\ UNCHANGED told
        /\ EndUnlocked(a)
        /\ UNCHANGED <<now, chainVars>>

-----------------------------------------------------------------------------
(* Recovery of a journalled broadcast *)

Recover(r) ==
    LET entry == mem[r] IN
    /\ actor[r].pc = "recovering" /\ HoldsLock(r)
    /\ \E seen \in readRequest(r) :
         \/ /\ entry.receipt.origin # "none"
            /\ EndUnlocked(r) /\ Tell(r, terminalResult(seen, entry, actor[r].action))
         \/ /\ entry.receipt.origin = "none"
            /\ entry.intent.hash = 0 \/ entry.intent.action # actor[r].action
            /\ EndUnlocked(r) /\ UNCHANGED told
         \/ /\ Broadcasted(entry) /\ entry.intent.action = actor[r].action
            /\ Go(r, "reconfirming") /\ KeepLock /\ UNCHANGED told
    /\ UNCHANGED <<now, chainVars, mem, disk, faults>>

Reconfirm(r) ==
    LET status == tx[mem[r].intent.hash].status IN
    /\ actor[r].pc = "reconfirming"
    /\ \/ status = "success" /\ Go(r, "resettling") /\ KeepLock /\ NoFault
       \/ status \in {"refused", "badNonce"} /\ EndUnlocked(r) /\ NoFault
       \/ status = "pending" /\ EndUnlocked(r) /\ Fault
    /\ UNCHANGED <<now, chainVars, mem, disk, told>>

Resettle(r) ==
    LET action  == actor[r].action
        receipt == recordUserReceipt(r, action, mem[r].intent.hash)
    IN  /\ actor[r].pc = "resettling"
        /\ \E seen \in readRequest(r) :
             \/ seen # Outcome(action) /\ NoPersist /\ NoFault /\ UNCHANGED told
             \/ seen = Outcome(action) /\ Persist(receipt) /\ Tell(r, UserAnswer(action))
             \/ seen = Outcome(action) /\ PersistFails(receipt) /\ UNCHANGED told
        /\ EndUnlocked(r)
        /\ UNCHANGED <<now, chainVars>>

Attest(r) ==
    /\ \E seen \in readRequest(r) : Tell(r, attestedOrigin(seen, mem[r]))
    /\ UNCHANGED <<now, chainVars, mem, disk, queue, actor, faults>>

-----------------------------------------------------------------------------
(* The watchdog, and the governance relay *)

StartExpire(r) ==
    /\ actor[Watchdog].pc = "idle" /\ Room(0)
    /\ "AwaitingSafeApproval" \in readRequest(r)
    /\ actor' = [actor EXCEPT ![Watchdog] = [Idle EXCEPT !.pc = "queued", !.request = r]]
    /\ JoinQueue(Watchdog)
    /\ UNCHANGED <<now, chainVars, mem, disk, told, faults>>

WithoutIntent(entry) == entry.receipt.origin = "none" /\ entry.intent.action = "none"

NotReceipted(entry) == entry.receipt.origin = "none"

\* The watchdog leaves alone what is decided or was broadcast.
LeftToWatchdog(entry) == entry.receipt.origin = "none" /\ entry.intent.hash = 0

Expire ==
    LET r     == actor[Watchdog].request
        noted == observeAwaiting(mem, r)
    IN  /\ actor[Watchdog].pc = "queued" /\ HoldsLock(Watchdog)
        /\ \E seen \in readRequest(r) :
             \/ /\ seen # "AwaitingSafeApproval" \/ ~LeftToWatchdog(mem[r])
                /\ EndUnlocked(Watchdog) /\ NoPersist /\ NoFault
             \/ /\ seen = "AwaitingSafeApproval" /\ LeftToWatchdog(mem[r])
                /\ \/ noted # mem /\ EndUnlocked(Watchdog) /\ (Persist(noted) \/ PersistFails(noted))
                   \/ /\ noted = mem /\ ~WindowOver(mem, r)
                      /\ EndUnlocked(Watchdog) /\ NoPersist /\ NoFault
                   \/ /\ noted = mem /\ WindowOver(mem, r)
                      /\ Signing(Watchdog, "reject", "timeout") /\ KeepLock
                      /\ NoPersist /\ NoFault
        /\ UNCHANGED <<now, chainVars, told>>

\* Any governance action, about a request or not; the relay looks at the nonce only.
StartGovernance(r, action) ==
    /\ actor[Owner].pc = "idle" /\ Room(WatchdogTxs)
    /\ Cardinality({i \in TxIds : tx[i].by = "owner"}) < MaxOwnerTxs
    /\ actor' = [actor EXCEPT ![Owner] =
                   [Idle EXCEPT !.pc = "queued", !.request = r, !.action = action]]
    /\ JoinQueue(Owner)
    /\ UNCHANGED <<now, chainVars, mem, disk, told, faults>>

\* governanceExecute: the owner signed over a nonce read before the lock; it must be
\* the one read now.
Govern ==
    /\ actor[Owner].pc = "queued" /\ HoldsLock(Owner)
    /\ \/ Signing(Owner, actor[Owner].action, "owner") /\ KeepLock
       \/ EndUnlocked(Owner)
    /\ UNCHANGED <<now, chainVars, mem, disk, told, faults>>

-----------------------------------------------------------------------------
(* Around the service *)

\* The bound on the clock leaves every request its window: requests escalate before the
\* last one, and the clock enters it only when those that wait have been seen waiting.
BeforeLastWindow == now + decisionWindow < MaxTime

Escalate(r) ==
    /\ chain[r] = "Requested" /\ now + decisionWindow <= MaxTime
    /\ chain' = [chain EXCEPT ![r] = "AwaitingSafeApproval"]
    /\ awaitingFrom' = [awaitingFrom EXCEPT ![r] = now]
    /\ UNCHANGED <<now, safeNonce, tx, nextTx, mem, disk, queue, actor, told, faults>>

\* Signer B's transactions are mined in the order they were sent.  The Safe refuses a
\* signature over another nonce, the module a request that no longer waits.
Mine(i) ==
    LET t == tx[i] IN
    /\ t.status = "pending" /\ \A j \in 1 .. i - 1 : tx[j].status # "pending"
    /\ \/ /\ t.nonce # safeNonce
          /\ tx' = [tx EXCEPT ![i].status = "badNonce"]
          /\ UNCHANGED <<chain, safeNonce>>
       \/ /\ t.nonce = safeNonce /\ t.action \in UserActions
          /\ chain[t.request] # "AwaitingSafeApproval"
          /\ tx' = [tx EXCEPT ![i].status = "refused"]
          /\ UNCHANGED <<chain, safeNonce>>
       \/ /\ t.nonce = safeNonce
          /\ t.action \in UserActions => chain[t.request] = "AwaitingSafeApproval"
          /\ tx' = [tx EXCEPT ![i].status = "success"]
          /\ safeNonce' = safeNonce + 1
          /\ chain' = IF t.action \in UserActions
                      THEN [chain EXCEPT ![t.request] = Outcome(t.action)] ELSE chain
    /\ UNCHANGED <<now, awaitingFrom, nextTx, mem, disk, queue, actor, told, faults>>

\* The process restarts: jobs, lock and the entries in memory are gone.
Crash ==
    /\ Fault
    /\ mem' = disk
    /\ queue' = <<>>
    /\ actor' = [a \in Actors |-> Idle]
    /\ UNCHANGED <<now, chainVars, disk, told>>

Tick ==
    /\ now < MaxTime
    /\ BeforeLastWindow \/ \A r \in Requests : chain[r] = "AwaitingSafeApproval" =>
                                                mem[r].awaitingSince # 0
    /\ now' = now + 1
    /\ UNCHANGED <<chainVars, mem, disk, queue, actor, told, faults>>

Work(a) == SignOver(a) \/ Broadcast(a) \/ Confirm(a) \/ RecordTimeout(a)
Job(r)  == \/ Validate(r) \/ Observe(r) \/ Decide(r) \/ RecordBroadcast(r) \/ ClearIntent(r)
           \/ RecordUser(r) \/ Recover(r) \/ Reconfirm(r) \/ Resettle(r)

Next ==
    \/ \E r \in Requests, action \in UserActions : Start(r, action)
    \/ \E r \in Requests : \/ Forget(r) \/ Attest(r) \/ Escalate(r)
                           \/ StartExpire(r) \/ Job(r)
    \/ \E a \in Actors : Work(a)
    \/ Expire \/ Govern
    \/ \E r \in Requests, action \in UserActions \cup {"other"} : StartGovernance(r, action)
    \/ \E i \in TxIds : Mine(i)
    \/ Crash \/ Tick

\* The event loop runs what is ready, the chain mines what was sent, the clock goes on
\* and every sweep of the watchdog visits every request.
Fairness ==
    /\ WF_vars(Tick) /\ WF_vars(Expire) /\ WF_vars(Govern)
    /\ \A a \in Actors : WF_vars(Work(a))
    /\ \A r \in Requests : WF_vars(Job(r)) /\ SF_vars(StartExpire(r))
    /\ \A i \in TxIds : WF_vars(Mine(i))

Spec == Init /\ [][Next]_vars /\ Fairness

\* A visitor who approved and got no answer asks again for the same.
Retrying == \A r \in Requests : WF_vars(Forget(r)) /\ SF_vars(Start(r, "approve"))
RetryingSpec == Spec /\ Retrying

-----------------------------------------------------------------------------
(* Properties *)

Intents  == {NoIntent} \cup [action : UserActions, hash : TxIds \cup {0}]
Receipts == {NoReceipt} \cup [origin : {"user", "timeout"}, action : UserActions, hash : TxIds]
Entries  == [awaitingSince : Nat, intent : Intents, receipt : Receipts]
Txs      == [nonce : Nat, action : UserActions \cup {"other", "none"}, request : Requests \cup {0},
             by : {"user", "timeout", "owner", "none"}, sentAt : Nat,
             status : {"none", "pending", "success", "refused", "badNonce"}]
PCs      == {"idle", "validating", "observing", "queued", "signing", "broadcasting",
             "journalling", "clearing", "confirming", "recording", "recovering",
             "reconfirming", "resettling", "done"}
ActorStates == [pc : PCs, request : Requests \cup {0},
                action : UserActions \cup {"other", "none"},
                by : {"user", "timeout", "owner", "none"}, nonce : Nat, tx : TxIds \cup {0}]

\* The types of the variables; a journalled receipt names an author, an action and a
\* transaction.
DecisionTypeOK ==
    /\ now \in Nat /\ faults \in Nat /\ safeNonce \in Nat
    /\ chain \in [Requests -> RequestStates]
    /\ awaitingFrom \in [Requests -> Nat]
    /\ tx \in [TxIds -> Txs]
    /\ nextTx \in 1 .. MaxTxs + 1
    /\ mem \in [Requests -> Entries] /\ disk \in [Requests -> Entries]
    /\ queue \in Seq(Actors)
    /\ actor \in [Actors -> ActorStates]
    /\ told \in [Requests -> SUBSET {"approved", "rejected", "expired"}]

\* The transaction i decided request r, with this action and on this behalf.
Decided(i, r, action, by) ==
    /\ tx[i].status = "success" /\ tx[i].request = r
    /\ tx[i].action = action /\ tx[i].by = by

ReceiptTrue(entry, r) ==
    entry.receipt.origin # "none" =>
        Decided(entry.receipt.hash, r, entry.receipt.action, entry.receipt.origin)

\* A receipt, in memory or on disk, never says more than the chain: its transaction
\* succeeded, was about this request, and was signed for the visitor or for the timeout
\* as the receipt says, whatever crashed, was lost or was recovered in between.
ReceiptsTrue == \A r \in Requests : ReceiptTrue(mem[r], r) /\ ReceiptTrue(disk[r], r)

\* Whatever the service answers or attests about a decision is what happened: a timeout
\* never passes for a visitor's rejection, nor an owner's action for either.
AnswersTrue ==
    \A r \in Requests :
        /\ "approved" \in told[r] => \E i \in TxIds : Decided(i, r, "approve", "user")
        /\ "rejected" \in told[r] => \E i \in TxIds : Decided(i, r, "reject", "user")
        /\ "expired"  \in told[r] => \E i \in TxIds : Decided(i, r, "reject", "timeout")

\* Once a broadcast or a receipt is on disk the server signs nothing more about the
\* request, not after a restart and not on the word of a node that lags behind.
NoCompetingSignature ==
    [][\A r \in Requests :
         disk[r].intent.hash # 0 \/ disk[r].receipt.origin # "none" =>
            \A i \in TxIds : tx[i] = NoTx /\ tx'[i].request = r => tx'[i].by = "owner"]_vars

\* No timeout is signed before the request has waited for the whole window.
WindowKept ==
    \A i \in TxIds : tx[i].by = "timeout" =>
        tx[i].sentAt >= awaitingFrom[tx[i].request] + decisionWindow

\* The boundary of the window, once on disk, is neither reset nor lost before the
\* timeout itself is journalled.
BoundaryKept ==
    [][\A r \in Requests : disk[r].awaitingSince # 0 =>
         \/ disk'[r].awaitingSince = disk[r].awaitingSince
         \/ disk'[r].receipt.origin = "timeout"]_vars

\* Without crashes, lost answers, timeouts or lagging nodes, no signature is ever spoilt
\* by another one over the same nonce, though jobs, watchdog and owners all sign.
LockProtectsNonce ==
    faults = 0 /\ ~StaleReads => \A i \in TxIds : tx[i].status # "badNonce"

\* A request nobody decided does not wait for ever: it is settled unless a broadcast of
\* a decision is journalled, also when a crash left an intent behind.
UndecidedReturned ==
    \A r \in Requests :
        chain[r] = "AwaitingSafeApproval" ~> Settled(r) \/ mem[r].intent.hash # 0

\* A comment in expire leaves a journalled broadcast to the visitor: "the
\* browser/recovery path will reconcile it".  So the request does not wait for ever.
BroadcastReconciled ==
    \A r \in Requests :
        (chain[r] = "AwaitingSafeApproval" /\ mem[r].intent.action = "approve"
            /\ mem[r].intent.hash # 0) ~> Settled(r)

=============================================================================
