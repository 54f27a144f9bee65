------------------------ MODULE DemoDecision_proofs ------------------------
(***************************************************************************)
(* Theorems about DemoDecision, for every value of its constants: what the *)
(* journal says is true, whatever crashed, was lost or was recovered; no   *)
(* timeout is early, no signature competes, and the lock keeps the nonce.  *)
(***************************************************************************)
EXTENDS DemoDecision, TLAPS

USE ActorsAssumption, DecisionBoundsAssumption

-----------------------------------------------------------------------------
(* The inductive invariant.  A receipt is copied from what an actor holds  *)
(* under the Safe lock, so the invariant follows a transaction from its    *)
(* signature through the actor to the journal, and says that the lock      *)
(* keeps every other actor away from the entry meanwhile.  Its parts take  *)
(* the state as parameters: T for tx, E for entries, Q for the queue.      *)

LockPCs    == {"signing", "broadcasting", "journalling", "clearing", "confirming",
               "recording", "reconfirming", "resettling"}
SigningPCs == {"signing", "broadcasting", "journalling", "clearing", "confirming",
               "recording"}
JobPCs     == {"validating", "observing", "recovering", "reconfirming", "resettling"}

\* Transaction i was sent to decide request r, with this action and on this behalf.
SentFor(T, i, r, action, by) ==
    /\ i \in TxIds /\ T[i].status # "none"
    /\ T[i].request = r /\ T[i].action = action /\ T[i].by = by

\* From T to U transactions are only added or mined, and what is mined stays so.
Grows(T, U) ==
    \A i \in TxIds :
        /\ T[i].status # "none" =>
             /\ U[i].status # "none" /\ U[i].request = T[i].request
             /\ U[i].action = T[i].action /\ U[i].by = T[i].by
        /\ T[i].status = "success" => U[i].status = "success"

\* The transactions below n, and no others, were sent.
TxOK(T, n) ==
    /\ T \in [TxIds -> Txs] /\ n \in 1 .. MaxTxs + 1
    /\ \A i \in TxIds : i < n <=> T[i].status # "none"

\* What an entry names was sent for it; a receipt's transaction succeeded.
EntryOK(T, entry, r) ==
    /\ entry.intent.hash # 0 =>
         SentFor(T, entry.intent.hash, r, entry.intent.action, "user")
    /\ entry.receipt.origin # "none" =>
         /\ SentFor(T, entry.receipt.hash, r, entry.receipt.action, entry.receipt.origin)
         /\ T[entry.receipt.hash].status = "success"
    /\ entry.receipt.origin = "timeout" => entry.receipt.action = "reject"

StoreOK(T, E) == E \in [Requests -> Entries] /\ \A r \in Requests : EntryOK(T, E[r], r)

Holds(Q, a) == Q # <<>> /\ Head(Q) = a

\* What actor a holds while it is in the state me.
ActorOK(T, E, Q, me, a) ==
    /\ me.pc \in LockPCs => Holds(Q, a)
    /\ me.pc \notin {"idle", "done"} => me.request \in Requests
    /\ a \in Requests /\ me.pc \notin {"idle", "done"} =>
         me.request = a /\ me.action \in UserActions
    /\ me.pc \in JobPCs => a \in Requests
    /\ me.pc \in {"journalling", "clearing"} => me.by = "user"
    /\ me.pc \in SigningPCs /\ me.by = "user" =>
         a \in Requests /\ E[a].intent.action = me.action
    /\ me.pc \in SigningPCs /\ me.by = "timeout" => me.action = "reject"
    /\ me.pc \in {"journalling", "confirming", "recording"} =>
         SentFor(T, me.tx, me.request, me.action, me.by)
    /\ me.pc = "recording" => T[me.tx].status = "success"
    /\ me.pc \in {"reconfirming", "resettling"} =>
         /\ E[a].intent.hash # 0
         /\ SentFor(T, E[a].intent.hash, a, me.action, "user")
    /\ me.pc = "resettling" => T[E[a].intent.hash].status = "success"

EnvOK ==
    /\ now \in Nat /\ faults \in Nat /\ safeNonce \in Nat
    /\ chain \in [Requests -> RequestStates]
    /\ awaitingFrom \in [Requests -> Nat]
    /\ told \in [Requests -> SUBSET {"approved", "rejected", "expired"}]

DecisionInv ==
    /\ EnvOK
    /\ TxOK(tx, nextTx)
    /\ StoreOK(tx, mem) /\ StoreOK(tx, disk)
    /\ queue \in Seq(Actors)
    /\ actor \in [Actors -> ActorStates]
    /\ \A a \in Actors : ActorOK(tx, mem, queue, actor[a], a)

-----------------------------------------------------------------------------
(* The invariant holds at first and implies the properties. *)

LEMMA DecisionInit == Init => DecisionInv
  <1> SUFFICES ASSUME Init PROVE DecisionInv
    OBVIOUS
  <1>1. EnvOK
    BY DEF Init, EnvOK, RequestStates
  <1>2. TxOK(tx, nextTx)
    BY DEF Init, TxOK, TxIds, Txs, NoTx
  <1>3. StoreOK(tx, mem) /\ StoreOK(tx, disk)
    BY DEF Init, StoreOK, EntryOK, Entries, Intents, Receipts, NoEntry, NoIntent, NoReceipt
  <1>4. queue \in Seq(Actors)
    BY DEF Init
  <1>5. actor \in [Actors -> ActorStates]
    BY DEF Init, ActorStates, Idle, PCs
  <1>6. ASSUME NEW a \in Actors PROVE ActorOK(tx, mem, queue, actor[a], a)
    BY DEF Init, ActorOK, Idle, LockPCs, SigningPCs, JobPCs
  <1> QED BY <1>1, <1>2, <1>3, <1>4, <1>5, <1>6 DEF DecisionInv

LEMMA DecisionInvTypes == DecisionInv => DecisionTypeOK
  BY DEF DecisionInv, DecisionTypeOK, EnvOK, TxOK, StoreOK

LEMMA DecisionInvReceipts == DecisionInv => ReceiptsTrue
  BY DEF DecisionInv, ReceiptsTrue, ReceiptTrue, Decided, StoreOK, EntryOK, SentFor

-----------------------------------------------------------------------------
(* Transactions grow, and what was said about them stays true. *)

LEMMA SentForGrows ==
    ASSUME NEW T, NEW U, Grows(T, U), NEW i, NEW r, NEW action, NEW by,
           SentFor(T, i, r, action, by)
    PROVE  SentFor(U, i, r, action, by)
  BY DEF Grows, SentFor

LEMMA StoreGrows ==
    ASSUME NEW T, NEW U, Grows(T, U), NEW E, StoreOK(T, E)
    PROVE  StoreOK(U, E)
  <1> SUFFICES ASSUME NEW r \in Requests PROVE EntryOK(U, E[r], r)
    BY DEF StoreOK
  <1>1. EntryOK(T, E[r], r)
    BY DEF StoreOK
  <1>2. E[r].intent.hash # 0 => SentFor(U, E[r].intent.hash, r, E[r].intent.action, "user")
    BY <1>1, SentForGrows DEF EntryOK
  <1>3. E[r].receipt.origin # "none" =>
           SentFor(U, E[r].receipt.hash, r, E[r].receipt.action, E[r].receipt.origin)
    BY <1>1, SentForGrows DEF EntryOK
  <1>4. E[r].receipt.origin # "none" => U[E[r].receipt.hash].status = "success"
    BY <1>1 DEF EntryOK, SentFor, Grows
  <1> QED BY <1>1, <1>2, <1>3, <1>4 DEF EntryOK

\* An actor that does nothing keeps what it holds when others only send, mine, queue up
\* and leave its entry alone.
LEMMA ActorKeeps ==
    ASSUME NEW T, NEW U, Grows(T, U), NEW E, NEW F, NEW Q, NEW R, NEW me, NEW b \in Actors,
           ActorOK(T, E, Q, me, b),
           me.pc \in LockPCs => Holds(R, b),
           me.pc \in LockPCs /\ b \in Requests => F[b].intent = E[b].intent
    PROVE  ActorOK(U, F, R, me, b)
  <1>1. me.pc \in {"journalling", "confirming", "recording"} =>
           SentFor(U, me.tx, me.request, me.action, me.by)
    BY SentForGrows DEF ActorOK
  <1>2. me.pc = "recording" => U[me.tx].status = "success"
    BY DEF ActorOK, SentFor, Grows
  <1>3. me.pc \in {"reconfirming", "resettling"} =>
           F[b].intent.hash # 0 /\ SentFor(U, F[b].intent.hash, b, me.action, "user")
    BY SentForGrows DEF ActorOK, LockPCs, JobPCs
  <1>4. me.pc = "resettling" => U[F[b].intent.hash].status = "success"
    BY DEF ActorOK, SentFor, Grows, LockPCs, JobPCs
  <1>5. me.pc \in SigningPCs /\ me.by = "user" =>
           b \in Requests /\ F[b].intent.action = me.action
    BY DEF ActorOK, SigningPCs, LockPCs
  <1> QED BY <1>1, <1>2, <1>3, <1>4, <1>5 DEF ActorOK

-----------------------------------------------------------------------------
(* A step of one actor.  It may change the lock and its own entry only as  *)
(* the lock allows; then the other actors keep what they hold.             *)

TxStep == Grows(tx, tx') /\ TxOK(tx', nextTx')

\* a queues up, or leaves the lock it holds, or does neither.
LockStep(a) == UNCHANGED queue \/ JoinQueue(a) \/ (Holds(queue, a) /\ Unlock)

\* a changes the intents of others only while it holds the lock.
StoreStep(a) ==
    Holds(queue, a) \/ \A b \in Requests : b # a => mem'[b].intent = mem[b].intent

LEMMA LockStepType ==
    ASSUME queue \in Seq(Actors), NEW a \in Actors, LockStep(a)
    PROVE  queue' \in Seq(Actors)
  BY DEF LockStep, JoinQueue, Unlock, Holds

LEMMA OtherKeepsLock ==
    ASSUME queue \in Seq(Actors), NEW a \in Actors, LockStep(a), NEW b \in Actors, b # a,
           Holds(queue, b)
    PROVE  Holds(queue', b)
  BY DEF LockStep, JoinQueue, Unlock, Holds

LEMMA SameTx ==
    ASSUME DecisionInv, UNCHANGED <<tx, nextTx>>
    PROVE  TxStep
  BY DEF DecisionInv, TxStep, Grows, TxOK

LEMMA ActorStep ==
    ASSUME DecisionInv, NEW a \in Actors, EnvOK', TxStep, LockStep(a), StoreStep(a),
           StoreOK(tx', mem'), StoreOK(tx', disk'),
           actor' \in [Actors -> ActorStates],
           \A b \in Actors : b # a => actor'[b] = actor[b],
           ActorOK(tx', mem', queue', actor'[a], a)
    PROVE  DecisionInv'
  <1>1. queue \in Seq(Actors) /\ \A b \in Actors : ActorOK(tx, mem, queue, actor[b], b)
    BY DEF DecisionInv
  <1>2. ASSUME NEW b \in Actors, b # a
        PROVE  ActorOK(tx', mem', queue', actor'[b], b)
    <2>1. ActorOK(tx, mem, queue, actor[b], b) /\ actor'[b] = actor[b]
      BY <1>1, <1>2
    <2>2. actor[b].pc \in LockPCs => Holds(queue, b)
      BY <2>1 DEF ActorOK
    <2>3. actor[b].pc \in LockPCs => Holds(queue', b)
      BY <1>1, <1>2, <2>2, OtherKeepsLock
    <2>4. actor[b].pc \in LockPCs /\ b \in Requests => mem'[b].intent = mem[b].intent
      BY <1>2, <2>2 DEF StoreStep, Holds
    <2>5. Grows(tx, tx')
      BY DEF TxStep
    <2>6. ActorOK(tx', mem', queue', actor[b], b)
      BY <2>1, <2>3, <2>4, <2>5, ActorKeeps
    <2> QED BY <2>1, <2>6
  <1>3. \A b \in Actors : ActorOK(tx', mem', queue', actor'[b], b)
    BY <1>2
  <1>4. queue' \in Seq(Actors)
    BY <1>1, LockStepType
  <1> QED BY <1>3, <1>4 DEF DecisionInv, TxStep

\* An actor that ends holds nothing.
LEMMA EndStep ==
    ASSUME DecisionInv, NEW a \in Actors, EnvOK', TxStep, LockStep(a), StoreStep(a),
           StoreOK(tx', mem'), StoreOK(tx', disk'), Ended(a)
    PROVE  DecisionInv'
  <1>1. actor \in [Actors -> ActorStates]
    BY DEF DecisionInv
  <1>2. actor' \in [Actors -> ActorStates]
    BY <1>1 DEF Ended, ActorStates, Idle, PCs
  <1>3. \A b \in Actors : b # a => actor'[b] = actor[b]
    BY <1>1 DEF Ended
  <1>4. actor'[a].pc \in {"idle", "done"}
    BY <1>1 DEF Ended, Idle
  <1>5. ActorOK(tx', mem', queue', actor'[a], a)
    BY <1>4 DEF ActorOK, LockPCs, SigningPCs, JobPCs
  <1> QED BY <1>2, <1>3, <1>5, ActorStep

\* The state of an actor that only moves on.
LEMMA GoState ==
    ASSUME actor \in [Actors -> ActorStates], NEW a \in Actors, NEW pc \in PCs, Go(a, pc)
    PROVE  /\ actor' \in [Actors -> ActorStates]
           /\ \A b \in Actors : b # a => actor'[b] = actor[b]
           /\ actor'[a].pc = pc /\ actor'[a].request = actor[a].request
           /\ actor'[a].action = actor[a].action /\ actor'[a].by = actor[a].by
           /\ actor'[a].tx = actor[a].tx
  BY DEF Go, ActorStates

LEMMA SigningState ==
    ASSUME actor \in [Actors -> ActorStates], NEW a \in Actors,
           NEW action \in UserActions \cup {"other", "none"},
           NEW by \in {"user", "timeout", "owner", "none"}, Signing(a, action, by)
    PROVE  /\ actor' \in [Actors -> ActorStates]
           /\ \A b \in Actors : b # a => actor'[b] = actor[b]
           /\ actor'[a].pc = "signing" /\ actor'[a].request = actor[a].request
           /\ actor'[a].action = action /\ actor'[a].by = by
  <1> DEFINE me1 == [actor[a] EXCEPT !.pc = "signing"]
             me2 == [me1 EXCEPT !.action = action]
             me3 == [me2 EXCEPT !.by = by]
  <1>1. actor[a] \in ActorStates /\ "signing" \in PCs
    BY DEF PCs
  <1>2. me1 \in ActorStates /\ me1.pc = "signing" /\ me1.request = actor[a].request
    BY <1>1 DEF ActorStates
  <1>3. /\ me2 \in ActorStates /\ me2.pc = "signing" /\ me2.request = actor[a].request
        /\ me2.action = action
    BY <1>2 DEF ActorStates
  <1>4. /\ me3 \in ActorStates /\ me3.pc = "signing" /\ me3.request = actor[a].request
        /\ me3.action = action /\ me3.by = by
    BY <1>3 DEF ActorStates
  <1>5. actor' = [actor EXCEPT ![a] = me3]
    BY <1>1, <1>2, <1>3, Zenon DEF Signing, ActorStates
  <1> HIDE DEF me1, me2, me3
  <1> QED BY <1>4, <1>5

-----------------------------------------------------------------------------
(* What the operations of the journal do to its entries. *)

LEMMA ObserveAwaiting ==
    ASSUME now \in Nat, NEW T, NEW E, StoreOK(T, E), NEW r \in Requests
    PROVE  /\ StoreOK(T, observeAwaiting(E, r))
           /\ \A b \in Requests : /\ observeAwaiting(E, r)[b].intent = E[b].intent
                                  /\ observeAwaiting(E, r)[b].receipt = E[b].receipt
  <1> DEFINE F == observeAwaiting(E, r)
  <1>1. F \in [Requests -> Entries]
    BY DEF observeAwaiting, StoreOK, Entries
  <1>2. \A b \in Requests : F[b].intent = E[b].intent /\ F[b].receipt = E[b].receipt
    BY DEF observeAwaiting, StoreOK, Entries
  <1>3. \A b \in Requests : EntryOK(T, F[b], b)
    BY <1>2 DEF StoreOK, EntryOK
  <1> QED BY <1>1, <1>2, <1>3 DEF StoreOK

LEMMA RecordIntent ==
    ASSUME NEW T, NEW E, StoreOK(T, E), NEW r \in Requests, NEW action \in UserActions
    PROVE  /\ StoreOK(T, recordIntent(E, r, action))
           /\ recordIntent(E, r, action)[r].intent.action = action
  <1> DEFINE F == recordIntent(E, r, action)
  <1>1. F \in [Requests -> Entries]
    BY DEF recordIntent, StoreOK, Entries, Intents
  <1>2. \A b \in Requests : F[b].receipt = E[b].receipt /\ (b # r => F[b] = E[b])
    BY DEF recordIntent, StoreOK, Entries
  <1>3. F[r].intent = [action |-> action, hash |-> 0]
    BY DEF recordIntent, StoreOK, Entries
  <1>4. \A b \in Requests : EntryOK(T, F[b], b)
    BY <1>2, <1>3 DEF StoreOK, EntryOK
  <1> QED BY <1>1, <1>3, <1>4 DEF StoreOK

LEMMA RecordBroadcastOK ==
    ASSUME NEW T, StoreOK(T, mem), NEW r \in Requests, NEW h,
           mem[r].intent.action \in UserActions,
           SentFor(T, h, r, mem[r].intent.action, "user")
    PROVE  /\ StoreOK(T, recordBroadcast(r, h))
           /\ recordBroadcast(r, h)[r].intent.action = mem[r].intent.action
  <1> DEFINE F == recordBroadcast(r, h)
  <1>1. h \in TxIds
    BY DEF SentFor
  <1>2. /\ mem \in [Requests -> Entries]
        /\ mem[r].intent \in [action : UserActions, hash : TxIds \cup {0}]
    BY DEF StoreOK, Entries, Intents, NoIntent, UserActions
  <1>3. F \in [Requests -> Entries]
    BY <1>1, <1>2 DEF recordBroadcast, Entries, Intents
  <1>4. \A b \in Requests : F[b].receipt = mem[b].receipt /\ (b # r => F[b] = mem[b])
    BY <1>2 DEF recordBroadcast, Entries
  <1>5. F[r].intent.action = mem[r].intent.action /\ F[r].intent.hash = h
    BY <1>2 DEF recordBroadcast, Entries
  <1>6. \A b \in Requests : EntryOK(T, F[b], b)
    BY <1>4, <1>5 DEF StoreOK, EntryOK
  <1> QED BY <1>3, <1>5, <1>6 DEF StoreOK

LEMMA ClearIntentOK ==
    ASSUME NEW T, StoreOK(T, mem), NEW r \in Requests
    PROVE  StoreOK(T, clearIntent(r))
  <1> DEFINE F == clearIntent(r)
  <1>1. F \in [Requests -> Entries]
    BY DEF clearIntent, StoreOK, Entries, Intents
  <1>2. \A b \in Requests : F[b].receipt = mem[b].receipt /\ (F[b].intent \in {mem[b].intent, NoIntent})
    BY DEF clearIntent, StoreOK, Entries
  <1>3. \A b \in Requests : EntryOK(T, F[b], b)
    BY <1>2 DEF StoreOK, EntryOK, NoIntent
  <1> QED BY <1>1, <1>3 DEF StoreOK

LEMMA RecordUserReceipt ==
    ASSUME NEW T, StoreOK(T, mem), NEW r \in Requests, NEW action \in UserActions, NEW h,
           SentFor(T, h, r, action, "user"), T[h].status = "success"
    PROVE  StoreOK(T, recordUserReceipt(r, action, h))
  <1> DEFINE F == recordUserReceipt(r, action, h)
  <1>1. h \in TxIds
    BY DEF SentFor
  <1>2. F \in [Requests -> Entries]
    BY <1>1 DEF recordUserReceipt, StoreOK, Entries, Receipts
  <1>3. \A b \in Requests : F[b].intent = mem[b].intent /\ (b # r => F[b] = mem[b])
    BY DEF recordUserReceipt, StoreOK, Entries
  <1>4. F[r].receipt = [origin |-> "user", action |-> action, hash |-> h]
    BY DEF recordUserReceipt, StoreOK, Entries
  <1>5. \A b \in Requests : EntryOK(T, F[b], b)
    BY <1>3, <1>4 DEF StoreOK, EntryOK
  <1> QED BY <1>2, <1>5 DEF StoreOK

LEMMA RecordTimeoutReceipt ==
    ASSUME NEW T, StoreOK(T, mem), NEW r \in Requests, NEW h,
           SentFor(T, h, r, "reject", "timeout"), T[h].status = "success"
    PROVE  StoreOK(T, recordTimeoutReceipt(r, h))
  <1> DEFINE F == recordTimeoutReceipt(r, h)
  <1>1. h \in TxIds
    BY DEF SentFor
  <1>2. F \in [Requests -> Entries]
    BY <1>1 DEF recordTimeoutReceipt, StoreOK, Entries, Intents, Receipts, NoEntry, NoIntent,
                UserActions
  <1>3. \A b \in Requests : b # r => F[b] = mem[b]
    BY DEF recordTimeoutReceipt, StoreOK
  <1>4. /\ F[r].receipt = [origin |-> "timeout", action |-> "reject", hash |-> h]
        /\ F[r].intent.hash = 0
    BY DEF recordTimeoutReceipt, StoreOK, NoEntry, NoIntent
  <1>5. \A b \in Requests : EntryOK(T, F[b], b)
    BY <1>3, <1>4 DEF StoreOK, EntryOK
  <1> QED BY <1>2, <1>5 DEF StoreOK

-----------------------------------------------------------------------------
(* The actions: one lemma for each.                                        *)

\* What the invariant says of the state an actor a starts from.
LEMMA Before ==
    ASSUME DecisionInv, NEW a \in Actors
    PROVE  /\ now \in Nat /\ faults \in Nat
           /\ actor \in [Actors -> ActorStates] /\ actor[a] \in ActorStates
           /\ StoreOK(tx, mem) /\ StoreOK(tx, disk)
           /\ ActorOK(tx, mem, queue, actor[a], a)
  BY DEF DecisionInv, EnvOK

LEMMA EnvKept ==
    ASSUME DecisionInv, UNCHANGED <<now, chain, awaitingFrom, safeNonce>>,
           Fault \/ NoFault \/ UNCHANGED faults,
           told' \in [Requests -> SUBSET {"approved", "rejected", "expired"}]
    PROVE  EnvOK'
  BY DEF DecisionInv, EnvOK, Fault, NoFault

LEMMA TellType ==
    ASSUME DecisionInv, NEW r, NEW answers, Tell(r, answers) \/ UNCHANGED told,
           answers \subseteq {"approved", "rejected", "expired"}
    PROVE  told' \in [Requests -> SUBSET {"approved", "rejected", "expired"}]
  BY DEF DecisionInv, EnvOK, Tell

LEMMA Answers ==
    ASSUME NEW seen, NEW entry, NEW action
    PROVE  /\ terminalResult(seen, entry, action) \subseteq {"approved", "rejected", "expired"}
           /\ attestedOrigin(seen, entry) \subseteq {"approved", "rejected", "expired"}
           /\ UserAnswer(action) \subseteq {"approved", "rejected", "expired"}
  BY DEF terminalResult, attestedOrigin, UserAnswer

LEMMA StartKeeps ==
    ASSUME DecisionInv, NEW r \in Requests, NEW action \in UserActions, Start(r, action)
    PROVE  DecisionInv'
  <1> r \in Actors
    BY DEF Actors
  <1>1. /\ actor'[r].pc = "validating" /\ actor'[r].request = r /\ actor'[r].action = action
        /\ actor' \in [Actors -> ActorStates]
        /\ \A b \in Actors : b # r => actor'[b] = actor[b]
    BY Before DEF Start, Idle, ActorStates, PCs
  <1>2. ActorOK(tx', mem', queue', actor'[r], r)
    BY <1>1 DEF ActorOK, LockPCs, SigningPCs, JobPCs
  <1>3. EnvOK' /\ TxStep /\ LockStep(r) /\ StoreStep(r)
    BY EnvKept, SameTx DEF Start, chainVars, LockStep, StoreStep, DecisionInv, EnvOK
  <1>4. StoreOK(tx', mem') /\ StoreOK(tx', disk')
    BY Before DEF Start, chainVars
  <1> QED BY <1>1, <1>2, <1>3, <1>4, ActorStep

LEMMA ForgetKeeps ==
    ASSUME DecisionInv, NEW r \in Requests, Forget(r)
    PROVE  DecisionInv'
  <1> r \in Actors
    BY DEF Actors
  <1>1. /\ actor'[r].pc = "idle" /\ actor' \in [Actors -> ActorStates]
        /\ \A b \in Actors : b # r => actor'[b] = actor[b]
    BY Before DEF Forget, Idle, ActorStates, PCs
  <1>2. ActorOK(tx', mem', queue', actor'[r], r)
    BY <1>1 DEF ActorOK, LockPCs, SigningPCs, JobPCs
  <1>3. EnvOK' /\ TxStep /\ LockStep(r) /\ StoreStep(r)
    BY EnvKept, SameTx DEF Forget, chainVars, LockStep, StoreStep, DecisionInv, EnvOK
  <1>4. StoreOK(tx', mem') /\ StoreOK(tx', disk')
    BY Before DEF Forget, chainVars
  <1> QED BY <1>1, <1>2, <1>3, <1>4, ActorStep

LEMMA ValidateKeeps ==
    ASSUME DecisionInv, NEW r \in Requests, Validate(r)
    PROVE  DecisionInv'
  <1> r \in Actors
    BY DEF Actors
  <1> DEFINE action == actor[r].action
             entry  == mem[r]
  <1>1. PICK seen \in readRequest(r) :
          \/ Go(r, "recovering") /\ JoinQueue(r) /\ UNCHANGED told
          \/ Go(r, "observing") /\ UNCHANGED <<queue, told>>
          \/ Ended(r) /\ UNCHANGED <<queue, told>>
          \/ Ended(r) /\ Tell(r, terminalResult(seen, entry, action)) /\ UNCHANGED queue
    BY DEF Validate
  <1>2. UNCHANGED <<now, chain, awaitingFrom, safeNonce, tx, nextTx, mem, disk, faults>>
    BY DEF Validate, chainVars
  <1>3. EnvOK'
    BY <1>1, <1>2, EnvKept, TellType, Answers
  <1>4. TxStep /\ StoreStep(r) /\ StoreOK(tx', mem') /\ StoreOK(tx', disk')
    BY <1>2, SameTx, Before DEF StoreStep
  <1>5. LockStep(r)
    BY <1>1 DEF LockStep
  <1>6. ASSUME NEW pc \in {"recovering", "observing"}, Go(r, pc)
        PROVE  DecisionInv'
    <2>1. pc \in PCs /\ actor[r].pc = "validating"
      BY DEF PCs, Validate
    <2>2. ActorOK(tx', mem', queue', actor'[r], r)
      BY <1>6, <2>1, Before, GoState DEF ActorOK, LockPCs, SigningPCs, JobPCs
    <2> QED BY <1>3, <1>4, <1>5, <1>6, <2>1, <2>2, Before, GoState, ActorStep
  <1>7. CASE Ended(r)
    BY <1>3, <1>4, <1>5, <1>7, EndStep
  <1> QED BY <1>1, <1>6, <1>7

LEMMA ObserveKeeps ==
    ASSUME DecisionInv, NEW r \in Requests, Observe(r)
    PROVE  DecisionInv'
  <1> r \in Actors
    BY DEF Actors
  <1> DEFINE noted == observeAwaiting(mem, r)
  <1>1. /\ UNCHANGED <<now, chain, awaitingFrom, safeNonce, tx, nextTx, told>>
        /\ Fault \/ NoFault
        /\ mem' = noted /\ disk' \in {disk, noted}
        /\ (Go(r, "queued") /\ JoinQueue(r)) \/ (Ended(r) /\ UNCHANGED queue)
    BY DEF Observe, chainVars, Persist, PersistFails, NoPersist
  <1>2. EnvOK'
    BY <1>1, EnvKept DEF DecisionInv, EnvOK
  <1>3. /\ StoreOK(tx, noted)
        /\ \A b \in Requests : noted[b].intent = mem[b].intent
    BY Before, ObserveAwaiting
  <1> HIDE DEF noted
  <1>4. StoreStep(r) /\ TxStep /\ StoreOK(tx', mem') /\ StoreOK(tx', disk')
    BY <1>1, <1>3, Before, SameTx DEF StoreStep
  <1>5. LockStep(r)
    BY <1>1 DEF LockStep
  <1>6. CASE Go(r, "queued")
    <2>1. "queued" \in PCs /\ actor[r].pc = "observing"
      BY DEF PCs, Observe
    <2>2. ActorOK(tx', mem', queue', actor'[r], r)
      BY <1>6, <2>1, Before, GoState DEF ActorOK, LockPCs, SigningPCs, JobPCs
    <2> QED BY <1>2, <1>4, <1>5, <1>6, <2>1, <2>2, Before, GoState, ActorStep
  <1>7. CASE Ended(r)
    BY <1>2, <1>4, <1>5, <1>7, EndStep
  <1> QED BY <1>1, <1>6, <1>7

LEMMA DecideKeeps ==
    ASSUME DecisionInv, NEW r \in Requests, Decide(r)
    PROVE  DecisionInv'
  <1> r \in Actors
    BY DEF Actors
  <1> DEFINE action == actor[r].action
             noted  == observeAwaiting(mem, r)
             meant  == recordIntent(noted, r, action)
  <1>1. /\ actor[r].pc = "queued" /\ HoldsLock(r)
        /\ UNCHANGED <<now, chain, awaitingFrom, safeNonce, tx, nextTx>>
    BY DEF Decide, chainVars
  <1>2. PICK seen \in readRequest(r) :
          \/ /\ EndUnlocked(r) /\ Tell(r, terminalResult(seen, mem[r], action))
             /\ NoPersist /\ NoFault
          \/ /\ UNCHANGED told /\ Signing(r, "reject", "timeout") /\ KeepLock
             /\ NoPersist /\ NoFault
          \/ UNCHANGED told /\ Signing(r, action, "user") /\ KeepLock /\ Persist(meant)
          \/ UNCHANGED told /\ EndUnlocked(r) /\ PersistFails(meant)
    BY DEF Decide
  <1>3. action \in UserActions /\ actor[r].request = r
    BY <1>1, Before DEF ActorOK
  <1>4. StoreOK(tx, meant) /\ meant[r].intent.action = action
    BY <1>3, Before, ObserveAwaiting, RecordIntent
  <1> HIDE DEF meant
  <1>5. EnvOK'
    BY <1>1, <1>2, EnvKept, TellType, Answers DEF Persist, PersistFails
  <1>6. TxStep /\ StoreStep(r) /\ Holds(queue, r)
    BY <1>1, SameTx DEF StoreStep, HoldsLock, Holds
  <1>7. LockStep(r)
    BY <1>2, <1>6 DEF LockStep, EndUnlocked, KeepLock
  <1>8. StoreOK(tx', mem') /\ StoreOK(tx', disk')
    BY <1>1, <1>2, <1>4, Before DEF Persist, PersistFails, NoPersist
  <1>9. CASE EndUnlocked(r)
    BY <1>5, <1>6, <1>7, <1>8, <1>9, EndStep DEF EndUnlocked
  <1>10. CASE Signing(r, "reject", "timeout") /\ KeepLock
    <2>1. /\ actor' \in [Actors -> ActorStates]
          /\ \A b \in Actors : b # r => actor'[b] = actor[b]
          /\ actor'[r].pc = "signing" /\ actor'[r].request = r
          /\ actor'[r].action = "reject" /\ actor'[r].by = "timeout"
      BY <1>3, <1>10, Before, SigningState DEF UserActions
    <2>2. ActorOK(tx', mem', queue', actor'[r], r)
      BY <1>6, <1>10, <2>1 DEF ActorOK, LockPCs, SigningPCs, JobPCs, KeepLock, UserActions
    <2> QED BY <1>5, <1>6, <1>7, <1>8, <2>1, <2>2, ActorStep
  <1>11. CASE Signing(r, action, "user") /\ KeepLock /\ Persist(meant)
    <2>1. /\ actor' \in [Actors -> ActorStates]
          /\ \A b \in Actors : b # r => actor'[b] = actor[b]
          /\ actor'[r].pc = "signing" /\ actor'[r].request = r
          /\ actor'[r].action = action /\ actor'[r].by = "user"
      BY <1>3, <1>11, Before, SigningState
    <2>2. mem'[r].intent.action = action
      BY <1>4, <1>11 DEF Persist
    <2>3. ActorOK(tx', mem', queue', actor'[r], r)
      BY <1>3, <1>6, <1>11, <2>1, <2>2 DEF ActorOK, LockPCs, SigningPCs, JobPCs, KeepLock
    <2> QED BY <1>5, <1>6, <1>7, <1>8, <2>1, <2>3, ActorStep
  <1> QED BY <1>2, <1>9, <1>10, <1>11

LEMMA SignOverKeeps ==
    ASSUME DecisionInv, NEW a \in Actors, SignOver(a)
    PROVE  DecisionInv'
  <1>1. PICK n \in readNonce :
          actor' = [actor EXCEPT ![a].pc = "broadcasting", ![a].nonce = n]
    BY DEF SignOver
  <1>2. actor[a].pc = "signing"
    BY DEF SignOver
  <1>3. n \in Nat
    BY DEF readNonce, DecisionInv, EnvOK
  <1>4. /\ actor' \in [Actors -> ActorStates]
        /\ \A b \in Actors : b # a => actor'[b] = actor[b]
        /\ actor'[a].pc = "broadcasting" /\ actor'[a].request = actor[a].request
        /\ actor'[a].action = actor[a].action /\ actor'[a].by = actor[a].by
    <2> DEFINE me1 == [actor[a] EXCEPT !.pc = "broadcasting"]
               me2 == [me1 EXCEPT !.nonce = n]
    <2>1. actor[a] \in ActorStates /\ "broadcasting" \in PCs
      BY Before DEF PCs
    <2>2. /\ me1 \in ActorStates /\ me1.pc = "broadcasting"
          /\ me1.request = actor[a].request
          /\ me1.action = actor[a].action /\ me1.by = actor[a].by
      BY <2>1 DEF ActorStates
    <2>3. /\ me2 \in ActorStates /\ me2.pc = "broadcasting"
          /\ me2.request = actor[a].request
          /\ me2.action = actor[a].action /\ me2.by = actor[a].by
      BY <1>3, <2>2 DEF ActorStates
    <2>4. actor' = [actor EXCEPT ![a] = me2]
      BY <1>1, <2>1, <2>2, Zenon DEF ActorStates
    <2> HIDE DEF me1, me2
    <2> QED BY <2>3, <2>4, Before
  <1>5. ActorOK(tx', mem', queue', actor'[a], a)
    BY <1>2, <1>4, Before DEF SignOver, ActorOK, LockPCs, SigningPCs, JobPCs
  <1>6. EnvOK' /\ TxStep /\ LockStep(a) /\ StoreStep(a)
    BY EnvKept, SameTx DEF SignOver, chainVars, LockStep, StoreStep, DecisionInv, EnvOK
  <1>7. StoreOK(tx', mem') /\ StoreOK(tx', disk')
    BY Before DEF SignOver, chainVars
  <1> QED BY <1>4, <1>5, <1>6, <1>7, ActorStep

LEMMA SendGrows ==
    ASSUME DecisionInv, NEW a \in Actors, Send(a), actor[a].request \in Requests
    PROVE  /\ TxStep
           /\ SentFor(tx', nextTx, actor[a].request, actor[a].action, actor[a].by)
  <1> DEFINE new == [nonce |-> actor[a].nonce, action |-> actor[a].action,
                     request |-> actor[a].request, by |-> actor[a].by, sentAt |-> now,
                     status |-> "pending"]
  <1>1. new \in Txs
    BY Before DEF ActorStates, Txs
  <1>2. nextTx \in TxIds /\ tx' = [tx EXCEPT ![nextTx] = new] /\ nextTx' = nextTx + 1
    BY DEF Send
  <1>3. tx \in [TxIds -> Txs] /\ \A i \in TxIds : i < nextTx <=> tx[i].status # "none"
    BY DEF DecisionInv, TxOK
  <1>4. /\ new.status = "pending" /\ new.request = actor[a].request
        /\ new.action = actor[a].action /\ new.by = actor[a].by
    OBVIOUS
  <1> HIDE DEF new
  <1>5. tx'[nextTx] = new /\ \A i \in TxIds : i # nextTx => tx'[i] = tx[i]
    BY <1>2, <1>3
  <1>6. tx' \in [TxIds -> Txs]
    BY <1>1, <1>2, <1>3
  <1>7. nextTx' \in 1 .. MaxTxs + 1
    BY <1>2 DEF TxIds
  <1>8. \A i \in TxIds : i < nextTx' <=> tx'[i].status # "none"
    BY <1>2, <1>3, <1>4, <1>5 DEF TxIds
  <1>9. Grows(tx, tx')
    BY <1>2, <1>3, <1>5 DEF Grows, TxIds
  <1>10. SentFor(tx', nextTx, actor[a].request, actor[a].action, actor[a].by)
    BY <1>2, <1>4, <1>5 DEF SentFor
  <1> QED BY <1>6, <1>7, <1>8, <1>9, <1>10 DEF TxStep, TxOK

LEMMA BroadcastKeeps ==
    ASSUME DecisionInv, NEW a \in Actors, Broadcast(a)
    PROVE  DecisionInv'
  <1>1. /\ actor[a].pc = "broadcasting"
        /\ UNCHANGED <<now, chain, awaitingFrom, safeNonce, mem, disk, told>>
        /\ Fault \/ NoFault
        /\ \/ (Send(a) \/ UNCHANGED <<tx, nextTx>>) /\ NotSent(a)
           \/ /\ Send(a) /\ KeepLock
              /\ actor' = [actor EXCEPT ![a].tx = nextTx, ![a].pc =
                             IF actor[a].by = "user" THEN "journalling" ELSE "confirming"]
    BY DEF Broadcast
  <1>2. ActorOK(tx, mem, queue, actor[a], a) /\ actor[a].request \in Requests
    BY <1>1, Before DEF ActorOK
  <1>3. TxStep
    BY <1>1, <1>2, SameTx, SendGrows
  <1>4. EnvOK' /\ StoreStep(a)
    BY <1>1, EnvKept DEF StoreStep, DecisionInv, EnvOK
  <1>5. StoreOK(tx', mem') /\ StoreOK(tx', disk')
    BY <1>1, <1>3, Before, StoreGrows DEF TxStep
  <1>6. Holds(queue, a)
    BY <1>1, <1>2 DEF ActorOK, LockPCs
  <1>7. CASE NotSent(a) /\ actor[a].by = "user"
    <2>1. Go(a, "clearing") /\ KeepLock /\ "clearing" \in PCs
      BY <1>7 DEF NotSent, PCs
    <2>2. ActorOK(tx', mem', queue', actor'[a], a)
      BY <1>1, <1>2, <1>6, <1>7, <2>1, Before, GoState
      DEF ActorOK, LockPCs, SigningPCs, JobPCs, KeepLock
    <2> QED BY <1>3, <1>4, <1>5, <2>1, <2>2, Before, GoState, ActorStep DEF LockStep, KeepLock
  <1>8. CASE NotSent(a) /\ actor[a].by # "user"
    <2>1. Ended(a) /\ LockStep(a)
      BY <1>6, <1>8 DEF NotSent, EndUnlocked, LockStep
    <2> QED BY <1>3, <1>4, <1>5, <2>1, EndStep
  <1>9. ASSUME Send(a), KeepLock, NEW pc \in {"journalling", "confirming"},
               pc = "journalling" => actor[a].by = "user",
               actor' = [actor EXCEPT ![a].tx = nextTx, ![a].pc = pc]
        PROVE  DecisionInv'
    <2> DEFINE me1 == [actor[a] EXCEPT !.tx = nextTx]
               me2 == [me1 EXCEPT !.pc = pc]
    <2>1. actor[a] \in ActorStates /\ pc \in PCs /\ nextTx \in TxIds
      BY <1>9, Before DEF PCs, Send
    <2>2. /\ me1 \in ActorStates /\ me1.tx = nextTx
          /\ me1.request = actor[a].request
          /\ me1.action = actor[a].action /\ me1.by = actor[a].by
      BY <2>1 DEF ActorStates
    <2>3. /\ me2 \in ActorStates /\ me2.tx = nextTx /\ me2.pc = pc
          /\ me2.request = actor[a].request
          /\ me2.action = actor[a].action /\ me2.by = actor[a].by
      BY <2>1, <2>2 DEF ActorStates
    <2>4. actor' = [actor EXCEPT ![a] = me2]
      BY <1>9, <2>1, <2>2, Zenon DEF ActorStates
    <2> HIDE DEF me1, me2
    <2>5. /\ actor' \in [Actors -> ActorStates]
          /\ \A b \in Actors : b # a => actor'[b] = actor[b]
          /\ actor'[a] = me2
      BY <2>3, <2>4, Before
    <2>6. SentFor(tx', nextTx, actor[a].request, actor[a].action, actor[a].by)
      BY <1>2, <1>9, SendGrows
    <2>7. ActorOK(tx', mem', queue', actor'[a], a)
      BY <1>1, <1>2, <1>6, <1>9, <2>3, <2>5, <2>6
      DEF ActorOK, LockPCs, SigningPCs, JobPCs, KeepLock
    <2> QED BY <1>3, <1>4, <1>5, <1>9, <2>5, <2>7, ActorStep DEF LockStep, KeepLock
  <1> QED BY <1>1, <1>7, <1>8, <1>9

\* A job that journals the hash of what it has just sent.
LEMMA RecordBroadcastKeeps ==
    ASSUME DecisionInv, NEW r \in Requests, RecordBroadcast(r)
    PROVE  DecisionInv'
  <1> r \in Actors
    BY DEF Actors
  <1> DEFINE noted == recordBroadcast(r, actor[r].tx)
  <1>1. /\ actor[r].pc = "journalling"
        /\ UNCHANGED <<now, chain, awaitingFrom, safeNonce, tx, nextTx, told>>
        /\ Fault \/ NoFault
        /\ mem' = noted /\ disk' \in {disk, noted}
        /\ (Go(r, "confirming") /\ KeepLock) \/ EndUnlocked(r)
    BY DEF RecordBroadcast, chainVars, Persist, PersistFails
  <1>2. /\ ActorOK(tx, mem, queue, actor[r], r) /\ Holds(queue, r)
        /\ actor[r].by = "user" /\ actor[r].request = r
        /\ mem[r].intent.action = actor[r].action /\ actor[r].action \in UserActions
        /\ SentFor(tx, actor[r].tx, r, actor[r].action, "user")
    BY <1>1, Before DEF ActorOK, LockPCs, SigningPCs
  <1>3. StoreOK(tx, noted) /\ noted[r].intent.action = actor[r].action
    BY <1>2, Before, RecordBroadcastOK
  <1> HIDE DEF noted
  <1>4. StoreOK(tx', mem') /\ StoreOK(tx', disk') /\ TxStep /\ StoreStep(r)
    BY <1>1, <1>2, <1>3, Before, SameTx DEF StoreStep
  <1>5. EnvOK' /\ LockStep(r)
    BY <1>1, <1>2, EnvKept DEF LockStep, EndUnlocked, KeepLock, DecisionInv, EnvOK
  <1>6. CASE Go(r, "confirming") /\ KeepLock
    <2>1. "confirming" \in PCs
      BY DEF PCs
    <2>2. ActorOK(tx', mem', queue', actor'[r], r)
      BY <1>1, <1>2, <1>3, <1>6, <2>1, Before, GoState
      DEF ActorOK, LockPCs, SigningPCs, JobPCs, KeepLock
    <2> QED BY <1>4, <1>5, <1>6, <2>1, <2>2, Before, GoState, ActorStep
  <1>7. CASE EndUnlocked(r)
    BY <1>4, <1>5, <1>7, EndStep DEF EndUnlocked
  <1> QED BY <1>1, <1>6, <1>7

LEMMA ClearIntentKeeps ==
    ASSUME DecisionInv, NEW r \in Requests, ClearIntent(r)
    PROVE  DecisionInv'
  <1> r \in Actors
    BY DEF Actors
  <1>1. /\ actor[r].pc = "clearing"
        /\ UNCHANGED <<now, chain, awaitingFrom, safeNonce, tx, nextTx, told>>
        /\ Fault \/ NoFault
        /\ mem' = clearIntent(r) /\ disk' \in {disk, clearIntent(r)}
        /\ Ended(r) /\ Unlock
    BY DEF ClearIntent, chainVars, Persist, PersistFails, EndUnlocked
  <1>2. Holds(queue, r)
    BY <1>1, Before DEF ActorOK, LockPCs
  <1>3. StoreOK(tx', mem') /\ StoreOK(tx', disk')
    BY <1>1, Before, ClearIntentOK
  <1>4. TxStep /\ StoreStep(r) /\ LockStep(r) /\ EnvOK'
    BY <1>1, <1>2, SameTx, EnvKept DEF StoreStep, LockStep, DecisionInv, EnvOK
  <1> QED BY <1>1, <1>3, <1>4, EndStep

LEMMA ConfirmKeeps ==
    ASSUME DecisionInv, NEW a \in Actors, Confirm(a)
    PROVE  DecisionInv'
  <1>1. /\ actor[a].pc = "confirming"
        /\ UNCHANGED <<now, chain, awaitingFrom, safeNonce, tx, nextTx, mem, disk, told>>
        /\ Fault \/ NoFault
        /\ \/ tx[actor[a].tx].status = "success" /\ Go(a, "recording") /\ KeepLock
           \/ EndUnlocked(a)
    BY DEF Confirm, chainVars
  <1>2. Holds(queue, a)
    BY <1>1, Before DEF ActorOK, LockPCs
  <1>3. StoreOK(tx', mem') /\ StoreOK(tx', disk') /\ TxStep /\ StoreStep(a)
    BY <1>1, <1>2, Before, SameTx DEF StoreStep
  <1>4. EnvOK' /\ LockStep(a)
    BY <1>1, <1>2, EnvKept DEF LockStep, EndUnlocked, KeepLock, DecisionInv, EnvOK
  <1>5. CASE tx[actor[a].tx].status = "success" /\ Go(a, "recording") /\ KeepLock
    <2>1. "recording" \in PCs
      BY DEF PCs
    <2>2. ActorOK(tx', mem', queue', actor'[a], a)
      BY <1>1, <1>2, <1>5, <2>1, Before, GoState
      DEF ActorOK, LockPCs, SigningPCs, JobPCs, KeepLock
    <2> QED BY <1>3, <1>4, <1>5, <2>1, <2>2, Before, GoState, ActorStep
  <1>6. CASE EndUnlocked(a)
    BY <1>3, <1>4, <1>6, EndStep DEF EndUnlocked
  <1> QED BY <1>1, <1>5, <1>6

LEMMA RecordUserKeeps ==
    ASSUME DecisionInv, NEW r \in Requests, RecordUser(r)
    PROVE  DecisionInv'
  <1> r \in Actors
    BY DEF Actors
  <1> DEFINE noted == recordUserReceipt(r, actor[r].action, actor[r].tx)
  <1>1. /\ actor[r].pc = "recording" /\ actor[r].by = "user"
        /\ UNCHANGED <<now, chain, awaitingFrom, safeNonce, tx, nextTx>>
        /\ Fault \/ NoFault
        /\ mem' \in {mem, noted} /\ disk' \in {disk, mem, noted}
        /\ Ended(r) /\ Unlock
        /\ Tell(r, UserAnswer(actor[r].action)) \/ UNCHANGED told
    BY DEF RecordUser, chainVars, Persist, PersistFails, EndUnlocked
  <1>2. /\ Holds(queue, r) /\ actor[r].action \in UserActions
        /\ SentFor(tx, actor[r].tx, r, actor[r].action, "user")
        /\ tx[actor[r].tx].status = "success"
    BY <1>1, Before DEF ActorOK, LockPCs
  <1>3. StoreOK(tx, noted)
    BY <1>2, Before, RecordUserReceipt
  <1> HIDE DEF noted
  <1>4. StoreOK(tx', mem') /\ StoreOK(tx', disk')
    BY <1>1, <1>3, Before
  <1>5. TxStep /\ StoreStep(r) /\ LockStep(r) /\ EnvOK'
    BY <1>1, <1>2, SameTx, EnvKept, TellType, Answers DEF StoreStep, LockStep
  <1> QED BY <1>1, <1>4, <1>5, EndStep

LEMMA RecordTimeoutKeeps ==
    ASSUME DecisionInv, NEW a \in Actors, RecordTimeout(a)
    PROVE  DecisionInv'
  <1> DEFINE r     == actor[a].request
             noted == recordTimeoutReceipt(r, actor[a].tx)
  <1>1. /\ actor[a].pc = "recording" /\ actor[a].by = "timeout"
        /\ UNCHANGED <<now, chain, awaitingFrom, safeNonce, tx, nextTx>>
        /\ Fault \/ NoFault
        /\ mem' = noted /\ disk' \in {disk, noted}
        /\ Ended(a) /\ Unlock
        /\ Tell(r, IF a = Watchdog THEN {} ELSE {"expired"}) \/ UNCHANGED told
    BY DEF RecordTimeout, chainVars, Persist, PersistFails, EndUnlocked
  <1>2. /\ Holds(queue, a) /\ r \in Requests
        /\ SentFor(tx, actor[a].tx, r, "reject", "timeout")
        /\ tx[actor[a].tx].status = "success"
    BY <1>1, Before DEF ActorOK, LockPCs, SigningPCs
  <1>3. StoreOK(tx, noted)
    BY <1>2, Before, RecordTimeoutReceipt
  <1> HIDE DEF noted
  <1>4. StoreOK(tx', mem') /\ StoreOK(tx', disk')
    BY <1>1, <1>3, Before
  <1>5. TxStep /\ StoreStep(a) /\ LockStep(a) /\ EnvOK'
    BY <1>1, <1>2, SameTx, EnvKept, TellType DEF StoreStep, LockStep
  <1> QED BY <1>1, <1>4, <1>5, EndStep

LEMMA RecoverKeeps ==
    ASSUME DecisionInv, NEW r \in Requests, Recover(r)
    PROVE  DecisionInv'
  <1> r \in Actors
    BY DEF Actors
  <1> DEFINE entry == mem[r]
  <1>1. /\ actor[r].pc = "recovering" /\ Holds(queue, r)
        /\ UNCHANGED <<now, chain, awaitingFrom, safeNonce, tx, nextTx, mem, disk, faults>>
    BY DEF Recover, chainVars, HoldsLock, Holds
  <1>2. PICK seen \in readRequest(r) :
          \/ EndUnlocked(r) /\ Tell(r, terminalResult(seen, entry, actor[r].action))
          \/ EndUnlocked(r) /\ UNCHANGED told
          \/ /\ Broadcasted(entry) /\ entry.intent.action = actor[r].action
             /\ Go(r, "reconfirming") /\ KeepLock /\ UNCHANGED told
    BY DEF Recover
  <1>3. StoreOK(tx', mem') /\ StoreOK(tx', disk') /\ TxStep /\ StoreStep(r)
    BY <1>1, Before, SameTx DEF StoreStep
  <1>4. EnvOK' /\ LockStep(r)
    BY <1>1, <1>2, EnvKept, TellType, Answers DEF LockStep, EndUnlocked, KeepLock
  <1>5. CASE EndUnlocked(r)
    BY <1>3, <1>4, <1>5, EndStep DEF EndUnlocked
  <1>6. CASE /\ Broadcasted(entry) /\ entry.intent.action = actor[r].action
             /\ Go(r, "reconfirming") /\ KeepLock
    <2>1. "reconfirming" \in PCs
      BY DEF PCs
    <2>2. entry.intent.hash # 0 /\ SentFor(tx, entry.intent.hash, r, actor[r].action, "user")
      BY <1>6, Before DEF Broadcasted, StoreOK, EntryOK
    <2>3. ActorOK(tx', mem', queue', actor'[r], r)
      BY <1>1, <1>6, <2>1, <2>2, Before, GoState
      DEF ActorOK, LockPCs, SigningPCs, JobPCs, KeepLock
    <2> QED BY <1>3, <1>4, <1>6, <2>1, <2>3, Before, GoState, ActorStep
  <1> QED BY <1>2, <1>5, <1>6

LEMMA ReconfirmKeeps ==
    ASSUME DecisionInv, NEW r \in Requests, Reconfirm(r)
    PROVE  DecisionInv'
  <1> r \in Actors
    BY DEF Actors
  <1>1. /\ actor[r].pc = "reconfirming"
        /\ UNCHANGED <<now, chain, awaitingFrom, safeNonce, tx, nextTx, mem, disk, told>>
        /\ Fault \/ NoFault
        /\ \/ tx[mem[r].intent.hash].status = "success" /\ Go(r, "resettling") /\ KeepLock
           \/ EndUnlocked(r)
    BY DEF Reconfirm, chainVars
  <1>2. Holds(queue, r)
    BY <1>1, Before DEF ActorOK, LockPCs
  <1>3. StoreOK(tx', mem') /\ StoreOK(tx', disk') /\ TxStep /\ StoreStep(r)
    BY <1>1, <1>2, Before, SameTx DEF StoreStep
  <1>4. EnvOK' /\ LockStep(r)
    BY <1>1, <1>2, EnvKept DEF LockStep, EndUnlocked, KeepLock, DecisionInv, EnvOK
  <1>5. CASE tx[mem[r].intent.hash].status = "success" /\ Go(r, "resettling") /\ KeepLock
    <2>1. "resettling" \in PCs
      BY DEF PCs
    <2>2. ActorOK(tx', mem', queue', actor'[r], r)
      BY <1>1, <1>2, <1>5, <2>1, Before, GoState
      DEF ActorOK, LockPCs, SigningPCs, JobPCs, KeepLock
    <2> QED BY <1>3, <1>4, <1>5, <2>1, <2>2, Before, GoState, ActorStep
  <1>6. CASE EndUnlocked(r)
    BY <1>3, <1>4, <1>6, EndStep DEF EndUnlocked
  <1> QED BY <1>1, <1>5, <1>6

LEMMA ResettleKeeps ==
    ASSUME DecisionInv, NEW r \in Requests, Resettle(r)
    PROVE  DecisionInv'
  <1> r \in Actors
    BY DEF Actors
  <1> DEFINE noted == recordUserReceipt(r, actor[r].action, mem[r].intent.hash)
  <1>1. /\ actor[r].pc = "resettling"
        /\ UNCHANGED <<now, chain, awaitingFrom, safeNonce, tx, nextTx>>
        /\ Ended(r) /\ Unlock
    BY DEF Resettle, chainVars, EndUnlocked
  <1>2. /\ Fault \/ NoFault
        /\ mem' \in {mem, noted} /\ disk' \in {disk, noted}
        /\ Tell(r, UserAnswer(actor[r].action)) \/ UNCHANGED told
    BY DEF Resettle, Persist, PersistFails, NoPersist
  <1>3. /\ Holds(queue, r) /\ actor[r].action \in UserActions
        /\ SentFor(tx, mem[r].intent.hash, r, actor[r].action, "user")
        /\ tx[mem[r].intent.hash].status = "success"
    BY <1>1, Before DEF ActorOK, LockPCs
  <1>4. StoreOK(tx, noted)
    BY <1>3, Before, RecordUserReceipt
  <1> HIDE DEF noted
  <1>5. StoreOK(tx', mem') /\ StoreOK(tx', disk')
    BY <1>1, <1>2, <1>4, Before
  <1>6. TxStep /\ StoreStep(r) /\ LockStep(r) /\ EnvOK'
    BY <1>1, <1>2, <1>3, SameTx, EnvKept, TellType, Answers DEF StoreStep, LockStep
  <1> QED BY <1>1, <1>5, <1>6, EndStep

\* Steps that touch no actor.
LEMMA EnvStep ==
    ASSUME DecisionInv, EnvOK', TxStep, UNCHANGED <<mem, disk, queue, actor>>
    PROVE  DecisionInv'
  <1>1. StoreOK(tx', mem') /\ StoreOK(tx', disk')
    BY StoreGrows DEF DecisionInv, TxStep
  <1>2. ASSUME NEW a \in Actors PROVE ActorOK(tx', mem', queue', actor'[a], a)
    <2>1. ActorOK(tx, mem, queue, actor[a], a) /\ Grows(tx, tx')
      BY Before DEF TxStep
    <2>2. actor[a].pc \in LockPCs => Holds(queue, a)
      BY <2>1 DEF ActorOK
    <2>3. ActorOK(tx', mem, queue, actor[a], a)
      BY <2>1, <2>2, ActorKeeps
    <2> QED BY <2>3
  <1> QED BY <1>1, <1>2 DEF DecisionInv, TxStep

LEMMA AttestKeeps ==
    ASSUME DecisionInv, NEW r \in Requests, Attest(r)
    PROVE  DecisionInv'
  <1>1. PICK seen \in readRequest(r) : Tell(r, attestedOrigin(seen, mem[r]))
    BY DEF Attest
  <1>2. EnvOK' /\ TxStep
    BY <1>1, EnvKept, TellType, Answers, SameTx DEF Attest, chainVars
  <1> QED BY <1>2, EnvStep DEF Attest

LEMMA StartExpireKeeps ==
    ASSUME DecisionInv, NEW r \in Requests, StartExpire(r)
    PROVE  DecisionInv'
  <1>1. Watchdog \in Actors /\ Watchdog \notin Requests
    BY DEF Actors
  <1>2. /\ actor'[Watchdog].pc = "queued" /\ actor'[Watchdog].request = r
        /\ actor' \in [Actors -> ActorStates]
        /\ \A b \in Actors : b # Watchdog => actor'[b] = actor[b]
    BY <1>1, Before DEF StartExpire, Idle, ActorStates, PCs
  <1>3. ActorOK(tx', mem', queue', actor'[Watchdog], Watchdog)
    BY <1>1, <1>2 DEF ActorOK, LockPCs, SigningPCs, JobPCs
  <1>4. EnvOK' /\ TxStep /\ LockStep(Watchdog) /\ StoreStep(Watchdog)
    BY EnvKept, SameTx DEF StartExpire, chainVars, LockStep, StoreStep, DecisionInv, EnvOK
  <1>5. StoreOK(tx', mem') /\ StoreOK(tx', disk')
    BY <1>1, Before DEF StartExpire, chainVars
  <1> QED BY <1>1, <1>2, <1>3, <1>4, <1>5, ActorStep

LEMMA ExpireKeeps ==
    ASSUME DecisionInv, Expire
    PROVE  DecisionInv'
  <1> DEFINE r     == actor[Watchdog].request
             noted == observeAwaiting(mem, r)
  <1>1. Watchdog \in Actors /\ Watchdog \notin Requests
    BY DEF Actors
  <1>2. /\ actor[Watchdog].pc = "queued" /\ Holds(queue, Watchdog)
        /\ UNCHANGED <<now, chain, awaitingFrom, safeNonce, tx, nextTx, told>>
    BY DEF Expire, chainVars, HoldsLock, Holds
  <1>3. /\ Fault \/ NoFault
        /\ mem' \in {mem, noted} /\ disk' \in {disk, noted}
        /\ \/ EndUnlocked(Watchdog)
           \/ Signing(Watchdog, "reject", "timeout") /\ KeepLock
    BY DEF Expire, Persist, PersistFails, NoPersist
  <1>4. r \in Requests
    BY <1>1, <1>2, Before DEF ActorOK
  <1>5. StoreOK(tx, noted)
    BY <1>1, <1>4, Before, ObserveAwaiting
  <1> HIDE DEF noted
  <1>6. StoreOK(tx', mem') /\ StoreOK(tx', disk')
    BY <1>1, <1>2, <1>3, <1>5, Before
  <1>7. TxStep /\ StoreStep(Watchdog) /\ LockStep(Watchdog) /\ EnvOK'
    BY <1>2, <1>3, SameTx, EnvKept
    DEF StoreStep, LockStep, EndUnlocked, KeepLock, DecisionInv, EnvOK
  <1>8. CASE EndUnlocked(Watchdog)
    BY <1>1, <1>6, <1>7, <1>8, EndStep DEF EndUnlocked
  <1>9. CASE Signing(Watchdog, "reject", "timeout") /\ KeepLock
    <2>1. /\ actor' \in [Actors -> ActorStates]
          /\ \A b \in Actors : b # Watchdog => actor'[b] = actor[b]
          /\ actor'[Watchdog].pc = "signing" /\ actor'[Watchdog].request = r
          /\ actor'[Watchdog].action = "reject" /\ actor'[Watchdog].by = "timeout"
      BY <1>1, <1>9, Before, SigningState DEF UserActions
    <2>2. ActorOK(tx', mem', queue', actor'[Watchdog], Watchdog)
      BY <1>1, <1>2, <1>4, <1>9, <2>1 DEF ActorOK, LockPCs, SigningPCs, JobPCs, KeepLock
    <2> QED BY <1>1, <1>6, <1>7, <2>1, <2>2, ActorStep
  <1> QED BY <1>3, <1>8, <1>9

LEMMA StartGovernanceKeeps ==
    ASSUME DecisionInv, NEW r \in Requests, NEW action \in UserActions \cup {"other"},
           StartGovernance(r, action)
    PROVE  DecisionInv'
  <1>1. Owner \in Actors /\ Owner \notin Requests
    BY DEF Actors
  <1>2. /\ actor'[Owner].pc = "queued" /\ actor'[Owner].request = r
        /\ actor' \in [Actors -> ActorStates]
        /\ \A b \in Actors : b # Owner => actor'[b] = actor[b]
    BY <1>1, Before DEF StartGovernance, Idle, ActorStates, PCs
  <1>3. ActorOK(tx', mem', queue', actor'[Owner], Owner)
    BY <1>1, <1>2 DEF ActorOK, LockPCs, SigningPCs, JobPCs
  <1>4. EnvOK' /\ TxStep /\ LockStep(Owner) /\ StoreStep(Owner)
    BY EnvKept, SameTx DEF StartGovernance, chainVars, LockStep, StoreStep, DecisionInv, EnvOK
  <1>5. StoreOK(tx', mem') /\ StoreOK(tx', disk')
    BY <1>1, Before DEF StartGovernance, chainVars
  <1> QED BY <1>1, <1>2, <1>3, <1>4, <1>5, ActorStep

LEMMA GovernKeeps ==
    ASSUME DecisionInv, Govern
    PROVE  DecisionInv'
  <1>1. Owner \in Actors /\ Owner \notin Requests
    BY DEF Actors
  <1>2. /\ actor[Owner].pc = "queued" /\ Holds(queue, Owner)
        /\ UNCHANGED <<now, chain, awaitingFrom, safeNonce, tx, nextTx, mem, disk, told, faults>>
        /\ \/ Signing(Owner, actor[Owner].action, "owner") /\ KeepLock
           \/ EndUnlocked(Owner)
    BY DEF Govern, chainVars, HoldsLock, Holds
  <1>3. StoreOK(tx', mem') /\ StoreOK(tx', disk')
    BY <1>1, <1>2, Before
  <1>4. TxStep /\ StoreStep(Owner) /\ LockStep(Owner) /\ EnvOK'
    BY <1>2, SameTx, EnvKept DEF StoreStep, LockStep, EndUnlocked, KeepLock, DecisionInv, EnvOK
  <1>5. CASE EndUnlocked(Owner)
    BY <1>1, <1>3, <1>4, <1>5, EndStep DEF EndUnlocked
  <1>6. CASE Signing(Owner, actor[Owner].action, "owner") /\ KeepLock
    <2>1. actor[Owner].action \in UserActions \cup {"other", "none"}
      BY <1>1, Before DEF ActorStates
    <2>2. /\ actor' \in [Actors -> ActorStates]
          /\ \A b \in Actors : b # Owner => actor'[b] = actor[b]
          /\ actor'[Owner].pc = "signing" /\ actor'[Owner].request = actor[Owner].request
          /\ actor'[Owner].by = "owner"
      BY <1>1, <1>6, <2>1, Before, SigningState
    <2>3. ActorOK(tx', mem', queue', actor'[Owner], Owner)
      BY <1>1, <1>2, <1>6, <2>2, Before DEF ActorOK, LockPCs, SigningPCs, JobPCs, KeepLock
    <2> QED BY <1>1, <1>3, <1>4, <2>2, <2>3, ActorStep
  <1> QED BY <1>2, <1>5, <1>6

LEMMA EscalateKeeps ==
    ASSUME DecisionInv, NEW r \in Requests, Escalate(r)
    PROVE  DecisionInv'
  <1>1. EnvOK'
    BY DEF Escalate, DecisionInv, EnvOK, RequestStates
  <1>2. TxStep
    BY SameTx DEF Escalate
  <1> QED BY <1>1, <1>2, EnvStep DEF Escalate

LEMMA MineKeeps ==
    ASSUME DecisionInv, NEW i \in TxIds, Mine(i)
    PROVE  DecisionInv'
  <1>1. PICK s \in {"badNonce", "refused", "success"} : tx' = [tx EXCEPT ![i].status = s]
    BY DEF Mine
  <1>2. tx \in [TxIds -> Txs] /\ tx[i].status = "pending"
    BY DEF DecisionInv, TxOK, Mine
  <1>3. /\ tx' \in [TxIds -> Txs] /\ tx'[i].status = s
        /\ tx'[i].request = tx[i].request /\ tx'[i].action = tx[i].action
        /\ tx'[i].by = tx[i].by
        /\ \A j \in TxIds : j # i => tx'[j] = tx[j]
    BY <1>1, <1>2 DEF Txs
  <1>4. Grows(tx, tx')
    BY <1>2, <1>3 DEF Grows
  <1>5. TxOK(tx', nextTx')
    BY <1>2, <1>3 DEF TxOK, DecisionInv, Mine
  <1>6. EnvOK'
    <2>1. safeNonce' \in Nat
      BY DEF Mine, DecisionInv, EnvOK
    <2>2. chain' \in [Requests -> RequestStates]
      <3>1. chain \in [Requests -> RequestStates]
        BY DEF DecisionInv, EnvOK
      <3>2. UNCHANGED chain \/ \E r : chain' = [chain EXCEPT ![r] = Outcome(tx[i].action)]
        BY DEF Mine
      <3>3. Outcome(tx[i].action) \in RequestStates
        BY DEF Outcome, RequestStates
      <3> QED BY <3>1, <3>2, <3>3
    <2> QED BY <2>1, <2>2 DEF Mine, DecisionInv, EnvOK
  <1> QED BY <1>4, <1>5, <1>6, EnvStep DEF TxStep, Mine

LEMMA CrashKeeps ==
    ASSUME DecisionInv, Crash
    PROVE  DecisionInv'
  <1>1. EnvOK' /\ TxStep
    BY EnvKept, SameTx DEF Crash, chainVars, DecisionInv, EnvOK
  <1>2. StoreOK(tx', mem') /\ StoreOK(tx', disk') /\ queue' \in Seq(Actors)
    BY DEF Crash, chainVars, DecisionInv
  <1>3. actor' \in [Actors -> ActorStates]
    BY DEF Crash, Idle, ActorStates, PCs
  <1>4. ASSUME NEW a \in Actors PROVE ActorOK(tx', mem', queue', actor'[a], a)
    BY DEF Crash, Idle, ActorOK, LockPCs, SigningPCs, JobPCs
  <1> QED BY <1>1, <1>2, <1>3, <1>4 DEF DecisionInv, TxStep

LEMMA TickKeeps ==
    ASSUME DecisionInv, Tick
    PROVE  DecisionInv'
  <1>1. EnvOK' /\ TxStep
    BY SameTx DEF Tick, chainVars, DecisionInv, EnvOK
  <1> QED BY <1>1, EnvStep DEF Tick

-----------------------------------------------------------------------------
(* The invariant is inductive. *)

LEMMA WorkKeeps ==
    ASSUME DecisionInv, NEW a \in Actors, Work(a)
    PROVE  DecisionInv'
  BY SignOverKeeps, BroadcastKeeps, ConfirmKeeps, RecordTimeoutKeeps DEF Work

LEMMA JobKeeps ==
    ASSUME DecisionInv, NEW r \in Requests, Job(r)
    PROVE  DecisionInv'
  BY ValidateKeeps, ObserveKeeps, DecideKeeps, RecordBroadcastKeeps, ClearIntentKeeps,
     RecordUserKeeps, RecoverKeeps, ReconfirmKeeps, ResettleKeeps DEF Job

LEMMA DecisionNext == DecisionInv /\ [Next]_vars => DecisionInv'
  <1> SUFFICES ASSUME DecisionInv, [Next]_vars PROVE DecisionInv'
    OBVIOUS
  <1>1. ASSUME NEW r \in Requests, NEW action \in UserActions, Start(r, action)
        PROVE  DecisionInv'
    BY <1>1, StartKeeps
  <1>2. ASSUME NEW r \in Requests,
               Forget(r) \/ Attest(r) \/ Escalate(r) \/ StartExpire(r) \/ Job(r)
        PROVE  DecisionInv'
    BY <1>2, ForgetKeeps, AttestKeeps, EscalateKeeps, StartExpireKeeps, JobKeeps
  <1>3. ASSUME NEW a \in Actors, Work(a) PROVE DecisionInv'
    BY <1>3, WorkKeeps
  <1>4. CASE Expire \/ Govern
    BY <1>4, ExpireKeeps, GovernKeeps
  <1>5. ASSUME NEW r \in Requests, NEW action \in UserActions \cup {"other"},
               StartGovernance(r, action)
        PROVE  DecisionInv'
    BY <1>5, StartGovernanceKeeps
  <1>6. ASSUME NEW i \in TxIds, Mine(i) PROVE DecisionInv'
    BY <1>6, MineKeeps
  <1>7. CASE Crash \/ Tick
    BY <1>7, CrashKeeps, TickKeeps
  <1>8. CASE UNCHANGED vars
    <2>1. EnvOK' /\ TxStep
      BY <1>8, SameTx DEF vars, chainVars, DecisionInv, EnvOK
    <2> QED BY <1>8, <2>1, EnvStep DEF vars
  <1> QED BY <1>1, <1>2, <1>3, <1>4, <1>5, <1>6, <1>7, <1>8 DEF Next

-----------------------------------------------------------------------------
(* The theorems. *)

\* The types, and with them that a journalled receipt always names an author, an action
\* and a transaction (recordUserReceipt and recordTimeoutReceipt of the store).
THEOREM DecisionTypesCorrect == Spec => []DecisionTypeOK
  <1>1. Spec => []DecisionInv
    BY DecisionInit, DecisionNext, PTL DEF Spec
  <1> QED BY <1>1, DecisionInvTypes, PTL

\* A receipt in the journal, in memory or on disk, is never untrue, for any number of
\* requests, transactions, crashes, lost answers and failed writes, and with nodes that
\* lag behind (perform, expire and the recovery of demo-decision.mjs).
THEOREM JournalIsTrue == Spec => []ReceiptsTrue
  <1>1. Spec => []DecisionInv
    BY DecisionInit, DecisionNext, PTL DEF Spec
  <1> QED BY <1>1, DecisionInvReceipts, PTL

-----------------------------------------------------------------------------
(* What is answered and attested.  Every answer is read off a receipt, or  *)
(* off a transaction just confirmed, and both are true by DecisionInv.     *)

DoneFor(T, i, r, action, by) == SentFor(T, i, r, action, by) /\ T[i].status = "success"

TrueAnswers(T, r) ==
    {answer \in {"approved", "rejected", "expired"} :
        \/ answer = "approved" /\ \E i \in TxIds : DoneFor(T, i, r, "approve", "user")
        \/ answer = "rejected" /\ \E i \in TxIds : DoneFor(T, i, r, "reject", "user")
        \/ answer = "expired"  /\ \E i \in TxIds : DoneFor(T, i, r, "reject", "timeout")}

ToldTrue == \A r \in Requests : told[r] \subseteq TrueAnswers(tx, r)

LEMMA ToldTrueAnswers == ToldTrue => AnswersTrue
  BY DEF ToldTrue, AnswersTrue, TrueAnswers, DoneFor, SentFor, Decided

LEMMA DoneForGrows ==
    ASSUME NEW T, NEW U, Grows(T, U), NEW i, NEW r, NEW action, NEW by,
           DoneFor(T, i, r, action, by)
    PROVE  DoneFor(U, i, r, action, by)
  BY SentForGrows DEF DoneFor, SentFor, Grows

LEMMA TrueAnswersGrow ==
    ASSUME NEW T, NEW U, Grows(T, U), NEW r
    PROVE  TrueAnswers(T, r) \subseteq TrueAnswers(U, r)
  BY DoneForGrows DEF TrueAnswers

LEMMA EntryAnswers ==
    ASSUME NEW T, NEW entry, NEW r, EntryOK(T, entry, r), NEW seen, NEW action
    PROVE  /\ terminalResult(seen, entry, action) \subseteq TrueAnswers(T, r)
           /\ attestedOrigin(seen, entry) \subseteq TrueAnswers(T, r)
  <1>1. entry.receipt.origin = "timeout" => "expired" \in TrueAnswers(T, r)
    BY DEF EntryOK, TrueAnswers, DoneFor, SentFor
  <1>2. matchingUserReceipt(entry, "approve") => "approved" \in TrueAnswers(T, r)
    BY DEF EntryOK, matchingUserReceipt, TrueAnswers, DoneFor, SentFor
  <1>3. matchingUserReceipt(entry, "reject") => "rejected" \in TrueAnswers(T, r)
    BY DEF EntryOK, matchingUserReceipt, TrueAnswers, DoneFor, SentFor
  <1> QED BY <1>1, <1>2, <1>3 DEF terminalResult, attestedOrigin

LEMMA UserAnswerTrue ==
    ASSUME NEW T, NEW r, NEW action \in UserActions, NEW i, DoneFor(T, i, r, action, "user")
    PROVE  UserAnswer(action) \subseteq TrueAnswers(T, r)
  BY DEF UserAnswer, UserActions, TrueAnswers, DoneFor, SentFor

\* A step that tells the truth keeps ToldTrue.
LEMMA TellStep ==
    ASSUME DecisionInv, ToldTrue, Grows(tx, tx'), NEW r \in Requests, NEW answers,
           Tell(r, answers), answers \subseteq TrueAnswers(tx, r)
    PROVE  ToldTrue'
  <1>1. ASSUME NEW q \in Requests PROVE told'[q] \subseteq TrueAnswers(tx', q)
    <2>1. told'[q] \subseteq told[q] \cup (IF q = r THEN answers ELSE {})
      BY DEF Tell, DecisionInv, EnvOK
    <2>2. told'[q] \subseteq TrueAnswers(tx, q)
      BY <2>1 DEF ToldTrue
    <2> QED BY <2>2, TrueAnswersGrow
  <1> QED BY <1>1 DEF ToldTrue

LEMMA SilentStep ==
    ASSUME ToldTrue, Grows(tx, tx'), UNCHANGED told
    PROVE  ToldTrue'
  BY TrueAnswersGrow DEF ToldTrue

LEMMA NextGrows == DecisionInv /\ [Next]_vars => Grows(tx, tx')
  <1> SUFFICES ASSUME DecisionInv, [Next]_vars PROVE Grows(tx, tx')
    OBVIOUS
  <1>1. CASE UNCHANGED tx
    BY <1>1 DEF Grows
  <1>2. ASSUME NEW a \in Actors, Broadcast(a) PROVE Grows(tx, tx')
    <2>1. actor[a].request \in Requests
      BY <1>2, Before DEF Broadcast, ActorOK
    <2>2. Send(a) \/ UNCHANGED tx
      BY <1>2 DEF Broadcast
    <2> QED BY <1>1, <2>1, <2>2, SendGrows DEF TxStep
  <1>3. ASSUME NEW i \in TxIds, Mine(i) PROVE Grows(tx, tx')
    <2>1. tx \in [TxIds -> Txs] /\ tx[i].status = "pending"
      BY <1>3 DEF DecisionInv, TxOK, Mine
    <2>2. PICK s \in {"badNonce", "refused", "success"} : tx' = [tx EXCEPT ![i].status = s]
      BY <1>3 DEF Mine
    <2>3. /\ tx'[i].status = s /\ tx'[i].request = tx[i].request
          /\ tx'[i].action = tx[i].action /\ tx'[i].by = tx[i].by
          /\ \A j \in TxIds : j # i => tx'[j] = tx[j]
      BY <2>1, <2>2 DEF Txs
    <2> QED BY <2>1, <2>3 DEF Grows
  <1>4. UNCHANGED tx \/ (\E a \in Actors : Broadcast(a)) \/ (\E i \in TxIds : Mine(i))
    BY DEF Next, vars, chainVars, Start, Forget, Attest, Escalate, StartExpire, Job, Work,
           Expire, Govern, StartGovernance, Crash, Tick, Validate, Observe, Decide,
           RecordBroadcast, ClearIntent, RecordUser, Recover, Reconfirm, Resettle, SignOver,
           Confirm, RecordTimeout
  <1> QED BY <1>1, <1>2, <1>3, <1>4

\* The steps that say something, each from a true entry or a confirmed transaction.
LEMMA ToldNext == DecisionInv /\ ToldTrue /\ [Next]_vars => ToldTrue'
  <1> SUFFICES ASSUME DecisionInv, ToldTrue, [Next]_vars PROVE ToldTrue'
    OBVIOUS
  <1>1. Grows(tx, tx')
    BY NextGrows
  <1>2. \A r \in Requests : r \in Actors /\ EntryOK(tx, mem[r], r)
    BY DEF DecisionInv, StoreOK, Actors
  <1>3. ASSUME NEW r \in Requests, Validate(r) \/ Decide(r) \/ Recover(r) \/ Attest(r)
        PROVE  ToldTrue'
    <2>1. \/ UNCHANGED told
          \/ \E seen, action : Tell(r, terminalResult(seen, mem[r], action))
          \/ \E seen : Tell(r, attestedOrigin(seen, mem[r]))
      BY <1>3 DEF Validate, Decide, Recover, Attest
    <2> QED BY <1>1, <1>2, <2>1, EntryAnswers, TellStep, SilentStep
  <1>4. ASSUME NEW r \in Requests, RecordUser(r) PROVE ToldTrue'
    <2>1. actor[r].pc = "recording" /\ actor[r].by = "user"
      BY <1>4 DEF RecordUser
    <2>2. actor[r].action \in UserActions /\ DoneFor(tx, actor[r].tx, r, actor[r].action, "user")
      BY <1>2, <2>1, Before DEF ActorOK, DoneFor
    <2>3. UserAnswer(actor[r].action) \subseteq TrueAnswers(tx, r)
      BY <2>2, UserAnswerTrue
    <2>4. Tell(r, UserAnswer(actor[r].action)) \/ UNCHANGED told
      BY <1>4 DEF RecordUser
    <2> QED BY <1>1, <2>3, <2>4, TellStep, SilentStep
  <1>5. ASSUME NEW r \in Requests, Resettle(r) PROVE ToldTrue'
    <2>1. actor[r].pc = "resettling"
      BY <1>5 DEF Resettle
    <2>2. /\ actor[r].action \in UserActions
          /\ DoneFor(tx, mem[r].intent.hash, r, actor[r].action, "user")
      BY <1>2, <2>1, Before DEF ActorOK, DoneFor
    <2>3. UserAnswer(actor[r].action) \subseteq TrueAnswers(tx, r)
      BY <2>2, UserAnswerTrue
    <2>4. Tell(r, UserAnswer(actor[r].action)) \/ UNCHANGED told
      BY <1>5 DEF Resettle
    <2> QED BY <1>1, <2>3, <2>4, TellStep, SilentStep
  <1>6. ASSUME NEW a \in Actors, RecordTimeout(a) PROVE ToldTrue'
    <2> DEFINE r == actor[a].request
    <2>1. actor[a].pc = "recording" /\ actor[a].by = "timeout"
      BY <1>6 DEF RecordTimeout
    <2>2. r \in Requests /\ DoneFor(tx, actor[a].tx, r, "reject", "timeout")
      BY <2>1, Before DEF ActorOK, SigningPCs, DoneFor
    <2>3. {"expired"} \subseteq TrueAnswers(tx, r)
      BY <2>2 DEF TrueAnswers, DoneFor, SentFor
    <2>4. Tell(r, {}) \/ Tell(r, {"expired"}) \/ UNCHANGED told
      BY <1>6 DEF RecordTimeout
    <2>5. {} \subseteq TrueAnswers(tx, r)
      OBVIOUS
    <2> HIDE DEF r
    <2> QED BY <1>1, <2>2, <2>3, <2>4, <2>5, TellStep, SilentStep
  <1>7. \/ UNCHANGED told
        \/ \E r \in Requests : \/ Validate(r) \/ Decide(r) \/ Recover(r) \/ Attest(r)
                               \/ RecordUser(r) \/ Resettle(r)
        \/ \E a \in Actors : RecordTimeout(a)
    BY DEF Next, vars, chainVars, Start, Forget, Escalate, StartExpire, Job, Work, Expire,
           Govern, StartGovernance, Crash, Tick, Observe, RecordBroadcast, ClearIntent,
           Reconfirm, SignOver, Broadcast, Confirm, Mine
  <1> QED BY <1>1, <1>3, <1>4, <1>5, <1>6, <1>7, SilentStep

LEMMA ToldInit == Init => ToldTrue
  BY DEF Init, ToldTrue

\* Whatever the service answers or attests about who decided a request is what happened on
\* chain: the state of a request alone never names an author (terminalResult and attest).
THEOREM EveryAnswerIsTrue == Spec => []AnswersTrue
  <1>1. Init => DecisionInv /\ ToldTrue
    BY DecisionInit, ToldInit
  <1>2. (DecisionInv /\ ToldTrue) /\ [Next]_vars => (DecisionInv /\ ToldTrue)'
    BY DecisionNext, ToldNext
  <1>3. Spec => [](DecisionInv /\ ToldTrue)
    BY <1>1, <1>2, PTL DEF Spec
  <1> QED BY <1>3, ToldTrueAnswers, PTL

-----------------------------------------------------------------------------
(* No competing signature.  Who signs for a visitor or for a timeout has   *)
(* found, under the lock, neither broadcast nor receipt in memory; and     *)
(* where memory has none, the file has none.                               *)

Clean(entry) == entry.intent.hash = 0 /\ entry.receipt.origin = "none"

\* A job between its first look at the entry and the lock: only the watchdog came between.
Unsigned(entry) == entry.intent.hash = 0 /\ entry.receipt.origin # "user"

SignerOK(E, me) ==
    me.pc \in {"signing", "broadcasting", "clearing"} /\ me.by # "owner" =>
        Clean(E[me.request])

WaiterOK(E, me) == me.pc \in {"observing", "queued"} => Unsigned(E[me.request])

FileBehind(E, F) == \A r \in Requests : Clean(E[r]) => Clean(F[r])

SignInv ==
    /\ FileBehind(mem, disk)
    /\ \A a \in Actors : SignerOK(mem, actor[a])
    /\ \A r \in Requests : WaiterOK(mem, actor[r])

LEMMA SignInit == Init => SignInv
  BY DEF Init, SignInv, FileBehind, Clean, SignerOK, WaiterOK, NoEntry, NoIntent, NoReceipt,
         Idle, Actors

\* One actor's step: the entries of the others change only as the lock allows.
LEMMA SignStep ==
    ASSUME DecisionInv, SignInv, NEW a \in Actors,
           \A b \in Actors : b # a => actor'[b] = actor[b],
           FileBehind(mem', disk'),
           SignerOK(mem', actor'[a]), a \in Requests => WaiterOK(mem', actor'[a]),
           Holds(queue, a) \/ \A q \in Requests : Clean(mem[q]) => Clean(mem'[q]),
           \A q \in Requests : q # a /\ Unsigned(mem[q]) => Unsigned(mem'[q])
    PROVE  SignInv'
  <1>1. ASSUME NEW b \in Actors, b # a PROVE SignerOK(mem', actor'[b])
    <2>1. ActorOK(tx, mem, queue, actor[b], b) /\ SignerOK(mem, actor[b])
      BY Before DEF SignInv
    <2>2. CASE actor[b].pc \in {"signing", "broadcasting", "clearing"}
      <3>1. Holds(queue, b) /\ actor[b].request \in Requests
        BY <2>1, <2>2 DEF ActorOK, LockPCs
      <3>2. Clean(mem[actor[b].request]) => Clean(mem'[actor[b].request])
        BY <1>1, <3>1 DEF Holds
      <3> QED BY <1>1, <2>1, <3>2 DEF SignerOK
    <2>3. CASE actor[b].pc \notin {"signing", "broadcasting", "clearing"}
      BY <1>1, <2>3 DEF SignerOK
    <2> QED BY <2>2, <2>3
  <1>2. ASSUME NEW r \in Requests, r # a PROVE WaiterOK(mem', actor'[r])
    <2>1. /\ r \in Actors /\ actor'[r] = actor[r] /\ WaiterOK(mem, actor[r])
          /\ ActorOK(tx, mem, queue, actor[r], r)
      BY <1>2, Before DEF SignInv, Actors
    <2>2. actor[r].pc \in {"observing", "queued"} => actor[r].request = r
      BY <2>1 DEF ActorOK
    <2> QED BY <1>2, <2>1, <2>2 DEF WaiterOK
  <1> QED BY <1>1, <1>2 DEF SignInv

\* An actor that leaves the journal alone and moves on to no signature.
LEMMA QuietStep ==
    ASSUME DecisionInv, SignInv, NEW a \in Actors, UNCHANGED <<mem, disk>>,
           \A b \in Actors : b # a => actor'[b] = actor[b],
           actor'[a].pc \notin {"signing", "broadcasting", "clearing"},
           a \in Requests => WaiterOK(mem, actor'[a])
    PROVE  SignInv'
  <1>1. SignerOK(mem', actor'[a])
    BY DEF SignerOK
  <1> QED BY <1>1, SignStep DEF SignInv

\* An actor that changes the journal and ends.
LEMMA WriteStep ==
    ASSUME DecisionInv, SignInv, NEW a \in Actors, Ended(a), Holds(queue, a),
           FileBehind(mem', disk'),
           \A q \in Requests : q # a /\ Unsigned(mem[q]) => Unsigned(mem'[q])
    PROVE  SignInv'
  <1>1. actor'[a].pc \in {"idle", "done"} /\ \A b \in Actors : b # a => actor'[b] = actor[b]
    BY Before DEF Ended, Idle
  <1>2. SignerOK(mem', actor'[a]) /\ WaiterOK(mem', actor'[a])
    BY <1>1 DEF SignerOK, WaiterOK
  <1> QED BY <1>1, <1>2, SignStep

LEMMA ValidateSigns ==
    ASSUME DecisionInv, SignInv, NEW r \in Requests, Validate(r)
    PROVE  SignInv'
  <1> r \in Actors
    BY DEF Actors
  <1>1. actor[r].pc = "validating" /\ UNCHANGED <<mem, disk>>
    BY DEF Validate
  <1>2. actor[r].request = r
    BY <1>1, Before DEF ActorOK
  <1>3. \/ Go(r, "recovering") \/ Ended(r)
        \/ /\ Go(r, "observing") /\ ~Broadcasted(mem[r]) /\ mem[r].receipt.origin = "none"
    BY DEF Validate
  <1>4. \A b \in Actors : b # r => actor'[b] = actor[b]
    BY <1>3, Before DEF Go, Ended
  <1>5. CASE Go(r, "recovering") \/ Ended(r)
    <2>1. actor'[r].pc \in {"recovering", "done"}
      BY <1>5, Before DEF Go, Ended, Idle, ActorStates
    <2>2. WaiterOK(mem, actor'[r])
      BY <2>1 DEF WaiterOK
    <2> QED BY <1>1, <1>4, <2>1, <2>2, QuietStep
  <1>6. CASE Go(r, "observing") /\ ~Broadcasted(mem[r]) /\ mem[r].receipt.origin = "none"
    <2>1. actor'[r].pc = "observing" /\ actor'[r].request = r
      BY <1>2, <1>6, Before DEF Go, ActorStates
    <2>2. WaiterOK(mem, actor'[r])
      BY <1>6, <2>1 DEF WaiterOK, Unsigned, Broadcasted
    <2> QED BY <1>1, <1>4, <2>1, <2>2, QuietStep
  <1> QED BY <1>3, <1>5, <1>6

LEMMA ObserveSigns ==
    ASSUME DecisionInv, SignInv, NEW r \in Requests, Observe(r)
    PROVE  SignInv'
  <1> r \in Actors
    BY DEF Actors
  <1> DEFINE noted == observeAwaiting(mem, r)
  <1>1. /\ actor[r].pc = "observing"
        /\ mem' = noted /\ disk' \in {disk, noted}
        /\ Go(r, "queued") \/ Ended(r)
    BY DEF Observe, Persist, PersistFails, NoPersist
  <1>2. \A q \in Requests : noted[q].intent = mem[q].intent /\ noted[q].receipt = mem[q].receipt
    BY Before, ObserveAwaiting
  <1> HIDE DEF noted
  <1>3. FileBehind(mem', disk')
    BY <1>1, <1>2 DEF FileBehind, SignInv, Clean
  <1>4. actor[r].request = r /\ WaiterOK(mem, actor[r])
    BY <1>1, Before DEF SignInv, ActorOK
  <1>5. /\ actor'[r].pc \in {"queued", "done"} /\ (actor'[r].pc = "queued" => actor'[r].request = r)
        /\ \A b \in Actors : b # r => actor'[b] = actor[b]
    BY <1>1, <1>4, Before DEF Go, Ended, Idle, ActorStates
  <1>6. SignerOK(mem', actor'[r]) /\ WaiterOK(mem', actor'[r])
    BY <1>1, <1>2, <1>4, <1>5 DEF SignerOK, WaiterOK, Unsigned
  <1>7. /\ \A q \in Requests : Clean(mem[q]) => Clean(mem'[q])
        /\ \A q \in Requests : q # r /\ Unsigned(mem[q]) => Unsigned(mem'[q])
    BY <1>1, <1>2 DEF Clean, Unsigned
  <1> QED BY <1>3, <1>5, <1>6, <1>7, SignStep

LEMMA DecideSigns ==
    ASSUME DecisionInv, SignInv, NEW r \in Requests, Decide(r)
    PROVE  SignInv'
  <1> r \in Actors
    BY DEF Actors
  <1> DEFINE action == actor[r].action
             noted  == observeAwaiting(mem, r)
             meant  == recordIntent(noted, r, action)
  <1>1. actor[r].pc = "queued" /\ Holds(queue, r)
    BY DEF Decide, HoldsLock, Holds
  <1>2. \/ EndUnlocked(r) /\ NoPersist
        \/ /\ mem[r].receipt.origin # "timeout"
           /\ \/ Signing(r, "reject", "timeout") /\ NoPersist
              \/ Signing(r, action, "user") /\ Persist(meant)
              \/ EndUnlocked(r) /\ PersistFails(meant)
    BY DEF Decide
  <1>3. action \in UserActions /\ actor[r].request = r /\ Unsigned(mem[r])
    BY <1>1, Before DEF ActorOK, SignInv, WaiterOK
  <1>4. mem[r].receipt.origin \in {"none", "user", "timeout"}
    BY Before DEF StoreOK, Entries, Receipts, NoReceipt
  <1>5. StoreOK(tx, noted) /\ \A q \in Requests : /\ noted[q].intent = mem[q].intent
                                                  /\ noted[q].receipt = mem[q].receipt
    BY Before, ObserveAwaiting
  <1>6. /\ meant[r].intent.hash = 0 /\ meant[r].receipt = mem[r].receipt
        /\ \A q \in Requests : q # r => /\ meant[q].intent = mem[q].intent
                                        /\ meant[q].receipt = mem[q].receipt
    <2> HIDE DEF noted
    <2> QED BY <1>5 DEF recordIntent, StoreOK, Entries
  <1> HIDE DEF meant
  <1>7. CASE EndUnlocked(r) /\ NoPersist
    BY <1>1, <1>7, WriteStep DEF EndUnlocked, NoPersist, SignInv
  <1>8. CASE mem[r].receipt.origin # "timeout" /\ Signing(r, "reject", "timeout") /\ NoPersist
    <2>1. /\ actor'[r].pc = "signing" /\ actor'[r].request = r
          /\ \A b \in Actors : b # r => actor'[b] = actor[b]
      BY <1>3, <1>8, Before, SigningState DEF UserActions
    <2>2. SignerOK(mem', actor'[r]) /\ WaiterOK(mem', actor'[r])
      BY <1>3, <1>4, <1>8, <2>1 DEF SignerOK, WaiterOK, Unsigned, Clean, NoPersist
    <2> QED BY <1>1, <1>8, <2>1, <2>2, SignStep DEF NoPersist, SignInv
  <1>9. CASE /\ mem[r].receipt.origin # "timeout"
             /\ Signing(r, action, "user") /\ Persist(meant)
    <2>1. /\ actor'[r].pc = "signing" /\ actor'[r].request = r
          /\ \A b \in Actors : b # r => actor'[b] = actor[b]
      BY <1>3, <1>9, Before, SigningState
    <2>2. SignerOK(mem', actor'[r]) /\ WaiterOK(mem', actor'[r])
      BY <1>3, <1>4, <1>6, <1>9, <2>1 DEF SignerOK, WaiterOK, Unsigned, Clean, Persist
    <2>3. FileBehind(mem', disk') /\ \A q \in Requests : q # r /\ Unsigned(mem[q]) => Unsigned(mem'[q])
      BY <1>6, <1>9 DEF FileBehind, Unsigned, Persist
    <2> QED BY <1>1, <2>1, <2>2, <2>3, SignStep
  <1>10. CASE /\ mem[r].receipt.origin # "timeout"
              /\ EndUnlocked(r) /\ PersistFails(meant)
    <2>1. Clean(mem[r])
      BY <1>3, <1>4, <1>10 DEF Unsigned, Clean
    <2>2. FileBehind(mem', disk') /\ \A q \in Requests : q # r /\ Unsigned(mem[q]) => Unsigned(mem'[q])
      BY <1>6, <1>10, <2>1 DEF FileBehind, Clean, Unsigned, PersistFails, SignInv
    <2> QED BY <1>1, <1>10, <2>2, WriteStep DEF EndUnlocked
  <1> QED BY <1>2, <1>7, <1>8, <1>9, <1>10

LEMMA SignOverSigns ==
    ASSUME DecisionInv, SignInv, NEW a \in Actors, SignOver(a)
    PROVE  SignInv'
  <1>1. PICK n : actor' = [actor EXCEPT ![a].pc = "broadcasting", ![a].nonce = n]
    BY DEF SignOver
  <1>2. actor[a].pc = "signing" /\ UNCHANGED <<mem, disk>> /\ Holds(queue, a)
    BY Before DEF SignOver, ActorOK, LockPCs
  <1>3. /\ actor'[a].pc = "broadcasting" /\ actor'[a].request = actor[a].request
        /\ actor'[a].by = actor[a].by
        /\ \A b \in Actors : b # a => actor'[b] = actor[b]
    BY <1>1, Before, Zenon DEF ActorStates
  <1>4. SignerOK(mem', actor'[a]) /\ WaiterOK(mem', actor'[a])
    BY <1>2, <1>3 DEF SignerOK, WaiterOK, SignInv
  <1> QED BY <1>2, <1>3, <1>4, SignStep DEF SignInv

LEMMA BroadcastSigns ==
    ASSUME DecisionInv, SignInv, NEW a \in Actors, Broadcast(a)
    PROVE  SignInv'
  <1>1. /\ actor[a].pc = "broadcasting" /\ UNCHANGED <<mem, disk>>
        /\ \/ Go(a, "clearing") /\ actor[a].by = "user"
           \/ Ended(a)
           \/ actor' = [actor EXCEPT ![a].tx = nextTx, ![a].pc =
                          IF actor[a].by = "user" THEN "journalling" ELSE "confirming"]
    BY DEF Broadcast, NotSent, EndUnlocked
  <1>2. Holds(queue, a) /\ SignerOK(mem, actor[a])
    BY <1>1, Before DEF ActorOK, LockPCs, SignInv
  <1>3. CASE Go(a, "clearing")
    <2>1. /\ actor'[a].pc = "clearing" /\ actor'[a].request = actor[a].request
          /\ actor'[a].by = actor[a].by
          /\ \A b \in Actors : b # a => actor'[b] = actor[b]
      BY <1>3, Before DEF Go, ActorStates
    <2>2. SignerOK(mem', actor'[a]) /\ WaiterOK(mem', actor'[a])
      BY <1>1, <1>2, <2>1 DEF SignerOK, WaiterOK
    <2> QED BY <1>1, <1>2, <2>1, <2>2, SignStep DEF SignInv
  <1>4. CASE Ended(a)
    BY <1>1, <1>2, <1>4, WriteStep DEF SignInv
  <1>5. ASSUME NEW pc \in {"journalling", "confirming"},
               actor' = [actor EXCEPT ![a].tx = nextTx, ![a].pc = pc]
        PROVE  SignInv'
    <2>1. actor'[a].pc = pc /\ \A b \in Actors : b # a => actor'[b] = actor[b]
      BY <1>5, Before, Zenon DEF ActorStates
    <2>2. WaiterOK(mem, actor'[a])
      BY <1>5, <2>1 DEF WaiterOK
    <2> QED BY <1>1, <1>5, <2>1, <2>2, QuietStep
  <1> QED BY <1>1, <1>3, <1>4, <1>5

LEMMA RecordBroadcastSigns ==
    ASSUME DecisionInv, SignInv, NEW r \in Requests, RecordBroadcast(r)
    PROVE  SignInv'
  <1> r \in Actors
    BY DEF Actors
  <1> DEFINE noted == recordBroadcast(r, actor[r].tx)
  <1>1. /\ actor[r].pc = "journalling"
        /\ mem' = noted /\ disk' \in {disk, noted}
        /\ Go(r, "confirming") \/ Ended(r)
    BY DEF RecordBroadcast, Persist, PersistFails, EndUnlocked
  <1>2. Holds(queue, r) /\ actor[r].tx \in TxIds
    BY <1>1, Before DEF ActorOK, LockPCs, SentFor
  <1>3. noted[r].intent.hash # 0 /\ \A q \in Requests : q # r => noted[q] = mem[q]
    BY <1>2, Before DEF recordBroadcast, StoreOK, Entries, Intents, NoIntent, TxIds
  <1> HIDE DEF noted
  <1>4. FileBehind(mem', disk') /\ \A q \in Requests : q # r /\ Unsigned(mem[q]) => Unsigned(mem'[q])
    BY <1>1, <1>3 DEF FileBehind, Clean, SignInv
  <1>5. /\ actor'[r].pc \in {"confirming", "done"}
        /\ \A b \in Actors : b # r => actor'[b] = actor[b]
    BY <1>1, Before DEF Go, Ended, Idle, ActorStates
  <1>6. SignerOK(mem', actor'[r]) /\ WaiterOK(mem', actor'[r])
    BY <1>5 DEF SignerOK, WaiterOK
  <1> QED BY <1>2, <1>4, <1>5, <1>6, SignStep

LEMMA ClearIntentSigns ==
    ASSUME DecisionInv, SignInv, NEW r \in Requests, ClearIntent(r)
    PROVE  SignInv'
  <1> r \in Actors
    BY DEF Actors
  <1>1. /\ actor[r].pc = "clearing" /\ Ended(r)
        /\ mem' = clearIntent(r) /\ disk' \in {disk, clearIntent(r)}
    BY DEF ClearIntent, Persist, PersistFails, EndUnlocked
  <1>2. Holds(queue, r) /\ Clean(mem[r])
    BY <1>1, Before DEF ActorOK, LockPCs, SignInv, SignerOK
  <1>3. \A q \in Requests : q # r => clearIntent(r)[q] = mem[q]
    BY Before DEF clearIntent, StoreOK
  <1>4. FileBehind(mem', disk') /\ \A q \in Requests : q # r /\ Unsigned(mem[q]) => Unsigned(mem'[q])
    BY <1>1, <1>2, <1>3 DEF FileBehind, SignInv
  <1> QED BY <1>1, <1>2, <1>4, WriteStep

\* The two ways to journal a visitor's receipt.
LEMMA ReceiptSigns ==
    ASSUME DecisionInv, SignInv, NEW r \in Requests, NEW action, NEW h, Holds(queue, r), Ended(r),
           \/ mem' = mem /\ disk' \in {disk, mem}
           \/ /\ mem' = recordUserReceipt(r, action, h)
              /\ disk' \in {disk, mem, recordUserReceipt(r, action, h)}
    PROVE  SignInv'
  <1> r \in Actors
    BY DEF Actors
  <1> DEFINE noted == recordUserReceipt(r, action, h)
  <1>1. noted[r].receipt.origin = "user" /\ \A q \in Requests : q # r => noted[q] = mem[q]
    BY Before DEF recordUserReceipt, StoreOK, Entries
  <1> HIDE DEF noted
  <1>2. FileBehind(mem', disk') /\ \A q \in Requests : q # r /\ Unsigned(mem[q]) => Unsigned(mem'[q])
    BY <1>1 DEF FileBehind, Clean, SignInv, noted
  <1> QED BY <1>2, WriteStep

LEMMA RecordUserSigns ==
    ASSUME DecisionInv, SignInv, NEW r \in Requests, RecordUser(r)
    PROVE  SignInv'
  <1>1. Holds(queue, r) /\ Ended(r)
    BY Before DEF RecordUser, EndUnlocked, ActorOK, LockPCs, Actors
  <1>2. \/ mem' = mem /\ disk' \in {disk, mem}
        \/ /\ mem' = recordUserReceipt(r, actor[r].action, actor[r].tx)
           /\ disk' \in {disk, mem, recordUserReceipt(r, actor[r].action, actor[r].tx)}
    BY DEF RecordUser, Persist, PersistFails
  <1> QED BY <1>1, <1>2, ReceiptSigns

LEMMA ResettleSigns ==
    ASSUME DecisionInv, SignInv, NEW r \in Requests, Resettle(r)
    PROVE  SignInv'
  <1>1. Holds(queue, r) /\ Ended(r)
    BY Before DEF Resettle, EndUnlocked, ActorOK, LockPCs, Actors
  <1>2. \/ mem' = mem /\ disk' \in {disk, mem}
        \/ /\ mem' = recordUserReceipt(r, actor[r].action, mem[r].intent.hash)
           /\ disk' \in {disk, mem, recordUserReceipt(r, actor[r].action, mem[r].intent.hash)}
    BY DEF Resettle, Persist, PersistFails, NoPersist
  <1> QED BY <1>1, <1>2, ReceiptSigns

LEMMA RecordTimeoutSigns ==
    ASSUME DecisionInv, SignInv, NEW a \in Actors, RecordTimeout(a)
    PROVE  SignInv'
  <1> DEFINE r     == actor[a].request
             noted == recordTimeoutReceipt(r, actor[a].tx)
  <1>1. /\ actor[a].pc = "recording" /\ Ended(a)
        /\ mem' = noted /\ disk' \in {disk, noted}
    BY DEF RecordTimeout, Persist, PersistFails, EndUnlocked
  <1>2. Holds(queue, a) /\ r \in Requests
    BY <1>1, Before DEF ActorOK, LockPCs
  <1>3. /\ noted[r].receipt.origin = "timeout" /\ noted[r].intent.hash = 0
        /\ \A q \in Requests : q # r => noted[q] = mem[q]
    BY <1>2, Before DEF recordTimeoutReceipt, StoreOK, NoEntry, NoIntent
  <1> HIDE DEF noted
  <1>4. FileBehind(mem', disk') /\ \A q \in Requests : Unsigned(mem[q]) => Unsigned(mem'[q])
    BY <1>1, <1>2, <1>3 DEF FileBehind, Clean, Unsigned, SignInv
  <1> QED BY <1>1, <1>2, <1>4, WriteStep

LEMMA ExpireSigns ==
    ASSUME DecisionInv, SignInv, Expire
    PROVE  SignInv'
  <1> DEFINE r     == actor[Watchdog].request
             noted == observeAwaiting(mem, r)
  <1>1. Watchdog \in Actors /\ Watchdog \notin Requests
    BY DEF Actors
  <1>2. actor[Watchdog].pc = "queued" /\ Holds(queue, Watchdog)
    BY DEF Expire, HoldsLock, Holds
  <1>3. \/ Ended(Watchdog) /\ mem' \in {mem, noted} /\ disk' \in {disk, mem'} /\ (mem' = mem => disk' = disk)
        \/ Signing(Watchdog, "reject", "timeout") /\ NoPersist /\ LeftToWatchdog(mem[r])
    BY DEF Expire, Persist, PersistFails, NoPersist, EndUnlocked
  <1>4. r \in Requests
    BY <1>1, <1>2, Before DEF ActorOK
  <1>5. \A q \in Requests : noted[q].intent = mem[q].intent /\ noted[q].receipt = mem[q].receipt
    BY <1>1, <1>4, Before, ObserveAwaiting
  <1> HIDE DEF noted
  <1>6. CASE Ended(Watchdog) /\ mem' \in {mem, noted} /\ disk' \in {disk, mem'}
    <2>1. FileBehind(mem', disk') /\ \A q \in Requests : Unsigned(mem[q]) => Unsigned(mem'[q])
      BY <1>5, <1>6 DEF FileBehind, Clean, Unsigned, SignInv
    <2> QED BY <1>1, <1>2, <1>6, <2>1, WriteStep
  <1>7. CASE Signing(Watchdog, "reject", "timeout") /\ NoPersist /\ LeftToWatchdog(mem[r])
    <2>1. /\ actor'[Watchdog].request = r
          /\ \A b \in Actors : b # Watchdog => actor'[b] = actor[b]
      BY <1>1, <1>7, Before, SigningState DEF UserActions
    <2>2. SignerOK(mem', actor'[Watchdog])
      BY <1>7, <2>1 DEF SignerOK, LeftToWatchdog, Clean, NoPersist
    <2> QED BY <1>1, <1>2, <1>7, <2>1, <2>2, SignStep DEF NoPersist, SignInv
  <1> QED BY <1>3, <1>6, <1>7

LEMMA GovernSigns ==
    ASSUME DecisionInv, SignInv, Govern
    PROVE  SignInv'
  <1>1. Owner \in Actors /\ Owner \notin Requests
    BY DEF Actors
  <1>2. /\ Holds(queue, Owner) /\ UNCHANGED <<mem, disk>>
        /\ Signing(Owner, actor[Owner].action, "owner") \/ Ended(Owner)
    BY DEF Govern, HoldsLock, Holds, EndUnlocked
  <1>3. CASE Ended(Owner)
    BY <1>1, <1>2, <1>3, WriteStep DEF SignInv
  <1>4. CASE Signing(Owner, actor[Owner].action, "owner")
    <2>1. actor[Owner].action \in UserActions \cup {"other", "none"}
      BY <1>1, Before DEF ActorStates
    <2>2. actor'[Owner].by = "owner" /\ \A b \in Actors : b # Owner => actor'[b] = actor[b]
      BY <1>1, <1>4, <2>1, Before, SigningState
    <2>3. SignerOK(mem', actor'[Owner])
      BY <2>2 DEF SignerOK
    <2> QED BY <1>1, <1>2, <2>2, <2>3, SignStep DEF SignInv
  <1> QED BY <1>2, <1>3, <1>4

\* The steps that neither sign nor write.
LEMMA QuietSigns ==
    ASSUME DecisionInv, SignInv, NEW a \in Actors, UNCHANGED <<mem, disk>>,
           Ended(a) \/ \E pc \in {"recording", "reconfirming", "resettling"} : Go(a, pc)
    PROVE  SignInv'
  <1>1. /\ actor'[a].pc \in {"done", "idle", "recording", "reconfirming", "resettling"}
        /\ \A b \in Actors : b # a => actor'[b] = actor[b]
    <2>1. CASE Ended(a)
      BY <2>1, Before DEF Ended, Idle
    <2>2. ASSUME NEW pc \in {"recording", "reconfirming", "resettling"}, Go(a, pc)
          PROVE  actor'[a].pc = pc /\ \A b \in Actors : b # a => actor'[b] = actor[b]
      BY <2>2, Before DEF Go, ActorStates
    <2> QED BY <2>1, <2>2
  <1>2. WaiterOK(mem, actor'[a])
    BY <1>1 DEF WaiterOK
  <1> QED BY <1>1, <1>2, QuietStep

LEMMA BeginSigns ==
    ASSUME DecisionInv, SignInv, NEW r \in Requests, NEW action \in UserActions,
           Start(r, action) \/ Forget(r)
    PROVE  SignInv'
  <1> r \in Actors
    BY DEF Actors
  <1>1. /\ actor'[r].pc \in {"idle", "validating"}
        /\ \A b \in Actors : b # r => actor'[b] = actor[b]
    <2>1. CASE Start(r, action)
      BY <2>1, Before DEF Start, Idle, ActorStates, PCs
    <2>2. CASE Forget(r)
      BY <2>2, Before DEF Forget, Idle, ActorStates, PCs
    <2> QED BY <2>1, <2>2
  <1>2. WaiterOK(mem, actor'[r])
    BY <1>1 DEF WaiterOK
  <1> QED BY <1>1, <1>2, QuietStep DEF Start, Forget

LEMMA QueueSigns ==
    ASSUME DecisionInv, SignInv, NEW r \in Requests, NEW action,
           StartExpire(r) \/ StartGovernance(r, action)
    PROVE  SignInv'
  <1>1. /\ Watchdog \in Actors /\ Watchdog \notin Requests
        /\ Owner \in Actors /\ Owner \notin Requests
    BY DEF Actors
  <1>2. PICK a \in {Watchdog, Owner} :
          /\ actor'[a].pc = "queued"
          /\ \A b \in Actors : b # a => actor'[b] = actor[b]
    BY <1>1, Before DEF StartExpire, StartGovernance, Idle
  <1>3. UNCHANGED <<mem, disk>>
    BY DEF StartExpire, StartGovernance
  <1> QED BY <1>1, <1>2, <1>3, QuietStep

LEMMA SignNext == DecisionInv /\ SignInv /\ [Next]_vars => SignInv'
  <1> SUFFICES ASSUME DecisionInv, SignInv, [Next]_vars PROVE SignInv'
    OBVIOUS
  <1>1. \A r \in Requests : r \in Actors
    BY DEF Actors
  <1>2. ASSUME NEW r \in Requests, NEW action \in UserActions, Start(r, action) \/ Forget(r)
        PROVE  SignInv'
    BY <1>2, BeginSigns
  <1>3. ASSUME NEW r \in Requests, Validate(r) \/ Observe(r) \/ Decide(r) \/ RecordBroadcast(r)
                                   \/ ClearIntent(r) \/ RecordUser(r) \/ Resettle(r)
        PROVE  SignInv'
    BY <1>3, ValidateSigns, ObserveSigns, DecideSigns, RecordBroadcastSigns, ClearIntentSigns,
       RecordUserSigns, ResettleSigns
  <1>4. ASSUME NEW r \in Requests, Recover(r) \/ Reconfirm(r) PROVE SignInv'
    <2>1. Ended(r) \/ \E pc \in {"recording", "reconfirming", "resettling"} : Go(r, pc)
      BY <1>4 DEF Recover, Reconfirm, EndUnlocked
    <2> QED BY <1>1, <1>4, <2>1, QuietSigns DEF Recover, Reconfirm
  <1>5. ASSUME NEW a \in Actors, SignOver(a) \/ Broadcast(a) \/ RecordTimeout(a) PROVE SignInv'
    BY <1>5, SignOverSigns, BroadcastSigns, RecordTimeoutSigns
  <1>6. ASSUME NEW a \in Actors, Confirm(a) PROVE SignInv'
    <2>1. Ended(a) \/ \E pc \in {"recording", "reconfirming", "resettling"} : Go(a, pc)
      BY <1>6 DEF Confirm, EndUnlocked
    <2> QED BY <1>6, <2>1, QuietSigns DEF Confirm
  <1>7. CASE Expire \/ Govern
    BY <1>7, ExpireSigns, GovernSigns
  <1>8. ASSUME NEW r \in Requests, NEW action, StartExpire(r) \/ StartGovernance(r, action)
        PROVE  SignInv'
    BY <1>8, QueueSigns
  <1>9. CASE UNCHANGED <<mem, disk, actor>>
    BY <1>9 DEF SignInv
  <1>10. CASE Crash
    BY <1>10 DEF Crash, SignInv, FileBehind, SignerOK, WaiterOK, Idle, Actors
  <1>11. \/ \E r \in Requests, action \in UserActions : Start(r, action)
         \/ \E r \in Requests : Forget(r) \/ StartExpire(r) \/ Job(r)
         \/ \E r \in Requests, action \in UserActions \cup {"other"} : StartGovernance(r, action)
         \/ \E a \in Actors : Work(a)
         \/ Expire \/ Govern \/ Crash \/ UNCHANGED <<mem, disk, actor>>
    BY DEF Next, vars, Attest, Escalate, Mine, Tick
  <1>12. "approve" \in UserActions
    BY DEF UserActions
  <1> QED BY <1>2, <1>3, <1>4, <1>5, <1>6, <1>7, <1>8, <1>9, <1>10, <1>11, <1>12 DEF Job, Work

\* A new transaction for a visitor or a timeout is sent only by who found the entry clean.
LEMMA NoCompetingStep ==
    ASSUME DecisionInv, SignInv, [Next]_vars, NEW r \in Requests,
           disk[r].intent.hash # 0 \/ disk[r].receipt.origin # "none",
           NEW i \in TxIds, tx[i] = NoTx, tx'[i].request = r
    PROVE  tx'[i].by = "owner"
  <1>1. ~Clean(mem[r])
    BY DEF SignInv, FileBehind, Clean
  <1>2. 0 \notin Requests
    OBVIOUS
  <1>3. tx \in [TxIds -> Txs]
    BY DEF DecisionInv, TxOK
  <1>4. tx'[i] # tx[i]
    BY <1>2 DEF NoTx
  <1>5. ~ \E j \in TxIds : Mine(j)
    BY <1>3, <1>4 DEF Mine, NoTx
  <1>6. PICK a \in Actors : Broadcast(a)
    BY <1>4, <1>5 DEF Next, vars, chainVars, Start, Forget, Attest, Escalate, StartExpire, Job,
           Work, Expire, Govern, StartGovernance, Crash, Tick, Validate, Observe, Decide,
           RecordBroadcast, ClearIntent, RecordUser, Recover, Reconfirm, Resettle, SignOver,
           Confirm, RecordTimeout
  <1>7. actor[a].pc = "broadcasting" /\ Send(a)
    BY <1>4, <1>6 DEF Broadcast
  <1>8. tx'[i].request = actor[a].request /\ tx'[i].by = actor[a].by
    BY <1>3, <1>4, <1>7 DEF Send
  <1>9. SignerOK(mem, actor[a])
    BY DEF SignInv
  <1> QED BY <1>1, <1>7, <1>8, <1>9 DEF SignerOK

\* Once a broadcast or a receipt is on disk the server signs nothing more about the request
\* for a visitor or a timeout, whatever crashes, however old the nodes' answers and whoever
\* waits for the lock (the checks before and under withSafeLock in perform and expire).
THEOREM NothingCompetes == Spec => NoCompetingSignature
  <1>1. Init => DecisionInv /\ SignInv
    BY DecisionInit, SignInit
  <1>2. (DecisionInv /\ SignInv) /\ [Next]_vars => (DecisionInv /\ SignInv)'
    BY DecisionNext, SignNext
  <1>3. DecisionInv /\ SignInv /\ [Next]_vars =>
          [\A r \in Requests :
             disk[r].intent.hash # 0 \/ disk[r].receipt.origin # "none" =>
                \A i \in TxIds : tx[i] = NoTx /\ tx'[i].request = r => tx'[i].by = "owner"]_vars
    BY NoCompetingStep
  <1> QED BY <1>1, <1>2, <1>3, PTL DEF Spec, NoCompetingSignature

-----------------------------------------------------------------------------
(* The boundary of the window.  A step rewrites the entry of one request   *)
(* by one operation of the store, or forgets the memory.                   *)

WriteOf(r, noted) ==
    \/ /\ noted = observeAwaiting(mem, r)
       /\ actor[r].pc = "observing" \/ "AwaitingSafeApproval" \in readRequest(r)
    \/ /\ \E action : noted = recordIntent(observeAwaiting(mem, r), r, action)
       /\ mem[r].receipt.origin # "timeout" /\ "AwaitingSafeApproval" \in readRequest(r)
    \/ \E h : noted = recordBroadcast(r, h)
    \/ noted = clearIntent(r)
    \/ /\ \E action, h : noted = recordUserReceipt(r, action, h)
       /\ mem[r].intent.action # "none"
    \/ \E h : noted = recordTimeoutReceipt(r, h)

JournalStep ==
    \/ UNCHANGED <<mem, disk>>
    \/ mem' = disk /\ UNCHANGED <<disk, now, awaitingFrom>>
    \/ /\ \E r \in Requests : WriteOf(r, mem')
       /\ disk' \in {disk, mem, mem'} /\ UNCHANGED <<now, awaitingFrom>>

LEMMA JournalNext == DecisionInv /\ [Next]_vars => JournalStep
  <1> SUFFICES ASSUME DecisionInv, [Next]_vars PROVE JournalStep
    OBVIOUS
  <1>1. \A r \in Requests : r \in Actors
    BY DEF Actors
  <1>2. ASSUME NEW r \in Requests, Observe(r) PROVE JournalStep
    BY <1>2 DEF Observe, JournalStep, WriteOf, NoPersist, Persist, PersistFails, chainVars
  <1>3. ASSUME NEW r \in Requests, Decide(r) PROVE JournalStep
    <2>1. PICK seen \in readRequest(r) :
            \/ NoPersist
            \/ /\ seen = "AwaitingSafeApproval" /\ mem[r].receipt.origin # "timeout"
               /\ mem' = recordIntent(observeAwaiting(mem, r), r, actor[r].action)
               /\ disk' \in {disk, mem'}
      BY <1>3 DEF Decide, Persist, PersistFails
    <2>2. UNCHANGED <<now, awaitingFrom>>
      BY <1>3 DEF Decide, chainVars
    <2> QED BY <2>1, <2>2 DEF NoPersist, JournalStep, WriteOf
  <1>4. ASSUME NEW r \in Requests, RecordBroadcast(r) PROVE JournalStep
    <2>1. mem' = recordBroadcast(r, actor[r].tx) /\ disk' \in {disk, mem'}
      BY <1>4 DEF RecordBroadcast, Persist, PersistFails
    <2> QED BY <1>4, <2>1 DEF RecordBroadcast, chainVars, JournalStep, WriteOf
  <1>5. ASSUME NEW r \in Requests, ClearIntent(r) PROVE JournalStep
    BY <1>5 DEF ClearIntent, Persist, PersistFails, chainVars, JournalStep, WriteOf
  <1>6. ASSUME NEW r \in Requests, RecordUser(r) PROVE JournalStep
    <2>1. mem[r].intent.action \in UserActions
      BY <1>1, <1>6, Before DEF RecordUser, ActorOK, SigningPCs
    <2>2. \/ UNCHANGED <<mem, disk>>
          \/ /\ mem' = recordUserReceipt(r, actor[r].action, actor[r].tx)
             /\ disk' \in {disk, mem, mem'}
      BY <1>6 DEF RecordUser, Persist, PersistFails
    <2> QED BY <1>6, <2>1, <2>2 DEF RecordUser, chainVars, JournalStep, WriteOf, UserActions
  <1>7. ASSUME NEW r \in Requests, Resettle(r) PROVE JournalStep
    <2>1. mem[r].intent.hash # 0
      BY <1>1, <1>7, Before DEF Resettle, ActorOK
    <2>2. mem[r].intent.action # "none"
      BY <1>1, <2>1, Before DEF StoreOK, Entries, Intents, NoIntent, UserActions
    <2>3. \/ UNCHANGED <<mem, disk>>
          \/ /\ mem' = recordUserReceipt(r, actor[r].action, mem[r].intent.hash)
             /\ disk' \in {disk, mem, mem'}
      BY <1>7 DEF Resettle, Persist, PersistFails, NoPersist
    <2> QED BY <1>7, <2>2, <2>3 DEF Resettle, chainVars, JournalStep, WriteOf
  <1>8. ASSUME NEW a \in Actors, RecordTimeout(a) PROVE JournalStep
    <2>1. actor[a].request \in Requests
      BY <1>8, Before DEF RecordTimeout, ActorOK
    <2>2. /\ mem' = recordTimeoutReceipt(actor[a].request, actor[a].tx)
          /\ disk' \in {disk, mem'}
      BY <1>8 DEF RecordTimeout, Persist, PersistFails
    <2> QED BY <1>8, <2>1, <2>2 DEF RecordTimeout, chainVars, JournalStep, WriteOf
  <1>9. CASE Expire
    <2> DEFINE r == actor[Watchdog].request
    <2>1. r \in Requests
      BY <1>9, Before DEF Expire, ActorOK, Actors
    <2>2. \/ UNCHANGED <<mem, disk>>
          \/ /\ "AwaitingSafeApproval" \in readRequest(r)
             /\ mem' = observeAwaiting(mem, r) /\ disk' \in {disk, mem'}
      BY <1>9 DEF Expire, Persist, PersistFails, NoPersist
    <2>3. UNCHANGED <<now, awaitingFrom>>
      BY <1>9 DEF Expire, chainVars
    <2> HIDE DEF r
    <2> QED BY <2>1, <2>2, <2>3 DEF JournalStep, WriteOf
  <1>10. CASE Crash
    BY <1>10 DEF Crash, chainVars, JournalStep
  <1>11. \/ UNCHANGED <<mem, disk>> \/ Expire \/ Crash
         \/ \E r \in Requests : \/ Observe(r) \/ Decide(r) \/ RecordBroadcast(r)
                                \/ ClearIntent(r) \/ RecordUser(r) \/ Resettle(r)
         \/ \E a \in Actors : RecordTimeout(a)
    BY DEF Next, vars, Start, Forget, Attest, Escalate, StartExpire, Job, Work, Govern,
           StartGovernance, Tick, Mine, Validate, Recover, Reconfirm, SignOver, Broadcast, Confirm
  <1> QED BY <1>2, <1>3, <1>4, <1>5, <1>6, <1>7, <1>8, <1>9, <1>10, <1>11 DEF JournalStep

\* What the store never takes back: when the request was first seen waiting, until the
\* timeout is recorded, and that record.
Onward(old, new) ==
    /\ old.awaitingSince # 0 =>
         new.awaitingSince = old.awaitingSince \/ new.receipt.origin = "timeout"
    /\ old.receipt.origin = "timeout" => new.receipt.origin = "timeout"

\* Beside a timeout receipt no visitor's intent is left to be receipted.
TimeoutAlone(entry) == entry.receipt.origin = "timeout" => entry.intent.action = "none"

BoundaryInv ==
    \A r \in Requests :
        /\ TimeoutAlone(mem[r]) /\ TimeoutAlone(disk[r])
        /\ Onward(disk[r], mem[r])

LEMMA BoundaryInit == Init => BoundaryInv
  BY DEF Init, BoundaryInv, TimeoutAlone, Onward, NoEntry, NoReceipt

\* Each operation of the store takes every entry onward.
LEMMA WriteOnward ==
    ASSUME DecisionInv, NEW r \in Requests, NEW noted, WriteOf(r, noted),
           \A q \in Requests : TimeoutAlone(mem[q])
    PROVE  \A q \in Requests : Onward(mem[q], noted[q]) /\ TimeoutAlone(noted[q])
  <1>1. mem \in [Requests -> Entries] /\ now \in Nat
    BY DEF DecisionInv, EnvOK, StoreOK
  <1>2. CASE noted = observeAwaiting(mem, r)
    BY <1>1, <1>2 DEF observeAwaiting, Entries, Onward, TimeoutAlone
  <1>3. ASSUME NEW action, noted = recordIntent(observeAwaiting(mem, r), r, action),
               mem[r].receipt.origin # "timeout"
        PROVE  \A q \in Requests : Onward(mem[q], noted[q]) /\ TimeoutAlone(noted[q])
    <2> DEFINE seen == observeAwaiting(mem, r)
    <2>1. /\ seen \in [Requests -> Entries]
          /\ \A q \in Requests : Onward(mem[q], seen[q]) /\ seen[q].receipt = mem[q].receipt
                                 /\ TimeoutAlone(seen[q])
      BY <1>1 DEF observeAwaiting, Entries, Onward, TimeoutAlone
    <2>2. /\ noted[r].awaitingSince = seen[r].awaitingSince
          /\ noted[r].receipt = seen[r].receipt
          /\ \A q \in Requests : q # r => noted[q] = seen[q]
      BY <1>3, <2>1 DEF recordIntent, Entries
    <2> HIDE DEF seen
    <2> QED BY <1>3, <2>1, <2>2 DEF Onward, TimeoutAlone
  <1>4. ASSUME NEW h, noted = recordBroadcast(r, h)
        PROVE  \A q \in Requests : Onward(mem[q], noted[q]) /\ TimeoutAlone(noted[q])
    <2>1. /\ noted[r].awaitingSince = mem[r].awaitingSince
          /\ noted[r].receipt = mem[r].receipt
          /\ noted[r].intent.action = mem[r].intent.action
          /\ \A q \in Requests : q # r => noted[q] = mem[q]
      BY <1>1, <1>4 DEF recordBroadcast, Entries, Intents, NoIntent
    <2> QED BY <2>1 DEF Onward, TimeoutAlone
  <1>5. CASE noted = clearIntent(r)
    BY <1>1, <1>5 DEF clearIntent, Entries, NoIntent, Onward, TimeoutAlone
  <1>6. ASSUME NEW action, NEW h, noted = recordUserReceipt(r, action, h),
               mem[r].intent.action # "none"
        PROVE  \A q \in Requests : Onward(mem[q], noted[q]) /\ TimeoutAlone(noted[q])
    BY <1>1, <1>6 DEF recordUserReceipt, Entries, Onward, TimeoutAlone
  <1>7. ASSUME NEW h, noted = recordTimeoutReceipt(r, h)
        PROVE  \A q \in Requests : Onward(mem[q], noted[q]) /\ TimeoutAlone(noted[q])
    BY <1>1, <1>7 DEF recordTimeoutReceipt, NoEntry, NoIntent, Onward, TimeoutAlone
  <1> QED BY <1>2, <1>3, <1>4, <1>5, <1>6, <1>7 DEF WriteOf

LEMMA OnwardTransitive ==
    ASSUME NEW x, NEW y, NEW z, Onward(x, y), Onward(y, z)
    PROVE  Onward(x, z)
  BY DEF Onward

\* The file takes an entry onward too, and what is then in memory is onward of it.
LEMMA FileOnward ==
    ASSUME DecisionInv, BoundaryInv, [Next]_vars, NEW r \in Requests
    PROVE  /\ Onward(disk[r], disk'[r]) /\ Onward(disk'[r], mem'[r])
           /\ TimeoutAlone(mem'[r]) /\ TimeoutAlone(disk'[r])
  <1>1. JournalStep
    BY JournalNext
  <1>2. TimeoutAlone(mem[r]) /\ TimeoutAlone(disk[r]) /\ Onward(disk[r], mem[r])
    BY DEF BoundaryInv
  <1>3. \A x : Onward(x, x)
    BY DEF Onward
  <1>4. CASE UNCHANGED <<mem, disk>>
    BY <1>2, <1>3, <1>4
  <1>5. CASE mem' = disk /\ UNCHANGED disk
    BY <1>2, <1>3, <1>5
  <1>6. ASSUME NEW q \in Requests, WriteOf(q, mem'), disk' \in {disk, mem, mem'}
        PROVE  /\ Onward(disk[r], disk'[r]) /\ Onward(disk'[r], mem'[r])
               /\ TimeoutAlone(mem'[r]) /\ TimeoutAlone(disk'[r])
    <2>1. Onward(mem[r], mem'[r]) /\ TimeoutAlone(mem'[r])
      BY <1>6, WriteOnward DEF BoundaryInv
    <2>2. Onward(disk[r], mem'[r])
      BY <1>2, <2>1, OnwardTransitive
    <2> QED BY <1>2, <1>3, <1>6, <2>1, <2>2
  <1> QED BY <1>1, <1>4, <1>5, <1>6 DEF JournalStep

LEMMA BoundaryNext == DecisionInv /\ BoundaryInv /\ [Next]_vars => BoundaryInv'
  BY FileOnward DEF BoundaryInv

\* When a request was first seen waiting, once on disk, is neither reset nor lost before the
\* timeout itself is journalled, whatever crashes between memory and file (mutate,
\* observeAwaiting and recordTimeoutReceipt of the store).
THEOREM BoundaryIsKept == Spec => BoundaryKept
  <1>1. Init => DecisionInv /\ BoundaryInv
    BY DecisionInit, BoundaryInit
  <1>2. (DecisionInv /\ BoundaryInv) /\ [Next]_vars => (DecisionInv /\ BoundaryInv)'
    BY DecisionNext, BoundaryNext
  <1>3. DecisionInv /\ BoundaryInv /\ [Next]_vars =>
          [\A r \in Requests : disk[r].awaitingSince # 0 =>
              \/ disk'[r].awaitingSince = disk[r].awaitingSince
              \/ disk'[r].receipt.origin = "timeout"]_vars
    BY FileOnward DEF Onward
  <1> QED BY <1>1, <1>2, <1>3, PTL DEF Spec, BoundaryKept

-----------------------------------------------------------------------------
(* No early timeout.  What the journal notes as the beginning of the wait  *)
(* is never before the real one, and a signer for the timeout found the    *)
(* window over under the lock.                                             *)

\* The clock reads 1 or more, no wait begins in the future, and the requests that wait or
\* were settled are those that once began to wait.
ClockOK ==
    /\ now >= 1
    /\ \A r \in Requests : /\ chain[r] # "Requested" => awaitingFrom[r] # 0
                           /\ awaitingFrom[r] # 0 => chain[r] # "Requested"
                           /\ awaitingFrom[r] <= now

\* An entry never dates the wait before it began.
AwaitOK(entry, r) ==
    entry.awaitingSince # 0 => awaitingFrom[r] # 0 /\ awaitingFrom[r] <= entry.awaitingSince

\* The request of t waited for the whole window by the given time.
Waited(r, time) == awaitingFrom[r] # 0 /\ time >= awaitingFrom[r] + decisionWindow

ObserverOK(me) ==
    /\ me.pc = "observing" => awaitingFrom[me.request] # 0
    /\ me.pc \in SigningPCs /\ me.by = "timeout" => Waited(me.request, now)

WindowInv ==
    /\ ClockOK
    /\ \A r \in Requests : AwaitOK(mem[r], r) /\ AwaitOK(disk[r], r)
    /\ \A a \in Actors : ObserverOK(actor[a])
    /\ \A i \in TxIds : tx[i].by = "timeout" =>
         tx[i].request \in Requests /\ Waited(tx[i].request, tx[i].sentAt)

LEMMA WindowInit == Init => WindowInv
  BY DEF Init, WindowInv, ClockOK, AwaitOK, ObserverOK, Waited, SigningPCs, NoEntry, Idle, NoTx,
         Actors

LEMMA WindowInvWindow == DecisionInv /\ WindowInv => WindowKept
  BY DEF WindowInv, WindowKept, Waited

\* A node that says a request waits for the Safe is right that it began to.
LEMMA SeenAwaiting ==
    ASSUME WindowInv, NEW r \in Requests, "AwaitingSafeApproval" \in readRequest(r)
    PROVE  awaitingFrom[r] # 0
  BY DEF WindowInv, ClockOK, readRequest

\* What observeAwaiting notes is now or what it noted before.
LEMMA NotedAwaits ==
    ASSUME DecisionInv, WindowInv, NEW r \in Requests, awaitingFrom[r] # 0
    PROVE  /\ \A q \in Requests : AwaitOK(observeAwaiting(mem, r)[q], q)
           /\ mem[r].receipt.origin # "timeout" =>
                observeAwaiting(mem, r)[r].awaitingSince # 0
  <1>1. mem \in [Requests -> Entries] /\ now \in Nat
    BY DEF DecisionInv, EnvOK, StoreOK
  <1>2. awaitingFrom[r] <= now /\ now >= 1 /\ \A q \in Requests : AwaitOK(mem[q], q)
    BY DEF WindowInv, ClockOK
  <1> QED BY <1>1, <1>2 DEF observeAwaiting, Entries, AwaitOK

\* Who finds the window over by an entry that dates the wait has waited for it.
LEMMA OverIsWaited ==
    ASSUME DecisionInv, NEW E \in [Requests -> Entries], NEW r \in Requests,
           AwaitOK(E[r], r), E[r].awaitingSince # 0, WindowOver(E, r)
    PROVE  Waited(r, now)
  <1>1. now \in Nat /\ awaitingFrom[r] \in Nat /\ E[r].awaitingSince \in Nat
    BY DEF DecisionInv, EnvOK, Entries
  <1> QED BY <1>1 DEF AwaitOK, WindowOver, Waited

LEMMA WriteAwaits ==
    ASSUME DecisionInv, WindowInv, NEW r \in Requests, NEW noted, WriteOf(r, noted)
    PROVE  \A q \in Requests : AwaitOK(noted[q], q)
  <1>1. mem \in [Requests -> Entries] /\ now \in Nat /\ r \in Actors
    BY DEF DecisionInv, EnvOK, StoreOK, Actors
  <1>2. \A q \in Requests : AwaitOK(mem[q], q)
    BY DEF WindowInv
  <1>3. CASE noted = observeAwaiting(mem, r)
             /\ (actor[r].pc = "observing" \/ "AwaitingSafeApproval" \in readRequest(r))
    <2>1. actor[r].pc = "observing" => actor[r].request = r
      BY <1>1, Before DEF ActorOK, JobPCs
    <2>2. awaitingFrom[r] # 0
      BY <1>1, <1>3, <2>1, SeenAwaiting DEF WindowInv, ObserverOK
    <2> QED BY <1>3, <2>2, NotedAwaits
  <1>4. ASSUME NEW action, noted = recordIntent(observeAwaiting(mem, r), r, action),
               "AwaitingSafeApproval" \in readRequest(r)
        PROVE  \A q \in Requests : AwaitOK(noted[q], q)
    <2> DEFINE seen == observeAwaiting(mem, r)
    <2>1. \A q \in Requests : AwaitOK(seen[q], q)
      BY <1>4, SeenAwaiting, NotedAwaits
    <2>2. seen \in [Requests -> Entries]
      BY <1>1 DEF observeAwaiting, Entries
    <2>3. /\ noted[r].awaitingSince = seen[r].awaitingSince
          /\ \A q \in Requests : q # r => noted[q] = seen[q]
      BY <1>4, <2>2 DEF recordIntent, Entries
    <2> HIDE DEF seen
    <2> QED BY <2>1, <2>3 DEF AwaitOK
  <1>5. CASE (\E h : noted = recordBroadcast(r, h)) \/ noted = clearIntent(r)
    <2>1. /\ noted[r].awaitingSince = mem[r].awaitingSince
          /\ \A q \in Requests : q # r => noted[q] = mem[q]
      BY <1>1, <1>5 DEF recordBroadcast, clearIntent, Entries, Intents, NoIntent
    <2> QED BY <1>2, <2>1 DEF AwaitOK
  <1>6. CASE \E action, h : noted = recordUserReceipt(r, action, h)
    <2>1. /\ noted[r].awaitingSince = mem[r].awaitingSince
          /\ \A q \in Requests : q # r => noted[q] = mem[q]
      BY <1>1, <1>6 DEF recordUserReceipt, Entries
    <2> QED BY <1>2, <2>1 DEF AwaitOK
  <1>7. CASE \E h : noted = recordTimeoutReceipt(r, h)
    BY <1>1, <1>2, <1>7 DEF recordTimeoutReceipt, NoEntry, AwaitOK
  <1> QED BY <1>3, <1>4, <1>5, <1>6, <1>7 DEF WriteOf

\* The clock only goes on, and a wait once begun keeps its beginning.
WaitsOn ==
    /\ now' \in Nat /\ now <= now'
    /\ \A r \in Requests : awaitingFrom[r] # 0 => awaitingFrom'[r] = awaitingFrom[r]

LEMMA ClockNext ==
    ASSUME DecisionInv, WindowInv, [Next]_vars
    PROVE  WaitsOn /\ ClockOK'
  <1>1. /\ now \in Nat /\ chain \in [Requests -> RequestStates]
        /\ awaitingFrom \in [Requests -> Nat] /\ ClockOK
    BY DEF DecisionInv, EnvOK, WindowInv
  <1>2. CASE UNCHANGED <<now, chain, awaitingFrom>>
    BY <1>1, <1>2 DEF WaitsOn, ClockOK
  <1>3. CASE Tick
    BY <1>1, <1>3 DEF Tick, chainVars, WaitsOn, ClockOK
  <1>4. ASSUME NEW r \in Requests, Escalate(r) PROVE WaitsOn /\ ClockOK'
    BY <1>1, <1>4 DEF Escalate, RequestStates, WaitsOn, ClockOK
  <1>5. ASSUME NEW i \in TxIds, Mine(i) PROVE WaitsOn /\ ClockOK'
    <2>1. /\ UNCHANGED <<now, awaitingFrom>>
          /\ \/ UNCHANGED chain
             \/ /\ chain[tx[i].request] = "AwaitingSafeApproval"
                /\ chain' = [chain EXCEPT ![tx[i].request] = Outcome(tx[i].action)]
      BY <1>5 DEF Mine
    <2>2. \A r \in Requests : chain'[r] = chain[r]
            \/ (chain[r] # "Requested" /\ chain'[r] # "Requested")
      BY <1>1, <2>1 DEF Outcome
    <2> QED BY <1>1, <2>1, <2>2 DEF WaitsOn, ClockOK
  <1>6. \/ UNCHANGED <<now, chain, awaitingFrom>> \/ Tick
        \/ (\E r \in Requests : Escalate(r)) \/ (\E i \in TxIds : Mine(i))
    BY DEF Next, vars, chainVars, Start, Forget, Attest, StartExpire, Job, Work, Expire, Govern,
           StartGovernance, Crash, Validate, Observe, Decide, RecordBroadcast, ClearIntent,
           RecordUser, Recover, Reconfirm, Resettle, SignOver, Broadcast, Confirm, RecordTimeout
  <1> QED BY <1>2, <1>3, <1>4, <1>5, <1>6

LEMMA WaitedOn ==
    ASSUME DecisionInv, WaitsOn, NEW r \in Requests, NEW time, Waited(r, time)
    PROVE  Waited(r, time)'
  BY DEF WaitsOn, Waited

LEMMA AwaitOn ==
    ASSUME WaitsOn, NEW r \in Requests, NEW entry, AwaitOK(entry, r)
    PROVE  entry.awaitingSince # 0 =>
             awaitingFrom'[r] # 0 /\ awaitingFrom'[r] <= entry.awaitingSince
  BY DEF WaitsOn, AwaitOK

LEMMA EntriesAwait ==
    ASSUME DecisionInv, WindowInv, [Next]_vars
    PROVE  (\A r \in Requests : AwaitOK(mem[r], r) /\ AwaitOK(disk[r], r))'
  <1>1. WaitsOn /\ JournalStep
    BY ClockNext, JournalNext
  <1>2. \A r \in Requests : AwaitOK(mem[r], r) /\ AwaitOK(disk[r], r)
    BY DEF WindowInv
  <1>3. \A r \in Requests : AwaitOK(mem'[r], r) /\ AwaitOK(disk'[r], r)
    <2>1. CASE UNCHANGED <<mem, disk>>
      BY <1>2, <2>1
    <2>2. CASE mem' = disk /\ UNCHANGED disk
      BY <1>2, <2>2
    <2>3. ASSUME NEW q \in Requests, WriteOf(q, mem'), disk' \in {disk, mem, mem'}
          PROVE  \A r \in Requests : AwaitOK(mem'[r], r) /\ AwaitOK(disk'[r], r)
      BY <1>2, <2>3, WriteAwaits
    <2> QED BY <1>1, <2>1, <2>2, <2>3 DEF JournalStep
  <1>4. ASSUME NEW r \in Requests PROVE AwaitOK(mem[r], r)' /\ AwaitOK(disk[r], r)'
    <2>1. PICK e : e = mem'[r]
      OBVIOUS
    <2>2. PICK f : f = disk'[r]
      OBVIOUS
    <2>3. AwaitOK(e, r) /\ AwaitOK(f, r)
      BY <1>3, <2>1, <2>2
    <2>4. /\ e.awaitingSince # 0 => awaitingFrom'[r] # 0 /\ awaitingFrom'[r] <= e.awaitingSince
          /\ f.awaitingSince # 0 => awaitingFrom'[r] # 0 /\ awaitingFrom'[r] <= f.awaitingSince
      BY <1>1, <2>3, AwaitOn
    <2> QED BY <2>1, <2>2, <2>4 DEF AwaitOK
  <1> QED BY <1>4

\* An actor that keeps still, ends, or moves on with the same request on the same behalf.
LEMMA ObserverKept ==
    ASSUME DecisionInv, WindowInv, [Next]_vars, NEW a \in Actors,
           \/ actor'[a] = actor[a]
           \/ /\ actor'[a].request = actor[a].request /\ actor'[a].by = actor[a].by
              /\ actor'[a].pc # "observing"
              /\ actor'[a].pc \in SigningPCs => actor[a].pc \in SigningPCs
           \/ actor'[a].pc \in {"idle", "done", "validating", "queued", "recovering",
                                "reconfirming", "resettling"}
    PROVE  ObserverOK(actor[a])'
  <1>1. WaitsOn /\ now \in Nat
    BY ClockNext DEF DecisionInv, EnvOK
  <1>2. ObserverOK(actor[a]) /\ ActorOK(tx, mem, queue, actor[a], a)
    BY Before DEF WindowInv
  <1>3. actor[a].pc \notin {"idle", "done"} => actor[a].request \in Requests
    BY <1>2 DEF ActorOK
  <1>4. awaitingFrom \in [Requests -> Nat]
    BY DEF DecisionInv, EnvOK
  <1>5. CASE actor'[a].pc \in {"idle", "done", "validating", "queued", "recovering",
                               "reconfirming", "resettling"}
    BY <1>5 DEF ObserverOK, SigningPCs
  <1>6. ASSUME actor'[a].request = actor[a].request, actor'[a].by = actor[a].by,
               actor'[a].pc = "observing" => actor[a].pc = "observing",
               actor'[a].pc \in SigningPCs => actor[a].pc \in SigningPCs
        PROVE  ObserverOK(actor[a])'
    <2>1. actor'[a].pc = "observing" => awaitingFrom'[actor'[a].request] # 0
      BY <1>1, <1>2, <1>3, <1>6 DEF ObserverOK, WaitsOn
    <2>2. ASSUME actor'[a].pc \in SigningPCs, actor'[a].by = "timeout"
          PROVE  Waited(actor[a].request, now)'
      <3>1. actor[a].pc \in SigningPCs /\ actor[a].by = "timeout"
        BY <1>6, <2>2
      <3>2. actor[a].request \in Requests /\ Waited(actor[a].request, now)
        BY <1>2, <1>3, <3>1 DEF ObserverOK, SigningPCs
      <3> QED BY <1>1, <1>4, <1>6, <3>2 DEF WaitsOn, Waited
    <2> QED BY <2>1, <2>2 DEF ObserverOK
  <1> QED BY <1>5, <1>6

\* One actor moves; it need only be said how that one does.
LEMMA ObserverStep ==
    ASSUME DecisionInv, WindowInv, [Next]_vars, NEW a \in Actors,
           \A b \in Actors : b # a => actor'[b] = actor[b], ObserverOK(actor[a])'
    PROVE  (\A b \in Actors : ObserverOK(actor[b]))'
  BY ObserverKept

\* An actor that begins to sign for the timeout has waited, one that signs otherwise need not.
LEMMA SignerWaited ==
    ASSUME DecisionInv, WindowInv, [Next]_vars, NEW a \in Actors, actor[a].request \in Requests,
           NEW action \in UserActions \cup {"other", "none"},
           NEW by \in {"user", "timeout", "owner", "none"}, Signing(a, action, by),
           by = "timeout" => Waited(actor[a].request, now)
    PROVE  (\A b \in Actors : ObserverOK(actor[b]))'
  <1>1. /\ \A b \in Actors : b # a => actor'[b] = actor[b]
        /\ actor'[a].pc = "signing" /\ actor'[a].request = actor[a].request
        /\ actor'[a].by = by
    BY Before, SigningState
  <1>2. WaitsOn
    BY ClockNext
  <1>3. by = "timeout" => Waited(actor[a].request, now)'
    <2>1. PICK q \in Requests : q = actor[a].request
      OBVIOUS
    <2>2. by = "timeout" => Waited(q, now)'
      <3>1. PICK time : time = now
        OBVIOUS
      <3>2. now \in Nat /\ now' \in Nat /\ now <= now' /\ awaitingFrom \in [Requests -> Nat]
        BY <1>2 DEF WaitsOn, DecisionInv, EnvOK
      <3> QED BY <1>2, <2>1, <3>2 DEF WaitsOn, Waited
    <2> QED BY <1>1, <2>1, <2>2 DEF Waited
  <1>4. ObserverOK(actor[a])'
    BY <1>1, <1>3 DEF ObserverOK, Waited
  <1> QED BY <1>1, <1>4, ObserverStep

LEMMA DecideObserves ==
    ASSUME DecisionInv, WindowInv, [Next]_vars, NEW r \in Requests, Decide(r)
    PROVE  (\A b \in Actors : ObserverOK(actor[b]))'
  <1> DEFINE noted == observeAwaiting(mem, r)
  <1>1. r \in Actors /\ actor[r].pc = "queued"
    BY DEF Decide, Actors
  <1>2. actor[r].request = r /\ actor[r].action \in UserActions
    BY <1>1, Before DEF ActorOK
  <1>3. \/ Ended(r)
        \/ Signing(r, actor[r].action, "user")
        \/ /\ Signing(r, "reject", "timeout") /\ "AwaitingSafeApproval" \in readRequest(r)
           /\ mem[r].receipt.origin # "timeout" /\ WindowOver(noted, r)
    BY DEF Decide, EndUnlocked
  <1>4. CASE Ended(r)
    BY <1>1, <1>4, Before, ObserverKept, ObserverStep DEF Ended, Idle
  <1>5. CASE Signing(r, actor[r].action, "user")
    BY <1>1, <1>2, <1>5, SignerWaited
  <1>6. ASSUME Signing(r, "reject", "timeout"), "AwaitingSafeApproval" \in readRequest(r),
               mem[r].receipt.origin # "timeout", WindowOver(noted, r)
        PROVE  (\A b \in Actors : ObserverOK(actor[b]))'
    <2>1. AwaitOK(noted[r], r) /\ noted[r].awaitingSince # 0
      BY <1>6, SeenAwaiting, NotedAwaits
    <2>2. noted \in [Requests -> Entries]
      BY DEF DecisionInv, EnvOK, StoreOK, observeAwaiting, Entries
    <2> HIDE DEF noted
    <2>3. Waited(r, now)
      BY <1>6, <2>1, <2>2, OverIsWaited
    <2>4. "reject" \in UserActions \cup {"other", "none"}
      BY DEF UserActions
    <2> QED BY <1>1, <1>2, <1>6, <2>3, <2>4, SignerWaited
  <1> QED BY <1>3, <1>4, <1>5, <1>6

LEMMA ExpireObserves ==
    ASSUME DecisionInv, WindowInv, [Next]_vars, Expire
    PROVE  (\A b \in Actors : ObserverOK(actor[b]))'
  <1> DEFINE r == actor[Watchdog].request
  <1>1. Watchdog \in Actors /\ actor[Watchdog].pc = "queued"
    BY DEF Expire, Actors
  <1>2. r \in Requests
    BY <1>1, Before DEF ActorOK
  <1>3. \/ Ended(Watchdog)
        \/ /\ Signing(Watchdog, "reject", "timeout")
           /\ "AwaitingSafeApproval" \in readRequest(r)
           /\ mem[r].receipt.origin = "none" /\ observeAwaiting(mem, r) = mem
           /\ WindowOver(mem, r)
    BY DEF Expire, EndUnlocked, LeftToWatchdog
  <1>4. CASE Ended(Watchdog)
    BY <1>1, <1>4, Before, ObserverKept, ObserverStep DEF Ended, Idle
  <1>5. ASSUME Signing(Watchdog, "reject", "timeout"), "AwaitingSafeApproval" \in readRequest(r),
               mem[r].receipt.origin = "none", observeAwaiting(mem, r) = mem,
               WindowOver(mem, r)
        PROVE  (\A b \in Actors : ObserverOK(actor[b]))'
    <2> HIDE DEF r
    <2>1. AwaitOK(mem[r], r) /\ mem[r].awaitingSince # 0
      BY <1>2, <1>5, SeenAwaiting, NotedAwaits
    <2>2. mem \in [Requests -> Entries]
      BY DEF DecisionInv, StoreOK
    <2>3. Waited(r, now)
      BY <1>2, <1>5, <2>1, <2>2, OverIsWaited
    <2>4. "reject" \in UserActions \cup {"other", "none"}
      BY DEF UserActions
    <2> QED BY <1>1, <1>2, <1>5, <2>3, <2>4, SignerWaited DEF r
  <1> QED BY <1>2, <1>3, <1>4, <1>5

LEMMA ValidateObserves ==
    ASSUME DecisionInv, WindowInv, [Next]_vars, NEW r \in Requests, Validate(r)
    PROVE  (\A b \in Actors : ObserverOK(actor[b]))'
  <1>1. r \in Actors /\ actor[r].pc = "validating"
    BY DEF Validate, Actors
  <1>2. actor[r].request = r
    BY <1>1, Before DEF ActorOK
  <1>3. \/ Ended(r) \/ Go(r, "recovering")
        \/ Go(r, "observing") /\ "AwaitingSafeApproval" \in readRequest(r)
    BY DEF Validate
  <1>4. CASE Ended(r)
    BY <1>1, <1>4, Before, ObserverKept, ObserverStep DEF Ended, Idle
  <1>5. CASE Go(r, "recovering")
    BY <1>1, <1>5, Before, GoState, ObserverKept, ObserverStep DEF PCs
  <1>6. CASE Go(r, "observing") /\ "AwaitingSafeApproval" \in readRequest(r)
    <2>1. /\ actor'[r].pc = "observing" /\ actor'[r].request = r
          /\ \A b \in Actors : b # r => actor'[b] = actor[b]
      BY <1>1, <1>2, <1>6, Before, GoState DEF PCs
    <2>2. awaitingFrom'[r] # 0
      BY <1>6, SeenAwaiting, ClockNext DEF WaitsOn
    <2>3. ObserverOK(actor[r])'
      BY <2>1, <2>2 DEF ObserverOK, SigningPCs
    <2> QED BY <1>1, <2>1, <2>3, ObserverStep
  <1> QED BY <1>3, <1>4, <1>5, <1>6

\* The steps of an actor that is signing, or that ends.
LEMMA SendingObserves ==
    ASSUME DecisionInv, WindowInv, [Next]_vars, NEW a \in Actors,
           \/ SignOver(a) \/ Broadcast(a) \/ Confirm(a) \/ RecordTimeout(a)
           \/ RecordBroadcast(a) \/ ClearIntent(a) \/ RecordUser(a)
           \/ Recover(a) \/ Reconfirm(a) \/ Resettle(a) \/ Observe(a)
    PROVE  (\A b \in Actors : ObserverOK(actor[b]))'
  <1>1. actor[a] \in ActorStates /\ actor \in [Actors -> ActorStates]
    BY Before
  <1>2. \/ Ended(a)
        \/ \E pc \in {"reconfirming", "resettling", "queued"} : Go(a, pc)
        \/ /\ actor[a].pc \in SigningPCs
           /\ \/ \E n : actor' = [actor EXCEPT ![a].pc = "broadcasting", ![a].nonce = n]
              \/ \E pc \in {"journalling", "confirming"} :
                   actor' = [actor EXCEPT ![a].tx = nextTx, ![a].pc = pc]
              \/ \E pc \in {"clearing", "confirming", "recording"} : Go(a, pc)
    BY DEF SignOver, Broadcast, Confirm, RecordTimeout, RecordBroadcast, ClearIntent, RecordUser,
           Recover, Reconfirm, Resettle, Observe, EndUnlocked, NotSent, SigningPCs
  <1>3. CASE Ended(a)
    BY <1>1, <1>3, ObserverKept, ObserverStep DEF Ended, Idle
  <1>4. ASSUME NEW pc \in {"reconfirming", "resettling", "queued"}, Go(a, pc)
        PROVE  (\A b \in Actors : ObserverOK(actor[b]))'
    BY <1>1, <1>4, GoState, ObserverKept, ObserverStep DEF PCs
  <1>5. ASSUME actor[a].pc \in SigningPCs,
               NEW pc \in SigningPCs,
               \/ \E n : actor' = [actor EXCEPT ![a].pc = pc, ![a].nonce = n]
               \/ actor' = [actor EXCEPT ![a].tx = nextTx, ![a].pc = pc]
               \/ Go(a, pc)
        PROVE  (\A b \in Actors : ObserverOK(actor[b]))'
    <2>1. /\ \A b \in Actors : b # a => actor'[b] = actor[b]
          /\ actor'[a].pc = pc /\ actor'[a].request = actor[a].request
          /\ actor'[a].by = actor[a].by
      <3>1. CASE \E n : actor' = [actor EXCEPT ![a].pc = pc, ![a].nonce = n]
        <4>1. PICK n : actor' = [actor EXCEPT ![a].pc = pc, ![a].nonce = n]
          BY <3>1
        <4> QED BY <1>1, <4>1 DEF ActorStates
      <3>2. CASE actor' = [actor EXCEPT ![a].tx = nextTx, ![a].pc = pc]
        BY <1>1, <3>2, Zenon DEF ActorStates
      <3>3. CASE Go(a, pc)
        BY <1>1, <3>3, GoState DEF SigningPCs, PCs
      <3> QED BY <1>5, <3>1, <3>2, <3>3
    <2>2. pc # "observing"
      BY DEF SigningPCs
    <2> QED BY <1>5, <2>1, <2>2, ObserverKept, ObserverStep
  <1> QED BY <1>2, <1>3, <1>4, <1>5 DEF SigningPCs

LEMMA ObserversNext ==
    ASSUME DecisionInv, WindowInv, [Next]_vars
    PROVE  (\A b \in Actors : ObserverOK(actor[b]))'
  <1>1. \A r \in Requests : r \in Actors
    BY DEF Actors
  <1>2. CASE UNCHANGED actor
    BY <1>2, ObserverKept
  <1>3. ASSUME NEW r \in Requests, NEW action \in UserActions, Start(r, action) \/ Forget(r)
        PROVE  (\A b \in Actors : ObserverOK(actor[b]))'
    <2>1. /\ actor'[r].pc \in {"validating", "idle"}
          /\ \A b \in Actors : b # r => actor'[b] = actor[b]
      <3>1. CASE Start(r, action)
        BY <1>1, <3>1, Before DEF Start, Idle, ActorStates, PCs
      <3>2. CASE Forget(r)
        BY <1>1, <3>2, Before DEF Forget, Idle, ActorStates, PCs
      <3> QED BY <1>3, <3>1, <3>2
    <2> QED BY <1>1, <2>1, ObserverKept, ObserverStep
  <1>4. ASSUME NEW r \in Requests, NEW action, StartExpire(r) \/ StartGovernance(r, action)
        PROVE  (\A b \in Actors : ObserverOK(actor[b]))'
    <2>1. PICK a \in {Watchdog, Owner} :
            actor'[a].pc = "queued" /\ \A b \in Actors : b # a => actor'[b] = actor[b]
      BY <1>4, Before DEF StartExpire, StartGovernance, Idle, Actors
    <2>2. a \in Actors
      BY DEF Actors
    <2> QED BY <2>1, <2>2, ObserverKept, ObserverStep
  <1>5. CASE Govern
    <2>1. Owner \in Actors /\ actor[Owner].pc = "queued"
      BY <1>5 DEF Govern, Actors
    <2>2. actor[Owner].request \in Requests /\ actor[Owner] \in ActorStates
      BY <2>1, Before DEF ActorOK
    <2>3. Ended(Owner) \/ Signing(Owner, actor[Owner].action, "owner")
      BY <1>5 DEF Govern, EndUnlocked
    <2>4. CASE Ended(Owner)
      BY <2>1, <2>4, Before, ObserverKept, ObserverStep DEF Ended, Idle
    <2> QED BY <2>1, <2>2, <2>3, <2>4, SignerWaited DEF ActorStates
  <1>6. CASE Crash
    BY <1>6 DEF Crash, Idle, ObserverOK, SigningPCs
  <1>7. \/ UNCHANGED actor \/ Crash \/ Govern \/ Expire
        \/ \E r \in Requests, action \in UserActions : Start(r, action) \/ Forget(r)
        \/ \E r \in Requests : \E action : StartExpire(r) \/ StartGovernance(r, action)
        \/ \E r \in Requests : Job(r)
        \/ \E a \in Actors : Work(a)
    BY DEF Next, vars, Attest, Escalate, Mine, Tick, UserActions
  <1> QED BY <1>1, <1>2, <1>3, <1>4, <1>5, <1>6, <1>7, DecideObserves, ExpireObserves,
          ValidateObserves, SendingObserves DEF Job, Work

\* Only a signer for the timeout sends for it, and it stamps what it sends.
LEMMA SentAfterWindow ==
    ASSUME DecisionInv, WindowInv, [Next]_vars
    PROVE  (\A i \in TxIds : tx[i].by = "timeout" =>
             tx[i].request \in Requests /\ Waited(tx[i].request, tx[i].sentAt))'
  <1>1. WaitsOn
    BY ClockNext
  <1>2. tx \in [TxIds -> Txs] /\ awaitingFrom \in [Requests -> Nat]
    BY DEF DecisionInv, TxOK, EnvOK
  <1>3. SUFFICES ASSUME NEW i \in TxIds, tx'[i].by = "timeout"
                 PROVE  /\ tx'[i].request \in Requests
                        /\ awaitingFrom'[tx'[i].request] # 0
                        /\ tx'[i].sentAt >= awaitingFrom'[tx'[i].request] + decisionWindow
    BY DEF Waited
  <1>4. CASE /\ tx'[i].by = tx[i].by /\ tx'[i].request = tx[i].request
             /\ tx'[i].sentAt = tx[i].sentAt
    BY <1>1, <1>3, <1>4 DEF WindowInv, Waited, WaitsOn
  <1>5. ASSUME NEW a \in Actors, Broadcast(a), Send(a), i = nextTx
        PROVE  /\ tx'[i].request \in Requests
               /\ awaitingFrom'[tx'[i].request] # 0
               /\ tx'[i].sentAt >= awaitingFrom'[tx'[i].request] + decisionWindow
    <2>1. /\ tx'[i].by = actor[a].by /\ tx'[i].request = actor[a].request
          /\ tx'[i].sentAt = now
      BY <1>2, <1>5 DEF Send
    <2>2. actor[a].pc = "broadcasting"
      BY <1>5 DEF Broadcast
    <2>3. actor[a].request \in Requests
      BY <2>2, Before DEF ActorOK
    <2>4. Waited(actor[a].request, now)
      BY <1>3, <2>1, <2>2 DEF WindowInv, ObserverOK, SigningPCs
    <2> QED BY <1>1, <2>1, <2>3, <2>4 DEF Waited, WaitsOn
  <1>6. ASSUME NEW j \in TxIds, Mine(j)
        PROVE  /\ tx'[i].by = tx[i].by /\ tx'[i].request = tx[i].request
               /\ tx'[i].sentAt = tx[i].sentAt
    BY <1>2, <1>6 DEF Mine, Txs
  <1>7. ASSUME NEW a \in Actors, Broadcast(a)
        PROVE  tx'[i] = tx[i] \/ (Send(a) /\ i = nextTx)
    BY <1>2, <1>7 DEF Broadcast, Send
  <1>8. UNCHANGED tx \/ (\E a \in Actors : Broadcast(a)) \/ (\E j \in TxIds : Mine(j))
    BY DEF Next, vars, chainVars, Start, Forget, Attest, Escalate, StartExpire, Job, Work,
           Expire, Govern, StartGovernance, Crash, Tick, Validate, Observe, Decide,
           RecordBroadcast, ClearIntent, RecordUser, Recover, Reconfirm, Resettle, SignOver,
           Confirm, RecordTimeout
  <1> QED BY <1>4, <1>5, <1>6, <1>7, <1>8

LEMMA WindowNext == DecisionInv /\ WindowInv /\ [Next]_vars => WindowInv'
  <1> SUFFICES ASSUME DecisionInv, WindowInv, [Next]_vars PROVE WindowInv'
    OBVIOUS
  <1>1. ClockOK'
    BY ClockNext
  <1> QED BY <1>1, EntriesAwait, ObserversNext, SentAfterWindow DEF WindowInv

\* No timeout is signed before its request has waited for the whole window, by the clock of
\* the server and the real beginning of the wait, though the beginning is only known from
\* nodes that lag and a journal that may fail (perform, expire and observeAwaiting).
THEOREM NoTimeoutIsEarly == Spec => []WindowKept
  <1>1. Init => DecisionInv /\ WindowInv
    BY DecisionInit, WindowInit
  <1>2. (DecisionInv /\ WindowInv) /\ [Next]_vars => (DecisionInv /\ WindowInv)'
    BY DecisionNext, WindowNext
  <1> QED BY <1>1, <1>2, WindowInvWindow, PTL DEF Spec

-----------------------------------------------------------------------------
(* The lock and the nonce.  While nothing fails, who has a transaction     *)
(* pending still holds the lock, so there is at most one, and what it was  *)
(* signed over is still the nonce of the Safe.                             *)

\* Actor a waits for the outcome of transaction i.
AwaitsOutcome(a, i) == actor[a].pc \in {"journalling", "confirming"} /\ actor[a].tx = i

NonceInv ==
    faults = 0 /\ ~StaleReads =>
        \A i \in TxIds :
            /\ tx[i].status # "badNonce"
            /\ tx[i].status = "pending" =>
                 tx[i].nonce = safeNonce /\ \E a \in Actors : AwaitsOutcome(a, i)

LEMMA NonceInit == Init => NonceInv
  BY DEF Init, NonceInv, NoTx

\* Two do not wait at once.
LEMMA OnePending ==
    ASSUME DecisionInv, NEW a \in Actors, NEW b \in Actors,
           actor[a].pc \in LockPCs, actor[b].pc \in LockPCs
    PROVE  a = b
  BY Before DEF ActorOK, Holds

\* A step without transactions, in which who waits for a pending one goes on waiting.
LEMMA WaitingStep ==
    ASSUME NonceInv, UNCHANGED <<tx, safeNonce>>, UNCHANGED faults \/ faults' # 0,
           \/ faults' # 0
           \/ \A a \in Actors, i \in TxIds :
                tx[i].status = "pending" /\ AwaitsOutcome(a, i) => AwaitsOutcome(a, i)'
    PROVE  NonceInv'
  BY DEF NonceInv

\* A step of one actor that waits for none that is pending.
LEMMA OtherWaitingStep ==
    ASSUME NonceInv, UNCHANGED <<tx, safeNonce>>, UNCHANGED faults \/ faults' # 0, NEW a \in Actors,
           \A b \in Actors : b # a => actor'[b] = actor[b],
           faults' # 0 \/ \A i \in TxIds : tx[i].status = "pending" => ~AwaitsOutcome(a, i)
    PROVE  NonceInv'
  <1>1. CASE faults' # 0
    BY <1>1 DEF NonceInv
  <1>2. CASE \A i \in TxIds : tx[i].status = "pending" => ~AwaitsOutcome(a, i)
    BY <1>2, WaitingStep DEF AwaitsOutcome
  <1> QED BY <1>1, <1>2

LEMMA FaultCounts ==
    ASSUME DecisionInv
    PROVE  (Fault => faults' # 0) /\ (Fault \/ NoFault => UNCHANGED faults \/ faults' # 0)
  BY DEF DecisionInv, EnvOK, Fault, NoFault

LEMMA BroadcastNonce ==
    ASSUME DecisionInv, NonceInv, NEW a \in Actors, Broadcast(a)
    PROVE  NonceInv'
  <1>1. /\ actor[a].pc = "broadcasting" /\ UNCHANGED safeNonce
        /\ actor[a].pc \in LockPCs
    BY DEF Broadcast, LockPCs
  <1>2. actor \in [Actors -> ActorStates] /\ TxOK(tx, nextTx)
    BY Before DEF DecisionInv
  <1>3. CASE faults' # 0
    BY <1>3 DEF NonceInv
  <1>4. ASSUME UNCHANGED tx, NoFault, NotSent(a) PROVE NonceInv'
    <2>1. \A b \in Actors : b # a => actor'[b] = actor[b]
      BY <1>2, <1>4 DEF NotSent, Go, EndUnlocked, Ended
    <2>2. \A i \in TxIds : ~AwaitsOutcome(a, i)
      BY <1>1 DEF AwaitsOutcome
    <2> QED BY <1>1, <1>4, <2>1, <2>2, OtherWaitingStep DEF NoFault
  <1>5. ASSUME NEW n \in readNonce, NEW seen, Estimated(a, n, seen), Send(a), NoFault,
               NEW pc \in {"journalling", "confirming"},
               actor' = [actor EXCEPT ![a].tx = nextTx, ![a].pc = pc]
        PROVE  NonceInv'
    <2>1. SUFFICES ASSUME faults = 0, ~StaleReads PROVE NonceInv'
      BY <1>5 DEF NonceInv, NoFault
    <2>2. actor[a].nonce = safeNonce
      BY <1>5, <2>1 DEF Estimated, readNonce
    <2>3. \A i \in TxIds : tx[i].status # "pending"
      BY <1>1, <2>1, OnePending DEF NonceInv, AwaitsOutcome, LockPCs
    <2>4. /\ nextTx \in TxIds /\ tx'[nextTx].nonce = safeNonce
          /\ tx'[nextTx].status = "pending"
          /\ \A i \in TxIds : i # nextTx => tx'[i] = tx[i]
      BY <1>2, <1>5, <2>2 DEF Send, TxOK
    <2>5. actor'[a].tx = nextTx /\ actor'[a].pc \in {"journalling", "confirming"}
      BY <1>2, <1>5, Zenon DEF ActorStates
    <2> QED BY <1>1, <2>1, <2>3, <2>4, <2>5 DEF NonceInv, AwaitsOutcome
  <1>6. faults' # 0 \/ (UNCHANGED tx /\ NoFault /\ NotSent(a))
        \/ \E n \in readNonce, seen \in readRequest(actor[a].request),
              pc \in {"journalling", "confirming"} :
             /\ Estimated(a, n, seen) /\ Send(a) /\ NoFault
             /\ actor' = [actor EXCEPT ![a].tx = nextTx, ![a].pc = pc]
    BY FaultCounts DEF Broadcast
  <1> QED BY <1>3, <1>4, <1>5, <1>6

LEMMA MineNonce ==
    ASSUME DecisionInv, NonceInv, NEW i \in TxIds, Mine(i)
    PROVE  NonceInv'
  <1>1. SUFFICES ASSUME faults = 0, ~StaleReads PROVE NonceInv'
    BY DEF Mine, NonceInv
  <1>2. tx \in [TxIds -> Txs]
    BY DEF DecisionInv, TxOK
  <1>3. tx[i].status = "pending" /\ tx[i].nonce = safeNonce /\ UNCHANGED <<actor, faults>>
    BY <1>1 DEF Mine, NonceInv
  <1>4. PICK s \in {"refused", "success"} : tx' = [tx EXCEPT ![i].status = s]
    BY <1>3 DEF Mine
  <1>5. tx'[i].status = s /\ \A j \in TxIds : j # i => tx'[j] = tx[j]
    BY <1>2, <1>4 DEF Txs
  <1>6. ASSUME NEW j \in TxIds, j # i PROVE tx[j].status # "pending"
    <2>1. SUFFICES ASSUME tx[j].status = "pending" PROVE FALSE
      OBVIOUS
    <2>2. PICK a \in Actors, b \in Actors : AwaitsOutcome(a, i) /\ AwaitsOutcome(b, j)
      BY <1>1, <1>3, <2>1 DEF NonceInv
    <2> QED BY <1>6, <2>2, OnePending DEF AwaitsOutcome, LockPCs
  <1> QED BY <1>1, <1>3, <1>5, <1>6 DEF NonceInv

\* Who waits leaves only with an outcome, or with a fault.
LEMMA LeaveNonce ==
    ASSUME DecisionInv, NonceInv, NEW a \in Actors, RecordBroadcast(a) \/ Confirm(a)
    PROVE  NonceInv'
  <1>1. actor \in [Actors -> ActorStates] /\ UNCHANGED <<tx, safeNonce>>
    BY Before DEF RecordBroadcast, Confirm, chainVars
  <1>2. UNCHANGED faults \/ faults' # 0
    BY FaultCounts DEF RecordBroadcast, Confirm, Persist, PersistFails
  <1>3. CASE RecordBroadcast(a)
    <2>1. faults' # 0 \/ Go(a, "confirming")
      BY <1>3, FaultCounts DEF RecordBroadcast, PersistFails
    <2>2. CASE Go(a, "confirming")
      <3>1. /\ actor'[a].pc = "confirming" /\ actor'[a].tx = actor[a].tx
            /\ \A b \in Actors : b # a => actor'[b] = actor[b]
        BY <1>1, <2>2, GoState DEF PCs
      <3> QED BY <1>1, <1>2, <3>1, WaitingStep DEF AwaitsOutcome
    <2> QED BY <2>1, <2>2 DEF NonceInv
  <1>4. CASE Confirm(a)
    <2>1. \A b \in Actors : b # a => actor'[b] = actor[b]
      BY <1>1, <1>4 DEF Confirm, Go, EndUnlocked, Ended
    <2>2. faults' # 0 \/ tx[actor[a].tx].status # "pending"
      BY <1>4, FaultCounts DEF Confirm
    <2> QED BY <1>1, <1>2, <2>1, <2>2, OtherWaitingStep DEF AwaitsOutcome
  <1> QED BY <1>3, <1>4

LEMMA NonceNext == DecisionInv /\ NonceInv /\ [Next]_vars => NonceInv'
  <1> SUFFICES ASSUME DecisionInv, NonceInv, [Next]_vars PROVE NonceInv'
    OBVIOUS
  <1>1. \A r \in Requests : r \in Actors
    BY DEF Actors
  <1>2. actor \in [Actors -> ActorStates]
    BY DEF DecisionInv
  <1>3. CASE UNCHANGED <<tx, safeNonce, actor, faults>>
    BY <1>3, WaitingStep DEF AwaitsOutcome
  <1>4. ASSUME NEW a \in Actors, UNCHANGED <<tx, safeNonce>>, Fault \/ NoFault \/ UNCHANGED faults,
               \A b \in Actors : b # a => actor'[b] = actor[b],
               actor[a].pc \notin {"journalling", "confirming"}
        PROVE  NonceInv'
    BY <1>4, FaultCounts, OtherWaitingStep DEF AwaitsOutcome
  <1>5. ASSUME NEW r \in Requests, NEW action, Start(r, action) \/ Forget(r) PROVE NonceInv'
    BY <1>1, <1>2, <1>4, <1>5 DEF Start, Forget, chainVars
  <1>6. ASSUME NEW r \in Requests, NEW action, StartExpire(r) \/ StartGovernance(r, action)
        PROVE  NonceInv'
    BY <1>2, <1>4, <1>6 DEF StartExpire, StartGovernance, chainVars, Actors
  <1>7. ASSUME NEW a \in Actors, SignOver(a) \/ RecordTimeout(a) PROVE NonceInv'
    <2>1. UNCHANGED <<tx, safeNonce>> /\ actor[a].pc \notin {"journalling", "confirming"}
      BY <1>7 DEF SignOver, RecordTimeout, chainVars
    <2>2. Fault \/ NoFault \/ UNCHANGED faults
      BY <1>7 DEF SignOver, RecordTimeout, Persist, PersistFails
    <2>3. \A b \in Actors : b # a => actor'[b] = actor[b]
      BY <1>2, <1>7 DEF SignOver, RecordTimeout, EndUnlocked, Ended
    <2> QED BY <1>4, <2>1, <2>2, <2>3
  <1>8. ASSUME NEW r \in Requests,
               \/ Validate(r) \/ Observe(r) \/ Decide(r) \/ ClearIntent(r) \/ RecordUser(r)
               \/ Recover(r) \/ Reconfirm(r) \/ Resettle(r)
        PROVE  NonceInv'
    <2>1. UNCHANGED <<tx, safeNonce>> /\ actor[r].pc \notin {"journalling", "confirming"}
      BY <1>8 DEF Validate, Observe, Decide, ClearIntent, RecordUser, Recover, Reconfirm, Resettle,
                  chainVars
    <2>2. Fault \/ NoFault \/ UNCHANGED faults
      BY <1>8 DEF Validate, Observe, Decide, ClearIntent, RecordUser, Recover, Reconfirm, Resettle,
                  Persist, PersistFails
    <2>3. Ended(r) \/ (\E pc : Go(r, pc)) \/ (\E action, by : Signing(r, action, by))
      BY <1>8 DEF Validate, Observe, Decide, ClearIntent, RecordUser, Recover, Reconfirm, Resettle,
                  EndUnlocked
    <2>4. \A b \in Actors : b # r => actor'[b] = actor[b]
      BY <1>2, <2>3 DEF Ended, Go, Signing
    <2> QED BY <1>1, <1>4, <2>1, <2>2, <2>4
  <1>9. CASE Expire \/ Govern
    <2>1. PICK a \in {Watchdog, Owner} :
            /\ actor[a].pc = "queued"
            /\ Ended(a) \/ \E action, by : Signing(a, action, by)
      BY <1>9 DEF Expire, Govern, EndUnlocked
    <2>2. UNCHANGED <<tx, safeNonce>> /\ (Fault \/ NoFault \/ UNCHANGED faults)
      BY <1>9 DEF Expire, Govern, chainVars, Persist, PersistFails
    <2>3. a \in Actors /\ \A b \in Actors : b # a => actor'[b] = actor[b]
      BY <1>2, <2>1 DEF Ended, Signing, Actors
    <2> QED BY <1>4, <2>1, <2>2, <2>3
  <1>10. CASE Crash
    BY <1>10, FaultCounts DEF Crash, NonceInv
  <1>11. \/ UNCHANGED <<tx, safeNonce, actor, faults>> \/ Crash \/ Expire \/ Govern
         \/ \E r \in Requests : \E action : Start(r, action) \/ Forget(r)
         \/ \E r \in Requests : \E action : StartExpire(r) \/ StartGovernance(r, action)
         \/ \E r \in Requests : Job(r)
         \/ \E a \in Actors : Work(a)
         \/ \E i \in TxIds : Mine(i)
    BY DEF Next, vars, chainVars, Attest, Escalate, Tick
  <1> QED BY <1>1, <1>3, <1>5, <1>6, <1>7, <1>8, <1>9, <1>10, <1>11, BroadcastNonce, MineNonce,
          LeaveNonce DEF Job, Work

LEMMA NonceInvProtects == NonceInv => LockProtectsNonce
  BY DEF NonceInv, LockProtectsNonce

\* Without faults and lagging nodes no signature is spoilt by another over the same nonce, for
\* any number of jobs, sweeps and owners: withSafeLock is held until the outcome is known.
THEOREM LockKeepsNonce == Spec => []LockProtectsNonce
  <1>1. Init => DecisionInv /\ NonceInv
    BY DecisionInit, NonceInit
  <1>2. (DecisionInv /\ NonceInv) /\ [Next]_vars => (DecisionInv /\ NonceInv)'
    BY DecisionNext, NonceNext
  <1> QED BY <1>1, <1>2, NonceInvProtects, PTL DEF Spec

=============================================================================
