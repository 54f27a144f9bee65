----------------------- MODULE FinalizeCourier_proofs -----------------------
(***************************************************************************)
(* Theorems about FinalizeCourier, for any number of requests, of HTTP     *)
(* calls under way and of other admin transactions, and any crashes and    *)
(* faults: requests are owned exactly, nonces are fresh, and a transaction *)
(* the server follows is never in the way of another.                      *)
(***************************************************************************)
EXTENDS FinalizeCourier, FiniteSetTheorems, TLAPS

-----------------------------------------------------------------------------
(* The inductive invariant, in five parts.                                 *)

AdminUsers == Server \cup {Treasury}

JobStates == [pc : Pcs, r : 0 .. MaxRequests, nonce : Nat, id : Nat]
TxRecords == [by : {"admin", "keeper"}, r : 0 .. MaxRequests, nonce : Nat,
              status : {"pending", "mined", "reverted"}, watched : BOOLEAN]

CourierTypes ==
    /\ chain \in [Requests -> RequestStates]
    /\ resolved \in SUBSET Requests /\ finalizing \in SUBSET Requests
    /\ job \in [Callers -> JobStates]
    /\ cursor \in [Loops -> 1 .. MaxRequests + 1]
    /\ queue \in Seq(AdminUsers)
    /\ tx \in Seq(TxRecords)
    /\ settledBy \in [Requests -> Nat]
    /\ faults \in 0 .. MaxFaults

FinalizePcs == {"read", "probe", "decrypt", "estimate", "nonce", "send", "receipt"}

\* What each caller may be doing: only the sweeper sweeps, the keeper owns nothing and the
\* treasury has no request.
RoleOK(c, me) ==
    /\ me.pc \in {"idle", "loop"} => me.r = 0
    /\ me.pc \notin {"idle", "loop"} /\ c # Treasury => me.r \in Requests
    /\ c \in Posts => me.pc \in FinalizePcs \cup {"idle"}
    /\ c = Treasury => me.r = 0 /\ me.pc \in {"idle", "nonce", "send", "receipt"}
    /\ c = Keeper => me.pc \notin {"peekProbe", "expire", "read"}

RolesInv ==
    /\ \A c \in Callers : RoleOK(c, job[c])
    /\ \A c \in Loops : job[c].pc \notin {"idle", "loop"} => cursor[c] \in Requests

\* The admin lock: in line are those who asked for it and are not done, each once; who is
\* about to send or has sent holds it.
LockPcs == {"estimate", "nonce", "send", "receipt"}

InLine(c) == \E i \in DOMAIN queue : queue[i] = c

LockInv ==
    /\ \A i, j \in DOMAIN queue : queue[i] = queue[j] => i = j
    /\ \A c \in AdminUsers : InLine(c) <=> job[c].pc \in LockPcs
    /\ \A c \in AdminUsers : job[c].pc \in {"send", "receipt"} => HoldsAdminLock(c)
    /\ \A c \in Server : job[c].pc = "nonce" => HoldsAdminLock(c)

\* A request is owned while one job of the server works on it.
Owns(c, r) == job[c].r = r /\ job[c].pc \in FinalizePcs

OwnInv ==
    /\ \A r \in finalizing : \E c \in Server : Owns(c, r)
    /\ \A r \in Requests, c \in Server : Owns(c, r) => r \in finalizing
    /\ \A r \in Requests, c, d \in Server : Owns(c, r) /\ Owns(d, r) => c = d

\* The nonces of a sender are those below the number it has sent, in order; who is about to
\* send has the next one.
NonceInv ==
    /\ \A i \in DOMAIN tx : tx[i].nonce < Cardinality(SentBy(tx[i].by))
    /\ \A i, j \in DOMAIN tx : i < j /\ tx[i].by = tx[j].by => tx[i].nonce < tx[j].nonce
    /\ \A c \in Callers : job[c].nonce <= Len(tx) /\ job[c].id <= Len(tx)
    /\ \A c \in Callers : At(c, "send") => job[c].nonce = Cardinality(SentBy(Sender(c)))

\* Requests are made in order; who works on one, and what was sent for it, came after.
MadeInv ==
    /\ \E n \in 0 .. MaxRequests : {r \in Requests : chain[r] # "None"} = 1 .. n
    /\ \A c \in Callers \ {Treasury} :
         job[c].pc \in {"expire", "probe", "decrypt", "estimate", "nonce", "send"} =>
             chain[job[c].r] # "None"
    /\ \A i \in DOMAIN tx : tx[i].r # 0 => chain[tx[i].r] # "None"

\* While a request is pending so is all that was sent for it.  An admin transaction the server
\* follows is the last one; once it has settled its request, no other is or will be sent.
FollowInv ==
    /\ \A i \in DOMAIN tx : tx[i].r # 0 /\ tx[i].status # "pending" => chain[tx[i].r] # "Requested"
    /\ \A i \in DOMAIN tx : tx[i].r = 0 => tx[i].status # "reverted"
    /\ \A c \in AdminUsers : job[c].pc = "receipt" =>
         job[c].id \in DOMAIN tx /\ tx[job[c].id].by = "admin"
    /\ \A j \in DOMAIN tx : tx[j].by = "admin" /\ tx[j].watched /\ tx[j].status = "pending" =>
         /\ \E c \in AdminUsers : job[c].pc = "receipt" /\ job[c].id = j
         /\ \A i \in DOMAIN tx : tx[i].by = "admin" => i <= j
    /\ \A r \in Requests : settledBy[r] # 0 =>
         /\ settledBy[r] \in DOMAIN tx /\ chain[r] # "Requested"
         /\ tx[settledBy[r]].status = "mined" /\ tx[settledBy[r]].r = r
         /\ tx[settledBy[r]].by = "admin" /\ tx[settledBy[r]].watched =>
              /\ \A i \in DOMAIN tx : tx[i].by = "admin" /\ tx[i].r = r => i = settledBy[r]
              /\ \A c \in Server : job[c].r = r => job[c].pc \notin {"nonce", "send"}

CourierInv ==
    CourierTypes /\ RolesInv /\ LockInv /\ OwnInv /\ NonceInv /\ MadeInv /\ FollowInv

-----------------------------------------------------------------------------
(* The turn of a caller.  Its job is all that moves in job; what it owns   *)
(* and its place in line change in one of four ways.                       *)

\* It goes on with what it owns and where it stands in line.
Going(c, me) ==
    /\ UNCHANGED <<finalizing, queue>>
    /\ c \in Server =>
         /\ me.pc \in FinalizePcs <=> job[c].pc \in FinalizePcs
         /\ me.pc \in FinalizePcs => me.r = job[c].r
    /\ c \in AdminUsers =>
         /\ me.pc \in LockPcs <=> job[c].pc \in LockPcs
         /\ me.pc \in {"nonce", "send", "receipt"} => HoldsAdminLock(c)

\* It asks for the admin lock.
Joining(c, me) ==
    /\ c \in AdminUsers /\ job[c].pc \notin LockPcs
    /\ me.pc = (IF c = Treasury THEN "nonce" ELSE "estimate")
    /\ c \in Server => job[c].pc \in FinalizePcs /\ me.r = job[c].r
    /\ queue' = Append(queue, c) /\ UNCHANGED finalizing

\* It is done.
Releasing(c, me) ==
    /\ me.pc \in {"idle", "loop"}
    /\ finalizing' = finalizing \ (IF c \in Server THEN {job[c].r} ELSE {})
    /\ queue' = Unlocked(c)
    /\ c \in Server => job[c].pc \in FinalizePcs
    /\ c \in AdminUsers /\ job[c].pc \in LockPcs => HoldsAdminLock(c)

\* It owns a request nobody owned.
Owning(c, me) ==
    /\ c \in Server /\ job[c].pc \notin FinalizePcs
    /\ me.pc = "read" /\ me.r \in Requests \ finalizing
    /\ finalizing' = finalizing \cup {me.r} /\ UNCHANGED queue

CursorMoved(c, me) ==
    /\ cursor' \in [Loops -> 1 .. MaxRequests + 1]
    /\ \A d \in Loops : d # c => cursor'[d] = cursor[d]
    /\ c \in Loops /\ me.pc \notin {"idle", "loop"} => cursor'[c] \in Requests

Turn(c, me) ==
    /\ me \in JobStates /\ RoleOK(c, me)
    /\ job' = [job EXCEPT ![c] = me]
    /\ CursorMoved(c, me)
    /\ Going(c, me) \/ Joining(c, me) \/ Releasing(c, me) \/ Owning(c, me)

-----------------------------------------------------------------------------
(* What a turn keeps.                                                      *)

\* In a turn only the caller's own job moves.
LEMMA OthersStay ==
    ASSUME CourierTypes, NEW c \in Callers, NEW me, Turn(c, me)
    PROVE  /\ job'[c] = me
           /\ \A d \in Callers : d # c => job'[d] = job[d]
           /\ job' \in [Callers -> JobStates]
  BY DEF CourierTypes, Turn

LEMMA TurnRoles ==
    ASSUME CallersDistinct, CourierTypes, RolesInv, NEW c \in Callers, NEW me, Turn(c, me)
    PROVE  RolesInv'
  <1>1. \A d \in Callers : RoleOK(d, job'[d])
    BY OthersStay DEF Turn, RolesInv
  <1>2. \A d \in Loops : job'[d].pc \notin {"idle", "loop"} => cursor'[d] \in Requests
    <2>1. Loops \subseteq Callers
      BY DEF Loops, Callers, Server
    <2> QED BY <2>1, OthersStay DEF Turn, CursorMoved, RolesInv
  <1> QED BY <1>1, <1>2 DEF RolesInv, RoleOK

\* Two holders of the admin lock are one.
LEMMA OneHolder ==
    ASSUME NEW c, NEW d, HoldsAdminLock(c), HoldsAdminLock(d)
    PROVE  c = d
  BY DEF HoldsAdminLock

LEMMA AdminUsersDistinct ==
    ASSUME CallersDistinct
    PROVE  /\ AdminUsers \subseteq Callers /\ Keeper \notin AdminUsers
           /\ Keeper \in Callers /\ Treasury \notin Server /\ Server \subseteq AdminUsers
           /\ Callers = AdminUsers \cup {Keeper}
           /\ \A c \in AdminUsers : Sender(c) = "admin"
           /\ Sender(Keeper) = "keeper"
  BY DEF CallersDistinct, AdminUsers, Callers, Server, Sender

LEMMA TurnQueueType ==
    ASSUME CallersDistinct, CourierTypes, NEW c \in Callers, NEW me, Turn(c, me)
    PROVE  queue' \in Seq(AdminUsers)
  <1>0. queue \in Seq(AdminUsers)
    BY DEF CourierTypes
  <1>1. CASE Going(c, me)
    BY <1>0, <1>1 DEF Going
  <1>2. CASE Joining(c, me)
    BY <1>0, <1>2 DEF Joining
  <1>3. CASE Releasing(c, me)
    BY <1>0, <1>3 DEF Releasing, Unlocked, HoldsAdminLock
  <1>4. CASE Owning(c, me)
    BY <1>0, <1>4 DEF Owning
  <1> QED BY <1>1, <1>2, <1>3, <1>4 DEF Turn

\* Each is in line at most once, before and after somebody joins or the head leaves.
LEMMA LineJoined ==
    ASSUME NEW S, NEW q \in Seq(S), NEW c \in S,
           \A i, j \in DOMAIN q : q[i] = q[j] => i = j,
           \A i \in DOMAIN q : q[i] # c
    PROVE  LET p == Append(q, c) IN
           /\ \A i, j \in DOMAIN p : p[i] = p[j] => i = j
           /\ \A d : (\E i \in DOMAIN p : p[i] = d) <=> (d = c \/ \E i \in DOMAIN q : q[i] = d)
           /\ \A d : q # <<>> /\ Head(q) = d => p # <<>> /\ Head(p) = d
  <1> DEFINE p == Append(q, c)
  <1>1. /\ DOMAIN q = 1 .. Len(q) /\ DOMAIN p = 1 .. Len(q) + 1 /\ Len(q) \in Nat
        /\ \A i \in 1 .. Len(q) : p[i] = q[i]
        /\ p[Len(q) + 1] = c
    OBVIOUS
  <1>2. \A i \in DOMAIN p : i = Len(q) + 1 \/ i \in DOMAIN q
    BY <1>1
  <1>3. DOMAIN q \subseteq DOMAIN p /\ Len(q) + 1 \in DOMAIN p
    BY <1>1
  <1>4. \A d : q # <<>> /\ Head(q) = d => p # <<>> /\ Head(p) = d
    <2>1. q # <<>> => 1 \in DOMAIN q
      BY <1>1
    <2>2. Head(q) = q[1] /\ Head(p) = p[1] /\ p # <<>>
      BY <1>1
    <2> QED BY <2>1, <2>2, <1>1
  <1> HIDE DEF p
  <1>5. \A i, j \in DOMAIN p : p[i] = p[j] => i = j
    BY <1>1, <1>2
  <1>6. \A d : (\E i \in DOMAIN p : p[i] = d) <=> (d = c \/ \E i \in DOMAIN q : q[i] = d)
    BY <1>1, <1>2, <1>3
  <1> QED BY <1>4, <1>5, <1>6 DEF p

LEMMA LineLeft ==
    ASSUME NEW S, NEW q \in Seq(S), q # <<>>,
           \A i, j \in DOMAIN q : q[i] = q[j] => i = j
    PROVE  LET p == Tail(q) IN
           /\ \A i, j \in DOMAIN p : p[i] = p[j] => i = j
           /\ \A d : (\E i \in DOMAIN p : p[i] = d) <=> (d # Head(q) /\ \E i \in DOMAIN q : q[i] = d)
  <1> DEFINE p == Tail(q)
  <1>1. /\ DOMAIN q = 1 .. Len(q) /\ DOMAIN p = 1 .. Len(q) - 1 /\ Len(q) \in Nat \ {0}
        /\ \A i \in 1 .. Len(q) - 1 : p[i] = q[i + 1]
        /\ Head(q) = q[1]
    OBVIOUS
  <1> HIDE DEF p
  <1>2. \A i, j \in DOMAIN p : p[i] = p[j] => i = j
    <2> SUFFICES ASSUME NEW i \in DOMAIN p, NEW j \in DOMAIN p, p[i] = p[j] PROVE i = j
      OBVIOUS
    <2>1. i + 1 \in DOMAIN q /\ j + 1 \in DOMAIN q /\ q[i + 1] = q[j + 1]
      BY <1>1
    <2>2. i + 1 = j + 1
      BY <2>1
    <2> QED BY <2>2, <1>1
  <1>3. ASSUME NEW d, NEW i \in DOMAIN p, p[i] = d
        PROVE  d # Head(q) /\ \E k \in DOMAIN q : q[k] = d
    <2>1. i + 1 \in DOMAIN q /\ q[i + 1] = d /\ i + 1 # 1 /\ 1 \in DOMAIN q
      BY <1>1, <1>3
    <2> QED BY <2>1, <1>1
  <1>4. ASSUME NEW d, d # Head(q), NEW k \in DOMAIN q, q[k] = d
        PROVE  \E i \in DOMAIN p : p[i] = d
    <2>1. k # 1
      BY <1>1, <1>4
    <2>2. k - 1 \in DOMAIN p /\ p[k - 1] = q[(k - 1) + 1] /\ (k - 1) + 1 = k
      BY <1>1, <2>1
    <2> QED BY <2>2, <1>4
  <1>5. \A d : (\E i \in DOMAIN p : p[i] = d) <=> (d # Head(q) /\ \E i \in DOMAIN q : q[i] = d)
    BY <1>3, <1>4
  <1> QED BY <1>2, <1>5 DEF p

LEMMA TurnLock ==
    ASSUME CallersDistinct, CourierTypes, LockInv, NEW c \in Callers, NEW me, Turn(c, me)
    PROVE  LockInv'
  <1>0. /\ queue \in Seq(AdminUsers)
        /\ \A i, j \in DOMAIN queue : queue[i] = queue[j] => i = j
        /\ \A d \in AdminUsers : InLine(d) <=> job[d].pc \in LockPcs
    BY DEF CourierTypes, LockInv
  <1>1. job'[c] = me /\ \A d \in Callers : d # c => job'[d] = job[d]
    BY OthersStay
  <1>2. AdminUsers \subseteq Callers /\ Server \subseteq AdminUsers /\ Treasury \notin Server
    BY AdminUsersDistinct
  <1>3. CASE Going(c, me)
    <2>1. queue' = queue
      BY <1>3 DEF Going
    <2>2. \A d \in AdminUsers : InLine(d)' <=> job'[d].pc \in LockPcs
      BY <1>0, <1>1, <1>2, <1>3, <2>1 DEF InLine, Going
    <2>3. \A d \in AdminUsers : job'[d].pc \in {"send", "receipt"} => HoldsAdminLock(d)'
      BY <1>1, <1>2, <1>3, <2>1 DEF HoldsAdminLock, Going, LockInv
    <2>4. \A d \in Server : job'[d].pc = "nonce" => HoldsAdminLock(d)'
      BY <1>1, <1>2, <1>3, <2>1 DEF HoldsAdminLock, Going, LockInv
    <2> QED BY <1>0, <2>1, <2>2, <2>3, <2>4 DEF LockInv
  <1>4. CASE Joining(c, me)
    <2>1. c \in AdminUsers /\ queue' = Append(queue, c) /\ \A i \in DOMAIN queue : queue[i] # c
      BY <1>0, <1>4 DEF Joining, InLine
    <2>2. /\ \A i, j \in DOMAIN queue' : queue'[i] = queue'[j] => i = j
          /\ \A d : (\E i \in DOMAIN queue' : queue'[i] = d) <=> (d = c \/ \E i \in DOMAIN queue : queue[i] = d)
          /\ \A d : queue # <<>> /\ Head(queue) = d => queue' # <<>> /\ Head(queue') = d
      BY <1>0, <2>1, LineJoined
    <2>3. me.pc \in LockPcs /\ me.pc \notin {"send", "receipt"} /\ (c # Treasury => me.pc # "nonce")
      BY <1>4 DEF Joining, LockPcs
    <2>4. \A d \in AdminUsers : InLine(d)' <=> job'[d].pc \in LockPcs
      BY <1>0, <1>1, <1>2, <2>2, <2>3 DEF InLine
    <2>5. \A d \in AdminUsers : job'[d].pc \in {"send", "receipt"} => HoldsAdminLock(d)'
      BY <1>1, <1>2, <2>2, <2>3 DEF HoldsAdminLock, LockInv
    <2>6. \A d \in Server : job'[d].pc = "nonce" => HoldsAdminLock(d)'
      BY <1>1, <1>2, <2>2, <2>3 DEF HoldsAdminLock, LockInv
    <2> QED BY <2>2, <2>4, <2>5, <2>6 DEF LockInv
  <1>5. CASE Releasing(c, me)
    <2>1. me.pc \notin LockPcs /\ queue' = Unlocked(c)
      BY <1>5 DEF Releasing, LockPcs
    <2>2. CASE HoldsAdminLock(c)
      <3>1. queue' = Tail(queue) /\ queue # <<>> /\ Head(queue) = c
        BY <2>1, <2>2 DEF Unlocked, HoldsAdminLock
      <3>2. /\ \A i, j \in DOMAIN queue' : queue'[i] = queue'[j] => i = j
            /\ \A d : (\E i \in DOMAIN queue' : queue'[i] = d) <=> (d # Head(queue) /\ \E i \in DOMAIN queue : queue[i] = d)
        <4>1. PICK q \in Seq(AdminUsers) : q = queue
          BY <1>0
        <4>2. /\ \A i, j \in DOMAIN Tail(q) : Tail(q)[i] = Tail(q)[j] => i = j
              /\ \A d : (\E i \in DOMAIN Tail(q) : Tail(q)[i] = d) <=> (d # Head(q) /\ \E i \in DOMAIN q : q[i] = d)
          <5>1. q # <<>> /\ \A i, j \in DOMAIN q : q[i] = q[j] => i = j
            BY <1>0, <3>1, <4>1
          <5> HIDE <4>1
          <5> QED BY <5>1, LineLeft
        <4>3. queue' = Tail(q) /\ queue = q
          BY <3>1, <4>1
        <4> QED BY <4>2, <4>3, Zenon
      <3>3. \A d \in AdminUsers : InLine(d)' <=> job'[d].pc \in LockPcs
        BY <1>0, <1>1, <1>2, <2>1, <3>1, <3>2 DEF InLine
      <3>4. \A d \in AdminUsers : HoldsAdminLock(d) => d = c
        BY <2>2, OneHolder
      <3>5. \A d \in AdminUsers : job'[d].pc \notin {"send", "receipt"}
        BY <1>1, <1>2, <2>1, <3>4 DEF LockInv, LockPcs
      <3>6. \A d \in Server : job'[d].pc # "nonce"
        BY <1>1, <1>2, <2>1, <3>4 DEF LockInv, LockPcs
      <3> QED BY <3>2, <3>3, <3>5, <3>6 DEF LockInv
    <2>3. CASE ~HoldsAdminLock(c)
      <3>1. queue' = queue
        BY <2>1, <2>3 DEF Unlocked
      <3>2. c \in AdminUsers => job[c].pc \notin LockPcs
        BY <1>5, <2>3 DEF Releasing
      <3>3. \A d \in AdminUsers : InLine(d)' <=> job'[d].pc \in LockPcs
        BY <1>0, <1>1, <1>2, <2>1, <3>1, <3>2 DEF InLine
      <3>4. \A d \in AdminUsers : job'[d].pc \in {"send", "receipt"} => HoldsAdminLock(d)'
        BY <1>1, <1>2, <2>1, <3>1 DEF HoldsAdminLock, LockInv, LockPcs
      <3>5. \A d \in Server : job'[d].pc = "nonce" => HoldsAdminLock(d)'
        BY <1>1, <1>2, <2>1, <3>1 DEF HoldsAdminLock, LockInv, LockPcs
      <3> QED BY <1>0, <3>1, <3>3, <3>4, <3>5 DEF LockInv
    <2> QED BY <2>2, <2>3
  <1>6. CASE Owning(c, me)
    <2>1. queue' = queue /\ me.pc \notin LockPcs /\ job[c].pc \notin LockPcs
      BY <1>6 DEF Owning, LockPcs, FinalizePcs
    <2>2. \A d \in AdminUsers : InLine(d)' <=> job'[d].pc \in LockPcs
      BY <1>0, <1>1, <1>2, <2>1 DEF InLine
    <2>3. \A d \in AdminUsers : job'[d].pc \in {"send", "receipt"} => HoldsAdminLock(d)'
      BY <1>1, <1>2, <2>1 DEF HoldsAdminLock, LockInv, LockPcs
    <2>4. \A d \in Server : job'[d].pc = "nonce" => HoldsAdminLock(d)'
      BY <1>1, <1>2, <2>1 DEF HoldsAdminLock, LockInv, LockPcs
    <2> QED BY <1>0, <2>1, <2>2, <2>3, <2>4 DEF LockInv
  <1> QED BY <1>3, <1>4, <1>5, <1>6 DEF Turn

LEMMA TurnOwn ==
    ASSUME CallersDistinct, CourierTypes, RolesInv, OwnInv, NEW c \in Callers, NEW me, Turn(c, me)
    PROVE  OwnInv' /\ finalizing' \in SUBSET Requests
  <1>1. job'[c] = me /\ \A d \in Callers : d # c => job'[d] = job[d]
    BY OthersStay
  <1>2. Server \subseteq Callers /\ Treasury \notin Server
    BY AdminUsersDistinct
  <1>3. finalizing \in SUBSET Requests
    BY DEF CourierTypes
  <1>4. CASE c \notin Server
    <2>1. finalizing' = finalizing
      BY <1>4 DEF Turn, Going, Joining, Releasing, Owning
    <2>2. \A d \in Server : job'[d] = job[d]
      BY <1>1, <1>2, <1>4
    <2>3. \A d \in Server, r \in Requests : Owns(d, r)' <=> Owns(d, r)
      BY <2>2 DEF Owns
    <2> QED BY <1>3, <2>1, <2>3 DEF OwnInv
  <1>5. CASE c \in Server /\ (Going(c, me) \/ Joining(c, me))
    <2>1. finalizing' = finalizing
      BY <1>5 DEF Going, Joining
    <2>2. \A r \in Requests : Owns(c, r)' <=> Owns(c, r)
      BY <1>1, <1>2, <1>5 DEF Owns, Going, Joining, FinalizePcs
    <2>3. \A d \in Server, r \in Requests : Owns(d, r)' <=> Owns(d, r)
      BY <1>1, <1>2, <2>2 DEF Owns
    <2> QED BY <1>3, <2>1, <2>3 DEF OwnInv
  <1>6. CASE c \in Server /\ Releasing(c, me)
    <2>1. finalizing' = finalizing \ {job[c].r} /\ job[c].pc \in FinalizePcs /\ me.pc \notin FinalizePcs
      BY <1>6 DEF Releasing, FinalizePcs
    <2>2. job[c].r \in Requests
      BY <1>2, <1>6, <2>1 DEF RolesInv, RoleOK, FinalizePcs
    <2>3. Owns(c, job[c].r) /\ \A r \in Requests : ~Owns(c, r)'
      BY <1>1, <2>1 DEF Owns
    <2>4. \A d \in Server, r \in Requests : Owns(d, r)' <=> Owns(d, r) /\ d # c
      BY <1>1, <1>2, <2>3 DEF Owns
    <2>5. \A d \in Server, r \in Requests : Owns(d, r) /\ d # c => r # job[c].r
      BY <1>6, <2>2, <2>3 DEF OwnInv
    <2>6. \A d \in Server, r \in Requests : Owns(d, r)' => r \in finalizing'
      BY <2>1, <2>4, <2>5 DEF OwnInv
    <2>7. ASSUME NEW r \in finalizing' PROVE \E d \in Server : Owns(d, r)'
      <3>1. r \in finalizing /\ r # job[c].r /\ r \in Requests
        BY <1>3, <2>1
      <3>2. PICK d \in Server : Owns(d, r)
        BY <3>1 DEF OwnInv
      <3>3. d # c
        BY <3>1, <3>2 DEF Owns
      <3> QED BY <2>4, <3>1, <3>2, <3>3
    <2> QED BY <1>3, <2>1, <2>4, <2>6, <2>7 DEF OwnInv
  <1>7. CASE c \in Server /\ Owning(c, me)
    <2>1. /\ job[c].pc \notin FinalizePcs /\ me.pc \in FinalizePcs
          /\ me.r \in Requests \ finalizing /\ finalizing' = finalizing \cup {me.r}
      BY <1>7 DEF Owning, FinalizePcs
    <2>2. \A r \in Requests : ~Owns(c, r) /\ (Owns(c, r)' <=> r = me.r)
      BY <1>1, <2>1 DEF Owns
    <2>3. \A d \in Server, r \in Requests : d # c => (Owns(d, r)' <=> Owns(d, r))
      BY <1>1, <1>2 DEF Owns
    <2>4. \A d \in Server : ~Owns(d, me.r)
      BY <2>1 DEF OwnInv
    <2>5. \A d \in Server, r \in Requests : Owns(d, r)' => r \in finalizing'
      BY <1>7, <2>1, <2>2, <2>3 DEF OwnInv
    <2>6. ASSUME NEW r \in finalizing' PROVE \E d \in Server : Owns(d, r)'
      <3>1. CASE r = me.r
        BY <1>7, <2>1, <2>2, <3>1
      <3>2. CASE r # me.r
        <4>1. r \in finalizing /\ r \in Requests
          BY <1>3, <2>1, <3>2
        <4>2. PICK d \in Server : Owns(d, r)
          BY <4>1 DEF OwnInv
        <4>3. d # c
          BY <2>2, <4>1, <4>2
        <4> QED BY <2>3, <4>1, <4>2, <4>3
      <3> QED BY <3>1, <3>2
    <2>7. \A r \in Requests, d, e \in Server : Owns(d, r)' /\ Owns(e, r)' => d = e
      <3> SUFFICES ASSUME NEW r \in Requests, NEW d \in Server, NEW e \in Server,
                          Owns(d, r)', Owns(e, r)'
                   PROVE  d = e
        OBVIOUS
      <3>1. CASE d # c /\ e # c
        BY <2>3, <3>1 DEF OwnInv
      <3>2. CASE d = c \/ e = c
        BY <2>2, <2>3, <2>4, <3>2
      <3> QED BY <3>1, <3>2
    <2> QED BY <1>3, <2>1, <2>5, <2>6, <2>7 DEF OwnInv
  <1> QED BY <1>4, <1>5, <1>6, <1>7 DEF Turn

-----------------------------------------------------------------------------
(* The transactions of a sender.                                           *)

\* SentBy, of any sequence of transactions.
OfSender(q, s) == {i \in DOMAIN q : q[i].by = s}

LEMMA SentByFinite ==
    ASSUME NEW q \in Seq(TxRecords), NEW s
    PROVE  /\ IsFiniteSet(OfSender(q, s)) /\ Cardinality(OfSender(q, s)) \in Nat
           /\ Cardinality(OfSender(q, s)) <= Len(q)
  <1>1. OfSender(q, s) \subseteq 1 .. Len(q) /\ Len(q) \in Nat
    BY DEF OfSender
  <1>2. IsFiniteSet(1 .. Len(q)) /\ Cardinality(1 .. Len(q)) = Len(q)
    <2>1. Cardinality(1 .. Len(q)) = IF 1 > Len(q) THEN 0 ELSE Len(q) - 1 + 1
      BY <1>1, FS_Interval
    <2> QED BY <1>1, <2>1, FS_Interval
  <1>3. IsFiniteSet(OfSender(q, s)) /\ Cardinality(OfSender(q, s)) <= Len(q)
    BY <1>1, <1>2, FS_Subset
  <1>4. Cardinality(OfSender(q, s)) \in Nat
    BY <1>3, FS_CardinalityType
  <1> QED BY <1>3, <1>4

\* One more transaction is one more of its sender's.
LEMMA SentByAppend ==
    ASSUME NEW q \in Seq(TxRecords), NEW x \in TxRecords, NEW s
    PROVE  /\ DOMAIN Append(q, x) = DOMAIN q \cup {Len(q) + 1} /\ Len(q) + 1 \notin DOMAIN q
           /\ Append(q, x)[Len(q) + 1] = x /\ \A i \in DOMAIN q : Append(q, x)[i] = q[i]
           /\ Append(q, x) \in Seq(TxRecords) /\ Len(Append(q, x)) = Len(q) + 1
           /\ Cardinality(OfSender(Append(q, x), s)) =
                Cardinality(OfSender(q, s)) + (IF x.by = s THEN 1 ELSE 0)
  <1> DEFINE p == Append(q, x)
  <1>1. /\ DOMAIN q = 1 .. Len(q) /\ DOMAIN p = 1 .. Len(q) + 1 /\ Len(q) \in Nat
        /\ \A i \in 1 .. Len(q) : p[i] = q[i]
        /\ p[Len(q) + 1] = x /\ p \in Seq(TxRecords) /\ Len(p) = Len(q) + 1
    OBVIOUS
  <1> HIDE DEF p
  <1>2. DOMAIN p = DOMAIN q \cup {Len(q) + 1} /\ Len(q) + 1 \notin DOMAIN q
    BY <1>1
  <1>3. \A i \in DOMAIN q : p[i] = q[i]
    BY <1>1
  <1>4. IsFiniteSet(OfSender(q, s)) /\ Cardinality(OfSender(q, s)) \in Nat
    BY SentByFinite
  <1>5. CASE x.by = s
    <2>1. OfSender(p, s) = OfSender(q, s) \cup {Len(q) + 1}
      BY <1>1, <1>2, <1>3, <1>5 DEF OfSender
    <2>2. Len(q) + 1 \notin OfSender(q, s)
      BY <1>2 DEF OfSender
    <2>3. Cardinality(OfSender(q, s) \cup {Len(q) + 1}) = Cardinality(OfSender(q, s)) + 1
      BY <1>4, <2>2, FS_AddElement
    <2> QED BY <1>1, <1>2, <1>3, <1>5, <2>1, <2>3 DEF p
  <1>6. CASE x.by # s
    <2>1. OfSender(p, s) = OfSender(q, s)
      BY <1>1, <1>2, <1>3, <1>6 DEF OfSender
    <2>2. Cardinality(OfSender(q, s)) + 0 = Cardinality(OfSender(q, s))
      BY <1>4
    <2> QED BY <1>1, <1>2, <1>3, <1>6, <2>1, <2>2 DEF p
  <1> QED BY <1>5, <1>6

LEMMA TxTypes ==
    ASSUME CourierBounds, CourierTypes
    PROVE  /\ DOMAIN tx = 1 .. Len(tx) /\ Len(tx) \in Nat
           /\ \A i \in DOMAIN tx :
                /\ tx[i] \in TxRecords /\ tx[i].nonce \in Nat
                /\ tx[i].by \in {"admin", "keeper"}
                /\ tx[i].r \in Nat /\ (tx[i].r # 0 => tx[i].r \in Requests)
                /\ tx[i].watched \in BOOLEAN
                /\ tx[i].status \in {"pending", "mined", "reverted"}
  <1>1. tx \in Seq(TxRecords)
    BY DEF CourierTypes
  <1>2. DOMAIN tx = 1 .. Len(tx) /\ Len(tx) \in Nat /\ \A i \in DOMAIN tx : tx[i] \in TxRecords
    BY <1>1
  <1>3. \A x \in TxRecords :
          /\ x.nonce \in Nat /\ x.by \in {"admin", "keeper"} /\ x.watched \in BOOLEAN
          /\ x.status \in {"pending", "mined", "reverted"} /\ x.r \in 0 .. MaxRequests
    BY DEF TxRecords
  <1>4. \A k \in 0 .. MaxRequests : k \in Nat /\ (k # 0 => k \in Requests)
    BY DEF CourierBounds, Requests
  <1> QED BY <1>2, <1>3, <1>4

-----------------------------------------------------------------------------
(* Turns that send nothing.                                                *)

Onward ==
    /\ chain' \in [Requests -> RequestStates]
    /\ \A r \in Requests : \/ chain'[r] = chain[r]
                           \/ chain[r] # "None" /\ chain'[r] \in {"AwaitingSafeApproval", "Settled"}

MadePcs == {"expire", "probe", "decrypt", "estimate", "nonce", "send"}

Quiet(c, me) ==
    /\ Turn(c, me) /\ Onward /\ UNCHANGED <<resolved, tx, settledBy>>
    /\ UNCHANGED faults \/ Fault
    /\ me.pc \notin {"send", "receipt"}
    /\ me.nonce \in {0, job[c].nonce} /\ me.id \in {0, job[c].id}
    /\ c # Treasury /\ me.pc \in MadePcs => chain[me.r] # "None"
    /\ c # Treasury /\ me.pc = "nonce" => chain'[me.r] = "Requested"
    /\ job[c].pc = "receipt" => tx[job[c].id].status # "pending"

LEMMA OnwardMade ==
    ASSUME Onward
    PROVE  /\ {r \in Requests : chain'[r] # "None"} = {r \in Requests : chain[r] # "None"}
           /\ \A r \in Requests : chain'[r] = "Requested" => chain[r] = "Requested"
  BY DEF Onward

LEMMA QuietNonce ==
    ASSUME CourierTypes, NonceInv, NEW c \in Callers, NEW me, Quiet(c, me)
    PROVE  NonceInv'
  <1>1. job'[c] = me /\ \A d \in Callers : d # c => job'[d] = job[d]
    BY OthersStay DEF Quiet
  <1>2. tx' = tx /\ \A s : SentBy(s)' = SentBy(s)
    BY DEF Quiet, SentBy
  <1>3. tx \in Seq(TxRecords) /\ Len(tx) \in Nat
    BY DEF CourierTypes
  <1>4. \A d \in Callers : job'[d].nonce <= Len(tx) /\ job'[d].id <= Len(tx)
    BY <1>1, <1>3 DEF NonceInv, Quiet
  <1>5. \A d \in Callers : job'[d].pc = "send" => job'[d].nonce = Cardinality(SentBy(Sender(d)))
    BY <1>1 DEF NonceInv, Quiet, At
  <1> QED BY <1>2, <1>4, <1>5 DEF NonceInv, At

LEMMA QuietMade ==
    ASSUME CallersDistinct, CourierBounds, CourierTypes, RolesInv, MadeInv,
           NEW c \in Callers, NEW me, Quiet(c, me)
    PROVE  MadeInv'
  <1>1. job'[c] = me /\ \A d \in Callers : d # c => job'[d] = job[d]
    BY OthersStay DEF Quiet
  <1>2. \E n \in 0 .. MaxRequests : {r \in Requests : chain'[r] # "None"} = 1 .. n
    BY OnwardMade DEF Quiet, MadeInv
  <1>3. \A r \in Requests : chain[r] # "None" => chain'[r] # "None"
    BY DEF Quiet, Onward
  <1>4. RolesInv'
    BY TurnRoles DEF Quiet
  <1>5. ASSUME NEW d \in Callers \ {Treasury}, job'[d].pc \in MadePcs
        PROVE  chain'[job'[d].r] # "None"
    <2>1. job'[d].r \in Requests
      BY <1>4, <1>5 DEF RolesInv, RoleOK, MadePcs
    <2>2. chain[job'[d].r] # "None"
      BY <1>1, <1>5 DEF Quiet, MadeInv, MadePcs
    <2> QED BY <1>3, <2>1, <2>2
  <1>6. ASSUME NEW i \in DOMAIN tx, tx[i].r # 0 PROVE chain'[tx[i].r] # "None"
    <2>1. tx[i].r \in Requests
      BY <1>6, TxTypes
    <2> QED BY <1>3, <1>6, <2>1 DEF MadeInv
  <1> QED BY <1>2, <1>5, <1>6 DEF Quiet, MadeInv, MadePcs

LEMMA QuietFollow ==
    ASSUME CallersDistinct, CourierBounds, CourierTypes, RolesInv, FollowInv,
           NEW c \in Callers, NEW me, Quiet(c, me)
    PROVE  FollowInv'
  <1>1. job'[c] = me /\ \A d \in Callers : d # c => job'[d] = job[d]
    BY OthersStay DEF Quiet
  <1>2. tx' = tx /\ settledBy' = settledBy /\ AdminUsers \subseteq Callers /\ Server \subseteq AdminUsers
    BY AdminUsersDistinct DEF Quiet
  <1>3. \A r \in Requests : chain'[r] = "Requested" => chain[r] = "Requested"
    BY OnwardMade DEF Quiet
  <1>4. \A i \in DOMAIN tx : tx[i].r # 0 => tx[i].r \in Requests
    BY TxTypes
  <1>5. \A i \in DOMAIN tx : tx[i].r # 0 /\ tx[i].status # "pending" => chain'[tx[i].r] # "Requested"
    BY <1>3, <1>4 DEF FollowInv
  <1>6. \A d \in AdminUsers : job'[d].pc = "receipt" =>
          job'[d].id \in DOMAIN tx /\ tx[job'[d].id].by = "admin"
    BY <1>1, <1>2 DEF Quiet, FollowInv
  <1>7. ASSUME NEW j \in DOMAIN tx, tx[j].by = "admin", tx[j].watched, tx[j].status = "pending"
        PROVE  /\ \E d \in AdminUsers : job'[d].pc = "receipt" /\ job'[d].id = j
               /\ \A i \in DOMAIN tx : tx[i].by = "admin" => i <= j
    <2>1. PICK d \in AdminUsers : job[d].pc = "receipt" /\ job[d].id = j
      BY <1>7 DEF FollowInv
    <2>2. d # c
      BY <1>7, <2>1 DEF Quiet
    <2> QED BY <1>1, <1>2, <1>7, <2>1, <2>2 DEF FollowInv
  <1>8. ASSUME NEW r \in Requests, settledBy[r] # 0
        PROVE  /\ settledBy[r] \in DOMAIN tx /\ chain'[r] # "Requested"
               /\ tx[settledBy[r]].status = "mined" /\ tx[settledBy[r]].r = r
               /\ tx[settledBy[r]].by = "admin" /\ tx[settledBy[r]].watched =>
                    /\ \A i \in DOMAIN tx : tx[i].by = "admin" /\ tx[i].r = r => i = settledBy[r]
                    /\ \A d \in Server : job'[d].r = r => job'[d].pc \notin {"nonce", "send"}
    <2>1. /\ settledBy[r] \in DOMAIN tx /\ chain'[r] # "Requested"
          /\ tx[settledBy[r]].status = "mined" /\ tx[settledBy[r]].r = r
      BY <1>3, <1>8 DEF FollowInv
    <2>2. ASSUME tx[settledBy[r]].by = "admin", tx[settledBy[r]].watched
          PROVE  /\ \A i \in DOMAIN tx : tx[i].by = "admin" /\ tx[i].r = r => i = settledBy[r]
                 /\ \A d \in Server : job'[d].r = r => job'[d].pc \notin {"nonce", "send"}
      <3>1. /\ \A i \in DOMAIN tx : tx[i].by = "admin" /\ tx[i].r = r => i = settledBy[r]
            /\ \A d \in Server : job[d].r = r => job[d].pc \notin {"nonce", "send"}
        BY <1>8, <2>2 DEF FollowInv
      <3>2. c \in Server /\ me.r = r => me.pc \notin {"nonce", "send"}
        BY <2>1, AdminUsersDistinct DEF Quiet
      <3> QED BY <1>1, <1>2, <3>1, <3>2
    <2> QED BY <2>1, <2>2
  <1>9. \A i \in DOMAIN tx : tx[i].r = 0 => tx[i].status # "reverted"
    BY DEF FollowInv
  <1> QED BY <1>2, <1>5, <1>6, <1>7, <1>8, <1>9 DEF FollowInv

LEMMA QuietKeeps ==
    ASSUME CallersDistinct, CourierBounds, CourierInv, NEW c \in Callers, NEW me, Quiet(c, me)
    PROVE  CourierInv'
  <1>1. RolesInv' /\ LockInv' /\ OwnInv' /\ NonceInv' /\ MadeInv' /\ FollowInv'
    BY TurnRoles, TurnLock, TurnOwn, QuietNonce, QuietMade, QuietFollow DEF CourierInv, Quiet
  <1>2. CourierTypes'
    <2>1. queue' \in Seq(AdminUsers) /\ finalizing' \in SUBSET Requests /\ job' \in [Callers -> JobStates]
      BY TurnQueueType, TurnOwn, OthersStay DEF CourierInv, Quiet
    <2>2. faults' \in 0 .. MaxFaults
      BY DEF Quiet, Fault, CourierInv, CourierTypes, CourierBounds
    <2>3. tx' = tx /\ settledBy' = settledBy /\ resolved' = resolved
          /\ cursor' \in [Loops -> 1 .. MaxRequests + 1] /\ chain' \in [Requests -> RequestStates]
      BY DEF Quiet, Turn, CursorMoved, Onward
    <2>4. tx \in Seq(TxRecords) /\ settledBy \in [Requests -> Nat] /\ resolved \in SUBSET Requests
      BY DEF CourierInv, CourierTypes
    <2> QED BY <2>1, <2>2, <2>3, <2>4 DEF CourierTypes
  <1> QED BY <1>1, <1>2 DEF CourierInv

-----------------------------------------------------------------------------
(* The turns of the actions.                                               *)

Done(c) == IF c \in Loops THEN [Idle EXCEPT !.pc = "loop"] ELSE Idle

\* A job that works on r, and the same job at another point.
Work(pc, r)   == [Idle EXCEPT !.pc = pc, !.r = r]
JobAt(me, pc) == [me EXCEPT !.pc = pc]

LEMMA JobFields ==
    ASSUME CourierBounds
    PROVE  /\ Idle \in JobStates
           /\ \A c : /\ Done(c) \in JobStates /\ Done(c).pc \in {"idle", "loop"} /\ Done(c).r = 0
                     /\ Done(c).nonce = 0 /\ Done(c).id = 0
                     /\ c \notin Loops => Done(c).pc = "idle"
           /\ \A pc \in Pcs, r \in Requests :
                /\ Work(pc, r) \in JobStates
                /\ Work(pc, r).pc = pc /\ Work(pc, r).r = r
                /\ Work(pc, r).nonce = 0 /\ Work(pc, r).id = 0
           /\ \A me \in JobStates, pc \in Pcs :
                /\ JobAt(me, pc) \in JobStates /\ JobAt(me, pc).pc = pc
                /\ JobAt(me, pc).r = me.r /\ JobAt(me, pc).nonce = me.nonce /\ JobAt(me, pc).id = me.id
  <1>1. Idle \in JobStates /\ [Idle EXCEPT !.pc = "loop"] \in JobStates
    BY DEF CourierBounds, Idle, JobStates, Pcs
  <1>2. \A c : /\ Done(c) \in JobStates /\ Done(c).pc \in {"idle", "loop"} /\ Done(c).r = 0
               /\ Done(c).nonce = 0 /\ Done(c).id = 0
               /\ c \notin Loops => Done(c).pc = "idle"
    BY <1>1 DEF Done, Idle
  <1>3. ASSUME NEW pc \in Pcs, NEW r \in Requests
        PROVE  /\ Work(pc, r) \in JobStates
               /\ Work(pc, r).pc = pc /\ Work(pc, r).r = r
               /\ Work(pc, r).nonce = 0 /\ Work(pc, r).id = 0
    <2>1. r \in 0 .. MaxRequests
      BY DEF Requests, CourierBounds
    <2>2. PICK opened : opened = [Idle EXCEPT !.pc = pc]
      OBVIOUS
    <2>3. opened = [pc |-> pc, r |-> 0, nonce |-> 0, id |-> 0]
      BY <2>2 DEF Idle
    <2>4. PICK chosen : chosen = [opened EXCEPT !.r = r]
      OBVIOUS
    <2>5. chosen = [pc |-> pc, r |-> r, nonce |-> 0, id |-> 0]
      BY <2>3, <2>4
    <2>6. Work(pc, r) = chosen
      BY <2>2, <2>4, Zenon DEF Work
    <2> HIDE <2>2, <2>3, <2>4
    <2> QED BY <2>1, <2>5, <2>6 DEF JobStates
  <1>4. ASSUME NEW me \in JobStates, NEW pc \in Pcs
        PROVE  /\ JobAt(me, pc) \in JobStates /\ JobAt(me, pc).pc = pc
               /\ JobAt(me, pc).r = me.r /\ JobAt(me, pc).nonce = me.nonce /\ JobAt(me, pc).id = me.id
    BY DEF JobAt, JobStates
  <1> QED BY <1>1, <1>2, <1>3, <1>4

\* Requests are made in order, so NextId is the first that is not.
LEMMA NextIdIsNext ==
    ASSUME CourierBounds, MadeInv
    PROVE  /\ NextId \in 1 .. MaxRequests + 1
           /\ \A r \in Requests : chain[r] # "None" <=> r < NextId
  <1>1. PICK n \in 0 .. MaxRequests : {r \in Requests : chain[r] # "None"} = 1 .. n
    BY DEF MadeInv
  <1>2. n \in Nat /\ MaxRequests \in Nat /\ n <= MaxRequests
    BY DEF CourierBounds
  <1>3. Cardinality(1 .. n) = IF 1 > n THEN 0 ELSE n - 1 + 1
    BY <1>2, FS_Interval
  <1>4. Cardinality(1 .. n) = n
    BY <1>2, <1>3
  <1>5. NextId = n + 1
    BY <1>1, <1>4 DEF NextId
  <1>6. \A r \in Requests : chain[r] # "None" <=> r \in 1 .. n
    BY <1>1
  <1>7. \A r \in Requests : r \in 1 .. n <=> r < n + 1
    BY <1>2 DEF Requests
  <1> QED BY <1>2, <1>5, <1>6, <1>7

\* A caller that is done, or goes on with the next request of its loop.
LEMMA GoneOn ==
    ASSUME CallersDistinct, CourierBounds, CourierTypes, NEW c \in Callers, GoOn(c),
           c \in Loops => cursor[c] \in Requests
    PROVE  /\ Done(c) \in JobStates /\ RoleOK(c, Done(c))
           /\ job' = [job EXCEPT ![c] = Done(c)]
           /\ CursorMoved(c, Done(c))
  <1>1. Done(c) \in JobStates /\ Done(c).pc \in {"idle", "loop"} /\ Done(c).r = 0
        /\ (c \notin Loops => Done(c).pc = "idle")
    BY JobFields
  <1>2. RoleOK(c, Done(c))
    BY <1>1, CallersDistinct DEF RoleOK, CallersDistinct, Loops
  <1>3. job' = [job EXCEPT ![c] = Done(c)]
    BY DEF GoOn, Done
  <1>4. CursorMoved(c, Done(c))
    <2>1. cursor \in [Loops -> 1 .. MaxRequests + 1] /\ Done(c).pc \in {"idle", "loop"}
      BY <1>1 DEF CourierTypes
    <2>2. CASE c \notin Loops
      BY <2>1, <2>2 DEF GoOn, CursorMoved
    <2>3. CASE c \in Loops
      <3>1. cursor' = [cursor EXCEPT ![c] = cursor[c] + 1]
        BY <2>3 DEF GoOn
      <3>2. cursor[c] + 1 \in 1 .. MaxRequests + 1
        BY <2>3 DEF Requests, CourierBounds
      <3> QED BY <2>1, <2>3, <3>1, <3>2 DEF CursorMoved
    <2> QED BY <2>2, <2>3
  <1> QED BY <1>1, <1>2, <1>3, <1>4

\* finalizeRequest returns, before the lock or holding it.
LEMMA ReleasedTurn ==
    ASSUME CallersDistinct, CourierBounds, CourierInv, NEW c \in Callers, Released(c),
           job[c].pc \in FinalizePcs,
           c \in AdminUsers /\ job[c].pc \in LockPcs => HoldsAdminLock(c)
    PROVE  Turn(c, Done(c))
  <1>1. c \in Loops => cursor[c] \in Requests
    BY DEF CourierInv, RolesInv, FinalizePcs
  <1>2. /\ Done(c) \in JobStates /\ RoleOK(c, Done(c))
        /\ job' = [job EXCEPT ![c] = Done(c)] /\ CursorMoved(c, Done(c))
    BY <1>1, GoneOn DEF CourierInv, Released
  <1>3. Done(c).pc \in {"idle", "loop"}
    BY JobFields
  <1>4. Releasing(c, Done(c))
    BY <1>3 DEF Releasing, Released
  <1> QED BY <1>2, <1>4 DEF Turn

LEMMA ReleasedQuiet ==
    ASSUME CallersDistinct, CourierBounds, CourierInv, NEW c \in Callers, Released(c),
           job[c].pc \in FinalizePcs,
           c \in AdminUsers /\ job[c].pc \in LockPcs => HoldsAdminLock(c),
           UNCHANGED <<chain, resolved, tx, settledBy>>, UNCHANGED faults \/ Fault,
           job[c].pc = "receipt" => tx[job[c].id].status # "pending"
    PROVE  Quiet(c, Done(c))
  <1>1. Turn(c, Done(c))
    BY ReleasedTurn
  <1>2. Onward
    BY DEF Onward, CourierInv, CourierTypes
  <1>3. Done(c).pc \in {"idle", "loop"} /\ Done(c).nonce = 0 /\ Done(c).id = 0
    BY JobFields
  <1> QED BY <1>1, <1>2, <1>3 DEF Quiet, MadePcs

\* A caller goes on to its next await, with what it owns and where it stands in line.
LEMMA AdvancedQuiet ==
    ASSUME CallersDistinct, CourierBounds, CourierInv, NEW c \in Callers, NEW pc \in Pcs, To(c, pc),
           job[c].pc \notin {"idle", "loop", "receipt"},
           RoleOK(c, JobAt(job[c], pc)), Going(c, JobAt(job[c], pc)),
           pc \notin {"send", "receipt"},
           c # Treasury /\ pc \in MadePcs => chain[job[c].r] # "None",
           c # Treasury /\ pc = "nonce" => chain[job[c].r] = "Requested",
           UNCHANGED <<chain, resolved, cursor, tx, settledBy>>, UNCHANGED faults \/ Fault
    PROVE  Quiet(c, JobAt(job[c], pc))
  <1>1. job[c] \in JobStates
    BY DEF CourierInv, CourierTypes
  <1>2. /\ JobAt(job[c], pc) \in JobStates /\ JobAt(job[c], pc).pc = pc
        /\ JobAt(job[c], pc).r = job[c].r /\ JobAt(job[c], pc).nonce = job[c].nonce
        /\ JobAt(job[c], pc).id = job[c].id
    BY <1>1, JobFields
  <1>3. job' = [job EXCEPT ![c] = JobAt(job[c], pc)]
    BY DEF To, JobAt
  <1>4. CursorMoved(c, JobAt(job[c], pc))
    BY DEF CursorMoved, CourierInv, CourierTypes, RolesInv
  <1>5. Onward
    BY DEF Onward, CourierInv, CourierTypes
  <1>6. Turn(c, JobAt(job[c], pc))
    BY <1>2, <1>3, <1>4 DEF Turn
  <1> QED BY <1>2, <1>5, <1>6 DEF Quiet

\* A request is owned: by an HTTP call, or by the sweeper.
LEMMA OwnedQuiet ==
    ASSUME CallersDistinct, CourierBounds, CourierInv, NEW c \in Server, NEW r \in Requests \ finalizing,
           Own(c, r), job[c].pc \in {"idle", "peekProbe"},
           c \in Loops => cursor[c] \in Requests,
           UNCHANGED <<chain, resolved, cursor, queue, tx, settledBy>>, UNCHANGED faults \/ Fault
    PROVE  Quiet(c, Work("read", r))
  <1>0. c \in Callers /\ c # Keeper /\ c # Treasury
    BY DEF Callers, Server, CallersDistinct
  <1>1. /\ Work("read", r) \in JobStates /\ Work("read", r).pc = "read" /\ Work("read", r).r = r
        /\ Work("read", r).nonce = 0 /\ Work("read", r).id = 0
    BY JobFields DEF Pcs
  <1>2. job' = [job EXCEPT ![c] = Work("read", r)]
    BY DEF Own, Work
  <1>3. RoleOK(c, Work("read", r))
    BY <1>0, <1>1 DEF RoleOK, FinalizePcs
  <1>4. CursorMoved(c, Work("read", r))
    BY DEF CursorMoved, CourierInv, CourierTypes
  <1>5. Owning(c, Work("read", r))
    BY <1>1 DEF Owning, Own, FinalizePcs
  <1>6. Turn(c, Work("read", r))
    BY <1>1, <1>2, <1>3, <1>4, <1>5 DEF Turn
  <1>7. Onward
    BY DEF Onward, CourierInv, CourierTypes
  <1> QED BY <1>1, <1>6, <1>7 DEF Quiet, MadePcs

LEMMA PostKeeps ==
    ASSUME CallersDistinct, CourierBounds, CourierInv, NEW c \in Posts, NEW r \in Requests, Post(c, r)
    PROVE  CourierInv'
  <1>1. c \in Server /\ c \in Callers /\ c \notin Loops
    BY DEF Server, Callers, Loops, CallersDistinct
  <1>2. r \in Requests \ finalizing /\ Own(c, r) /\ job[c].pc = "idle"
    BY DEF Post, At
  <1>3. Quiet(c, Work("read", r))
    BY <1>1, <1>2, OwnedQuiet DEF Post
  <1> QED BY <1>1, <1>3, QuietKeeps

LEMMA RoleOf ==
    ASSUME CallersDistinct, CourierInv, NEW c \in Callers
    PROVE  /\ RoleOK(c, job[c]) /\ job[c] \in JobStates
           /\ c = Treasury => c \notin Server /\ c \in AdminUsers
           /\ c = Keeper => c \notin Server /\ c \notin AdminUsers
           /\ c \in Server => c \in AdminUsers
           /\ c \notin Server => c \in {Keeper, Treasury}
  BY DEF CourierInv, RolesInv, CourierTypes, CallersDistinct, Callers, Server, AdminUsers

LEMMA ReadKeeps ==
    ASSUME CallersDistinct, CourierBounds, CourierInv, NEW c \in Callers, ReadRequest(c)
    PROVE  CourierInv'
  <1>1. job[c].pc = "read" /\ c \in Server /\ job[c].r \in Requests /\ c # Keeper /\ c # Treasury
    BY RoleOf DEF ReadRequest, At, RoleOK
  <1>2. CASE Released(c) /\ (UNCHANGED faults \/ Fault)
    <2>1. Quiet(c, Done(c))
      BY <1>1, <1>2, ReleasedQuiet DEF ReadRequest, FinalizePcs, LockPcs
    <2> QED BY <2>1, QuietKeeps
  <1>3. CASE /\ chain[job[c].r] = "Requested" /\ To(c, "probe")
             /\ UNCHANGED <<finalizing, cursor, queue, faults>>
    <2>1. /\ JobAt(job[c], "probe").pc = "probe" /\ JobAt(job[c], "probe").r = job[c].r
          /\ "probe" \in Pcs
      BY RoleOf, JobFields DEF Pcs
    <2>2. RoleOK(c, JobAt(job[c], "probe"))
      BY <1>1, <2>1 DEF RoleOK, FinalizePcs
    <2>3. Going(c, JobAt(job[c], "probe"))
      BY <1>1, <1>3, <2>1 DEF Going, FinalizePcs, LockPcs
    <2>4. Quiet(c, JobAt(job[c], "probe"))
      BY <1>1, <1>3, <2>1, <2>2, <2>3, AdvancedQuiet DEF ReadRequest
    <2> QED BY <2>4, QuietKeeps
  <1> QED BY <1>2, <1>3 DEF ReadRequest

LEMMA ProbeKeeps ==
    ASSUME CallersDistinct, CourierBounds, CourierInv, NEW c \in Callers, Probe(c)
    PROVE  CourierInv'
  <1>1. job[c].pc = "probe" /\ c # Treasury /\ job[c].r \in Requests
    BY RoleOf DEF Probe, At, RoleOK
  <1>2. CASE Released(c) /\ (UNCHANGED faults \/ Fault)
    <2>1. Quiet(c, Done(c))
      BY <1>1, <1>2, ReleasedQuiet DEF Probe, FinalizePcs, LockPcs
    <2> QED BY <2>1, QuietKeeps
  <1>3. CASE To(c, "decrypt") /\ UNCHANGED <<finalizing, cursor, queue, faults>>
    <2>1. /\ JobAt(job[c], "decrypt").pc = "decrypt" /\ JobAt(job[c], "decrypt").r = job[c].r
          /\ "decrypt" \in Pcs
      BY RoleOf, JobFields DEF Pcs
    <2>2. RoleOK(c, JobAt(job[c], "decrypt"))
      BY <1>1, <2>1, RoleOf DEF RoleOK, FinalizePcs
    <2>3. Going(c, JobAt(job[c], "decrypt"))
      BY <1>1, <1>3, <2>1 DEF Going, FinalizePcs, LockPcs
    <2>4. chain[job[c].r] # "None"
      BY <1>1 DEF CourierInv, MadeInv
    <2>5. Quiet(c, JobAt(job[c], "decrypt"))
      BY <1>1, <1>3, <2>1, <2>2, <2>3, <2>4, AdvancedQuiet DEF Probe
    <2> QED BY <2>5, QuietKeeps
  <1> QED BY <1>2, <1>3 DEF Probe

LEMMA DecryptKeeps ==
    ASSUME CallersDistinct, CourierBounds, CourierInv, NEW c \in Callers, Decrypt(c)
    PROVE  CourierInv'
  <1>1. job[c].pc = "decrypt" /\ c # Treasury /\ job[c].r \in Requests
    BY RoleOf DEF Decrypt, At, RoleOK
  <1>2. CASE Released(c) /\ Fault
    <2>1. Quiet(c, Done(c))
      BY <1>1, <1>2, ReleasedQuiet DEF Decrypt, FinalizePcs, LockPcs
    <2> QED BY <2>1, QuietKeeps
  <1>3. CASE /\ To(c, "estimate") /\ (IF c = Keeper THEN UNCHANGED queue ELSE JoinQueue(c))
             /\ UNCHANGED <<finalizing, cursor, faults>>
    <2> DEFINE me == JobAt(job[c], "estimate")
    <2>1. /\ me.pc = "estimate" /\ me.r = job[c].r /\ "estimate" \in Pcs /\ me \in JobStates
          /\ me.nonce = job[c].nonce /\ me.id = job[c].id
      BY RoleOf, JobFields DEF Pcs
    <2> HIDE DEF me
    <2>2. RoleOK(c, me)
      BY <1>1, <2>1, RoleOf DEF RoleOK, FinalizePcs
    <2>3. Going(c, me) \/ Joining(c, me)
      <3>1. CASE c = Keeper
        BY <1>3, <3>1, RoleOf DEF Going
      <3>2. CASE c # Keeper
        <4>1. c \in Server /\ c \in AdminUsers
          BY <1>1, <3>2, RoleOf
        <4> QED BY <1>1, <1>3, <2>1, <3>2, <4>1 DEF Joining, JoinQueue, FinalizePcs, LockPcs
      <3> QED BY <3>1, <3>2
    <2>4. chain[job[c].r] # "None"
      BY <1>1 DEF CourierInv, MadeInv
    <2>5. job' = [job EXCEPT ![c] = me]
      BY <1>3 DEF To, JobAt, me
    <2>6. CursorMoved(c, me)
      BY <1>1, <1>3 DEF CursorMoved, CourierInv, CourierTypes, RolesInv
    <2>7. Onward
      BY DEF Onward, CourierInv, CourierTypes, Decrypt
    <2>8. Quiet(c, me)
      BY <1>1, <1>3, <2>1, <2>2, <2>3, <2>4, <2>5, <2>6, <2>7 DEF Quiet, Turn, Decrypt
    <2> QED BY <2>8, QuietKeeps
  <1> QED BY <1>2, <1>3 DEF Decrypt

LEMMA EstimateKeeps ==
    ASSUME CallersDistinct, CourierBounds, CourierInv, NEW c \in Callers, Estimate(c)
    PROVE  CourierInv'
  <1>1. /\ job[c].pc = "estimate" /\ c # Treasury /\ job[c].r \in Requests
        /\ c \in AdminUsers => HoldsAdminLock(c)
    BY RoleOf DEF Estimate, At, RoleOK, MaySend
  <1>2. CASE Released(c) /\ (UNCHANGED faults \/ Fault)
    <2>1. Quiet(c, Done(c))
      BY <1>1, <1>2, ReleasedQuiet DEF Estimate, FinalizePcs, LockPcs
    <2> QED BY <2>1, QuietKeeps
  <1>3. CASE /\ chain[job[c].r] = "Requested" /\ To(c, "nonce")
             /\ UNCHANGED <<finalizing, cursor, queue, faults>>
    <2>1. /\ JobAt(job[c], "nonce").pc = "nonce" /\ JobAt(job[c], "nonce").r = job[c].r
          /\ "nonce" \in Pcs
      BY RoleOf, JobFields DEF Pcs
    <2>2. RoleOK(c, JobAt(job[c], "nonce"))
      BY <1>1, <2>1, RoleOf DEF RoleOK, FinalizePcs
    <2>3. Going(c, JobAt(job[c], "nonce"))
      BY <1>1, <1>3, <2>1 DEF Going, FinalizePcs, LockPcs
    <2>4. Quiet(c, JobAt(job[c], "nonce"))
      BY <1>1, <1>3, <2>1, <2>2, <2>3, AdvancedQuiet DEF Estimate
    <2> QED BY <2>4, QuietKeeps
  <1> QED BY <1>2, <1>3 DEF Estimate

\* The loops: they begin, look at a request, and go on or end.
LEMMA LoopQuiet ==
    ASSUME CallersDistinct, CourierBounds, CourierInv, NEW c \in Loops, NEW me \in JobStates,
           job' = [job EXCEPT ![c] = me], RoleOK(c, me), CursorMoved(c, me),
           job[c].pc \in {"idle", "loop", "peek", "peekProbe", "expire"},
           me.pc \in {"idle", "loop", "peek"},
           me.nonce = 0 /\ me.id = 0,
           Onward, UNCHANGED <<resolved, finalizing, queue, tx, settledBy>>, UNCHANGED faults \/ Fault
    PROVE  CourierInv'
  <1>1. c \in Callers
    BY DEF Loops, Callers, Server
  <1>2. Going(c, me)
    BY DEF Going, FinalizePcs, LockPcs
  <1>3. Quiet(c, me)
    BY <1>2 DEF Quiet, Turn, MadePcs
  <1> QED BY <1>1, <1>3, QuietKeeps

LEMMA StartedKeeps ==
    ASSUME CallersDistinct, CourierBounds, CourierInv, NEW c \in Loops, Started(c)
    PROVE  CourierInv'
  <1>1. c \in Callers /\ job[c] \in JobStates /\ job[c].pc = "idle" /\ RoleOK(c, job[c])
    BY RoleOf DEF Loops, Callers, Server, Started, At
  <1> DEFINE me == JobAt(job[c], "loop")
  <1>2. me \in JobStates /\ me.pc = "loop" /\ me.r = job[c].r /\ me.nonce = job[c].nonce /\ me.id = job[c].id
    BY <1>1, JobFields DEF Pcs
  <1>3. job' = [job EXCEPT ![c] = me]
    BY DEF Started, To, JobAt
  <1> HIDE DEF me
  <1>4. RoleOK(c, me)
    <2>1. c # Treasury /\ c \notin Posts
      BY DEF Loops, CallersDistinct
    <2> QED BY <1>1, <1>2, <2>1 DEF RoleOK
  <1>5. cursor \in [Loops -> 1 .. MaxRequests + 1] /\ cursor' = [cursor EXCEPT ![c] = 1] /\ 1 \in 1 .. MaxRequests + 1
    BY DEF Started, CourierInv, CourierTypes, CourierBounds
  <1>6. CursorMoved(c, me)
    BY <1>2, <1>5 DEF CursorMoved
  <1>7. Onward
    BY DEF Started, Onward, CourierInv, CourierTypes
  <1>8. Going(c, me)
    BY <1>1, <1>2 DEF Going, FinalizePcs, LockPcs, Started
  <1>9. Quiet(c, me)
    BY <1>1, <1>2, <1>3, <1>4, <1>6, <1>7, <1>8 DEF Quiet, Turn, MadePcs, Started
  <1> QED BY <1>1, <1>9, QuietKeeps

LEMMA LoopKeeps ==
    ASSUME CallersDistinct, CourierBounds, CourierInv, NEW c \in Loops, Loop(c)
    PROVE  CourierInv'
  <1>1. /\ c \in Callers /\ job[c].pc = "loop" /\ c # Treasury /\ c \notin Posts
        /\ cursor \in [Loops -> 1 .. MaxRequests + 1]
    BY DEF Loops, Callers, Server, Loop, At, CallersDistinct, CourierInv, CourierTypes
  <1>2. NextId \in 1 .. MaxRequests + 1
    BY NextIdIsNext DEF CourierInv
  <1>3. cursor[c] < NextId => cursor[c] \in Requests
    BY <1>1, <1>2 DEF Requests, CourierBounds
  <1>4. Onward
    BY DEF Loop, Onward, CourierInv, CourierTypes
  <1>5. CASE job' = [job EXCEPT ![c] = Idle] /\ UNCHANGED cursor
    <2>1. Idle \in JobStates /\ Idle.pc = "idle" /\ Idle.r = 0 /\ Idle.nonce = 0 /\ Idle.id = 0
      BY JobFields DEF Idle
    <2>2. RoleOK(c, Idle)
      BY <2>1 DEF RoleOK
    <2>3. CursorMoved(c, Idle)
      BY <1>1, <1>5, <2>1 DEF CursorMoved
    <2> QED BY <1>1, <1>4, <1>5, <2>1, <2>2, <2>3, LoopQuiet DEF Loop
  <1>6. CASE cursor[c] < NextId /\ GoOn(c)
    <2>1. /\ Done(c) \in JobStates /\ RoleOK(c, Done(c))
          /\ job' = [job EXCEPT ![c] = Done(c)] /\ CursorMoved(c, Done(c))
      BY <1>1, <1>3, <1>6, GoneOn DEF CourierInv
    <2>2. Done(c).pc \in {"idle", "loop"} /\ Done(c).nonce = 0 /\ Done(c).id = 0
      BY JobFields
    <2> QED BY <1>1, <1>4, <2>1, <2>2, LoopQuiet DEF Loop
  <1>7. CASE /\ cursor[c] < NextId
             /\ job' = [job EXCEPT ![c] = [Idle EXCEPT !.pc = "peek", !.r = cursor[c]]]
             /\ UNCHANGED cursor
    <2>1. cursor[c] \in Requests
      BY <1>3, <1>7
    <2>2. /\ Work("peek", cursor[c]) \in JobStates
          /\ Work("peek", cursor[c]).pc = "peek" /\ Work("peek", cursor[c]).r = cursor[c]
          /\ Work("peek", cursor[c]).nonce = 0 /\ Work("peek", cursor[c]).id = 0
      BY <2>1, JobFields DEF Pcs
    <2>3. RoleOK(c, Work("peek", cursor[c]))
      BY <1>1, <2>1, <2>2 DEF RoleOK
    <2>4. CursorMoved(c, Work("peek", cursor[c]))
      BY <1>1, <1>7, <2>1 DEF CursorMoved
    <2>5. job' = [job EXCEPT ![c] = Work("peek", cursor[c])]
      BY <1>7 DEF Work
    <2> QED BY <1>1, <1>4, <2>2, <2>3, <2>4, <2>5, LoopQuiet DEF Loop
  <1> QED BY <1>5, <1>6, <1>7 DEF Loop

\* The loop goes on with the next request, or ends where it is.
LEMMA LookedKeeps ==
    ASSUME CallersDistinct, CourierBounds, CourierInv, NEW c \in Loops,
           job[c].pc \in {"peek", "peekProbe", "expire"}, GoOn(c),
           Onward, UNCHANGED <<resolved, finalizing, queue, tx, settledBy>>, UNCHANGED faults \/ Fault
    PROVE  CourierInv'
  <1>1. c \in Callers /\ cursor[c] \in Requests
    BY DEF Loops, Callers, Server, CourierInv, CourierTypes, RolesInv
  <1>2. /\ Done(c) \in JobStates /\ RoleOK(c, Done(c))
        /\ job' = [job EXCEPT ![c] = Done(c)] /\ CursorMoved(c, Done(c))
    BY <1>1, GoneOn DEF CourierInv
  <1>3. Done(c).pc \in {"idle", "loop"} /\ Done(c).nonce = 0 /\ Done(c).id = 0
    BY JobFields
  <1> QED BY <1>2, <1>3, LoopQuiet

LEMMA LoopEnds ==
    ASSUME CallersDistinct, CourierBounds, CourierInv, NEW c \in Loops,
           job[c].pc \in {"peek", "peekProbe", "expire"},
           job' = [job EXCEPT ![c] = Idle], UNCHANGED cursor,
           Onward, UNCHANGED <<resolved, finalizing, queue, tx, settledBy>>, UNCHANGED faults \/ Fault
    PROVE  CourierInv'
  <1>1. Idle \in JobStates /\ Idle.pc = "idle" /\ Idle.r = 0 /\ Idle.nonce = 0 /\ Idle.id = 0
    BY JobFields DEF Idle
  <1>2. RoleOK(c, Idle)
    BY <1>1, CallersDistinct DEF RoleOK, CallersDistinct, Loops
  <1>3. CursorMoved(c, Idle)
    BY <1>1 DEF CursorMoved, CourierInv, CourierTypes
  <1> QED BY <1>1, <1>2, <1>3, LoopQuiet

LEMMA PeekSweepKeeps ==
    ASSUME CallersDistinct, CourierBounds, CourierInv, PeekSweep
    PROVE  CourierInv'
  <1> DEFINE interest == [Requested |-> "peekProbe", AwaitingSafeApproval |-> "expire"]
  <1>1. /\ Sweeper \in Loops /\ Sweeper \in Callers /\ Sweeper \in Server
        /\ job[Sweeper].pc = "peek" /\ job[Sweeper].r \in Requests
        /\ Sweeper # Keeper /\ Sweeper # Treasury /\ Sweeper \notin Posts
    BY RoleOf DEF Loops, Callers, Server, CallersDistinct, PeekSweep, Peeked, At, RoleOK
  <1>2. Onward
    BY DEF PeekSweep, Peeked, Onward, CourierInv, CourierTypes
  <1>3. CASE GoOn(Sweeper) /\ UNCHANGED faults
    <2>1. UNCHANGED <<resolved, finalizing, queue, tx, settledBy>>
      BY DEF PeekSweep, Peeked
    <2> QED BY <1>1, <1>2, <1>3, <2>1, LookedKeeps
  <1>4. CASE Fault /\ job' = [job EXCEPT ![Sweeper] = Idle] /\ UNCHANGED cursor
    <2>1. UNCHANGED <<resolved, finalizing, queue, tx, settledBy>>
      BY DEF PeekSweep, Peeked
    <2> QED BY <1>1, <1>2, <1>4, <2>1, LoopEnds
  <1>5. CASE /\ chain[job[Sweeper].r] \in DOMAIN interest
             /\ To(Sweeper, interest[chain[job[Sweeper].r]])
             /\ UNCHANGED <<cursor, faults>>
    <2>1. chain[job[Sweeper].r] \in {"Requested", "AwaitingSafeApproval"}
      BY <1>5
    <2>2. PICK pc \in {"peekProbe", "expire"} : To(Sweeper, pc)
      BY <1>5, <2>1
    <2>3. pc \in Pcs
      BY DEF Pcs
    <2>4. JobAt(job[Sweeper], pc).pc = pc /\ JobAt(job[Sweeper], pc).r = job[Sweeper].r
      BY <1>1, <2>3, RoleOf, JobFields
    <2>5. RoleOK(Sweeper, JobAt(job[Sweeper], pc))
      BY <1>1, <2>4 DEF RoleOK
    <2>6. Going(Sweeper, JobAt(job[Sweeper], pc))
      BY <1>1, <2>4 DEF Going, FinalizePcs, LockPcs, PeekSweep, Peeked
    <2>7. Quiet(Sweeper, JobAt(job[Sweeper], pc))
      BY <1>1, <1>5, <2>1, <2>2, <2>3, <2>5, <2>6, AdvancedQuiet DEF PeekSweep, Peeked
    <2> QED BY <1>1, <2>7, QuietKeeps
  <1> QED BY <1>3, <1>4, <1>5 DEF PeekSweep, Peeked

LEMMA PeekKeeperKeeps ==
    ASSUME CallersDistinct, CourierBounds, CourierInv, PeekKeeper
    PROVE  CourierInv'
  <1> DEFINE interest == [Requested |-> "probe"]
  <1>1. /\ Keeper \in Loops /\ Keeper \in Callers /\ Keeper \notin Server /\ Keeper \notin AdminUsers
        /\ job[Keeper].pc = "peek" /\ job[Keeper].r \in Requests
        /\ Keeper # Treasury /\ Keeper \notin Posts
    BY RoleOf DEF Loops, Callers, Server, CallersDistinct, PeekKeeper, Peeked, At, RoleOK
  <1>2. Onward
    BY DEF PeekKeeper, Peeked, Onward, CourierInv, CourierTypes
  <1>3. CASE GoOn(Keeper) /\ UNCHANGED faults
    <2>1. UNCHANGED <<resolved, finalizing, queue, tx, settledBy>>
      BY DEF PeekKeeper, Peeked
    <2> QED BY <1>1, <1>2, <1>3, <2>1, LookedKeeps
  <1>4. CASE Fault /\ job' = [job EXCEPT ![Keeper] = Idle] /\ UNCHANGED cursor
    <2>1. UNCHANGED <<resolved, finalizing, queue, tx, settledBy>>
      BY DEF PeekKeeper, Peeked
    <2> QED BY <1>1, <1>2, <1>4, <2>1, LoopEnds
  <1>5. CASE /\ chain[job[Keeper].r] \in DOMAIN interest
             /\ To(Keeper, interest[chain[job[Keeper].r]])
             /\ UNCHANGED <<cursor, faults>>
    <2>1. chain[job[Keeper].r] = "Requested" /\ To(Keeper, "probe") /\ "probe" \in Pcs
      BY <1>5 DEF Pcs
    <2>2. JobAt(job[Keeper], "probe").pc = "probe" /\ JobAt(job[Keeper], "probe").r = job[Keeper].r
      BY <1>1, <2>1, RoleOf, JobFields
    <2>3. RoleOK(Keeper, JobAt(job[Keeper], "probe"))
      BY <1>1, <2>2 DEF RoleOK
    <2>4. Going(Keeper, JobAt(job[Keeper], "probe"))
      BY <1>1 DEF Going, PeekKeeper, Peeked
    <2>5. Quiet(Keeper, JobAt(job[Keeper], "probe"))
      BY <1>1, <1>5, <2>1, <2>3, <2>4, AdvancedQuiet DEF PeekKeeper, Peeked
    <2> QED BY <1>1, <2>5, QuietKeeps
  <1> QED BY <1>3, <1>4, <1>5 DEF PeekKeeper, Peeked

LEMMA PeekProbeKeeps ==
    ASSUME CallersDistinct, CourierBounds, CourierInv, PeekProbe
    PROVE  CourierInv'
  <1>1. /\ Sweeper \in Loops /\ Sweeper \in Callers /\ Sweeper \in Server
        /\ job[Sweeper].pc = "peekProbe" /\ job[Sweeper].r \in Requests
        /\ Sweeper # Treasury
    BY RoleOf DEF Loops, Callers, Server, CallersDistinct, PeekProbe, At, RoleOK
  <1>2. CASE GoOn(Sweeper) /\ UNCHANGED finalizing /\ (UNCHANGED faults \/ Fault)
    <2>1. Onward
      BY DEF PeekProbe, Onward, CourierInv, CourierTypes
    <2> QED BY <1>1, <1>2, <2>1, LookedKeeps DEF PeekProbe
  <1>3. CASE /\ job[Sweeper].r \in resolved \ finalizing /\ Own(Sweeper, job[Sweeper].r)
             /\ UNCHANGED <<cursor, faults>>
    <2>1. cursor[Sweeper] \in Requests
      BY <1>1 DEF CourierInv, RolesInv
    <2>2. Quiet(Sweeper, Work("read", job[Sweeper].r))
      BY <1>1, <1>3, <2>1, OwnedQuiet DEF PeekProbe
    <2> QED BY <1>1, <2>2, QuietKeeps
  <1> QED BY <1>2, <1>3 DEF PeekProbe

LEMMA ExpireKeeps ==
    ASSUME CallersDistinct, CourierBounds, CourierInv, ExpireEscalation
    PROVE  CourierInv'
  <1>1. /\ Sweeper \in Loops /\ Sweeper \in Callers /\ job[Sweeper].pc = "expire"
        /\ job[Sweeper].r \in Requests /\ Sweeper # Treasury
    BY RoleOf DEF Loops, Callers, Server, CallersDistinct, ExpireEscalation, At, RoleOK
  <1>2. chain[job[Sweeper].r] # "None"
    BY <1>1 DEF CourierInv, MadeInv
  <1>3. Onward
    BY <1>1, <1>2 DEF ExpireEscalation, Onward, CourierInv, CourierTypes, RequestStates
  <1> QED BY <1>1, <1>3, LookedKeeps DEF ExpireEscalation

LEMMA SendOtherKeeps ==
    ASSUME CallersDistinct, CourierBounds, CourierInv, SendOther
    PROVE  CourierInv'
  <1>1. /\ Treasury \in Callers /\ Treasury \in AdminUsers /\ Treasury \notin Server
        /\ Treasury \notin Loops /\ Treasury # Keeper /\ Treasury \notin Posts
        /\ job[Treasury].pc = "idle" /\ job[Treasury] \in JobStates /\ job[Treasury].r = 0
    BY RoleOf DEF Loops, Callers, Server, AdminUsers, CallersDistinct, SendOther, At, RoleOK
  <1> DEFINE me == JobAt(job[Treasury], "nonce")
  <1>2. /\ me \in JobStates /\ me.pc = "nonce" /\ me.r = 0
        /\ me.nonce = job[Treasury].nonce /\ me.id = job[Treasury].id
    BY <1>1, JobFields DEF Pcs
  <1>3. job' = [job EXCEPT ![Treasury] = me]
    BY DEF SendOther, To, JobAt
  <1> HIDE DEF me
  <1>4. RoleOK(Treasury, me)
    BY <1>1, <1>2 DEF RoleOK
  <1>5. CursorMoved(Treasury, me)
    BY <1>1 DEF CursorMoved, SendOther, CourierInv, CourierTypes
  <1>6. Joining(Treasury, me)
    BY <1>1, <1>2 DEF Joining, SendOther, JoinQueue, LockPcs
  <1>7. Onward
    BY DEF SendOther, Onward, CourierInv, CourierTypes
  <1>8. Quiet(Treasury, me)
    BY <1>1, <1>2, <1>3, <1>4, <1>5, <1>6, <1>7 DEF Quiet, Turn, SendOther
  <1> QED BY <1>1, <1>8, QuietKeeps

-----------------------------------------------------------------------------
(* Nonces, transactions and receipts.                                      *)

LEMMA TurnKeeps ==
    ASSUME CallersDistinct, CourierBounds, CourierInv, NEW c \in Callers, NEW me, Turn(c, me),
           chain' \in [Requests -> RequestStates], resolved' \in SUBSET Requests,
           tx' \in Seq(TxRecords), settledBy' \in [Requests -> Nat], UNCHANGED faults \/ Fault
    PROVE  CourierTypes' /\ RolesInv' /\ LockInv' /\ OwnInv'
  <1>1. RolesInv' /\ LockInv' /\ OwnInv'
    BY TurnRoles, TurnLock, TurnOwn DEF CourierInv
  <1>2. queue' \in Seq(AdminUsers) /\ finalizing' \in SUBSET Requests /\ job' \in [Callers -> JobStates]
    BY TurnQueueType, TurnOwn, OthersStay DEF CourierInv
  <1>3. faults' \in 0 .. MaxFaults
    BY DEF Fault, CourierInv, CourierTypes, CourierBounds
  <1>4. cursor' \in [Loops -> 1 .. MaxRequests + 1]
    BY DEF Turn, CursorMoved
  <1> QED BY <1>1, <1>2, <1>3, <1>4 DEF CourierTypes

\* SentBy counts the transactions of a sender, no more than were sent.
LEMMA SentByCount ==
    ASSUME CourierTypes, NEW s
    PROVE  Cardinality(SentBy(s)) \in Nat /\ Cardinality(SentBy(s)) <= Len(tx)
  <1>1. tx \in Seq(TxRecords) /\ SentBy(s) = OfSender(tx, s)
    BY DEF CourierTypes, SentBy, OfSender
  <1> QED BY <1>1, SentByFinite

LEMMA TakeNonceKeeps ==
    ASSUME CallersDistinct, CourierBounds, CourierInv, NEW c \in Callers, TakeNonce(c)
    PROVE  CourierInv'
  <1>1. PICK k : k = Cardinality(SentBy(Sender(c)))
    OBVIOUS
  <1>2. k \in Nat /\ k <= Len(tx) /\ Len(tx) \in Nat
    BY <1>1, SentByCount, TxTypes DEF CourierInv
  <1>3. PICK mid : mid = JobAt(job[c], "send")
    OBVIOUS
  <1>4. PICK me : me = [mid EXCEPT !.nonce = k]
    OBVIOUS
  <1>5. mid \in JobStates /\ mid.pc = "send" /\ mid.r = job[c].r /\ mid.id = job[c].id
    BY <1>3, RoleOf, JobFields DEF Pcs
  <1>6. me \in JobStates /\ me.pc = "send" /\ me.r = job[c].r /\ me.id = job[c].id /\ me.nonce = k
    BY <1>2, <1>4, <1>5 DEF JobStates
  <1>7. job' = [job EXCEPT ![c] = me]
    <2>1. job' = [job EXCEPT ![c].pc = "send", ![c].nonce = k]
      BY <1>1 DEF TakeNonce
    <2>2. job \in [Callers -> JobStates]
      BY DEF CourierInv, CourierTypes
    <2> QED BY <1>3, <1>4, <2>1, <2>2 DEF JobAt
  <1>8. job[c].pc = "nonce" /\ RoleOK(c, job[c]) /\ (c \in AdminUsers => HoldsAdminLock(c))
    BY RoleOf DEF TakeNonce, At, MaySend
  <1>9. RoleOK(c, me)
    BY <1>6, <1>8 DEF RoleOK, FinalizePcs
  <1>10. CursorMoved(c, me)
    BY <1>8 DEF CursorMoved, CourierInv, CourierTypes, RolesInv, TakeNonce
  <1>11. Going(c, me)
    BY <1>6, <1>8 DEF Going, FinalizePcs, LockPcs, TakeNonce
  <1>12. Turn(c, me)
    BY <1>6, <1>7, <1>9, <1>10, <1>11 DEF Turn
  <1>13. UNCHANGED <<chain, resolved, tx, settledBy, faults>>
    BY DEF TakeNonce
  <1>14. CourierTypes' /\ RolesInv' /\ LockInv' /\ OwnInv'
    BY <1>12, <1>13, TurnKeeps DEF CourierInv, CourierTypes
  <1>15. job'[c] = me /\ \A d \in Callers : d # c => job'[d] = job[d]
    BY <1>12, OthersStay DEF CourierInv
  <1>16. NonceInv'
    <2>1. \A d \in Callers : job'[d].nonce <= Len(tx) /\ job'[d].id <= Len(tx)
      BY <1>2, <1>6, <1>15 DEF CourierInv, NonceInv
    <2>2. \A d \in Callers : job'[d].pc = "send" => job'[d].nonce = Cardinality(SentBy(Sender(d)))
      BY <1>1, <1>6, <1>15 DEF CourierInv, NonceInv, At
    <2>3. \A s : SentBy(s)' = SentBy(s)
      BY <1>13 DEF SentBy
    <2> QED BY <1>13, <2>1, <2>2, <2>3 DEF CourierInv, NonceInv, At
  <1>17. MadeInv'
    <2>1. \A d \in Callers \ {Treasury} :
             job'[d].pc \in {"expire", "probe", "decrypt", "estimate", "nonce", "send"} =>
                 chain[job'[d].r] # "None"
      BY <1>6, <1>8, <1>15 DEF CourierInv, MadeInv
    <2> QED BY <1>13, <2>1 DEF CourierInv, MadeInv
  <1>18. FollowInv'
    <2>0. AdminUsers \subseteq Callers /\ Server \subseteq AdminUsers
      BY AdminUsersDistinct
    <2>1. \A d \in AdminUsers : job'[d].pc = "receipt" <=> job[d].pc = "receipt"
      BY <1>6, <1>8, <1>15, <2>0
    <2>2. \A d \in AdminUsers : job'[d].id = job[d].id /\ job'[d].r = job[d].r
      BY <1>6, <1>15, <2>0
    <2>3. \A d \in Server : job'[d].pc \in {"nonce", "send"} <=> job[d].pc \in {"nonce", "send"}
      BY <1>6, <1>8, <1>15, <2>0
    <2> QED BY <1>13, <2>0, <2>1, <2>2, <2>3 DEF CourierInv, FollowInv
  <1> QED BY <1>14, <1>16, <1>17, <1>18 DEF CourierInv

\* What the sender of a new transaction, and everything else, keeps.
LEMMA SentKeeps ==
    ASSUME CallersDistinct, CourierBounds, CourierInv, NEW c \in Callers, NEW me, Turn(c, me),
           NEW watched \in BOOLEAN, Sent(c, watched),
           job[c].pc = "send",
           watched => me.pc = "receipt" /\ me.id = Len(tx) + 1,
           ~watched => me.pc \in {"idle", "loop"},
           me.nonce <= Len(tx) + 1 /\ me.id <= Len(tx) + 1,
           UNCHANGED <<chain, resolved, settledBy>>, UNCHANGED faults \/ Fault
    PROVE  CourierInv'
  <1>0. /\ tx \in Seq(TxRecords) /\ job[c] \in JobStates /\ RoleOK(c, job[c])
        /\ Sender(c) \in {"admin", "keeper"} /\ DOMAIN tx = 1 .. Len(tx) /\ Len(tx) \in Nat
    BY RoleOf, TxTypes DEF CourierInv, CourierTypes, Sender
  <1> DEFINE n == Len(tx) + 1
  <1>1. PICK x : x = [by |-> Sender(c), r |-> job[c].r, nonce |-> job[c].nonce,
                      status |-> "pending", watched |-> watched]
    OBVIOUS
  <1>2. x \in TxRecords /\ tx' = Append(tx, x)
    BY <1>0, <1>1 DEF TxRecords, JobStates, Sent
  <1>3. /\ x.by = Sender(c) /\ x.r = job[c].r /\ x.nonce = job[c].nonce
        /\ x.status = "pending" /\ x.watched = watched
    BY <1>1
  <1>4. /\ DOMAIN tx' = DOMAIN tx \cup {n} /\ n \notin DOMAIN tx
        /\ tx'[n] = x /\ \A i \in DOMAIN tx : tx'[i] = tx[i]
        /\ tx' \in Seq(TxRecords) /\ Len(tx') = Len(tx) + 1
    BY <1>0, <1>2, SentByAppend
  <1>5. \A s : Cardinality(OfSender(tx', s)) = Cardinality(SentBy(s)) + (IF x.by = s THEN 1 ELSE 0)
    <2> SUFFICES ASSUME NEW s
                 PROVE  Cardinality(OfSender(tx', s)) = Cardinality(SentBy(s)) + (IF x.by = s THEN 1 ELSE 0)
      OBVIOUS
    <2>1. SentBy(s) = OfSender(tx, s) /\ OfSender(tx', s) = OfSender(Append(tx, x), s)
      BY <1>2 DEF SentBy, OfSender
    <2> QED BY <1>0, <1>2, <2>1, SentByAppend
  <1>6. job'[c] = me /\ \A d \in Callers : d # c => job'[d] = job[d]
    BY OthersStay DEF CourierInv
  <1>7. CourierTypes' /\ RolesInv' /\ LockInv' /\ OwnInv'
    <2>1. chain' \in [Requests -> RequestStates] /\ resolved' \in SUBSET Requests
          /\ settledBy' \in [Requests -> Nat]
      BY DEF CourierInv, CourierTypes
    <2> QED BY <1>4, <2>1, TurnKeeps
  <1>8. AdminUsers \subseteq Callers /\ Server \subseteq AdminUsers /\ Treasury \notin Server
        /\ Keeper \notin AdminUsers /\ Callers = AdminUsers \cup {Keeper}
        /\ (\A d \in AdminUsers : Sender(d) = "admin") /\ Sender(Keeper) = "keeper"
    BY AdminUsersDistinct
  <1>9. c \in AdminUsers => HoldsAdminLock(c)
    BY DEF CourierInv, LockInv
  <1>10. \A s : Cardinality(SentBy(s)) \in Nat
    BY SentByCount DEF CourierInv
  <1>11. x.nonce = Cardinality(SentBy(x.by))
    BY <1>3 DEF CourierInv, NonceInv, At
  <1>12. NonceInv'
    <2>1. ASSUME NEW i \in DOMAIN tx' PROVE tx'[i].nonce < Cardinality(OfSender(tx', tx'[i].by))
      <3>1. CASE i = n
        <4>1. Cardinality(OfSender(tx', x.by)) = Cardinality(SentBy(x.by)) + 1
          BY <1>5
        <4>2. Cardinality(SentBy(x.by)) \in Nat
          BY <1>10
        <4>3. x.nonce < Cardinality(OfSender(tx', x.by))
          BY <1>11, <4>1, <4>2
        <4> QED BY <1>4, <3>1, <4>3
      <3>2. CASE i \in DOMAIN tx
        <4>1. PICK y : y = tx[i]
          OBVIOUS
        <4>2. y.nonce < Cardinality(SentBy(y.by)) /\ y.nonce \in Nat
          BY <3>2, <4>1, TxTypes DEF CourierInv, NonceInv
        <4>3. Cardinality(SentBy(y.by)) \in Nat
          BY <1>10
        <4>4. Cardinality(OfSender(tx', y.by)) = Cardinality(SentBy(y.by)) + (IF x.by = y.by THEN 1 ELSE 0)
          BY <1>5
        <4>5. y.nonce < Cardinality(OfSender(tx', y.by))
          BY <4>2, <4>3, <4>4
        <4> QED BY <1>4, <3>2, <4>1, <4>5
      <3> QED BY <1>4, <3>1, <3>2
    <2>2. ASSUME NEW i \in DOMAIN tx', NEW j \in DOMAIN tx', i < j, tx'[i].by = tx'[j].by
          PROVE  tx'[i].nonce < tx'[j].nonce
      <3>1. i \in DOMAIN tx /\ tx'[i] = tx[i]
        BY <1>0, <1>4, <2>2
      <3>2. CASE j = n
        BY <1>4, <1>11, <2>2, <3>1, <3>2 DEF CourierInv, NonceInv
      <3>3. CASE j \in DOMAIN tx
        BY <1>4, <2>2, <3>1, <3>3 DEF CourierInv, NonceInv
      <3> QED BY <1>4, <3>2, <3>3
    <2>3. \A d \in Callers : job'[d].nonce <= Len(tx') /\ job'[d].id <= Len(tx')
      <3>1. \A d \in Callers : job[d].nonce <= Len(tx) + 1 /\ job[d].id <= Len(tx) + 1
        <4>1. \A d \in Callers : job[d].nonce <= Len(tx) /\ job[d].id <= Len(tx)
                                 /\ job[d].nonce \in Nat /\ job[d].id \in Nat
          BY DEF CourierInv, NonceInv, CourierTypes, JobStates
        <4> QED BY <1>0, <4>1
      <3> QED BY <1>4, <1>6, <3>1
    <2>4. ASSUME NEW d \in Callers, job'[d].pc = "send"
          PROVE  job'[d].nonce = Cardinality(OfSender(tx', Sender(d)))
      <3>1. d # c /\ job'[d] = job[d]
        BY <1>6, <2>4
      <3>2. Sender(d) # x.by
        <4>1. CASE d \in AdminUsers /\ c \in AdminUsers
          <5>1. HoldsAdminLock(d)
            BY <2>4, <3>1, <4>1 DEF CourierInv, LockInv
          <5> QED BY <1>9, <3>1, <4>1, <5>1, OneHolder
        <4>2. CASE d \notin AdminUsers \/ c \notin AdminUsers
          BY <1>3, <1>8, <3>1, <4>2
        <4> QED BY <4>1, <4>2
      <3>3. Cardinality(OfSender(tx', Sender(d))) = Cardinality(SentBy(Sender(d))) + 0
        BY <1>5, <3>2
      <3> QED BY <1>10, <2>4, <3>1, <3>3 DEF CourierInv, NonceInv, At
    <2> QED BY <2>1, <2>2, <2>3, <2>4 DEF NonceInv, At, SentBy, OfSender
  <1>13. MadeInv'
    <2>1. \A d \in Callers \ {Treasury} :
             job'[d].pc \in {"expire", "probe", "decrypt", "estimate", "nonce", "send"} =>
                 chain[job'[d].r] # "None"
      BY <1>6 DEF CourierInv, MadeInv
    <2>2. x.r # 0 => chain[x.r] # "None"
      BY <1>0, <1>3 DEF CourierInv, MadeInv, RoleOK
    <2>3. \A i \in DOMAIN tx' : tx'[i].r # 0 => chain[tx'[i].r] # "None"
      BY <1>4, <2>2 DEF CourierInv, MadeInv
    <2> QED BY <2>1, <2>3 DEF CourierInv, MadeInv
  <1>14. FollowInv'
    <2>1. \A i \in DOMAIN tx' : tx'[i].r # 0 /\ tx'[i].status # "pending" => chain[tx'[i].r] # "Requested"
      BY <1>3, <1>4 DEF CourierInv, FollowInv
    <2>2. \A i \in DOMAIN tx' : tx'[i].r = 0 => tx'[i].status # "reverted"
      BY <1>3, <1>4 DEF CourierInv, FollowInv
    <2>3. ASSUME NEW d \in AdminUsers, job'[d].pc = "receipt"
          PROVE  job'[d].id \in DOMAIN tx' /\ tx'[job'[d].id].by = "admin"
      <3>1. CASE d = c
        BY <1>3, <1>4, <1>6, <1>8, <2>3, <3>1
      <3>2. CASE d # c
        BY <1>4, <1>6, <1>8, <2>3, <3>2 DEF CourierInv, FollowInv
      <3> QED BY <3>1, <3>2
    <2>4. ASSUME NEW j \in DOMAIN tx', tx'[j].by = "admin", tx'[j].watched, tx'[j].status = "pending"
          PROVE  /\ \E d \in AdminUsers : job'[d].pc = "receipt" /\ job'[d].id = j
                 /\ \A i \in DOMAIN tx' : tx'[i].by = "admin" => i <= j
      <3>1. CASE j = n
        <4>1. c \in AdminUsers /\ watched
          BY <1>3, <1>4, <1>8, <2>4, <3>1
        <4>2. job'[c].pc = "receipt" /\ job'[c].id = j
          BY <1>6, <3>1, <4>1
        <4>3. \A i \in DOMAIN tx' : i <= j
          BY <1>0, <1>4, <3>1
        <4> QED BY <4>1, <4>2, <4>3
      <3>2. CASE j \in DOMAIN tx
        <4>1. PICK d \in AdminUsers : job[d].pc = "receipt" /\ job[d].id = j
          BY <1>4, <2>4, <3>2 DEF CourierInv, FollowInv
        <4>2. HoldsAdminLock(d) /\ d # c
          BY <4>1 DEF CourierInv, LockInv
        <4>3. c \notin AdminUsers
          BY <1>9, <4>2, OneHolder
        <4>4. x.by # "admin"
          BY <1>3, <1>8, <4>3
        <4>5. job'[d].pc = "receipt" /\ job'[d].id = j
          BY <1>6, <1>8, <4>1, <4>2
        <4>6. \A i \in DOMAIN tx : tx[i].by = "admin" => i <= j
          BY <1>4, <2>4, <3>2 DEF CourierInv, FollowInv
        <4> QED BY <1>4, <4>4, <4>5, <4>6
      <3> QED BY <1>4, <3>1, <3>2
    <2>5. ASSUME NEW r \in Requests, settledBy[r] # 0
          PROVE  /\ settledBy[r] \in DOMAIN tx' /\ chain[r] # "Requested"
                 /\ tx'[settledBy[r]].status = "mined" /\ tx'[settledBy[r]].r = r
                 /\ tx'[settledBy[r]].by = "admin" /\ tx'[settledBy[r]].watched =>
                      /\ \A i \in DOMAIN tx' : tx'[i].by = "admin" /\ tx'[i].r = r => i = settledBy[r]
                      /\ \A d \in Server : job'[d].r = r => job'[d].pc \notin {"nonce", "send"}
      <3>1. /\ settledBy[r] \in DOMAIN tx /\ chain[r] # "Requested"
            /\ tx[settledBy[r]].status = "mined" /\ tx[settledBy[r]].r = r
        BY <2>5 DEF CourierInv, FollowInv
      <3>2. tx'[settledBy[r]] = tx[settledBy[r]] /\ settledBy[r] \in DOMAIN tx'
        BY <1>4, <3>1
      <3>3. ASSUME tx[settledBy[r]].by = "admin", tx[settledBy[r]].watched
            PROVE  /\ \A i \in DOMAIN tx' : tx'[i].by = "admin" /\ tx'[i].r = r => i = settledBy[r]
                   /\ \A d \in Server : job'[d].r = r => job'[d].pc \notin {"nonce", "send"}
        <4>1. /\ \A i \in DOMAIN tx : tx[i].by = "admin" /\ tx[i].r = r => i = settledBy[r]
              /\ \A d \in Server : job[d].r = r => job[d].pc \notin {"nonce", "send"}
          BY <2>5, <3>3 DEF CourierInv, FollowInv
        <4>2. me.pc \notin {"nonce", "send"}
          OBVIOUS
        <4>3. ~(x.by = "admin" /\ x.r = r)
          <5>1. c \in Server => x.r # r
            BY <1>3, <4>1
          <5>2. c = Treasury => x.r = 0
            BY <1>0, <1>3 DEF RoleOK
          <5>3. r # 0
            BY DEF Requests, CourierBounds
          <5>4. c = Keeper => x.by = "keeper"
            BY <1>3, <1>8
          <5> QED BY <1>8, <5>1, <5>2, <5>3, <5>4 DEF AdminUsers
        <4> QED BY <1>4, <1>6, <1>8, <4>1, <4>2, <4>3
      <3> QED BY <3>1, <3>2, <3>3
    <2> QED BY <2>1, <2>2, <2>3, <2>4, <2>5 DEF FollowInv
  <1> QED BY <1>7, <1>12, <1>13, <1>14 DEF CourierInv

\* The server stops following some of its transactions; nothing else of them changes.
Forgetting ==
    /\ tx' \in Seq(TxRecords) /\ DOMAIN tx' = DOMAIN tx /\ Len(tx') = Len(tx)
    /\ \A i \in DOMAIN tx :
         /\ tx'[i].by = tx[i].by /\ tx'[i].r = tx[i].r /\ tx'[i].nonce = tx[i].nonce
         /\ tx'[i].status = tx[i].status /\ (tx'[i].watched => tx[i].watched)

\* Jobs that end or stay as they are, while transactions are forgotten.
LEMMA ForgettingKeeps ==
    ASSUME CallersDistinct, CourierBounds, CourierInv, Forgetting,
           \A d \in Callers :
               \/ job'[d] = job[d]
               \/ job'[d].pc \in {"idle", "loop"} /\ job'[d].nonce = 0 /\ job'[d].id = 0,
           \A d \in AdminUsers : job[d].pc = "receipt" /\ tx'[job[d].id].watched => job'[d] = job[d],
           UNCHANGED <<chain, settledBy>>
    PROVE  NonceInv' /\ MadeInv' /\ FollowInv'
  <1>0. AdminUsers \subseteq Callers /\ Server \subseteq AdminUsers /\ Len(tx) \in Nat
    BY AdminUsersDistinct, TxTypes DEF CourierInv
  <1>1. NonceInv'
    <2>1. \A s : OfSender(tx', s) = OfSender(tx, s)
      BY DEF Forgetting, OfSender
    <2>2. \A i \in DOMAIN tx : tx[i].nonce < Cardinality(OfSender(tx, tx[i].by))
      BY DEF CourierInv, NonceInv, SentBy, OfSender
    <2>3. \A i \in DOMAIN tx' : tx'[i].nonce < Cardinality(OfSender(tx', tx'[i].by))
      BY <2>1, <2>2 DEF Forgetting
    <2>4. \A d \in Callers : job'[d].nonce <= Len(tx) /\ job'[d].id <= Len(tx)
      BY <1>0 DEF CourierInv, NonceInv
    <2>5. \A d \in Callers : job[d].pc = "send" => job[d].nonce = Cardinality(OfSender(tx, Sender(d)))
      BY DEF CourierInv, NonceInv, SentBy, OfSender, At
    <2>6. \A d \in Callers : job'[d].pc = "send" => job'[d].nonce = Cardinality(OfSender(tx', Sender(d)))
      BY <2>1, <2>5
    <2>7. \A i, j \in DOMAIN tx' : i < j /\ tx'[i].by = tx'[j].by => tx'[i].nonce < tx'[j].nonce
      BY DEF CourierInv, NonceInv, Forgetting
    <2> QED BY <2>3, <2>4, <2>6, <2>7 DEF Forgetting, NonceInv, At, SentBy, OfSender
  <1>2. MadeInv'
    <2>1. \A d \in Callers \ {Treasury} :
             job'[d].pc \in {"expire", "probe", "decrypt", "estimate", "nonce", "send"} =>
                 chain[job'[d].r] # "None"
      BY DEF CourierInv, MadeInv
    <2>2. \A i \in DOMAIN tx' : tx'[i].r # 0 => chain[tx'[i].r] # "None"
      BY DEF CourierInv, MadeInv, Forgetting
    <2> QED BY <2>1, <2>2 DEF CourierInv, MadeInv
  <1>3. FollowInv'
    <2>1. \A i \in DOMAIN tx' : tx'[i].r # 0 /\ tx'[i].status # "pending" => chain[tx'[i].r] # "Requested"
      BY DEF CourierInv, FollowInv, Forgetting
    <2>2. \A i \in DOMAIN tx' : tx'[i].r = 0 => tx'[i].status # "reverted"
      BY DEF CourierInv, FollowInv, Forgetting
    <2>3. \A d \in AdminUsers : job'[d].pc = "receipt" =>
            job'[d].id \in DOMAIN tx' /\ tx'[job'[d].id].by = "admin"
      BY <1>0 DEF CourierInv, FollowInv, Forgetting
    <2>4. ASSUME NEW j \in DOMAIN tx', tx'[j].by = "admin", tx'[j].watched, tx'[j].status = "pending"
          PROVE  /\ \E d \in AdminUsers : job'[d].pc = "receipt" /\ job'[d].id = j
                 /\ \A i \in DOMAIN tx' : tx'[i].by = "admin" => i <= j
      <3>1. j \in DOMAIN tx /\ tx[j].by = "admin" /\ tx[j].watched /\ tx[j].status = "pending"
        BY <2>4 DEF Forgetting
      <3>2. PICK d \in AdminUsers : job[d].pc = "receipt" /\ job[d].id = j
        BY <3>1 DEF CourierInv, FollowInv
      <3>3. job'[d] = job[d]
        BY <2>4, <3>2
      <3>4. \A i \in DOMAIN tx : tx[i].by = "admin" => i <= j
        BY <3>1 DEF CourierInv, FollowInv
      <3> QED BY <3>2, <3>3, <3>4 DEF Forgetting
    <2>5. ASSUME NEW r \in Requests, settledBy[r] # 0
          PROVE  /\ settledBy[r] \in DOMAIN tx' /\ chain[r] # "Requested"
                 /\ tx'[settledBy[r]].status = "mined" /\ tx'[settledBy[r]].r = r
                 /\ tx'[settledBy[r]].by = "admin" /\ tx'[settledBy[r]].watched =>
                      /\ \A i \in DOMAIN tx' : tx'[i].by = "admin" /\ tx'[i].r = r => i = settledBy[r]
                      /\ \A d \in Server : job'[d].r = r => job'[d].pc \notin {"nonce", "send"}
      <3>1. /\ settledBy[r] \in DOMAIN tx /\ chain[r] # "Requested"
            /\ tx[settledBy[r]].status = "mined" /\ tx[settledBy[r]].r = r
        BY <2>5 DEF CourierInv, FollowInv
      <3>2. ASSUME tx'[settledBy[r]].by = "admin", tx'[settledBy[r]].watched
            PROVE  /\ \A i \in DOMAIN tx' : tx'[i].by = "admin" /\ tx'[i].r = r => i = settledBy[r]
                   /\ \A d \in Server : job'[d].r = r => job'[d].pc \notin {"nonce", "send"}
        <4>1. tx[settledBy[r]].by = "admin" /\ tx[settledBy[r]].watched
          BY <3>1, <3>2 DEF Forgetting
        <4>2. /\ \A i \in DOMAIN tx : tx[i].by = "admin" /\ tx[i].r = r => i = settledBy[r]
              /\ \A d \in Server : job[d].r = r => job[d].pc \notin {"nonce", "send"}
          BY <2>5, <4>1 DEF CourierInv, FollowInv
        <4> QED BY <1>0, <4>2 DEF Forgetting
      <3> QED BY <3>1, <3>2 DEF Forgetting
    <2> QED BY <2>1, <2>2, <2>3, <2>4, <2>5 DEF FollowInv
  <1> QED BY <1>1, <1>2, <1>3

\* A transaction the server may have lost sight of.
LEMMA Unwatched ==
    ASSUME NEW y \in TxRecords, NEW b \in BOOLEAN
    PROVE  LET x == [y EXCEPT !.watched = b] IN
           /\ x \in TxRecords /\ x.by = y.by /\ x.r = y.r /\ x.nonce = y.nonce
           /\ x.status = y.status /\ x.watched = b
  BY DEF TxRecords

LEMMA SeqOfRecords ==
    ASSUME NEW n \in Nat, NEW q \in [1 .. n -> TxRecords]
    PROVE  q \in Seq(TxRecords) /\ Len(q) = n
  OBVIOUS

LEMMA SendKeeps ==
    ASSUME CallersDistinct, CourierBounds, CourierInv, NEW c \in Callers, Send(c)
    PROVE  CourierInv'
  <1>1. /\ job[c].pc = "send" /\ job[c] \in JobStates /\ RoleOK(c, job[c])
        /\ Len(tx) \in Nat /\ job[c].nonce <= Len(tx)
    BY RoleOf, TxTypes DEF Send, At, CourierInv, NonceInv
  <1>2. c \in AdminUsers => HoldsAdminLock(c)
    BY <1>1 DEF CourierInv, LockInv
  <1>3. CASE /\ Sent(c, TRUE)
             /\ job' = [job EXCEPT ![c].pc = "receipt", ![c].id = Len(tx) + 1]
             /\ UNCHANGED <<finalizing, cursor, queue, faults>>
    <2>1. PICK n : n = Len(tx) + 1
      OBVIOUS
    <2>2. PICK mid : mid = JobAt(job[c], "receipt")
      OBVIOUS
    <2>3. PICK me : me = [mid EXCEPT !.id = n]
      OBVIOUS
    <2>4. mid \in JobStates /\ mid.pc = "receipt" /\ mid.r = job[c].r /\ mid.nonce = job[c].nonce
      BY <1>1, <2>2, JobFields DEF Pcs
    <2>5. me \in JobStates /\ me.pc = "receipt" /\ me.r = job[c].r /\ me.nonce = job[c].nonce /\ me.id = n
      BY <1>1, <2>1, <2>3, <2>4 DEF JobStates
    <2>6. job' = [job EXCEPT ![c] = me]
      <3>1. job' = [job EXCEPT ![c].pc = "receipt", ![c].id = n]
        BY <1>3, <2>1
      <3>2. job \in [Callers -> JobStates]
        BY DEF CourierInv, CourierTypes
      <3> QED BY <2>2, <2>3, <3>1, <3>2 DEF JobAt
    <2>7. RoleOK(c, me)
      BY <1>1, <2>5 DEF RoleOK, FinalizePcs
    <2>8. CursorMoved(c, me)
      BY <1>1, <1>3 DEF CursorMoved, CourierInv, CourierTypes, RolesInv
    <2>9. Going(c, me)
      BY <1>1, <1>2, <1>3, <2>5 DEF Going, FinalizePcs, LockPcs
    <2>10. Turn(c, me)
      BY <2>5, <2>6, <2>7, <2>8, <2>9 DEF Turn
    <2>11. me.nonce <= Len(tx) + 1 /\ me.id <= Len(tx) + 1
      BY <1>1, <2>1, <2>5 DEF JobStates
    <2> QED BY <1>1, <1>3, <2>1, <2>5, <2>10, <2>11, SentKeeps DEF Send
  <1>4. CASE Fault /\ Sent(c, FALSE) /\ Released(c)
    <2>1. Turn(c, Done(c))
      BY <1>1, <1>2, <1>4, ReleasedTurn DEF FinalizePcs
    <2>2. Done(c).pc \in {"idle", "loop"} /\ Done(c).nonce = 0 /\ Done(c).id = 0
      BY JobFields
    <2>3. Done(c).nonce <= Len(tx) + 1 /\ Done(c).id <= Len(tx) + 1
      BY <1>1, <2>2
    <2>4. UNCHANGED <<chain, resolved, settledBy>>
      BY DEF Send
    <2> QED BY <1>1, <1>4, <2>1, <2>2, <2>3, <2>4, SentKeeps
  <1>5. CASE Fault /\ UNCHANGED tx /\ Released(c)
    <2>1. Quiet(c, Done(c))
      BY <1>1, <1>2, <1>5, ReleasedQuiet DEF Send, FinalizePcs
    <2> QED BY <2>1, QuietKeeps
  <1> QED BY <1>3, <1>4, <1>5 DEF Send

LEMMA ReceiptKeeps ==
    ASSUME CallersDistinct, CourierBounds, CourierInv, NEW c \in Callers, Receipt(c)
    PROVE  CourierInv'
  <1>1. job[c].pc = "receipt" /\ job[c] \in JobStates /\ Released(c)
    BY RoleOf DEF Receipt, At
  <1>2. c \in AdminUsers => HoldsAdminLock(c)
    BY <1>1 DEF CourierInv, LockInv
  <1>3. CASE tx[job[c].id].status # "pending" /\ UNCHANGED <<tx, faults>>
    <2>1. Quiet(c, Done(c))
      BY <1>1, <1>2, <1>3, ReleasedQuiet DEF Receipt, FinalizePcs
    <2> QED BY <2>1, QuietKeeps
  <1>4. CASE Fault /\ tx' = [tx EXCEPT ![job[c].id].watched = FALSE]
    <2>1. Turn(c, Done(c))
      BY <1>1, <1>2, ReleasedTurn DEF FinalizePcs
    <2>2. PICK k : k = job[c].id
      OBVIOUS
    <2>3. tx \in Seq(TxRecords) /\ tx' = [tx EXCEPT ![k].watched = FALSE]
      BY <1>4, <2>2 DEF CourierInv, CourierTypes
    <2>4. Forgetting /\ \A i \in DOMAIN tx : i = k => tx'[i].watched = FALSE
      <3>0. DOMAIN tx = 1 .. Len(tx) /\ Len(tx) \in Nat /\ \A i \in DOMAIN tx : tx[i] \in TxRecords
        BY <2>3
      <3>1. DOMAIN tx' = DOMAIN tx
            /\ \A i \in DOMAIN tx : tx'[i] = IF i = k THEN [tx[i] EXCEPT !.watched = FALSE] ELSE tx[i]
        BY <2>3
      <3>2. \A i \in DOMAIN tx :
              /\ tx'[i] \in TxRecords /\ tx'[i].by = tx[i].by /\ tx'[i].r = tx[i].r
              /\ tx'[i].nonce = tx[i].nonce /\ tx'[i].status = tx[i].status
              /\ i = k => tx'[i].watched = FALSE
              /\ i # k => tx'[i] = tx[i]
        <4> SUFFICES ASSUME NEW i \in DOMAIN tx
                     PROVE  /\ tx'[i] \in TxRecords /\ tx'[i].by = tx[i].by /\ tx'[i].r = tx[i].r
                            /\ tx'[i].nonce = tx[i].nonce /\ tx'[i].status = tx[i].status
                            /\ i = k => tx'[i].watched = FALSE
                            /\ i # k => tx'[i] = tx[i]
          BY Zenon
        <4>1. CASE i # k
          BY <3>0, <3>1, <4>1, Zenon
        <4>2. CASE i = k
          <5>1. PICK y \in TxRecords : y = tx[i]
            BY <3>0
          <5>2. tx'[i] = [y EXCEPT !.watched = FALSE]
            BY <3>1, <4>2, <5>1, Zenon
          <5>3. LET x == [y EXCEPT !.watched = FALSE] IN
                /\ x \in TxRecords /\ x.by = y.by /\ x.r = y.r /\ x.nonce = y.nonce
                /\ x.status = y.status /\ x.watched = FALSE
            <6>1. FALSE \in BOOLEAN
              OBVIOUS
            <6> QED BY <6>1, Unwatched
          <5> QED BY <4>2, <5>1, <5>2, <5>3, Zenon
        <4> QED BY <4>1, <4>2, Zenon
      <3>3. tx' \in [1 .. Len(tx) -> TxRecords]
        <4>1. tx' = [i \in DOMAIN tx |-> tx'[i]]
          BY <2>3
        <4> QED BY <3>0, <3>2, <4>1
      <3>4. tx' \in Seq(TxRecords) /\ Len(tx') = Len(tx)
        BY <3>0, <3>3, SeqOfRecords
      <3>5. \A i \in DOMAIN tx : tx'[i].watched => tx[i].watched
        BY <3>2
      <3> QED BY <3>1, <3>2, <3>4, <3>5 DEF Forgetting
    <2>5. job'[c] = Done(c) /\ \A d \in Callers : d # c => job'[d] = job[d]
      BY <2>1, OthersStay DEF CourierInv
    <2>6. Done(c).pc \in {"idle", "loop"} /\ Done(c).nonce = 0 /\ Done(c).id = 0
      BY JobFields
    <2>7. \A d \in Callers :
               \/ job'[d] = job[d]
               \/ job'[d].pc \in {"idle", "loop"} /\ job'[d].nonce = 0 /\ job'[d].id = 0
      BY <2>5, <2>6
    <2>8. UNCHANGED <<chain, resolved, settledBy>>
      BY DEF Receipt
    <2>9. \A d \in AdminUsers : job[d].pc = "receipt" /\ tx'[job[d].id].watched => job'[d] = job[d]
      <3>1. \A d \in AdminUsers : d \in Callers
        BY AdminUsersDistinct
      <3>2. c \in AdminUsers => tx'[job[c].id].watched = FALSE
        BY <1>1, <2>2, <2>4 DEF CourierInv, FollowInv
      <3> QED BY <2>5, <3>1, <3>2
    <2>10. NonceInv' /\ MadeInv' /\ FollowInv'
      BY <2>4, <2>7, <2>8, <2>9, ForgettingKeeps
    <2>11. CourierTypes' /\ RolesInv' /\ LockInv' /\ OwnInv'
      BY <1>4, <2>1, <2>4, <2>8, TurnKeeps DEF Forgetting, CourierInv, CourierTypes
    <2> QED BY <2>10, <2>11 DEF CourierInv
  <1> QED BY <1>3, <1>4 DEF Receipt

LEMMA CrashKeeps ==
    ASSUME CallersDistinct, CourierBounds, CourierInv, Crash
    PROVE  CourierInv'
  <1> DEFINE lost == {job[c].id : c \in Server \cup {Treasury}}
  <1>1. tx \in Seq(TxRecords) /\ job \in [Callers -> JobStates] /\ DOMAIN tx = 1 .. Len(tx)
        /\ Len(tx) \in Nat
    BY TxTypes DEF CourierInv, CourierTypes
  <1>2. tx' = [i \in DOMAIN tx |-> [tx[i] EXCEPT !.watched = @ /\ (i \notin lost)]]
    BY DEF Crash
  <1>3. Forgetting /\ \A i \in DOMAIN tx : i \in lost => tx'[i].watched = FALSE
    <2> DEFINE kept(i) == tx[i].watched /\ (i \notin lost)
    <2>1. \A i \in DOMAIN tx : tx[i] \in TxRecords /\ tx[i].watched \in BOOLEAN
      BY TxTypes DEF CourierInv
    <2>2. \A i \in DOMAIN tx : kept(i) \in BOOLEAN
      OBVIOUS
    <2>3. DOMAIN tx' = DOMAIN tx /\ \A i \in DOMAIN tx : tx'[i] = [tx[i] EXCEPT !.watched = kept(i)]
      BY <1>2
    <2>4. \A i \in DOMAIN tx : (kept(i) => tx[i].watched) /\ (i \in lost => kept(i) = FALSE)
      OBVIOUS
    <2> HIDE DEF lost, kept
    <2>5. \A i \in DOMAIN tx :
            /\ tx'[i] \in TxRecords /\ tx'[i].by = tx[i].by /\ tx'[i].r = tx[i].r
            /\ tx'[i].nonce = tx[i].nonce /\ tx'[i].status = tx[i].status
            /\ tx'[i].watched = kept(i)
      <3> SUFFICES ASSUME NEW i \in DOMAIN tx
                   PROVE  /\ tx'[i] \in TxRecords /\ tx'[i].by = tx[i].by /\ tx'[i].r = tx[i].r
                          /\ tx'[i].nonce = tx[i].nonce /\ tx'[i].status = tx[i].status
                          /\ tx'[i].watched = kept(i)
        BY Zenon
      <3>1. PICK y \in TxRecords : y = tx[i]
        BY <2>1
      <3>2. PICK b \in BOOLEAN : b = kept(i)
        BY <2>2
      <3>3. tx'[i] = [y EXCEPT !.watched = b]
        BY <2>3, <3>1, <3>2, Zenon
      <3>4. /\ tx'[i] \in TxRecords /\ tx'[i].by = y.by /\ tx'[i].r = y.r /\ tx'[i].nonce = y.nonce
            /\ tx'[i].status = y.status /\ tx'[i].watched = b
        <4>1. LET x == [y EXCEPT !.watched = b] IN
              /\ x \in TxRecords /\ x.by = y.by /\ x.r = y.r /\ x.nonce = y.nonce
              /\ x.status = y.status /\ x.watched = b
          BY Unwatched
        <4> QED BY <3>3, <4>1, Zenon
      <3> QED BY <3>1, <3>2, <3>4, Zenon
    <2>6. tx' \in [1 .. Len(tx) -> TxRecords]
      <3>1. tx' = [i \in DOMAIN tx |-> tx'[i]]
        BY <1>2
      <3> QED BY <1>1, <2>5, <3>1
    <2>7. tx' \in Seq(TxRecords) /\ Len(tx') = Len(tx)
      BY <1>1, <2>6, SeqOfRecords
    <2> QED BY <2>3, <2>4, <2>5, <2>7 DEF Forgetting
  <1>4. \A d \in Callers : job'[d] = IF d = Keeper THEN job[d] ELSE Idle
    BY DEF Crash
  <1>5. Idle \in JobStates /\ Idle.pc = "idle" /\ Idle.r = 0 /\ Idle.nonce = 0 /\ Idle.id = 0
    BY JobFields DEF Idle
  <1>6. AdminUsers \subseteq Callers /\ Server \subseteq AdminUsers /\ Keeper \notin AdminUsers
        /\ AdminUsers = Server \cup {Treasury} /\ Keeper \notin Server
    BY AdminUsersDistinct DEF AdminUsers
  <1>7. UNCHANGED <<chain, resolved, cursor, settledBy>> /\ finalizing' = {} /\ queue' = <<>> /\ Fault
    BY DEF Crash
  <1>8. NonceInv' /\ MadeInv' /\ FollowInv'
    <2>1. \A d \in Callers :
               \/ job'[d] = job[d]
               \/ job'[d].pc \in {"idle", "loop"} /\ job'[d].nonce = 0 /\ job'[d].id = 0
      BY <1>4, <1>5
    <2>2. \A d \in AdminUsers : job[d].pc = "receipt" => tx'[job[d].id].watched = FALSE
      BY <1>3, <1>6 DEF CourierInv, FollowInv
    <2> QED BY <1>3, <1>7, <2>1, <2>2, ForgettingKeeps
  <1>9. \A d \in AdminUsers : job'[d].pc = "idle" /\ job'[d].r = 0
    BY <1>4, <1>5, <1>6
  <1>10. RolesInv'
    <2>1. \A d \in Callers : RoleOK(d, job'[d])
      BY <1>4, <1>5 DEF CourierInv, RolesInv, RoleOK
    <2>2. \A d \in Loops : job'[d].pc \notin {"idle", "loop"} => cursor[d] \in Requests
      BY <1>4, <1>5 DEF CourierInv, RolesInv, Loops, Callers, Server
    <2> QED BY <1>7, <2>1, <2>2 DEF RolesInv, RoleOK
  <1>11. LockInv'
    <2>1. DOMAIN queue' = {}
      BY <1>7
    <2> QED BY <1>6, <1>9, <2>1 DEF LockInv, InLine, LockPcs
  <1>12. OwnInv'
    BY <1>6, <1>7, <1>9 DEF OwnInv, Owns, FinalizePcs
  <1>13. CourierTypes'
    <2>1. job' \in [Callers -> JobStates]
      BY <1>1, <1>5 DEF Crash
    <2>2. faults' \in 0 .. MaxFaults
      BY <1>7 DEF Fault, CourierInv, CourierTypes, CourierBounds
    <2> QED BY <1>3, <1>7, <2>1, <2>2 DEF CourierInv, CourierTypes, Forgetting
  <1> QED BY <1>8, <1>10, <1>11, <1>12, <1>13 DEF CourierInv

-----------------------------------------------------------------------------
(* The chain.                                                              *)

\* Nobody's job, ownership or place in line moves.
LEMMA JobsStay ==
    ASSUME CourierInv, UNCHANGED <<job, cursor, queue, finalizing>>
    PROVE  RolesInv' /\ LockInv' /\ OwnInv'
  <1>1. RolesInv'
    BY DEF CourierInv, RolesInv, RoleOK
  <1>2. LockInv'
    <2>1. \A c \in AdminUsers : InLine(c)' <=> InLine(c)
      BY DEF InLine
    <2> QED BY <2>1 DEF CourierInv, LockInv, HoldsAdminLock
  <1>3. OwnInv'
    BY DEF CourierInv, OwnInv, Owns
  <1> QED BY <1>1, <1>2, <1>3

LEMMA ResolveKeeps ==
    ASSUME CourierInv, NEW r \in Requests, Resolve(r)
    PROVE  CourierInv'
  <1>1. RolesInv' /\ LockInv' /\ OwnInv'
    BY JobsStay DEF Resolve
  <1>2. CourierTypes'
    BY DEF Resolve, CourierInv, CourierTypes
  <1>3. NonceInv'
    <2>1. \A s : OfSender(tx', s) = OfSender(tx, s)
      BY DEF Resolve
    <2> QED BY <2>1 DEF Resolve, CourierInv, NonceInv, SentBy, OfSender, At
  <1>4. MadeInv' /\ FollowInv'
    BY DEF Resolve, CourierInv, MadeInv, FollowInv
  <1> QED BY <1>1, <1>2, <1>3, <1>4 DEF CourierInv

\* A request is made, or goes on to its end, while nothing is sent or mined.
LEMMA ChainKeeps ==
    ASSUME CourierBounds, CourierInv,
           UNCHANGED <<resolved, finalizing, job, cursor, queue, tx, settledBy, faults>>,
           chain' \in [Requests -> RequestStates],
           \E n \in 0 .. MaxRequests : {r \in Requests : chain'[r] # "None"} = 1 .. n,
           \A r \in Requests : chain[r] # "None" =>
               chain'[r] # "None" /\ (chain'[r] = "Requested" => chain[r] = "Requested")
    PROVE  CourierInv'
  <1>1. RolesInv' /\ LockInv' /\ OwnInv'
    BY JobsStay
  <1>2. CourierTypes'
    BY DEF CourierInv, CourierTypes
  <1>3. NonceInv'
    BY DEF CourierInv, NonceInv, SentBy, At
  <1>4. MadeInv'
    <2>1. ASSUME NEW c \in Callers \ {Treasury}, job[c].pc \in MadePcs
          PROVE  chain'[job[c].r] # "None"
      <3>1. job[c].r \in Requests
        BY <2>1 DEF CourierInv, RolesInv, RoleOK, MadePcs
      <3>2. chain[job[c].r] # "None"
        BY <2>1 DEF CourierInv, MadeInv, MadePcs
      <3> QED BY <3>1, <3>2
    <2>2. ASSUME NEW i \in DOMAIN tx, tx[i].r # 0 PROVE chain'[tx[i].r] # "None"
      BY <2>2, TxTypes DEF CourierInv, MadeInv
    <2> QED BY <2>1, <2>2 DEF MadeInv, MadePcs
  <1>5. FollowInv'
    <2>1. ASSUME NEW i \in DOMAIN tx, tx[i].r # 0, tx[i].status # "pending"
          PROVE  chain'[tx[i].r] # "Requested"
      <3>1. tx[i].r \in Requests /\ chain[tx[i].r] # "None" /\ chain[tx[i].r] # "Requested"
        BY <2>1, TxTypes DEF CourierInv, MadeInv, FollowInv
      <3> QED BY <3>1
    <2>2. ASSUME NEW r \in Requests, settledBy[r] # 0
          PROVE  chain'[r] # "Requested"
      <3>1. settledBy[r] \in DOMAIN tx /\ tx[settledBy[r]].r = r /\ chain[r] # "Requested"
        BY <2>2 DEF CourierInv, FollowInv
      <3>2. chain[r] # "None"
        BY <3>1, TxTypes DEF CourierInv, MadeInv, Requests, CourierBounds
      <3> QED BY <3>1, <3>2
    <2> QED BY <2>1, <2>2 DEF CourierInv, FollowInv
  <1> QED BY <1>1, <1>2, <1>3, <1>4, <1>5 DEF CourierInv

LEMMA RequestKeeps ==
    ASSUME CourierBounds, CourierInv, NEW r \in Requests, RequestSpend(r)
    PROVE  CourierInv'
  <1>1. PICK n \in 0 .. MaxRequests : {q \in Requests : chain[q] # "None"} = 1 .. n
    BY DEF CourierInv, MadeInv
  <1>2. n \in Nat /\ n <= MaxRequests
    BY <1>1 DEF CourierBounds
  <1>3. r = n + 1 /\ n + 1 <= MaxRequests
    <2>1. Cardinality(1 .. n) = IF 1 > n THEN 0 ELSE n - 1 + 1
      BY <1>2, FS_Interval
    <2>2. Cardinality(1 .. n) = n
      BY <1>2, <2>1
    <2>3. r = n + 1
      BY <1>1, <2>2 DEF RequestSpend, NextId
    <2> QED BY <1>2, <2>3 DEF Requests, CourierBounds
  <1>4. chain \in [Requests -> RequestStates] /\ chain' = [chain EXCEPT ![r] = "Requested"]
    BY DEF CourierInv, CourierTypes, RequestSpend
  <1>5. {q \in Requests : chain'[q] # "None"} = {q \in Requests : chain[q] # "None"} \cup {r}
    BY <1>4
  <1>6. {q \in Requests : chain'[q] # "None"} = 1 .. n + 1
    BY <1>1, <1>2, <1>3, <1>5
  <1>7. \E k \in 0 .. MaxRequests : {q \in Requests : chain'[q] # "None"} = 1 .. k
    BY <1>2, <1>3, <1>6 DEF CourierBounds
  <1>8. chain[r] = "None"
    <2>1. r \notin 1 .. n
      BY <1>2, <1>3
    <2> QED BY <1>1, <2>1
  <1>9. chain' \in [Requests -> RequestStates]
    BY <1>4 DEF RequestStates
  <1>10. \A q \in Requests : chain[q] # "None" =>
               chain'[q] # "None" /\ (chain'[q] = "Requested" => chain[q] = "Requested")
    BY <1>4, <1>8
  <1>11. UNCHANGED <<resolved, finalizing, job, cursor, queue, tx, settledBy, faults>>
    BY DEF RequestSpend
  <1> QED BY <1>7, <1>9, <1>10, <1>11, ChainKeeps

LEMMA SettledElsewhereKeeps ==
    ASSUME CourierBounds, CourierInv, NEW r \in Requests, SettledElsewhere(r)
    PROVE  CourierInv'
  <1>1. chain \in [Requests -> RequestStates]
    BY DEF CourierInv, CourierTypes
  <1>2. PICK s \in {"AwaitingSafeApproval", "Settled"} :
          chain' = [chain EXCEPT ![r] = s] /\ chain[r] # "None"
    BY DEF SettledElsewhere
  <1>3. Onward
    BY <1>1, <1>2 DEF Onward, RequestStates
  <1>4. {q \in Requests : chain'[q] # "None"} = {q \in Requests : chain[q] # "None"}
    BY <1>3, OnwardMade
  <1>5. \E k \in 0 .. MaxRequests : {q \in Requests : chain'[q] # "None"} = 1 .. k
    BY <1>4 DEF CourierInv, MadeInv
  <1>6. UNCHANGED <<resolved, finalizing, job, cursor, queue, tx, settledBy, faults>>
    BY DEF SettledElsewhere
  <1>7. \A q \in Requests : chain[q] # "None" =>
               chain'[q] # "None" /\ (chain'[q] = "Requested" => chain[q] = "Requested")
    BY <1>3 DEF Onward
  <1> QED BY <1>3, <1>5, <1>6, <1>7, ChainKeeps DEF Onward

\* A transaction is mined.  If the server follows it, it is the last of the admin key and
\* those before it are mined: none of them was for its request, which would be settled.
LEMMA MineKeeps ==
    ASSUME CallersDistinct, CourierBounds, CourierInv, NEW i \in DOMAIN tx, Mine(i)
    PROVE  CourierInv'
  <1>0. tx \in Seq(TxRecords) /\ DOMAIN tx = 1 .. Len(tx) /\ Len(tx) \in Nat
    BY TxTypes DEF CourierInv, CourierTypes
  <1>1. PICK y \in TxRecords : y = tx[i]
    BY TxTypes DEF CourierInv
  <1>2. y.status = "pending" /\ (y.r # 0 => y.r \in Requests) /\ y.r \in Nat
    BY <1>1, TxTypes DEF Mine, CourierInv
  <1> DEFINE takes == y.r # 0 /\ chain[y.r] = "Requested"
  <1>3. PICK st \in {"mined", "reverted"} : st = IF y.r = 0 \/ takes THEN "mined" ELSE "reverted"
    OBVIOUS
  <1>4. tx' = [tx EXCEPT ![i].status = st]
    BY <1>1, <1>3 DEF Mine
  <1>5. /\ DOMAIN tx' = DOMAIN tx /\ Len(tx') = Len(tx) /\ tx' \in Seq(TxRecords)
        /\ \A k \in DOMAIN tx : k # i => tx'[k] = tx[k]
        /\ tx'[i].status = st /\ tx'[i].by = y.by /\ tx'[i].r = y.r /\ tx'[i].nonce = y.nonce
        /\ tx'[i].watched = y.watched
    <2>1. tx'[i] = [y EXCEPT !.status = st] /\ \A k \in DOMAIN tx : k # i => tx'[k] = tx[k]
      BY <1>0, <1>1, <1>4
    <2>2. LET x == [y EXCEPT !.status = st] IN
          /\ x \in TxRecords /\ x.status = st /\ x.by = y.by /\ x.r = y.r /\ x.nonce = y.nonce
          /\ x.watched = y.watched
      BY DEF TxRecords
    <2>3. tx' \in [1 .. Len(tx) -> TxRecords]
      <3>1. \A k \in DOMAIN tx : tx[k] \in TxRecords /\ DOMAIN tx' = DOMAIN tx
        BY <1>0, <1>4
      <3>2. \A k \in DOMAIN tx : tx'[k] \in TxRecords
        BY <2>1, <2>2, <3>1, Zenon
      <3>3. tx' = [k \in DOMAIN tx |-> tx'[k]]
        BY <1>4
      <3> QED BY <1>0, <3>2, <3>3
    <2>4. tx' \in Seq(TxRecords) /\ Len(tx') = Len(tx)
      BY <1>0, <2>3, SeqOfRecords
    <2>5. DOMAIN tx' = DOMAIN tx
      BY <1>4
    <2> QED BY <2>1, <2>2, <2>4, <2>5, Zenon
  <1>6. \A k \in DOMAIN tx :
          /\ tx'[k].by = tx[k].by /\ tx'[k].r = tx[k].r /\ tx'[k].nonce = tx[k].nonce
          /\ tx'[k].watched = tx[k].watched
    BY <1>1, <1>5, Zenon
  <1>7. UNCHANGED <<resolved, finalizing, job, cursor, queue, faults>>
    BY DEF Mine
  <1>8. /\ takes => /\ \E s \in {"AwaitingSafeApproval", "Settled"} : chain' = [chain EXCEPT ![y.r] = s]
                    /\ settledBy' = [settledBy EXCEPT ![y.r] = i]
        /\ ~takes => chain' = chain /\ settledBy' = settledBy
    BY <1>1 DEF Mine
  <1>9. Onward /\ settledBy' \in [Requests -> Nat]
        /\ \A r \in Requests : /\ takes /\ r = y.r => settledBy'[r] = i /\ chain'[r] # "Requested"
                               /\ ~(takes /\ r = y.r) => settledBy'[r] = settledBy[r]
    <2>1. chain \in [Requests -> RequestStates] /\ settledBy \in [Requests -> Nat] /\ i \in Nat
      BY <1>0 DEF CourierInv, CourierTypes
    <2>2. CASE takes
      BY <1>2, <1>8, <2>1, <2>2 DEF Onward, RequestStates
    <2>3. CASE ~takes
      BY <1>8, <2>1, <2>3 DEF Onward
    <2> QED BY <2>2, <2>3
  <1> HIDE DEF takes
  <1>10. RolesInv' /\ LockInv' /\ OwnInv'
    BY <1>7, JobsStay
  <1>11. CourierTypes'
    BY <1>5, <1>7, <1>9 DEF CourierInv, CourierTypes, Onward
  <1>12. NonceInv'
    <2>1. \A s : OfSender(tx', s) = OfSender(tx, s)
      BY <1>5, <1>6 DEF OfSender
    <2>2. \A k \in DOMAIN tx : tx[k].nonce < Cardinality(OfSender(tx, tx[k].by))
      BY DEF CourierInv, NonceInv, SentBy, OfSender
    <2>3. \A k \in DOMAIN tx' : tx'[k].nonce < Cardinality(OfSender(tx', tx'[k].by))
      BY <1>5, <1>6, <2>1, <2>2
    <2>4. \A c \in Callers : job'[c].nonce <= Len(tx') /\ job'[c].id <= Len(tx')
      BY <1>5, <1>7 DEF CourierInv, NonceInv
    <2>5. \A c \in Callers : job[c].pc = "send" => job[c].nonce = Cardinality(OfSender(tx, Sender(c)))
      BY DEF CourierInv, NonceInv, SentBy, OfSender, At
    <2>6. \A c \in Callers : job'[c].pc = "send" => job'[c].nonce = Cardinality(OfSender(tx', Sender(c)))
      BY <1>7, <2>1, <2>5
    <2>7. \A k, j \in DOMAIN tx' : k < j /\ tx'[k].by = tx'[j].by => tx'[k].nonce < tx'[j].nonce
      BY <1>5, <1>6 DEF CourierInv, NonceInv
    <2> QED BY <2>3, <2>4, <2>6, <2>7 DEF NonceInv, At, SentBy, OfSender
  <1>13. MadeInv'
    <2>1. \E n \in 0 .. MaxRequests : {r \in Requests : chain'[r] # "None"} = 1 .. n
      BY <1>9, OnwardMade DEF CourierInv, MadeInv
    <2>2. \A r \in Requests : chain[r] # "None" => chain'[r] # "None"
      BY <1>9 DEF Onward
    <2>3. ASSUME NEW c \in Callers \ {Treasury}, job[c].pc \in MadePcs
          PROVE  chain'[job[c].r] # "None"
      <3>1. job[c].r \in Requests
        BY <2>3 DEF CourierInv, RolesInv, RoleOK, MadePcs
      <3>2. chain[job[c].r] # "None"
        BY <2>3 DEF CourierInv, MadeInv, MadePcs
      <3> QED BY <2>2, <3>1, <3>2
    <2>4. ASSUME NEW k \in DOMAIN tx, tx[k].r # 0 PROVE chain'[tx[k].r] # "None"
      BY <2>2, <2>4, TxTypes DEF CourierInv, MadeInv
    <2> QED BY <1>5, <1>6, <1>7, <2>1, <2>3, <2>4 DEF MadeInv, MadePcs
  <1>14. FollowInv'
    <2>0. AdminUsers \subseteq Callers /\ Server \subseteq AdminUsers
      BY AdminUsersDistinct
    <2>1. ASSUME NEW k \in DOMAIN tx, tx[k].r # 0, tx'[k].status # "pending"
          PROVE  chain'[tx[k].r] # "Requested"
      <3>1. tx[k].r \in Requests
        BY <2>1, TxTypes DEF CourierInv
      <3>2. CASE k # i
        BY <1>5, <1>9, <2>1, <3>1, <3>2, OnwardMade DEF CourierInv, FollowInv
      <3>3. CASE k = i /\ takes
        BY <1>1, <1>9, <3>1, <3>3
      <3>4. CASE k = i /\ ~takes
        BY <1>1, <1>9, <2>1, <3>1, <3>4, OnwardMade DEF takes
      <3> QED BY <3>2, <3>3, <3>4
    <2>2. ASSUME NEW k \in DOMAIN tx, tx[k].r = 0 PROVE tx'[k].status # "reverted"
      <3>1. CASE k = i
        BY <1>1, <1>3, <1>5, <2>2, <3>1
      <3>2. CASE k # i
        BY <1>5, <2>2, <3>2 DEF CourierInv, FollowInv
      <3> QED BY <3>1, <3>2
    <2>3. ASSUME NEW c \in AdminUsers, job'[c].pc = "receipt"
          PROVE  job'[c].id \in DOMAIN tx' /\ tx'[job'[c].id].by = "admin"
      BY <1>5, <1>6, <1>7, <2>3 DEF CourierInv, FollowInv
    <2>4. ASSUME NEW j \in DOMAIN tx, tx[j].by = "admin", tx[j].watched, tx'[j].status = "pending"
          PROVE  /\ \E c \in AdminUsers : job'[c].pc = "receipt" /\ job'[c].id = j
                 /\ \A k \in DOMAIN tx : tx[k].by = "admin" => k <= j
      <3>1. j # i
        BY <1>3, <1>5, <2>4
      <3>2. tx[j].status = "pending"
        BY <1>5, <2>4, <3>1
      <3> QED BY <1>7, <2>4, <3>2 DEF CourierInv, FollowInv
    <2>5. ASSUME NEW r \in Requests, settledBy'[r] # 0
          PROVE  /\ settledBy'[r] \in DOMAIN tx' /\ chain'[r] # "Requested"
                 /\ tx'[settledBy'[r]].status = "mined" /\ tx'[settledBy'[r]].r = r
                 /\ tx'[settledBy'[r]].by = "admin" /\ tx'[settledBy'[r]].watched =>
                      /\ \A k \in DOMAIN tx' : tx'[k].by = "admin" /\ tx'[k].r = r => k = settledBy'[r]
                      /\ \A d \in Server : job'[d].r = r => job'[d].pc \notin {"nonce", "send"}
      <3>1. CASE takes /\ r = y.r
        <4>1. settledBy'[r] = i /\ chain'[r] # "Requested" /\ tx'[i].status = "mined" /\ tx'[i].r = r
          BY <1>3, <1>5, <1>9, <3>1
        <4>2. ASSUME y.by = "admin", y.watched
              PROVE  /\ \A k \in DOMAIN tx : tx[k].by = "admin" /\ tx[k].r = r => k = i
                     /\ \A d \in Server : job[d].r = r => job[d].pc \notin {"nonce", "send"}
          <5>1. /\ \E c \in AdminUsers : job[c].pc = "receipt" /\ job[c].id = i
                /\ \A k \in DOMAIN tx : tx[k].by = "admin" => k <= i
            BY <1>1, <1>2, <4>2 DEF CourierInv, FollowInv
          <5>2. ASSUME NEW k \in DOMAIN tx, tx[k].by = "admin", tx[k].r = r, k # i
                PROVE  FALSE
            <6>1. k < i
              BY <1>0, <5>1, <5>2
            <6>2. tx[k].nonce < y.nonce
              BY <1>1, <4>2, <5>2, <6>1 DEF CourierInv, NonceInv
            <6>3. tx[k].status # "pending"
              BY <1>1, <4>2, <5>2, <6>2 DEF Mine, SentBy
            <6>4. r # 0 /\ chain[r] = "Requested"
              BY <3>1 DEF takes
            <6> QED BY <5>2, <6>3, <6>4 DEF CourierInv, FollowInv
          <5>3. ASSUME NEW d \in Server, job[d].pc \in {"nonce", "send"} PROVE FALSE
            <6>1. HoldsAdminLock(d)
              BY <2>0, <5>3 DEF CourierInv, LockInv
            <6>2. PICK c \in AdminUsers : job[c].pc = "receipt"
              BY <5>1
            <6>3. HoldsAdminLock(c)
              BY <6>2 DEF CourierInv, LockInv
            <6>4. c = d
              BY <6>1, <6>3, OneHolder
            <6> QED BY <5>3, <6>2, <6>4
          <5> QED BY <5>2, <5>3
        <4> QED BY <1>1, <1>5, <1>6, <1>7, <4>1, <4>2
      <3>2. CASE ~(takes /\ r = y.r)
        <4>1. settledBy'[r] = settledBy[r]
          BY <1>9, <3>2
        <4>2. /\ settledBy[r] \in DOMAIN tx /\ chain[r] # "Requested"
              /\ tx[settledBy[r]].status = "mined" /\ tx[settledBy[r]].r = r
          BY <2>5, <4>1 DEF CourierInv, FollowInv
        <4>3. settledBy[r] # i
          BY <1>1, <1>2, <4>2
        <4>4. tx'[settledBy[r]] = tx[settledBy[r]]
          BY <1>5, <4>2, <4>3
        <4>5. chain'[r] # "Requested"
          BY <1>9, <4>2, OnwardMade
        <4>6. ASSUME tx[settledBy[r]].by = "admin", tx[settledBy[r]].watched
              PROVE  /\ \A k \in DOMAIN tx : tx[k].by = "admin" /\ tx[k].r = r => k = settledBy[r]
                     /\ \A d \in Server : job[d].r = r => job[d].pc \notin {"nonce", "send"}
          BY <2>5, <4>1, <4>6 DEF CourierInv, FollowInv
        <4> QED BY <1>5, <1>6, <1>7, <4>1, <4>2, <4>4, <4>5, <4>6
      <3> QED BY <3>1, <3>2
    <2>6. \A k \in DOMAIN tx' : tx'[k].r # 0 /\ tx'[k].status # "pending" => chain'[tx'[k].r] # "Requested"
      BY <1>5, <1>6, <2>1
    <2>7. \A k \in DOMAIN tx' : tx'[k].r = 0 => tx'[k].status # "reverted"
      BY <1>5, <1>6, <2>2
    <2>8. \A j \in DOMAIN tx' : tx'[j].by = "admin" /\ tx'[j].watched /\ tx'[j].status = "pending" =>
             /\ \E c \in AdminUsers : job'[c].pc = "receipt" /\ job'[c].id = j
             /\ \A k \in DOMAIN tx' : tx'[k].by = "admin" => k <= j
      BY <1>5, <1>6, <2>4
    <2> QED BY <2>3, <2>5, <2>6, <2>7, <2>8 DEF FollowInv
  <1> QED BY <1>10, <1>11, <1>12, <1>13, <1>14 DEF CourierInv

-----------------------------------------------------------------------------
(* The invariant, and what it gives.                                       *)

LEMMA CourierStarts ==
    ASSUME CallersDistinct, CourierBounds, Init
    PROVE  CourierInv
  <1>1. Idle \in JobStates /\ Idle.pc = "idle" /\ Idle.r = 0 /\ Idle.nonce = 0 /\ Idle.id = 0
    BY JobFields DEF Idle
  <1>2. \A c \in Callers : job[c] = Idle
    BY DEF Init
  <1>3. AdminUsers \subseteq Callers /\ Server \subseteq Callers /\ Loops \subseteq Callers
    BY AdminUsersDistinct DEF Loops, Callers, Server
  <1>4. tx = <<>> /\ queue = <<>> /\ DOMAIN tx = {} /\ DOMAIN queue = {} /\ Len(tx) = 0
    BY DEF Init
  <1>5. CourierTypes
    <2>1. chain \in [Requests -> RequestStates] /\ settledBy \in [Requests -> Nat]
      BY DEF Init, RequestStates
    <2>2. job \in [Callers -> JobStates]
      BY <1>1 DEF Init
    <2>3. cursor \in [Loops -> 1 .. MaxRequests + 1]
      BY DEF Init, CourierBounds
    <2>4. queue \in Seq(AdminUsers) /\ tx \in Seq(TxRecords)
      BY <1>4
    <2> QED BY <2>1, <2>2, <2>3, <2>4 DEF Init, CourierTypes, CourierBounds
  <1>6. RolesInv
    BY <1>1, <1>2, <1>3 DEF RolesInv, RoleOK
  <1>7. LockInv
    BY <1>1, <1>2, <1>3, <1>4 DEF LockInv, InLine, LockPcs
  <1>8. OwnInv
    BY <1>1, <1>2, <1>3 DEF Init, OwnInv, Owns, FinalizePcs
  <1>9. NonceInv
    BY <1>1, <1>2, <1>4 DEF NonceInv, At
  <1>10. MadeInv
    <2>1. {r \in Requests : chain[r] # "None"} = 1 .. 0 /\ 0 \in 0 .. MaxRequests
      BY DEF Init, CourierBounds
    <2> QED BY <1>1, <1>2, <1>4, <2>1 DEF MadeInv
  <1>11. FollowInv
    BY <1>1, <1>2, <1>3, <1>4 DEF Init, FollowInv
  <1> QED BY <1>5, <1>6, <1>7, <1>8, <1>9, <1>10, <1>11 DEF CourierInv

LEMMA CourierStep ==
    ASSUME CallersDistinct, CourierBounds, CourierInv, [Next]_vars
    PROVE  CourierInv'
  <1>1. ASSUME NEW c \in Posts, NEW r \in Requests, Post(c, r) PROVE CourierInv'
    BY <1>1, PostKeeps
  <1>2. ASSUME NEW c \in Callers, Step(c) PROVE CourierInv'
    BY <1>2, ReadKeeps, ProbeKeeps, DecryptKeeps, EstimateKeeps, TakeNonceKeeps, SendKeeps,
       ReceiptKeeps DEF Step
  <1>3. ASSUME ServerLoop PROVE CourierInv'
    <2>1. Sweeper \in Loops
      BY DEF Loops
    <2> QED BY <1>3, <2>1, StartedKeeps, LoopKeeps, PeekSweepKeeps, PeekProbeKeeps, ExpireKeeps
         DEF ServerLoop, StartSweep
  <1>4. ASSUME StartKeeper \/ Loop(Keeper) \/ PeekKeeper PROVE CourierInv'
    <2>1. Keeper \in Loops
      BY DEF Loops
    <2> QED BY <1>4, <2>1, StartedKeeps, LoopKeeps, PeekKeeperKeeps DEF StartKeeper
  <1>5. ASSUME SendOther PROVE CourierInv'
    BY <1>5, SendOtherKeeps
  <1>6. ASSUME NEW i \in DOMAIN tx, Mine(i) PROVE CourierInv'
    BY <1>6, MineKeeps
  <1>7. ASSUME NEW r \in Requests, RequestSpend(r) \/ Resolve(r) \/ SettledElsewhere(r)
        PROVE  CourierInv'
    BY <1>7, RequestKeeps, ResolveKeeps, SettledElsewhereKeeps
  <1>8. ASSUME Crash PROVE CourierInv'
    BY <1>8, CrashKeeps
  <1>9. ASSUME UNCHANGED vars PROVE CourierInv'
    <2>1. UNCHANGED <<resolved, finalizing, job, cursor, queue, tx, settledBy, faults>> /\ chain' = chain
      BY <1>9 DEF vars
    <2>2. chain' \in [Requests -> RequestStates]
      BY <2>1 DEF CourierInv, CourierTypes
    <2>3. \E n \in 0 .. MaxRequests : {r \in Requests : chain'[r] # "None"} = 1 .. n
      BY <2>1 DEF CourierInv, MadeInv
    <2> QED BY <2>1, <2>2, <2>3, ChainKeeps
  <1> QED BY <1>1, <1>2, <1>3, <1>4, <1>5, <1>6, <1>7, <1>8, <1>9 DEF Next

LEMMA CourierIsSafe ==
    ASSUME CallersDistinct, CourierBounds, CourierInv
    PROVE  CourierSafe
  <1>1. AdminUsers \subseteq Callers /\ Server \subseteq AdminUsers /\ Keeper \notin AdminUsers
    BY AdminUsersDistinct
  <1>2. CourierTypeOK
    <2>1. \A c \in Callers : job[c] \in [pc : Pcs, r : 0 .. MaxRequests, nonce : 0 .. Len(tx), id : 0 .. Len(tx)]
      <3> SUFFICES ASSUME NEW c \in Callers
                   PROVE  job[c] \in [pc : Pcs, r : 0 .. MaxRequests, nonce : 0 .. Len(tx), id : 0 .. Len(tx)]
        OBVIOUS
      <3>1. job[c] \in JobStates /\ job[c].nonce <= Len(tx) /\ job[c].id <= Len(tx) /\ Len(tx) \in Nat
        BY TxTypes DEF CourierInv, CourierTypes, NonceInv
      <3> QED BY <3>1 DEF JobStates
    <2>2. job = [c \in Callers |-> job[c]]
      BY DEF CourierInv, CourierTypes
    <2>3. job \in [Callers -> [pc : Pcs, r : 0 .. MaxRequests, nonce : 0 .. Len(tx), id : 0 .. Len(tx)]]
      BY <2>1, <2>2
    <2>4. \A i \in DOMAIN queue : queue[i] \in Callers \ {Keeper}
      <3>1. \A i \in DOMAIN queue : queue[i] \in AdminUsers
        BY DEF CourierInv, CourierTypes
      <3> QED BY <1>1, <3>1
    <2>5. \A i \in DOMAIN tx : tx[i].status \in {"pending", "mined", "reverted"}
      BY TxTypes DEF CourierInv
    <2> QED BY <2>3, <2>4, <2>5 DEF CourierTypeOK, CourierInv, CourierTypes, LockInv
  <1>3. OutrunOnly
    <2> SUFFICES ASSUME NEW i \in DOMAIN tx, tx[i].status = "reverted", tx[i].by = "admin",
                        settledBy[tx[i].r] # 0
                 PROVE  tx[settledBy[tx[i].r]].by = "keeper" \/ ~tx[settledBy[tx[i].r]].watched
      BY DEF OutrunOnly
    <2>1. tx[i].r \in Requests
      BY TxTypes DEF CourierInv, FollowInv
    <2>2. settledBy[tx[i].r] \in DOMAIN tx /\ tx[settledBy[tx[i].r]].status = "mined"
      BY <2>1 DEF CourierInv, FollowInv
    <2>3. tx[settledBy[tx[i].r]].by \in {"admin", "keeper"}
      BY <2>2, TxTypes DEF CourierInv
    <2>4. ASSUME tx[settledBy[tx[i].r]].by = "admin", tx[settledBy[tx[i].r]].watched
          PROVE  FALSE
      <3>1. i = settledBy[tx[i].r]
        BY <2>1, <2>4 DEF CourierInv, FollowInv
      <3> QED BY <2>2, <3>1
    <2> QED BY <2>3, <2>4
  <1>4. NonceIsFresh
    <2> SUFFICES ASSUME NEW i \in DOMAIN tx, NEW c \in Callers, At(c, "send"), tx[i].by = Sender(c)
                 PROVE  tx[i].nonce # job[c].nonce
      BY DEF NonceIsFresh
    <2>1. tx[i].nonce < Cardinality(SentBy(Sender(c))) /\ job[c].nonce = Cardinality(SentBy(Sender(c)))
      BY DEF CourierInv, NonceInv
    <2>2. tx[i].nonce \in Nat /\ Cardinality(SentBy(Sender(c))) \in Nat
      BY TxTypes, SentByCount DEF CourierInv
    <2> QED BY <2>1, <2>2
  <1>5. OwnershipIsExact
    <2> SUFFICES ASSUME NEW r \in Requests
                 PROVE  Cardinality({c \in Server : job[c].r = r /\ job[c].pc \notin {"peek", "peekProbe", "expire"}})
                          = (IF r \in finalizing THEN 1 ELSE 0)
      BY DEF OwnershipIsExact
    <2>1. \A c \in Server : job[c].r = r /\ job[c].pc \notin {"peek", "peekProbe", "expire"} <=> Owns(c, r)
      <3> SUFFICES ASSUME NEW c \in Server
                   PROVE  job[c].r = r /\ job[c].pc \notin {"peek", "peekProbe", "expire"} <=> Owns(c, r)
        OBVIOUS
      <3>1. job[c].pc \in Pcs /\ RoleOK(c, job[c])
        BY <1>1, RoleOf DEF JobStates
      <3>2. r # 0
        BY DEF Requests, CourierBounds
      <3> QED BY <3>1, <3>2 DEF Owns, RoleOK, Pcs, FinalizePcs
    <2>2. CASE r \in finalizing
      <3>1. PICK c \in Server : Owns(c, r)
        BY <2>2 DEF CourierInv, OwnInv
      <3>2. \A d \in Server : Owns(d, r) => d = c
        BY <3>1 DEF CourierInv, OwnInv
      <3>3. {d \in Server : job[d].r = r /\ job[d].pc \notin {"peek", "peekProbe", "expire"}} = {c}
        BY <2>1, <3>1, <3>2
      <3> QED BY <2>2, <3>3, FS_Singleton
    <2>3. CASE r \notin finalizing
      <3>1. \A d \in Server : ~Owns(d, r)
        BY <2>3 DEF CourierInv, OwnInv
      <3>2. {d \in Server : job[d].r = r /\ job[d].pc \notin {"peek", "peekProbe", "expire"}} = {}
        BY <2>1, <3>1
      <3> QED BY <2>3, <3>2, FS_EmptySet
    <2> QED BY <2>2, <2>3
  <1> QED BY <1>2, <1>3, <1>4, <1>5 DEF CourierSafe

\* The couriers are safe: the admin lock has each caller once, a request is owned by the one job
\* that works on it, no two transactions of a key have one nonce, and an admin transaction that
\* reverts was not outrun by one the server was following.
THEOREM CourierStaysSafe ==
    ASSUME CallersDistinct, CourierBounds
    PROVE  Init /\ [][Next]_vars => []CourierSafe
  <1>1. Init => CourierInv
    BY CourierStarts
  <1>2. CourierInv /\ [Next]_vars => CourierInv'
    BY CourierStep
  <1>3. CourierInv => CourierSafe
    BY CourierIsSafe
  <1> QED BY <1>1, <1>2, <1>3, PTL DEF Spec

=============================================================================
