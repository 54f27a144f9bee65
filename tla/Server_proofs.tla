------------------------- MODULE Server_proofs ------------------------------
(***************************************************************************)
(* Theorems about Server and the fresh-deployment scripts.  The RPC        *)
(* fallback and the gate of the sponsored quota have their invariants      *)
(* here.  What is proved of another component in a module of its own holds *)
(* of it in the server, for any constants: focus never changes, so a       *)
(* behaviour of the server is one of the component it chose.  The scripts  *)
(* come last: the file and what was sent for both, then what each has done *)
(* to the chain.                                                           *)
(***************************************************************************)
EXTENDS Server, FreshRuns, TLAPS, FiniteSetTheorems

-----------------------------------------------------------------------------
(* The RPC fallback: its invariant                                         *)

BroadcastPcs == {"new", "select", "probe", "send", "ok", "uncertain", "noEndpoint"}
ReadPcs == {"new", "guard", "check", "request", "answered", "failed"}
Calls == [pc : BroadcastPcs, at : 1 .. Len(urls) + 1, probed : Nat]
Deliveries == [to : Endpoints, right : BOOLEAN, probed : Nat]
Readings == [pc : ReadPcs, at : 1 .. Len(urls) + 1, asked : Nat]
Answers == [right : BOOLEAN, switched : Nat, asked : Nat]

RpcTypes ==
    /\ now \in 1 .. MaxTime /\ expected \subseteq Endpoints
    /\ switchedAt \in [Endpoints -> Nat] /\ wrongOnce \subseteq Endpoints
    /\ quarantineUntil \in [Endpoints -> 0 .. Infinity]
    /\ readChainVerifiedUntil \in [Endpoints -> 0 .. MaxTime + chainCheckTtlMs]
    /\ bcast \in [Broadcasts -> Calls] /\ sent \in [Broadcasts -> Seq(Deliveries)]
    /\ read \in [Reads -> Readings] /\ readFrom \in [Reads -> Answers]

\* An endpoint off the chain has been off it since the time t or later.
LeftSince(e, t) == e \in expected \/ t <= switchedAt[e]

\* A broadcast hands its payload over at its last step, to an endpoint it has probed.
BroadcastOK(b) ==
    /\ bcast[b].pc \in {"new", "select", "probe", "send"} => bcast[b].at \in Endpoints
    /\ bcast[b].pc \notin {"ok", "uncertain"} => sent[b] = <<>>
    /\ Len(sent[b]) <= 1 /\ (bcast[b].pc = "ok" => sent[b] # <<>>)
    /\ bcast[b].pc = "send" => bcast[b].probed <= now /\ LeftSince(bcast[b].at, bcast[b].probed)
    /\ \A i \in DOMAIN sent[b] :
           sent[b][i].right \/ switchedAt[sent[b][i].to] >= sent[b][i].probed

\* A read asks an endpoint whose last check still counted when the guard let it pass.
ReadOK(r) ==
    /\ read[r].pc \in {"new", "guard", "check", "request"} => read[r].at \in Endpoints
    /\ read[r].pc \in {"check", "request"} => read[r].asked <= now
    /\ read[r].pc = "request" =>
           \/ read[r].at \in expected
           \/ read[r].asked < switchedAt[read[r].at] + chainCheckTtlMs
    /\ read[r].pc = "answered" =>
           readFrom[r].right \/ readFrom[r].asked < readFrom[r].switched + chainCheckTtlMs

\* A check counts for its life, which began when the endpoint was on the chain, and only
\* an endpoint that ever left the chain is in quarantine for longer than a fault is.
EndpointOK(e) ==
    /\ switchedAt[e] <= now
    /\ readChainVerifiedUntil[e] <= now + chainCheckTtlMs
    /\ \/ e \in expected
       \/ e \in wrongOnce /\ readChainVerifiedUntil[e] <= switchedAt[e] + chainCheckTtlMs
    /\ e \notin wrongOnce => quarantineUntil[e] <= now + quarantineMs

RpcInv ==
    /\ RpcTypes
    /\ \A b \in Broadcasts : BroadcastOK(b)
    /\ \A r \in Reads : ReadOK(r)
    /\ \A e \in Endpoints : EndpointOK(e)
-----------------------------------------------------------------------------
(* The endpoints                                                           *)

\* What is finite, and how large, an instance says as the library does.
LEMMA SameFinite ==
    \A S : Audits!IsFiniteSet(S) = IsFiniteSet(S) /\ Audits!Cardinality(S) = Cardinality(S)
<1>1. \A S : Audits!IsFiniteSet(S) = IsFiniteSet(S)
  BY DEF Audits!IsFiniteSet, IsFiniteSet
<1>2. \A S : Audits!Cardinality(S) = Cardinality(S)
  BY DEF Audits!Cardinality, Cardinality
<1> QED BY <1>1, <1>2

\* The endpoints are numbered without a gap, and no two of them are the same URL.
LEMMA UrlsOnce ==
    /\ Len(urls) \in Nat \ {0} /\ Endpoints = 1 .. Len(urls)
    /\ \A i, j \in Endpoints : urls[i] = urls[j] => i = j
<1> DEFINE S == Kept
           f == Audits!Number(S)
<1>1. candidates \in Seq(Range(primary) \cup Range(fallbackUrls)) /\ candidates # <<>>
  BY RpcConstants DEF RpcBounds, candidates
<1>2. Len(candidates) \in Nat \ {0} /\ DOMAIN candidates = 1 .. Len(candidates)
  BY <1>1
<1>3. IsFiniteSet(S) /\ S \subseteq Nat /\ S \subseteq 1 .. Len(candidates) /\ 1 \in S
  <2>1. S \in SUBSET (1 .. Len(candidates)) /\ S \subseteq Nat
    BY <1>2 DEF Kept
  <2>2. IsFiniteSet(1 .. Len(candidates))
    BY <1>2, FS_Interval
  <2>3. 1 \in DOMAIN candidates /\ 1 .. 1 - 1 = {}
    BY <1>2
  <2> QED BY <2>1, <2>2, <2>3, FS_Subset DEF Kept
<1>4. Cardinality(S) \in Nat \ {0}
  <2>1. Cardinality(S) \in Nat
    BY <1>3, FS_CardinalityType
  <2>2. Cardinality(S) # 0
    BY <1>3, FS_EmptySet
  <2> QED BY <2>1, <2>2
<1>5. /\ \A m \in S : f[m] = Cardinality({l \in S : l < m})
      /\ \A i \in 0 .. (Cardinality(S) - 1) : \E m \in S : f[m] = i
  <2>1. Audits!IsFiniteSet(S)
    BY <1>3, SameFinite
  <2>2. Audits!OneToOne(f, S)
    BY <1>3, <2>1, Audits!Numbered
  <2>3. Audits!Cardinality(S) = Cardinality(S)
    BY SameFinite
  <2>4. \A m \in S : f[m] = Cardinality({l \in S : l < m})
    BY SameFinite DEF Audits!Number, Audits!Below
  <2>5. \A i \in 0 .. (Cardinality(S) - 1) : \E m \in S : f[m] = i
    BY <2>2, <2>3 DEF Audits!OneToOne, Audits!Numbers
  <2> QED BY <2>4, <2>5
<1>6. ASSUME NEW n \in 1 .. Cardinality(S)
      PROVE  PlaceOf(n) \in S /\ f[PlaceOf(n)] = n - 1
  <2>1. n - 1 \in 0 .. (Cardinality(S) - 1)
    BY <1>4
  <2>2. PICK m \in S : f[m] = n - 1
    BY <1>5, <2>1
  <2>3. \E i \in Kept : Cardinality({j \in Kept : j < i}) = n - 1
    BY <1>5, <2>2
  <2>4. PlaceOf(n) \in S /\ Cardinality({j \in Kept : j < PlaceOf(n)}) = n - 1
    BY <2>3 DEF PlaceOf
  <2> QED BY <1>5, <2>4
<1>7. Len(urls) = Cardinality(S) /\ \A n \in 1 .. Cardinality(S) : urls[n] = candidates[PlaceOf(n)]
  BY <1>4 DEF urls
<1>8. ASSUME NEW i \in S, NEW j \in S, i < j PROVE candidates[i] # candidates[j]
  <2>1. i \in 1 .. j - 1
    BY <1>3, <1>8
  <2> QED BY <2>1 DEF Kept
<1>9. ASSUME NEW i \in 1 .. Cardinality(S), NEW j \in 1 .. Cardinality(S), urls[i] = urls[j]
      PROVE  i = j
  <2>1. PICK p, q : p = PlaceOf(i) /\ q = PlaceOf(j)
    OBVIOUS
  <2>2. /\ p \in S /\ q \in S /\ f[p] = i - 1 /\ f[q] = j - 1
        /\ candidates[p] = candidates[q]
    BY <1>6, <1>7, <1>9, <2>1
  <2>3. p \in Nat /\ q \in Nat
    BY <1>3, <2>2
  <2>4. p = q
    BY <1>8, <2>2, <2>3
  <2>5. i - 1 = j - 1
    BY <2>2, <2>4
  <2> QED BY <1>4, <2>5
<1> QED BY <1>4, <1>7, <1>9 DEF Endpoints

\* The bounds of the clock, as numbers.
LEMMA RpcNumbers ==
    /\ quarantineMs \in Nat /\ chainCheckTtlMs \in Nat \ {0} /\ MaxTime \in Nat \ {0}
    /\ Infinity = MaxTime + quarantineMs + 1
BY RpcConstants DEF RpcBounds, Infinity

-----------------------------------------------------------------------------
(* Steps of a broadcast                                                    *)

\* The call of b becomes c and no other changes.
CallTurns(b, c) == c \in Calls /\ bcast' = [bcast EXCEPT ![b] = c]

LEMMA GotoTurns ==
    ASSUME RpcTypes, NEW b \in Broadcasts, NEW pc \in BroadcastPcs, NEW i \in 1 .. Len(urls) + 1,
           Goto(b, pc, i)
    PROVE  \E c : /\ CallTurns(b, c)
                  /\ c.pc = pc /\ c.at = i /\ c.probed = bcast[b].probed
<1>1. PICK c : c = [bcast[b] EXCEPT !.pc = pc, !.at = i]
  OBVIOUS
<1>2. bcast[b] \in Calls
  BY DEF RpcTypes
<1>3. c \in Calls /\ c.pc = pc /\ c.at = i /\ c.probed = bcast[b].probed
  BY <1>1, <1>2 DEF Calls
<1>4. bcast' = [bcast EXCEPT ![b] = c]
  BY <1>1 DEF Goto
<1> QED BY <1>3, <1>4 DEF CallTurns

\* What a call that passes on becomes.
LEMMA AdvanceTurns ==
    ASSUME RpcTypes, NEW b \in Broadcasts, bcast[b].at \in Endpoints, Advance(b)
    PROVE  \E c : /\ CallTurns(b, c)
                  /\ \/ c.pc = "noEndpoint"
                     \/ c.pc = "select" /\ c.at \in Endpoints
<1>1. Len(urls) \in Nat \ {0} /\ Endpoints = 1 .. Len(urls)
  BY UrlsOnce
<1>2. CASE bcast[b].at = Len(urls)
  <2>1. Goto(b, "noEndpoint", bcast[b].at + 1) /\ bcast[b].at + 1 \in 1 .. Len(urls) + 1
    BY <1>1, <1>2 DEF Advance
  <2> QED BY <2>1, GotoTurns DEF BroadcastPcs
<1>3. CASE bcast[b].at # Len(urls)
  <2>1. Goto(b, "select", bcast[b].at + 1) /\ bcast[b].at + 1 \in Endpoints
    BY <1>1, <1>3 DEF Advance
  <2>2. bcast[b].at + 1 \in 1 .. Len(urls) + 1
    BY <1>1, <2>1
  <2>3. \E c : CallTurns(b, c) /\ c.pc = "select" /\ c.at = bcast[b].at + 1
    BY <2>1, <2>2, GotoTurns DEF BroadcastPcs
  <2> QED BY <2>1, <2>3
<1> QED BY <1>2, <1>3

\* A step of b that leaves the time and the chains alone keeps the other calls as they are,
\* and the call of b where what it becomes is as it should be.
LEMMA CallKept ==
    ASSUME RpcInv, NEW b \in Broadcasts, NEW c, CallTurns(b, c), UNCHANGED environment,
           NEW s \in Seq(Deliveries), sent' = [sent EXCEPT ![b] = s],
           c.pc \in {"new", "select", "probe", "send"} => c.at \in Endpoints,
           c.pc \notin {"ok", "uncertain"} => s = <<>>,
           Len(s) <= 1 /\ (c.pc = "ok" => s # <<>>),
           c.pc = "send" => c.probed <= now /\ LeftSince(c.at, c.probed),
           \A i \in DOMAIN s : s[i].right \/ switchedAt[s[i].to] >= s[i].probed
    PROVE  /\ bcast' \in [Broadcasts -> Calls] /\ sent' \in [Broadcasts -> Seq(Deliveries)]
           /\ \A u \in Broadcasts : BroadcastOK(u)'
<1>1. /\ bcast \in [Broadcasts -> Calls] /\ sent \in [Broadcasts -> Seq(Deliveries)] /\ c \in Calls
      /\ bcast' = [bcast EXCEPT ![b] = c]
  BY DEF RpcInv, RpcTypes, CallTurns
<1>2. bcast'[b] = c /\ sent'[b] = s
  BY <1>1
<1>3. \A u \in Broadcasts \ {b} : bcast'[u] = bcast[u] /\ sent'[u] = sent[u]
  BY <1>1
<1>4. now' = now /\ expected' = expected /\ switchedAt' = switchedAt
  BY DEF environment
<1>5. BroadcastOK(b)'
  BY <1>2, <1>4 DEF BroadcastOK, LeftSince
<1>6. ASSUME NEW u \in Broadcasts \ {b} PROVE BroadcastOK(u)'
  <2>1. BroadcastOK(u)
    BY DEF RpcInv
  <2> QED BY <1>3, <1>4, <2>1 DEF BroadcastOK, LeftSince
<1> QED BY <1>1, <1>5, <1>6

\* The reads are as they were.
LEMMA ReadsKept ==
    ASSUME RpcInv, UNCHANGED <<environment, read, readFrom>>
    PROVE  \A r \in Reads : ReadOK(r)'
<1>1. now' = now /\ expected' = expected /\ switchedAt' = switchedAt
  BY DEF environment
<1>2. \A r \in Reads : ReadOK(r)
  BY DEF RpcInv
<1> QED BY <1>1, <1>2 DEF ReadOK

\* The broadcasts are as they were.
LEMMA BroadcastsKept ==
    ASSUME RpcInv, UNCHANGED <<environment, bcast, sent>>
    PROVE  \A b \in Broadcasts : BroadcastOK(b)'
<1>1. now' = now /\ expected' = expected /\ switchedAt' = switchedAt
  BY DEF environment
<1>2. \A b \in Broadcasts : BroadcastOK(b)
  BY DEF RpcInv
<1> QED BY <1>1, <1>2 DEF BroadcastOK, LeftSince

\* An endpoint is banned for serving another chain, and rests after a fault.
LEMMA QuarantineKept ==
    ASSUME RpcInv, NEW e \in Endpoints, UNCHANGED <<environment, readChainVerifiedUntil>>,
           (Banned(e) /\ ~RightChain(e)) \/ Rested(e) \/ UNCHANGED quarantineUntil
    PROVE  quarantineUntil' \in [Endpoints -> 0 .. Infinity] /\ \A d \in Endpoints : EndpointOK(d)'
<1>1. /\ now \in 1 .. MaxTime /\ quarantineUntil \in [Endpoints -> 0 .. Infinity]
      /\ \A d \in Endpoints : EndpointOK(d)
  BY DEF RpcInv, RpcTypes
<1>2. /\ now' = now /\ expected' = expected /\ switchedAt' = switchedAt /\ wrongOnce' = wrongOnce
      /\ readChainVerifiedUntil' = readChainVerifiedUntil
  BY DEF environment
<1>3. now + quarantineMs \in 0 .. Infinity /\ Infinity \in 0 .. Infinity
  BY <1>1, RpcNumbers
<1>4. \E t \in 0 .. Infinity : /\ quarantineUntil' = [quarantineUntil EXCEPT ![e] = t]
                               /\ e \notin wrongOnce => t <= now + quarantineMs
  <2>1. CASE Banned(e) /\ ~RightChain(e)
    BY <1>1, <1>3, <2>1 DEF Banned, RightChain, EndpointOK
  <2>2. CASE Rested(e)
    <3>1. now + quarantineMs <= now + quarantineMs
      BY <1>1, RpcNumbers
    <3> QED BY <1>3, <2>2, <3>1 DEF Rested
  <2>3. CASE UNCHANGED quarantineUntil
    <3>1. quarantineUntil' = [quarantineUntil EXCEPT ![e] = quarantineUntil[e]]
      BY <1>1, <2>3
    <3> QED BY <1>1, <3>1 DEF EndpointOK
  <2> QED BY <2>1, <2>2, <2>3
<1>5. PICK t \in 0 .. Infinity : /\ quarantineUntil' = [quarantineUntil EXCEPT ![e] = t]
                                 /\ e \notin wrongOnce => t <= now + quarantineMs
  BY <1>4
<1>6. quarantineUntil' \in [Endpoints -> 0 .. Infinity] /\ quarantineUntil'[e] = t
      /\ \A d \in Endpoints \ {e} : quarantineUntil'[d] = quarantineUntil[d]
  BY <1>1, <1>5
<1> QED BY <1>1, <1>2, <1>5, <1>6 DEF EndpointOK

\* The next endpoint is looked at.
LEMMA RpcSelect ==
    ASSUME RpcInv, NEW b \in Broadcasts, SelectEndpoint(b)
    PROVE  RpcInv'
<1>1. /\ bcast \in [Broadcasts -> Calls] /\ sent \in [Broadcasts -> Seq(Deliveries)] /\ BroadcastOK(b)
      /\ bcast[b].pc \in {"new", "select"} /\ RpcTypes
  BY DEF RpcInv, RpcTypes, SelectEndpoint
<1>2. bcast[b].at \in Endpoints /\ sent[b] = <<>> /\ bcast[b].at \in 1 .. Len(urls) + 1
  BY <1>1 DEF BroadcastOK, Calls
<1>3. UNCHANGED <<environment, quarantineUntil, readChainVerifiedUntil, sent, read, readFrom>>
  BY DEF SelectEndpoint
<1>4. \E c : /\ CallTurns(b, c)
             /\ c.pc = "noEndpoint" \/ (c.pc \in {"select", "probe"} /\ c.at \in Endpoints)
  <2>1. CASE Quarantined(bcast[b].at)
    <3>1. Advance(b)
      BY <2>1 DEF SelectEndpoint
    <3> QED BY <1>1, <1>2, <3>1, AdvanceTurns
  <2>2. CASE ~Quarantined(bcast[b].at)
    <3>1. Goto(b, "probe", bcast[b].at)
      BY <2>2 DEF SelectEndpoint
    <3>2. \E c : CallTurns(b, c) /\ c.pc = "probe" /\ c.at = bcast[b].at
      BY <1>1, <1>2, <3>1, GotoTurns DEF BroadcastPcs
    <3> QED BY <1>2, <3>2
  <2> QED BY <2>1, <2>2
<1>5. PICK c : /\ CallTurns(b, c)
               /\ c.pc = "noEndpoint" \/ (c.pc \in {"select", "probe"} /\ c.at \in Endpoints)
  BY <1>4
<1>6. sent' = [sent EXCEPT ![b] = <<>>] /\ <<>> \in Seq(Deliveries)
  BY <1>1, <1>2, <1>3
<1>7. /\ bcast' \in [Broadcasts -> Calls] /\ sent' \in [Broadcasts -> Seq(Deliveries)]
      /\ \A u \in Broadcasts : BroadcastOK(u)'
  <2>1. /\ c.pc \in {"new", "select", "probe", "send"} => c.at \in Endpoints
        /\ c.pc # "ok" /\ c.pc # "send" /\ UNCHANGED environment
        /\ Len(<<>>) <= 1 /\ DOMAIN <<>> = {}
    BY <1>3, <1>5
  <2> QED BY <1>5, <1>6, <2>1, CallKept
<1>8. quarantineUntil' \in [Endpoints -> 0 .. Infinity] /\ \A d \in Endpoints : EndpointOK(d)'
  BY <1>2, <1>3, QuarantineKept
<1>9. \A r \in Reads : ReadOK(r)'
  BY <1>3, ReadsKept
<1> QED BY <1>1, <1>3, <1>7, <1>8, <1>9 DEF RpcInv, RpcTypes, environment

\* The probe is answered or not.
LEMMA RpcProbed ==
    ASSUME RpcInv, NEW b \in Broadcasts, Probed(b)
    PROVE  RpcInv'
<1>1. /\ bcast \in [Broadcasts -> Calls] /\ sent \in [Broadcasts -> Seq(Deliveries)] /\ BroadcastOK(b)
      /\ bcast[b].pc = "probe" /\ RpcTypes /\ now \in Nat
  BY DEF RpcInv, RpcTypes, Probed
<1>2. bcast[b].at \in Endpoints /\ sent[b] = <<>> /\ bcast[b].at \in 1 .. Len(urls) + 1
  BY <1>1 DEF BroadcastOK, Calls
<1>3. UNCHANGED <<environment, readChainVerifiedUntil, sent, read, readFrom>>
  BY DEF Probed
<1>4. /\ \E c : /\ CallTurns(b, c)
                /\ \/ c.pc = "noEndpoint"
                   \/ c.pc = "select" /\ c.at \in Endpoints
                   \/ /\ c.pc = "send" /\ c.at \in Endpoints
                      /\ c.probed = now /\ RightChain(c.at)
      /\ \/ Banned(bcast[b].at) /\ ~RightChain(bcast[b].at)
         \/ Rested(bcast[b].at)
         \/ UNCHANGED quarantineUntil
  <2>1. CASE /\ RightChain(bcast[b].at)
             /\ bcast' = [bcast EXCEPT ![b].pc = "send", ![b].probed = now]
             /\ UNCHANGED quarantineUntil
    <3>1. PICK c : c = [bcast[b] EXCEPT !.pc = "send", !.probed = now]
      OBVIOUS
    <3>2. c \in Calls /\ c.pc = "send" /\ c.at = bcast[b].at /\ c.probed = now
      BY <1>1, <3>1 DEF Calls, BroadcastPcs
    <3>3. bcast' = [bcast EXCEPT ![b] = c]
      BY <2>1, <3>1
    <3> QED BY <1>2, <2>1, <3>2, <3>3 DEF CallTurns
  <2>2. CASE ~RightChain(bcast[b].at) /\ Banned(bcast[b].at) /\ Advance(b)
    BY <1>1, <1>2, <2>2, AdvanceTurns
  <2>3. CASE Rested(bcast[b].at) /\ Advance(b)
    BY <1>1, <1>2, <2>3, AdvanceTurns
  <2> QED BY <2>1, <2>2, <2>3 DEF Probed
<1>5. PICK c : /\ CallTurns(b, c)
               /\ \/ c.pc = "noEndpoint"
                  \/ c.pc = "select" /\ c.at \in Endpoints
                  \/ /\ c.pc = "send" /\ c.at \in Endpoints
                     /\ c.probed = now /\ RightChain(c.at)
  BY <1>4
<1>6. sent' = [sent EXCEPT ![b] = <<>>] /\ <<>> \in Seq(Deliveries)
  BY <1>1, <1>2, <1>3
<1>7. c.pc = "send" => c.probed <= now /\ LeftSince(c.at, c.probed)
  BY <1>1, <1>5 DEF LeftSince, RightChain
<1>8. /\ bcast' \in [Broadcasts -> Calls] /\ sent' \in [Broadcasts -> Seq(Deliveries)]
      /\ \A u \in Broadcasts : BroadcastOK(u)'
  <2>1. /\ c.pc \in {"new", "select", "probe", "send"} => c.at \in Endpoints
        /\ c.pc # "ok" /\ UNCHANGED environment
        /\ Len(<<>>) <= 1 /\ DOMAIN <<>> = {}
    BY <1>3, <1>5
  <2> QED BY <1>5, <1>6, <1>7, <2>1, CallKept
<1>9. quarantineUntil' \in [Endpoints -> 0 .. Infinity] /\ \A d \in Endpoints : EndpointOK(d)'
  BY <1>2, <1>3, <1>4, QuarantineKept
<1>10. \A r \in Reads : ReadOK(r)'
  BY <1>3, ReadsKept
<1> QED BY <1>1, <1>3, <1>8, <1>9, <1>10 DEF RpcInv, RpcTypes, environment

\* The payload is handed over, or lost on its way.
LEMMA RpcSend ==
    ASSUME RpcInv, NEW b \in Broadcasts, Send(b)
    PROVE  RpcInv'
<1> DEFINE delivery == [to |-> bcast[b].at, right |-> bcast[b].at \in expected, probed |-> bcast[b].probed]
<1>1. /\ bcast \in [Broadcasts -> Calls] /\ sent \in [Broadcasts -> Seq(Deliveries)] /\ BroadcastOK(b)
      /\ bcast[b].pc = "send" /\ RpcTypes /\ now \in Nat /\ switchedAt \in [Endpoints -> Nat]
  BY DEF RpcInv, RpcTypes, Send
<1>2. /\ bcast[b].at \in Endpoints /\ sent[b] = <<>> /\ bcast[b].at \in 1 .. Len(urls) + 1
      /\ bcast[b].probed \in Nat /\ LeftSince(bcast[b].at, bcast[b].probed)
  BY <1>1 DEF BroadcastOK, Calls
<1>3. UNCHANGED <<environment, readChainVerifiedUntil, read, readFrom>>
  BY DEF Send
<1>4. delivery \in Deliveries
  BY <1>2 DEF Deliveries
<1>5. delivery.right \/ switchedAt[delivery.to] >= delivery.probed
  BY <1>1, <1>2 DEF LeftSince
<1>6. /\ <<delivery>> \in Seq(Deliveries) /\ <<>> \in Seq(Deliveries)
      /\ Len(<<delivery>>) = 1 /\ <<delivery>> # <<>> /\ Len(<<>>) = 0
      /\ Append(<<>>, delivery) = <<delivery>>
      /\ \A i \in DOMAIN <<delivery>> : <<delivery>>[i] = delivery
      /\ DOMAIN <<>> = {}
  BY <1>4
<1>7. Deliver(b, bcast[b].at) => sent' = [sent EXCEPT ![b] = <<delivery>>]
  BY <1>1, <1>2, <1>6 DEF Deliver
<1>8. UNCHANGED sent => sent' = [sent EXCEPT ![b] = <<>>]
  BY <1>1, <1>2
<1>9. \A pc \in {"ok", "uncertain"} :
          Goto(b, pc, bcast[b].at) => \E c : CallTurns(b, c) /\ c.pc = pc
  <2> SUFFICES ASSUME NEW pc \in {"ok", "uncertain"}, Goto(b, pc, bcast[b].at)
               PROVE  \E c : CallTurns(b, c) /\ c.pc = pc
    OBVIOUS
  <2>1. pc \in BroadcastPcs
    BY DEF BroadcastPcs
  <2> QED BY <1>1, <1>2, <2>1, GotoTurns
<1>10. /\ \E c, s : /\ CallTurns(b, c) /\ sent' = [sent EXCEPT ![b] = s] /\ s \in {<<>>, <<delivery>>}
                    /\ (c.pc = "ok" /\ s = <<delivery>>) \/ c.pc = "uncertain"
       /\ Rested(bcast[b].at) \/ UNCHANGED quarantineUntil
  <2>1. CASE Deliver(b, bcast[b].at) /\ Goto(b, "ok", bcast[b].at) /\ UNCHANGED quarantineUntil
    <3>1. \E c : CallTurns(b, c) /\ c.pc = "ok"
      BY <1>9, <2>1
    <3>2. sent' = [sent EXCEPT ![b] = <<delivery>>]
      BY <1>7, <2>1
    <3> HIDE DEF delivery
    <3> QED BY <2>1, <3>1, <3>2
  <2>2. CASE Deliver(b, bcast[b].at) /\ Rested(bcast[b].at) /\ Uncertain(b)
    <3>1. \E c : CallTurns(b, c) /\ c.pc = "uncertain"
      BY <1>9, <2>2 DEF Uncertain
    <3>2. sent' = [sent EXCEPT ![b] = <<delivery>>]
      BY <1>7, <2>2
    <3> HIDE DEF delivery
    <3> QED BY <2>2, <3>1, <3>2
  <2>3. CASE UNCHANGED sent /\ Rested(bcast[b].at) /\ Uncertain(b)
    <3>1. \E c : CallTurns(b, c) /\ c.pc = "uncertain"
      BY <1>9, <2>3 DEF Uncertain
    <3>2. sent' = [sent EXCEPT ![b] = <<>>]
      BY <1>8, <2>3
    <3> HIDE DEF delivery
    <3> QED BY <2>3, <3>1, <3>2
  <2> QED BY <2>1, <2>2, <2>3 DEF Send
<1>11. PICK c, s : /\ CallTurns(b, c) /\ sent' = [sent EXCEPT ![b] = s] /\ s \in {<<>>, <<delivery>>}
                   /\ (c.pc = "ok" /\ s = <<delivery>>) \/ c.pc = "uncertain"
  BY <1>10
<1>12. /\ s \in Seq(Deliveries) /\ Len(s) <= 1 /\ (c.pc = "ok" => s # <<>>)
       /\ \A i \in DOMAIN s : s[i].right \/ switchedAt[s[i].to] >= s[i].probed
  <2>1. CASE s = <<>>
    BY <1>6, <1>11, <2>1
  <2>2. CASE s = <<delivery>>
    BY <1>5, <1>6, <2>2
  <2> QED BY <1>11, <2>1, <2>2
<1>13. c.pc \in {"ok", "uncertain"}
  BY <1>11
<1>14. /\ bcast' \in [Broadcasts -> Calls] /\ sent' \in [Broadcasts -> Seq(Deliveries)]
       /\ \A u \in Broadcasts : BroadcastOK(u)'
  BY <1>3, <1>11, <1>12, <1>13, CallKept
<1>15. quarantineUntil' \in [Endpoints -> 0 .. Infinity] /\ \A d \in Endpoints : EndpointOK(d)'
  BY <1>2, <1>3, <1>10, QuarantineKept
<1>16. \A r \in Reads : ReadOK(r)'
  BY <1>3, ReadsKept
<1> QED BY <1>1, <1>3, <1>14, <1>15, <1>16 DEF RpcInv, RpcTypes, environment
-----------------------------------------------------------------------------
(* Steps of a read                                                         *)

\* A step of r that leaves the time and the chains alone keeps the other reads as they are,
\* and r where what it becomes is as it should be.
LEMMA ReadingKept ==
    ASSUME RpcInv, NEW r \in Reads, NEW d \in Readings, read' = [read EXCEPT ![r] = d],
           NEW a \in Answers, readFrom' = [readFrom EXCEPT ![r] = a], UNCHANGED environment,
           d.pc \in {"new", "guard", "check", "request"} => d.at \in Endpoints,
           d.pc \in {"check", "request"} => d.asked <= now,
           d.pc = "request" =>
               d.at \in expected \/ d.asked < switchedAt[d.at] + chainCheckTtlMs,
           d.pc = "answered" => a.right \/ a.asked < a.switched + chainCheckTtlMs
    PROVE  /\ read' \in [Reads -> Readings] /\ readFrom' \in [Reads -> Answers]
           /\ \A u \in Reads : ReadOK(u)'
<1>1. read \in [Reads -> Readings] /\ readFrom \in [Reads -> Answers]
  BY DEF RpcInv, RpcTypes
<1>2. /\ read' \in [Reads -> Readings] /\ readFrom' \in [Reads -> Answers]
      /\ read'[r] = d /\ readFrom'[r] = a
      /\ \A u \in Reads \ {r} : read'[u] = read[u] /\ readFrom'[u] = readFrom[u]
  BY <1>1
<1>3. now' = now /\ expected' = expected /\ switchedAt' = switchedAt
  BY DEF environment
<1>4. ReadOK(r)'
  BY <1>2, <1>3 DEF ReadOK
<1>5. ASSUME NEW u \in Reads \ {r} PROVE ReadOK(u)'
  <2>1. ReadOK(u)
    BY DEF RpcInv
  <2> QED BY <1>2, <1>3, <2>1 DEF ReadOK
<1> QED BY <1>2, <1>4, <1>5

\* What a read that passes on becomes.
LEMMA NextReadTurns ==
    ASSUME RpcInv, NEW r \in Reads, read[r].at \in Endpoints, NextRead(r, read[r].at)
    PROVE  \E d \in Readings : /\ read' = [read EXCEPT ![r] = d]
                               /\ d.pc = "failed" \/ (d.pc = "guard" /\ d.at \in Endpoints)
<1>1. Len(urls) \in Nat \ {0} /\ Endpoints = 1 .. Len(urls)
  BY UrlsOnce
<1>2. PICK pc : pc = IF read[r].at = Len(urls) THEN "failed" ELSE "guard"
  OBVIOUS
<1>3. PICK d : d = [read[r] EXCEPT !.pc = pc, !.at = read[r].at + 1]
  OBVIOUS
<1>4. read[r] \in Readings
  BY DEF RpcInv, RpcTypes
<1>5. /\ pc \in ReadPcs /\ read[r].at + 1 \in 1 .. Len(urls) + 1
      /\ pc = "failed" \/ (pc = "guard" /\ read[r].at + 1 \in Endpoints)
  BY <1>1, <1>2 DEF ReadPcs
<1>6. d \in Readings /\ d.pc = pc /\ d.at = read[r].at + 1
  BY <1>3, <1>4, <1>5 DEF Readings
<1>7. read' = [read EXCEPT ![r] = d]
  BY <1>2, <1>3 DEF NextRead
<1> QED BY <1>5, <1>6, <1>7

\* What a step of a read has to go on from.
LEMMA ReadBefore ==
    ASSUME RpcInv, NEW r \in Reads
    PROVE  /\ read \in [Reads -> Readings] /\ readFrom \in [Reads -> Answers] /\ read[r] \in Readings
           /\ ReadOK(r) /\ RpcTypes /\ now \in Nat /\ switchedAt \in [Endpoints -> Nat]
           /\ readFrom[r] \in Answers /\ readFrom' = readFrom => readFrom' = [readFrom EXCEPT ![r] = readFrom[r]]
<1>1. read \in [Reads -> Readings] /\ readFrom \in [Reads -> Answers]
  BY DEF RpcInv, RpcTypes
<1>2. readFrom' = readFrom => readFrom' = [readFrom EXCEPT ![r] = readFrom[r]]
  BY <1>1
<1> QED BY <1>1, <1>2 DEF RpcInv, RpcTypes

\* The guard lets a read pass while the last check counts.
LEMMA RpcGuard ==
    ASSUME RpcInv, NEW r \in Reads, Guard(r)
    PROVE  RpcInv'
<1>1. /\ read \in [Reads -> Readings] /\ readFrom \in [Reads -> Answers] /\ read[r] \in Readings
      /\ ReadOK(r) /\ RpcTypes /\ now \in Nat /\ switchedAt \in [Endpoints -> Nat]
  BY ReadBefore
<1>2. /\ UNCHANGED <<environment, quarantineUntil, readChainVerifiedUntil, bcast, sent, readFrom>>
      /\ read[r].at \in Endpoints
  BY <1>1 DEF Guard, ReadOK
<1>3. PICK pc : pc = IF Verified(read[r].at) THEN "request" ELSE "check"
  OBVIOUS
<1>4. PICK d : d = [read[r] EXCEPT !.pc = pc, !.asked = now]
  OBVIOUS
<1>5. d \in Readings /\ d.pc = pc /\ d.at = read[r].at /\ d.asked = now /\ pc \in {"request", "check"}
  BY <1>1, <1>3, <1>4 DEF Readings, ReadPcs
<1>6. read' = [read EXCEPT ![r] = d]
  BY <1>3, <1>4 DEF Guard
<1>7. d.pc = "request" => d.at \in expected \/ d.asked < switchedAt[d.at] + chainCheckTtlMs
  <2>1. pc = "request" => readChainVerifiedUntil[d.at] > now
    BY <1>3, <1>5 DEF Verified
  <2>2. EndpointOK(d.at) /\ readChainVerifiedUntil[d.at] \in Nat /\ switchedAt[d.at] \in Nat
    BY <1>1, <1>2, <1>5, RpcNumbers DEF RpcInv, RpcTypes
  <2> QED BY <1>1, <1>5, <2>1, <2>2, RpcNumbers DEF EndpointOK
<1>8. readFrom[r] \in Answers /\ readFrom' = [readFrom EXCEPT ![r] = readFrom[r]]
  BY <1>2, ReadBefore
<1>9. /\ d.pc \in {"new", "guard", "check", "request"} => d.at \in Endpoints
      /\ d.pc \in {"check", "request"} => d.asked <= now
      /\ d.pc # "answered" /\ UNCHANGED environment
  BY <1>1, <1>2, <1>5
<1>10. /\ read' \in [Reads -> Readings] /\ readFrom' \in [Reads -> Answers]
       /\ \A u \in Reads : ReadOK(u)'
  BY <1>5, <1>6, <1>7, <1>8, <1>9, ReadingKept
<1>11. quarantineUntil' \in [Endpoints -> 0 .. Infinity] /\ \A e \in Endpoints : EndpointOK(e)'
  BY <1>2, QuarantineKept
<1>12. \A b \in Broadcasts : BroadcastOK(b)'
  BY <1>2, BroadcastsKept
<1> QED BY <1>1, <1>2, <1>10, <1>11, <1>12 DEF RpcInv, RpcTypes, environment

\* The guard has its answer, or none.
LEMMA RpcChecked ==
    ASSUME RpcInv, NEW r \in Reads, Checked(r)
    PROVE  RpcInv'
<1>0. PICK e : e = read[r].at
  OBVIOUS
<1>1. /\ read \in [Reads -> Readings] /\ readFrom \in [Reads -> Answers] /\ read[r] \in Readings
      /\ ReadOK(r) /\ RpcTypes /\ now \in 1 .. MaxTime /\ switchedAt \in [Endpoints -> Nat]
      /\ readChainVerifiedUntil \in [Endpoints -> 0 .. MaxTime + chainCheckTtlMs]
      /\ \A d \in Endpoints : EndpointOK(d)
  BY ReadBefore DEF RpcInv, RpcTypes
<1>2. /\ UNCHANGED <<environment, bcast, sent, readFrom>> /\ read[r].pc = "check"
      /\ e \in Endpoints /\ read[r].asked <= now
  BY <1>0, <1>1 DEF Checked, ReadOK
<1>3. /\ now' = now /\ expected' = expected /\ switchedAt' = switchedAt /\ wrongOnce' = wrongOnce
  BY <1>2 DEF environment
<1>4. readFrom[r] \in Answers /\ readFrom' = [readFrom EXCEPT ![r] = readFrom[r]]
  BY <1>2, ReadBefore
<1>5. /\ \E d \in Readings : /\ read' = [read EXCEPT ![r] = d]
                             /\ \/ d.pc = "failed"
                                \/ d.pc = "guard" /\ d.at \in Endpoints
                                \/ /\ d.pc = "request" /\ d.at \in expected
                                   /\ d.asked <= now /\ d.at \in Endpoints
      /\ \/ UNCHANGED quarantineUntil /\ e \in expected
            /\ readChainVerifiedUntil' = [readChainVerifiedUntil EXCEPT ![e] = now + chainCheckTtlMs]
         \/ ((Banned(e) /\ ~RightChain(e)) \/ UNCHANGED quarantineUntil)
            /\ UNCHANGED readChainVerifiedUntil
  <2>1. CASE /\ RightChain(e)
             /\ readChainVerifiedUntil' = [readChainVerifiedUntil EXCEPT ![e] = now + chainCheckTtlMs]
             /\ read' = [read EXCEPT ![r].pc = "request"]
             /\ UNCHANGED quarantineUntil
    <3>1. PICK d : d = [read[r] EXCEPT !.pc = "request"]
      OBVIOUS
    <3>2. d \in Readings /\ d.pc = "request" /\ d.at = e /\ d.asked = read[r].asked
      BY <1>0, <1>1, <3>1 DEF Readings, ReadPcs
    <3>3. read' = [read EXCEPT ![r] = d]
      BY <2>1, <3>1
    <3> QED BY <1>2, <2>1, <3>2, <3>3 DEF RightChain
  <2>2. CASE ~RightChain(e) /\ Banned(e) /\ NextRead(r, e) /\ UNCHANGED readChainVerifiedUntil
    BY <1>0, <1>2, <2>2, NextReadTurns
  <2>3. CASE NextRead(r, e) /\ UNCHANGED <<quarantineUntil, readChainVerifiedUntil>>
    BY <1>0, <1>2, <2>3, NextReadTurns
  <2> QED BY <1>0, <2>1, <2>2, <2>3 DEF Checked
<1>6. PICK d \in Readings : /\ read' = [read EXCEPT ![r] = d]
                            /\ \/ d.pc = "failed"
                               \/ d.pc = "guard" /\ d.at \in Endpoints
                               \/ /\ d.pc = "request" /\ d.at \in expected
                                  /\ d.asked <= now /\ d.at \in Endpoints
  BY <1>5
<1>7. /\ d.pc \in {"new", "guard", "check", "request"} => d.at \in Endpoints
      /\ d.pc \in {"check", "request"} => d.asked <= now
      /\ d.pc = "request" => d.at \in expected
      /\ d.pc # "answered" /\ UNCHANGED environment
  BY <1>2, <1>6
<1>8. /\ read' \in [Reads -> Readings] /\ readFrom' \in [Reads -> Answers]
      /\ \A u \in Reads : ReadOK(u)'
  BY <1>4, <1>6, <1>7, ReadingKept
<1>9. /\ quarantineUntil' \in [Endpoints -> 0 .. Infinity]
      /\ readChainVerifiedUntil' \in [Endpoints -> 0 .. MaxTime + chainCheckTtlMs]
      /\ \A d2 \in Endpoints : EndpointOK(d2)'
  <2>1. CASE UNCHANGED quarantineUntil /\ e \in expected
             /\ readChainVerifiedUntil' = [readChainVerifiedUntil EXCEPT ![e] = now + chainCheckTtlMs]
    <3>1. now + chainCheckTtlMs \in 0 .. MaxTime + chainCheckTtlMs
      BY <1>1, RpcNumbers
    <3>2. /\ readChainVerifiedUntil' \in [Endpoints -> 0 .. MaxTime + chainCheckTtlMs]
          /\ readChainVerifiedUntil'[e] = now + chainCheckTtlMs
          /\ \A u \in Endpoints \ {e} : readChainVerifiedUntil'[u] = readChainVerifiedUntil[u]
      BY <1>1, <1>2, <2>1, <3>1
    <3>3. now + chainCheckTtlMs <= now + chainCheckTtlMs
      BY <1>1, RpcNumbers
    <3>4. EndpointOK(e)'
      BY <1>1, <1>2, <1>3, <2>1, <3>2, <3>3 DEF EndpointOK
    <3>5. \A u \in Endpoints \ {e} : EndpointOK(u)'
      BY <1>1, <1>3, <2>1, <3>2 DEF EndpointOK
    <3> QED BY <1>1, <2>1, <3>2, <3>4, <3>5 DEF RpcTypes
  <2>2. CASE ((Banned(e) /\ ~RightChain(e)) \/ UNCHANGED quarantineUntil)
             /\ UNCHANGED readChainVerifiedUntil
    <3>1. quarantineUntil' \in [Endpoints -> 0 .. Infinity] /\ \A u \in Endpoints : EndpointOK(u)'
      BY <1>2, <2>2, QuarantineKept
    <3> QED BY <1>1, <2>2, <3>1
  <2> QED BY <1>5, <2>1, <2>2
<1>10. \A b \in Broadcasts : BroadcastOK(b)'
  BY <1>2, BroadcastsKept
<1> QED BY <1>1, <1>2, <1>8, <1>9, <1>10 DEF RpcInv, RpcTypes, environment

\* The endpoint answers the read, or fails.
LEMMA RpcRequest ==
    ASSUME RpcInv, NEW r \in Reads, Request(r)
    PROVE  RpcInv'
<1> DEFINE e == read[r].at
<1>1. /\ read \in [Reads -> Readings] /\ readFrom \in [Reads -> Answers] /\ read[r] \in Readings
      /\ ReadOK(r) /\ RpcTypes /\ now \in Nat /\ switchedAt \in [Endpoints -> Nat]
  BY ReadBefore
<1>2. /\ UNCHANGED <<environment, quarantineUntil, readChainVerifiedUntil, bcast, sent>>
      /\ read[r].pc = "request" /\ e \in Endpoints
      /\ e \in expected \/ read[r].asked < switchedAt[e] + chainCheckTtlMs
  BY <1>1 DEF Request, ReadOK
<1>3. \E d \in Readings, a \in Answers :
          /\ read' = [read EXCEPT ![r] = d] /\ readFrom' = [readFrom EXCEPT ![r] = a]
          /\ \/ d.pc = "failed"
             \/ d.pc = "guard" /\ d.at \in Endpoints
             \/ d.pc = "answered" /\ (a.right \/ a.asked < a.switched + chainCheckTtlMs)
  <2>1. CASE /\ read' = [read EXCEPT ![r].pc = "answered"]
             /\ readFrom' = [readFrom EXCEPT ![r] =
                    [right |-> e \in expected, switched |-> switchedAt[e], asked |-> read[r].asked]]
    <3>1. PICK d : d = [read[r] EXCEPT !.pc = "answered"]
      OBVIOUS
    <3>2. d \in Readings /\ d.pc = "answered"
      BY <1>1, <3>1 DEF Readings, ReadPcs
    <3>3. read' = [read EXCEPT ![r] = d]
      BY <2>1, <3>1
    <3>4. PICK a : a = [right |-> e \in expected, switched |-> switchedAt[e], asked |-> read[r].asked]
      OBVIOUS
    <3>5. a.switched = switchedAt[e] /\ a.asked = read[r].asked /\ (e \in expected => a.right)
      BY <3>4
    <3>7. a \in Answers
      BY <1>1, <1>2, <3>4 DEF Answers, Readings
    <3>8. a.right \/ a.asked < a.switched + chainCheckTtlMs
      BY <1>2, <3>5
    <3>6. readFrom' = [readFrom EXCEPT ![r] = a]
      BY <2>1, <3>4
    <3> QED BY <3>2, <3>3, <3>6, <3>7, <3>8
  <2>2. CASE NextRead(r, e) /\ UNCHANGED readFrom
    <3>1. \E d \in Readings : /\ read' = [read EXCEPT ![r] = d]
                              /\ d.pc = "failed" \/ (d.pc = "guard" /\ d.at \in Endpoints)
      BY <1>2, <2>2, NextReadTurns
    <3>2. readFrom[r] \in Answers /\ readFrom' = [readFrom EXCEPT ![r] = readFrom[r]]
      BY <2>2, ReadBefore
    <3> QED BY <3>1, <3>2
  <2>3. CASE read' = [read EXCEPT ![r].pc = "failed"] /\ UNCHANGED readFrom
    <3>1. PICK d : d = [read[r] EXCEPT !.pc = "failed"]
      OBVIOUS
    <3>2. d \in Readings /\ d.pc = "failed"
      BY <1>1, <3>1 DEF Readings, ReadPcs
    <3>3. read' = [read EXCEPT ![r] = d]
      BY <2>3, <3>1
    <3>4. readFrom[r] \in Answers /\ readFrom' = [readFrom EXCEPT ![r] = readFrom[r]]
      BY <2>3, ReadBefore
    <3> QED BY <3>2, <3>3, <3>4
  <2> QED BY <2>1, <2>2, <2>3 DEF Request
<1>4. PICK d \in Readings, a \in Answers :
          /\ read' = [read EXCEPT ![r] = d] /\ readFrom' = [readFrom EXCEPT ![r] = a]
          /\ \/ d.pc = "failed"
             \/ d.pc = "guard" /\ d.at \in Endpoints
             \/ d.pc = "answered" /\ (a.right \/ a.asked < a.switched + chainCheckTtlMs)
  BY <1>3
<1>5. /\ d.pc \in {"new", "guard", "check", "request"} => d.at \in Endpoints
      /\ d.pc \notin {"check", "request"} /\ UNCHANGED environment
      /\ d.pc = "answered" => a.right \/ a.asked < a.switched + chainCheckTtlMs
  BY <1>2, <1>4
<1>6. /\ read' \in [Reads -> Readings] /\ readFrom' \in [Reads -> Answers]
      /\ \A u \in Reads : ReadOK(u)'
  BY <1>4, <1>5, ReadingKept
<1>7. quarantineUntil' \in [Endpoints -> 0 .. Infinity] /\ \A u \in Endpoints : EndpointOK(u)'
  BY <1>2, QuarantineKept
<1>8. \A b \in Broadcasts : BroadcastOK(b)'
  BY <1>2, BroadcastsKept
<1> QED BY <1>1, <1>2, <1>6, <1>7, <1>8 DEF RpcInv, RpcTypes, environment

-----------------------------------------------------------------------------
(* The other steps                                                         *)

\* A caller makes another call.
LEMMA RpcAgain ==
    ASSUME RpcInv, Again
    PROVE  RpcInv'
<1>1. UNCHANGED <<environment, quarantineUntil, readChainVerifiedUntil>> /\ RpcTypes
  BY DEF Again, RpcInv
<1>2. Endpoints # {} /\ 1 \in Endpoints /\ 1 \in 1 .. Len(urls) + 1
  BY UrlsOnce
<1>3. quarantineUntil' \in [Endpoints -> 0 .. Infinity] /\ \A u \in Endpoints : EndpointOK(u)'
  BY <1>1, <1>2, QuarantineKept
<1>4. ASSUME NEW b \in Broadcasts,
             bcast' = [bcast EXCEPT ![b] = [pc |-> "new", at |-> 1, probed |-> 0]],
             sent' = [sent EXCEPT ![b] = <<>>], UNCHANGED <<read, readFrom>>
      PROVE  RpcInv'
  <2>1. PICK c : c = [pc |-> "new", at |-> 1, probed |-> 0]
    OBVIOUS
  <2>2. c \in Calls /\ c.pc = "new" /\ c.at \in Endpoints
    BY <1>2, <2>1 DEF Calls, BroadcastPcs
  <2>3. CallTurns(b, c)
    BY <1>4, <2>1, <2>2 DEF CallTurns
  <2>4. /\ <<>> \in Seq(Deliveries) /\ Len(<<>>) <= 1 /\ DOMAIN <<>> = {}
        /\ c.pc # "ok" /\ c.pc # "send" /\ UNCHANGED environment
    BY <1>1, <2>2
  <2>5. /\ bcast' \in [Broadcasts -> Calls] /\ sent' \in [Broadcasts -> Seq(Deliveries)]
        /\ \A u \in Broadcasts : BroadcastOK(u)'
    BY <1>4, <2>2, <2>3, <2>4, CallKept
  <2>6. \A r \in Reads : ReadOK(r)'
    BY <1>1, <1>4, ReadsKept
  <2> QED BY <1>1, <1>3, <1>4, <2>5, <2>6 DEF RpcInv, RpcTypes, environment
<1>5. ASSUME NEW r \in Reads, read' = [read EXCEPT ![r] = NewRead],
             readFrom' = [readFrom EXCEPT ![r] = NotRead], UNCHANGED <<bcast, sent>>
      PROVE  RpcInv'
  <2>1. /\ NewRead \in Readings /\ NewRead.pc = "new" /\ NewRead.at \in Endpoints
        /\ NotRead \in Answers /\ UNCHANGED environment
    BY <1>1, <1>2 DEF NewRead, NotRead, Readings, Answers, ReadPcs
  <2>2. /\ read' \in [Reads -> Readings] /\ readFrom' \in [Reads -> Answers]
        /\ \A u \in Reads : ReadOK(u)'
    BY <1>5, <2>1, ReadingKept
  <2>3. \A b \in Broadcasts : BroadcastOK(b)'
    BY <1>1, <1>5, BroadcastsKept
  <2> QED BY <1>1, <1>3, <1>5, <2>2, <2>3 DEF RpcInv, RpcTypes, environment
<1> QED BY <1>4, <1>5 DEF Again

\* An endpoint changes chains.
LEMMA RpcSwitch ==
    ASSUME RpcInv, NEW e \in Endpoints, Switch(e)
    PROVE  RpcInv'
<1>1. /\ RpcTypes /\ now \in Nat /\ switchedAt \in [Endpoints -> Nat] /\ switchedAt[e] < now
      /\ \A d \in Endpoints : readChainVerifiedUntil[d] \in Nat
      /\ \A d \in Endpoints : EndpointOK(d)
  BY RpcNumbers DEF RpcInv, RpcTypes, Switch
<1>2. /\ UNCHANGED <<now, quarantineUntil, readChainVerifiedUntil, bcast, sent, read, readFrom>>
      /\ switchedAt' \in [Endpoints -> Nat] /\ switchedAt'[e] = now
      /\ \A d \in Endpoints \ {e} : switchedAt'[d] = switchedAt[d]
  BY <1>1 DEF Switch
<1>3. /\ expected' \subseteq Endpoints
      /\ \A d \in Endpoints \ {e} : d \in expected => d \in expected'
      /\ wrongOnce \subseteq wrongOnce' /\ wrongOnce' \subseteq Endpoints
      /\ \A d \in Endpoints : d \in expected' \/ d \in wrongOnce'
  BY <1>1 DEF Switch, RpcTypes
<1>4. \A d \in Endpoints : switchedAt[d] <= switchedAt'[d] /\ switchedAt'[d] \in Nat /\ switchedAt[d] \in Nat
  BY <1>1, <1>2
<1>5. \A d \in Endpoints, t \in Nat : t <= now /\ LeftSince(d, t) => LeftSince(d, t)'
  BY <1>1, <1>2, <1>3 DEF LeftSince
<1>6. ASSUME NEW b \in Broadcasts PROVE BroadcastOK(b)'
  <2>1. BroadcastOK(b) /\ bcast[b] \in Calls /\ sent[b] \in Seq(Deliveries)
    BY DEF RpcInv, RpcTypes
  <2>2. bcast'[b] = bcast[b] /\ sent'[b] = sent[b] /\ now' = now
    BY <1>2
  <2>3. ASSUME NEW i \in DOMAIN sent[b]
        PROVE  sent[b][i].right \/ switchedAt'[sent[b][i].to] >= sent[b][i].probed
    <3>1. sent[b][i] \in Deliveries
      BY <2>1
    <3>2. sent[b][i].to \in Endpoints /\ sent[b][i].probed \in Nat
      BY <3>1 DEF Deliveries
    <3> QED BY <1>4, <2>1, <3>2 DEF BroadcastOK
  <2>4. bcast[b].pc = "send" => bcast[b].probed <= now /\ LeftSince(bcast[b].at, bcast[b].probed)'
    <3>1. bcast[b].probed \in Nat
      BY <2>1 DEF Calls
    <3> QED BY <1>2, <1>5, <2>1, <2>2, <3>1 DEF BroadcastOK, LeftSince
  <2> QED BY <2>1, <2>2, <2>3, <2>4 DEF BroadcastOK, LeftSince
<1>7. ASSUME NEW r \in Reads PROVE ReadOK(r)'
  <2>1. ReadOK(r) /\ read[r] \in Readings
    BY DEF RpcInv, RpcTypes
  <2>2. read'[r] = read[r] /\ readFrom'[r] = readFrom[r] /\ now' = now
    BY <1>2
  <2>3. read[r].asked \in Nat
    BY <2>1 DEF Readings
  <2>4. read[r].pc = "request" =>
            \/ read[r].at \in expected'
            \/ read[r].asked < switchedAt'[read[r].at] + chainCheckTtlMs
    <3>1. CASE read[r].pc = "request" /\ read[r].at = e
      BY <1>1, <1>2, <2>1, <2>3, <3>1, RpcNumbers DEF ReadOK
    <3>2. CASE read[r].pc = "request" /\ read[r].at # e
      BY <1>2, <1>3, <2>1, <3>2 DEF ReadOK
    <3> QED BY <3>1, <3>2
  <2> QED BY <2>1, <2>2, <2>4 DEF ReadOK
<1>8. ASSUME NEW d \in Endpoints PROVE EndpointOK(d)'
  <2>1. EndpointOK(d) /\ readChainVerifiedUntil[d] \in Nat
    BY <1>1
  <2>2. switchedAt'[d] <= now /\ (d \notin wrongOnce' => d \notin wrongOnce)
    BY <1>1, <1>2, <1>3, <2>1 DEF EndpointOK
  <2>3. d \in expected' \/ (d \in wrongOnce' /\ readChainVerifiedUntil[d] <= switchedAt'[d] + chainCheckTtlMs)
    <3>1. CASE d = e
      BY <1>2, <1>3, <2>1, <3>1 DEF EndpointOK
    <3>2. CASE d # e
      BY <1>2, <1>3, <2>1, <3>2 DEF EndpointOK
    <3> QED BY <3>1, <3>2
  <2> QED BY <1>2, <2>1, <2>2, <2>3 DEF EndpointOK
<1> QED BY <1>1, <1>2, <1>3, <1>6, <1>7, <1>8 DEF RpcInv, RpcTypes

\* Time passes.
LEMMA RpcTick ==
    ASSUME RpcInv, Tick
    PROVE  RpcInv'
<1>1. /\ RpcTypes /\ now \in 1 .. MaxTime /\ switchedAt \in [Endpoints -> Nat]
      /\ readChainVerifiedUntil \in [Endpoints -> 0 .. MaxTime + chainCheckTtlMs]
      /\ quarantineUntil \in [Endpoints -> 0 .. Infinity]
      /\ \A d \in Endpoints : EndpointOK(d)
  BY DEF RpcInv, RpcTypes
<1>2. /\ UNCHANGED <<expected, switchedAt, wrongOnce, quarantineUntil,
                     readChainVerifiedUntil, bcast, sent, read, readFrom>>
      /\ now' = now + 1 /\ now' \in 1 .. MaxTime
  BY <1>1, RpcNumbers DEF Tick
<1>3. ASSUME NEW b \in Broadcasts PROVE BroadcastOK(b)'
  <2>1. BroadcastOK(b) /\ bcast[b] \in Calls
    BY DEF RpcInv, RpcTypes
  <2>2. bcast[b].probed \in Nat
    BY <2>1 DEF Calls
  <2> QED BY <1>1, <1>2, <2>1, <2>2 DEF BroadcastOK, LeftSince
<1>4. ASSUME NEW r \in Reads PROVE ReadOK(r)'
  <2>1. ReadOK(r) /\ read[r] \in Readings
    BY DEF RpcInv, RpcTypes
  <2>2. read[r].asked \in Nat
    BY <2>1 DEF Readings
  <2> QED BY <1>1, <1>2, <2>1, <2>2 DEF ReadOK
<1>5. ASSUME NEW d \in Endpoints PROVE EndpointOK(d)'
  <2>1. /\ EndpointOK(d) /\ now \in Nat /\ switchedAt[d] \in Nat
        /\ readChainVerifiedUntil[d] \in Nat /\ quarantineUntil[d] \in Nat
    BY <1>1, RpcNumbers
  <2> QED BY <1>2, <2>1, RpcNumbers DEF EndpointOK
<1> QED BY <1>1, <1>2, <1>3, <1>4, <1>5 DEF RpcInv, RpcTypes

\* The invariant holds at first,
LEMMA RpcFirst == Init => RpcInv
<1> SUFFICES ASSUME Init PROVE RpcInv
  OBVIOUS
<1>1. Len(urls) \in Nat \ {0} /\ Endpoints = 1 .. Len(urls)
  BY UrlsOnce
<1>2. 1 \in Endpoints /\ 1 \in 1 .. Len(urls) + 1 /\ 0 \in 0 .. Infinity
      /\ 0 \in 0 .. MaxTime + chainCheckTtlMs /\ 1 \in 1 .. MaxTime
  BY <1>1, RpcNumbers
<1>3. PICK c : c = [pc |-> "new", at |-> 1, probed |-> 0]
  OBVIOUS
<1>4. c \in Calls /\ c.pc = "new" /\ c.at = 1
  BY <1>2, <1>3 DEF Calls, BroadcastPcs
<1>5. <<>> \in Seq(Deliveries) /\ Len(<<>>) = 0 /\ DOMAIN <<>> = {}
  OBVIOUS
<1>6. NewRead \in Readings /\ NewRead.pc = "new" /\ NewRead.at = 1 /\ NotRead \in Answers
  BY <1>2 DEF NewRead, NotRead, Readings, Answers, ReadPcs
<1>7. /\ bcast = [b \in Broadcasts |-> c] /\ sent = [b \in Broadcasts |-> <<>>]
      /\ read = [r \in Reads |-> NewRead] /\ readFrom = [r \in Reads |-> NotRead]
  BY <1>3 DEF Init
<1>8. RpcTypes
  BY <1>2, <1>4, <1>5, <1>6, <1>7 DEF RpcTypes, Init
<1>9. \A b \in Broadcasts : BroadcastOK(b)
  BY <1>2, <1>4, <1>5, <1>7 DEF BroadcastOK
<1>10. \A r \in Reads : ReadOK(r)
  BY <1>2, <1>6, <1>7 DEF ReadOK
<1>11. \A e \in Endpoints : EndpointOK(e)
  BY RpcNumbers DEF EndpointOK, Init
<1> QED BY <1>8, <1>9, <1>10, <1>11 DEF RpcInv

\* and every step keeps it,
LEMMA RpcStep == RpcInv /\ [Next]_vars => RpcInv'
<1> SUFFICES ASSUME RpcInv, [Next]_vars PROVE RpcInv'
  OBVIOUS
<1>1. CASE UNCHANGED vars
  BY <1>1 DEF vars, RpcInv, RpcTypes, BroadcastOK, ReadOK, EndpointOK, LeftSince
<1>2. ASSUME NEW b \in Broadcasts, BroadcastStep(b) PROVE RpcInv'
  BY <1>2, RpcSelect, RpcProbed, RpcSend DEF BroadcastStep
<1>3. ASSUME NEW r \in Reads, ReadStep(r) PROVE RpcInv'
  BY <1>3, RpcGuard, RpcChecked, RpcRequest DEF ReadStep
<1> QED BY <1>1, <1>2, <1>3, RpcSwitch, RpcAgain, RpcTick DEF Next

\* and what the run checks follows from it.
LEMMA RpcInvSafe == RpcInv => RpcSafe
<1> SUFFICES ASSUME RpcInv PROVE RpcSafe
  OBVIOUS
<1>1. RpcTypeOK
  <2>1. /\ \A b \in Broadcasts : bcast[b].at \in 1 .. Len(urls) + 1
        /\ \A r \in Reads : read[r].at \in 1 .. Len(urls) + 1
    BY DEF RpcInv, RpcTypes, Calls, Readings
  <2> QED BY <2>1, UrlsOnce DEF RpcTypeOK, RpcInv, RpcTypes
<1>2. OneDelivery /\ AnswerIsHonest /\ NotToAnotherChain
  <2>1. \A b \in Broadcasts : BroadcastOK(b)
    BY DEF RpcInv
  <2> QED BY <2>1 DEF BroadcastOK, OneDelivery, AnswerIsHonest, NotToAnotherChain
<1>3. ReadsAreRecentlyChecked
  BY DEF RpcInv, ReadOK, ReadsAreRecentlyChecked
<1>4. FaultsNeverBan
  BY DEF RpcInv, EndpointOK, FaultsNeverBan
<1> QED BY <1>1, <1>2, <1>3, <1>4 DEF RpcSafe

-----------------------------------------------------------------------------
(* The gate of the sponsored quota: its invariant                          *)

\* The gate counts as the theorems about finite sets do.
LEMMA GateCounts == \A S : Gate!Cardinality(S) = Cardinality(S)
  BY DEF Gate!Cardinality, Cardinality

PostStates(n) == [pc : Gate!Pcs, who : gateAt.Applicants, id : 0 .. n, signer : gateAt.Applicants,
                  at : 0 .. gateAt.MaxTime, snapshot : SUBSET Gate!Entry]

GateTypes ==
    /\ gateNow \in gateAt.DAY .. gateAt.MaxTime /\ issued \in 0 .. gateAt.MaxChallenges
    /\ challenges \in [gateAt.Applicants -> [id : 0 .. issued, expires : 0 .. gateAt.MaxTime + gateAt.ttl]]
    /\ post \in [gateAt.Posts -> PostStates(issued)]
    /\ \A p \in gateAt.Posts : post[p].pc # "idle" => post[p].id # 0
    /\ inFlight \in BOOLEAN /\ healthy \in BOOLEAN
    /\ gateMem \in SUBSET Gate!Entry /\ gateDisk \in SUBSET Gate!Entry /\ sponsored \in SUBSET gateAt.Applicants
    /\ accepted \in SUBSET [id : 1 .. gateAt.MaxChallenges, post : gateAt.Posts]
    /\ attempts \in SUBSET [subject : gateAt.Applicants, at : 0 .. gateAt.MaxTime, id : 1 .. gateAt.MaxChallenges]
    /\ gateFaults \in 0 .. gateAt.MaxFaults

\* The journal and what was sponsored are finite: Cardinality counts them.
GateFinite ==
    /\ IsFiniteSet(gateMem) /\ IsFiniteSet(gateDisk) /\ IsFiniteSet(attempts)
    /\ \A p \in gateAt.Posts : IsFiniteSet(post[p].snapshot)

-----------------------------------------------------------------------------
(* Challenges.  A challenge is in one place: pending for its applicant,    *)
(* spent by the POST that carries it, or accepted.                         *)

ChallengeInv ==
    /\ \A a, b \in gateAt.Applicants : challenges[a].id = challenges[b].id /\ challenges[a].id # 0 => a = b
    /\ \A p \in gateAt.Posts : post[p].pc = "recover" =>
         /\ \A a \in gateAt.Applicants : challenges[a].id # post[p].id
         /\ \A q \in gateAt.Posts : post[q].pc = "recover" /\ post[q].id = post[p].id => q = p
    /\ \A x \in accepted :
         /\ x.id <= issued
         /\ \A a \in gateAt.Applicants : challenges[a].id # x.id
         /\ \A p \in gateAt.Posts : post[p].pc = "recover" => post[p].id # x.id
    /\ Gate!ChallengeAcceptedOnce
    /\ Gate!OnlyOwnersSponsored

-----------------------------------------------------------------------------
(* Quota.  What was sponsored during the last day is in memory, in the     *)
(* file and in what is about to replace the file; who waits to be          *)
(* sponsored was counted while there was room, and is the only one.        *)

EntryOf(e)    == [subject |-> e.subject, at |-> e.at]
Since(A, t)   == {e \in A : e.at > t}
Remembers(E)  == \A e \in attempts : e.at > gateNow - gateAt.DAY => EntryOf(e) \in E

Provisioning(p) == post[p].pc \in {"write", "rename", "provision"}
Counted(p)      == post[p].pc \in {"write", "rename"}

\* Post p was counted before anything sponsored after the room it found.
RoomFor(p) ==
    /\ post[p].at <= gateNow /\ post[p].at >= gateAt.DAY
    /\ [subject |-> post[p].who, at |-> post[p].at] \in gateMem
    /\ post[p].pc = "rename" =>
         /\ Remembers(post[p].snapshot)
         /\ [subject |-> post[p].who, at |-> post[p].at] \in post[p].snapshot
    /\ Cardinality(Since(attempts, post[p].at - gateAt.DAY)) < gateAt.dailyCap
    /\ \A e \in attempts :
         /\ e.at <= post[p].at
         /\ e.subject = post[p].who => post[p].at >= e.at + gateAt.subjectWindow

Serial ==
    /\ \A p \in gateAt.Posts : Provisioning(p) => inFlight
    /\ \A p, q \in gateAt.Posts : Provisioning(p) /\ Provisioning(q) => p = q

QuotaInv ==
    /\ Serial
    /\ Remembers(gateMem) /\ Remembers(gateDisk)
    /\ \A p \in gateAt.Posts : Counted(p) => RoomFor(p)
    /\ \A e \in attempts : e.at <= gateNow
    /\ Gate!CapOutlivesCrashes
    /\ Gate!WindowOutlivesCrashes

-----------------------------------------------------------------------------
(* The parts hold at first.                                                *)

LEMMA ApplicantChosen ==
    ASSUME Gate!GateBounds
    PROVE  Gate!Idle \in PostStates(0) /\ \A n \in Nat : Gate!Idle \in PostStates(n)
  <1>1. (CHOOSE a \in gateAt.Applicants : TRUE) \in gateAt.Applicants
    BY DEF Gate!GateBounds
  <1> QED BY <1>1 DEF Gate!GateBounds, Gate!Idle, PostStates, Gate!Pcs

LEMMA GateInit ==
    ASSUME Gate!GateBounds, Gate!Init
    PROVE  GateTypes /\ GateFinite /\ ChallengeInv /\ QuotaInv
  <1>1. GateTypes
    <2>1. Gate!Idle \in PostStates(0) /\ Gate!Idle.pc = "idle"
      BY ApplicantChosen DEF Gate!Idle
    <2>2. post \in [gateAt.Posts -> PostStates(issued)] /\ \A p \in gateAt.Posts : post[p].pc = "idle"
      BY <2>1 DEF Gate!Init
    <2>3. challenges \in [gateAt.Applicants -> [id : 0 .. issued, expires : 0 .. gateAt.MaxTime + gateAt.ttl]]
      BY DEF Gate!GateBounds, Gate!Init, Gate!NoChallenge
    <2>4. gateNow \in gateAt.DAY .. gateAt.MaxTime /\ issued \in 0 .. gateAt.MaxChallenges /\ gateFaults \in 0 .. gateAt.MaxFaults
      BY DEF Gate!GateBounds, Gate!Init
    <2>5. inFlight \in BOOLEAN /\ healthy \in BOOLEAN
      BY DEF Gate!Init
    <2>6. gateMem = {} /\ gateDisk = {} /\ sponsored = {} /\ accepted = {} /\ attempts = {}
      BY DEF Gate!Init
    <2> QED BY <2>2, <2>3, <2>4, <2>5, <2>6 DEF GateTypes
  <1>2. GateFinite
    BY FS_EmptySet DEF Gate!Init, GateFinite, Gate!Idle
  <1>3. ChallengeInv
    BY DEF Gate!Init, ChallengeInv, Gate!NoChallenge, Gate!Idle, Gate!ChallengeAcceptedOnce, Gate!OnlyOwnersSponsored
  <1>4. Gate!CapOutlivesCrashes
    BY GateCounts, FS_EmptySet DEF Gate!Init, Gate!CapOutlivesCrashes, Gate!GateBounds
  <1>5. QuotaInv
    BY <1>4 DEF Gate!Init, QuotaInv, Serial, Remembers, Provisioning, Counted, Gate!Idle, Gate!WindowOutlivesCrashes
  <1> QED BY <1>1, <1>2, <1>3, <1>5

-----------------------------------------------------------------------------
(* Types are kept.                                                         *)

\* A POST that moves: its new state is well formed, and so are the others.
LEMMA PostMoves ==
    ASSUME Gate!GateBounds, GateTypes, NEW p \in gateAt.Posts, NEW me \in PostStates(issued),
           me.pc # "idle" => me.id # 0, post' = [post EXCEPT ![p] = me]
    PROVE  /\ post' \in [gateAt.Posts -> PostStates(issued)]
           /\ \A q \in gateAt.Posts : post'[q].pc # "idle" => post'[q].id # 0
           /\ post'[p] = me /\ \A q \in gateAt.Posts : q # p => post'[q] = post[q]
  BY DEF GateTypes

\* The states the steps of a POST lead to.
Goes(p, pc) == post' = [post EXCEPT ![p].pc = pc]

LEMMA GoesState ==
    ASSUME Gate!GateBounds, GateTypes, NEW p \in gateAt.Posts, NEW pc \in Gate!Pcs, post[p].pc # "idle", Goes(p, pc)
    PROVE  /\ post' \in [gateAt.Posts -> PostStates(issued)]
           /\ \A q \in gateAt.Posts : post'[q].pc # "idle" => post'[q].id # 0
           /\ \A q \in gateAt.Posts : q # p => post'[q] = post[q]
           /\ post'[p].pc = pc /\ post'[p].who = post[p].who /\ post'[p].id = post[p].id
           /\ post'[p].signer = post[p].signer /\ post'[p].at = post[p].at
           /\ post'[p].snapshot = post[p].snapshot
  BY DEF GateTypes, PostStates, Goes

LEMMA CountedState ==
    ASSUME Gate!GateBounds, GateTypes, NEW p \in gateAt.Posts, post[p].pc # "idle",
           post' = [post EXCEPT ![p].pc = "write", ![p].at = gateNow]
    PROVE  /\ post' \in [gateAt.Posts -> PostStates(issued)]
           /\ \A q \in gateAt.Posts : post'[q].pc # "idle" => post'[q].id # 0
           /\ \A q \in gateAt.Posts : q # p => post'[q] = post[q]
           /\ post'[p].pc = "write" /\ post'[p].who = post[p].who /\ post'[p].id = post[p].id
           /\ post'[p].signer = post[p].signer /\ post'[p].at = gateNow
           /\ post'[p].snapshot = post[p].snapshot
  <1>1. "write" \in Gate!Pcs /\ gateNow \in 0 .. gateAt.MaxTime
    BY DEF Gate!Pcs, GateTypes, Gate!GateBounds
  <1> QED BY <1>1 DEF GateTypes, PostStates

LEMMA WrittenState ==
    ASSUME Gate!GateBounds, GateTypes, NEW p \in gateAt.Posts, post[p].pc # "idle",
           post' = [post EXCEPT ![p].pc = "rename", ![p].snapshot = gateMem]
    PROVE  /\ post' \in [gateAt.Posts -> PostStates(issued)]
           /\ \A q \in gateAt.Posts : post'[q].pc # "idle" => post'[q].id # 0
           /\ \A q \in gateAt.Posts : q # p => post'[q] = post[q]
           /\ post'[p].pc = "rename" /\ post'[p].who = post[p].who /\ post'[p].id = post[p].id
           /\ post'[p].signer = post[p].signer /\ post'[p].at = post[p].at
           /\ post'[p].snapshot = gateMem
  <1>1. "rename" \in Gate!Pcs /\ gateMem \in SUBSET Gate!Entry
    BY DEF Gate!Pcs, GateTypes
  <1> QED BY <1>1 DEF GateTypes, PostStates

LEMMA EndedState ==
    ASSUME Gate!GateBounds, GateTypes, NEW p \in gateAt.Posts, post' = [post EXCEPT ![p] = Gate!Idle]
    PROVE  /\ post' \in [gateAt.Posts -> PostStates(issued)]
           /\ \A q \in gateAt.Posts : post'[q].pc # "idle" => post'[q].id # 0
           /\ \A q \in gateAt.Posts : q # p => post'[q] = post[q]
           /\ post'[p] = Gate!Idle
  <1>1. issued \in Nat
    BY DEF GateTypes, Gate!GateBounds
  <1>2. Gate!Idle \in PostStates(issued) /\ Gate!Idle.pc = "idle"
    BY <1>1, ApplicantChosen DEF Gate!Idle
  <1> QED BY <1>2, PostMoves

LEMMA PurgedType ==
    ASSUME Gate!GateBounds, GateTypes
    PROVE  /\ Gate!Purged \in [gateAt.Applicants -> [id : 0 .. issued, expires : 0 .. gateAt.MaxTime + gateAt.ttl]]
           /\ \A a \in gateAt.Applicants : Gate!Purged[a].id \in {0, challenges[a].id}
  BY DEF Gate!Purged, Gate!NoChallenge, GateTypes, Gate!GateBounds

LEMMA IssueState ==
    ASSUME Gate!GateBounds, GateTypes, NEW a \in gateAt.Applicants, Gate!Issue(a)
    PROVE  /\ issued' \in 0 .. gateAt.MaxChallenges /\ issued <= issued'
           /\ challenges' \in [gateAt.Applicants -> [id : 0 .. issued', expires : 0 .. gateAt.MaxTime + gateAt.ttl]]
           /\ \A b \in gateAt.Applicants : \/ challenges'[b].id \in {0, challenges[b].id}
                                           \/ b = a /\ challenges'[b].id = issued + 1
  <1>1. issued \in 0 .. gateAt.MaxChallenges /\ gateAt.MaxChallenges \in Nat /\ gateNow \in Nat /\ gateAt.ttl \in Nat
        /\ gateNow <= gateAt.MaxTime /\ gateAt.MaxTime \in Nat
    BY DEF GateTypes, Gate!GateBounds
  <1>2. CASE challenges' = Gate!Purged /\ UNCHANGED issued
    BY <1>1, <1>2, PurgedType
  <1>3. CASE /\ issued < gateAt.MaxChallenges /\ issued' = issued + 1
             /\ challenges' = [Gate!Purged EXCEPT ![a] = [id |-> issued + 1, expires |-> gateNow + gateAt.ttl]]
    BY <1>1, <1>3, PurgedType
  <1> QED BY <1>2, <1>3 DEF Gate!Issue

LEMMA VerifyState ==
    ASSUME Gate!GateBounds, GateTypes, NEW p \in gateAt.Posts, NEW a \in gateAt.Applicants, NEW s \in gateAt.Applicants,
           NEW id \in 1 .. issued, Gate!Verify(p, a, id, s)
    PROVE  /\ post' \in [gateAt.Posts -> PostStates(issued)]
           /\ \A q \in gateAt.Posts : post'[q].pc # "idle" => post'[q].id # 0
           /\ \A q \in gateAt.Posts : q # p => post'[q] = post[q]
           /\ post'[p].pc = "recover" /\ post'[p].id = id /\ post'[p].who = a
           /\ post'[p].signer = s /\ post'[p].snapshot = {}
           /\ challenges' \in [gateAt.Applicants -> [id : 0 .. issued, expires : 0 .. gateAt.MaxTime + gateAt.ttl]]
           /\ challenges[a].id = id /\ challenges'[a].id = 0
           /\ \A b \in gateAt.Applicants : challenges'[b].id \in {0, challenges[b].id}
  <1> DEFINE me == [Gate!Idle EXCEPT !.pc = "recover", !.who = a, !.id = id, !.signer = s]
  <1>1. issued \in Nat /\ gateAt.MaxTime \in Nat
    BY DEF GateTypes, Gate!GateBounds
  <1>2. /\ me \in PostStates(issued) /\ me.pc = "recover" /\ me.id = id /\ me.who = a
        /\ me.signer = s /\ me.snapshot = {}
    <2>1. Gate!Idle \in PostStates(issued) /\ Gate!Idle.snapshot = {}
      BY <1>1, ApplicantChosen DEF Gate!Idle
    <2> DEFINE me1 == [Gate!Idle EXCEPT !.pc = "recover"]
               me2 == [me1 EXCEPT !.who = a]
               me3 == [me2 EXCEPT !.id = id]
               me4 == [me3 EXCEPT !.signer = s]
    <2>2. me1 \in PostStates(issued) /\ me1.pc = "recover" /\ me1.snapshot = {}
      BY <2>1 DEF PostStates, Gate!Pcs
    <2>3. /\ me2 \in PostStates(issued) /\ me2.pc = "recover" /\ me2.snapshot = {}
          /\ me2.who = a
      BY <2>2 DEF PostStates
    <2>4. id \in 0 .. issued
      BY <1>1
    <2>5. /\ me3 \in PostStates(issued) /\ me3.pc = "recover" /\ me3.snapshot = {}
          /\ me3.who = a /\ me3.id = id
      BY <2>3, <2>4 DEF PostStates
    <2>6. /\ me4 \in PostStates(issued) /\ me4.pc = "recover" /\ me4.snapshot = {}
          /\ me4.who = a /\ me4.id = id /\ me4.signer = s
      BY <2>5 DEF PostStates
    <2>7. me = me4
      BY <2>1, Zenon DEF PostStates
    <2> QED BY <2>6, <2>7
  <1>3. post' = [post EXCEPT ![p] = me]
    BY DEF Gate!Verify
  <1> HIDE DEF me
  <1>4. challenges[a].id = id /\ challenges' = [Gate!Purged EXCEPT ![a] = Gate!NoChallenge]
    BY DEF Gate!Verify, Gate!Spend
  <1>5. /\ challenges' \in [gateAt.Applicants -> [id : 0 .. issued, expires : 0 .. gateAt.MaxTime + gateAt.ttl]]
        /\ challenges'[a].id = 0 /\ \A b \in gateAt.Applicants : challenges'[b].id \in {0, challenges[b].id}
    BY <1>1, <1>4, PurgedType DEF Gate!NoChallenge, Gate!GateBounds
  <1>6. /\ post' \in [gateAt.Posts -> PostStates(issued)]
        /\ \A q \in gateAt.Posts : post'[q].pc # "idle" => post'[q].id # 0
        /\ post'[p] = me /\ \A q \in gateAt.Posts : q # p => post'[q] = post[q]
    <2>1. me.pc # "idle" => me.id # 0
      BY <1>1, <1>2
    <2> QED BY <1>2, <1>3, <2>1, PostMoves
  <1> QED BY <1>2, <1>4, <1>5, <1>6

LEMMA FaultType == ASSUME Gate!GateBounds, GateTypes, Gate!Fault PROVE gateFaults' \in 0 .. gateAt.MaxFaults
  BY DEF Gate!GateBounds, GateTypes, Gate!Fault

LEMMA TypesNext ==
    ASSUME Gate!GateBounds, GateTypes, [Gate!Next]_(Gate!vars)
    PROVE  GateTypes'
  <1>1. ASSUME NEW a \in gateAt.Applicants, Gate!Issue(a) PROVE GateTypes'
    <2>1. PostStates(issued) \subseteq PostStates(issued')
      BY <1>1, IssueState DEF PostStates, GateTypes, Gate!GateBounds
    <2> QED BY <1>1, <2>1, IssueState DEF GateTypes, Gate!Issue, Gate!quota, Gate!history
  <1>2. ASSUME NEW a \in gateAt.Applicants, Gate!Retire(a) PROVE GateTypes'
    BY <1>2 DEF GateTypes, Gate!Retire, Gate!quota, Gate!history
  <1>3. ASSUME NEW a \in gateAt.Applicants, NEW id, Gate!Refuse(a, id) PROVE GateTypes'
    BY <1>3, PurgedType DEF GateTypes, Gate!Refuse, Gate!quota, Gate!history
  <1>4. ASSUME NEW p \in gateAt.Posts, NEW a \in gateAt.Applicants, NEW s \in gateAt.Applicants,
               NEW id \in 1 .. issued, Gate!Verify(p, a, id, s)
        PROVE  GateTypes'
    <2>1. /\ post' \in [gateAt.Posts -> PostStates(issued)]
          /\ \A q \in gateAt.Posts : post'[q].pc # "idle" => post'[q].id # 0
          /\ challenges' \in [gateAt.Applicants -> [id : 0 .. issued, expires : 0 .. gateAt.MaxTime + gateAt.ttl]]
      <3>1. /\ \A q \in gateAt.Posts : q # p => post'[q] = post[q]
            /\ post'[p].pc = "recover" /\ post'[p].id = id /\ id # 0
        BY <1>4, VerifyState DEF Gate!GateBounds, GateTypes
      <3>2. \A q \in gateAt.Posts : post'[q].pc # "idle" => post'[q].id # 0
        BY <3>1 DEF GateTypes
      <3> QED BY <1>4, <3>2, VerifyState
    <2>2. UNCHANGED <<gateNow, issued, inFlight, gateMem, gateDisk, healthy, sponsored, accepted, attempts, gateFaults>>
      BY <1>4 DEF Gate!Verify, Gate!quota, Gate!history
    <2> QED BY <2>1, <2>2 DEF GateTypes
  <1>5. ASSUME NEW p \in gateAt.Posts, Gate!Recovered(p) PROVE GateTypes'
    <2>1. post[p].pc = "recover" /\ post[p].id \in 1 .. gateAt.MaxChallenges
      BY <1>5 DEF Gate!Recovered, GateTypes, PostStates, Gate!GateBounds
    <2>2. CASE Goes(p, "existing") /\ accepted' = accepted \cup {[id |-> post[p].id, post |-> p]}
      BY <1>5, <2>1, <2>2, GoesState DEF GateTypes, Gate!Recovered, Gate!quota, Gate!history, Gate!Pcs
    <2>3. CASE post' = [post EXCEPT ![p] = Gate!Idle] /\ UNCHANGED accepted
      BY <1>5, <2>3, EndedState DEF GateTypes, Gate!Recovered, Gate!quota, Gate!history
    <2> QED BY <1>5, <2>2, <2>3 DEF Gate!Recovered, Goes
  <1>6. ASSUME NEW p \in gateAt.Posts, Gate!Existing(p) PROVE GateTypes'
    <2>1. post[p].pc = "existing" /\ UNCHANGED <<gateNow, challenges, issued, gateDisk, healthy, sponsored, Gate!history>>
      BY <1>6 DEF Gate!Existing
    <2>2. ASSUME inFlight' = TRUE, Gate!Consumed(post[p].who), UNCHANGED gateFaults,
                 post' = [post EXCEPT ![p].pc = "write", ![p].at = gateNow]
          PROVE  GateTypes'
      <3>1. [subject |-> post[p].who, at |-> gateNow] \in Gate!Entry
        BY DEF GateTypes, Gate!GateBounds, PostStates, Gate!Entry
      <3>2. gateMem' \in SUBSET Gate!Entry
        BY <2>2, <3>1 DEF Gate!Consumed, Gate!activeEntries, GateTypes
      <3> QED BY <2>1, <2>2, <3>2, CountedState DEF GateTypes, Gate!history
    <2>3. ASSUME post' = [post EXCEPT ![p] = Gate!Idle], UNCHANGED <<inFlight, gateMem>>,
                 Gate!Fault \/ UNCHANGED gateFaults
          PROVE  GateTypes'
      BY <2>1, <2>3, EndedState, FaultType DEF GateTypes, Gate!history
    <2> QED BY <1>6, <2>2, <2>3 DEF Gate!Existing
  <1>7. ASSUME NEW p \in gateAt.Posts, Gate!Write(p) PROVE GateTypes'
    <2>1. post[p].pc = "write" /\ UNCHANGED <<gateNow, challenges, issued, gateMem, gateDisk, sponsored, Gate!history>>
      BY <1>7 DEF Gate!Write
    <2>2. ASSUME post' = [post EXCEPT ![p].pc = "rename", ![p].snapshot = gateMem],
                 UNCHANGED <<inFlight, healthy, gateFaults>>
          PROVE  GateTypes'
      BY <2>1, <2>2, WrittenState DEF GateTypes, Gate!history
    <2>3. ASSUME Gate!Fault, healthy' = FALSE, inFlight' = FALSE, post' = [post EXCEPT ![p] = Gate!Idle]
          PROVE  GateTypes'
      BY <2>1, <2>3, EndedState, FaultType DEF GateTypes, Gate!history
    <2> QED BY <1>7, <2>2, <2>3 DEF Gate!Write
  <1>8. ASSUME NEW p \in gateAt.Posts, Gate!Rename(p) PROVE GateTypes'
    <2>1. post[p].pc = "rename" /\ UNCHANGED <<gateNow, challenges, issued, gateMem, sponsored, accepted>>
      BY <1>8 DEF Gate!Rename
    <2>2. post[p] \in PostStates(issued) /\ post[p].id # 0
      BY <2>1 DEF GateTypes
    <2>3. post[p].snapshot \in SUBSET Gate!Entry
      BY <2>2 DEF PostStates
    <2>4. [subject |-> post[p].who, at |-> post[p].at, id |-> post[p].id]
            \in [subject : gateAt.Applicants, at : 0 .. gateAt.MaxTime, id : 1 .. gateAt.MaxChallenges]
      BY <2>2 DEF PostStates, GateTypes, Gate!GateBounds
    <2>5. ASSUME Gate!Renamed(p), Goes(p, "provision"), UNCHANGED <<inFlight, healthy, gateFaults>>,
                 attempts' = attempts \cup
                   {[subject |-> post[p].who, at |-> post[p].at, id |-> post[p].id]}
          PROVE  GateTypes'
      BY <2>1, <2>3, <2>4, <2>5, GoesState DEF GateTypes, Gate!Renamed, Gate!Pcs
    <2>6. ASSUME Gate!Fault, healthy' = FALSE, gateDisk' \in {gateDisk, post[p].snapshot}, inFlight' = FALSE,
                 post' = [post EXCEPT ![p] = Gate!Idle], UNCHANGED attempts
          PROVE  GateTypes'
      BY <2>1, <2>3, <2>6, EndedState, FaultType DEF GateTypes
    <2> QED BY <1>8, <2>5, <2>6 DEF Gate!Rename, Goes
  <1>9. ASSUME NEW p \in gateAt.Posts, Gate!Provision(p) PROVE GateTypes'
    <2>1. post[p].who \in gateAt.Applicants /\ sponsored' \subseteq sponsored \cup {post[p].who}
          /\ (Gate!Fault \/ UNCHANGED gateFaults)
      BY <1>9 DEF Gate!Provision, GateTypes, PostStates
    <2> QED BY <1>9, <2>1, EndedState, FaultType DEF GateTypes, Gate!Provision, Gate!GateReopened, Gate!quota, Gate!history
  <1>10. CASE Gate!Crash
    <2>1. \A p \in gateAt.Posts : Gate!Idle \in PostStates(issued) /\ Gate!Idle.pc = "idle"
      BY ApplicantChosen DEF GateTypes, Gate!GateBounds, Gate!Idle
    <2>2. post' \in [gateAt.Posts -> PostStates(issued)] /\ \A p \in gateAt.Posts : post'[p].pc = "idle"
      BY <1>10, <2>1 DEF Gate!Crash
    <2>3. challenges' \in [gateAt.Applicants -> [id : 0 .. issued, expires : 0 .. gateAt.MaxTime + gateAt.ttl]]
      BY <1>10 DEF Gate!Crash, Gate!NoChallenge, GateTypes, Gate!GateBounds
    <2>4. gateMem' \in SUBSET Gate!Entry /\ healthy' = TRUE
      BY <1>10 DEF Gate!Crash, Gate!Loaded, GateTypes
    <2> QED BY <1>10, <2>2, <2>3, <2>4, FaultType DEF GateTypes, Gate!Crash, Gate!history
  <1>11. CASE Gate!Tick
    BY <1>11 DEF GateTypes, Gate!Tick, Gate!quota, Gate!history, Gate!GateBounds
  <1>12. CASE UNCHANGED Gate!vars
    BY <1>12 DEF GateTypes, Gate!vars
  <1> QED BY <1>1, <1>2, <1>3, <1>4, <1>5, <1>6, <1>7, <1>8, <1>9, <1>10, <1>11, <1>12
      DEF Gate!Next, Gate!PostStep

LEMMA FiniteNext ==
    ASSUME Gate!GateBounds, GateTypes, GateFinite, [Gate!Next]_(Gate!vars)
    PROVE  GateFinite'
  <1>1. ASSUME NEW p \in gateAt.Posts, NEW a \in gateAt.Applicants, NEW s \in gateAt.Applicants,
               NEW id \in 1 .. issued, Gate!Verify(p, a, id, s)
        PROVE  GateFinite'
    <2>1. \A q \in gateAt.Posts : post'[q].snapshot \in {{}, post[q].snapshot}
      BY <1>1, VerifyState
    <2> QED BY <1>1, <2>1, FS_EmptySet DEF GateFinite, Gate!Verify, Gate!quota, Gate!history
  <1>2. ASSUME NEW p \in gateAt.Posts, Gate!Recovered(p) \/ Gate!Existing(p) \/ Gate!Provision(p)
        PROVE  GateFinite'
    <2>1. \A q \in gateAt.Posts : post'[q].snapshot \in {{}, post[q].snapshot}
      <3>1. post[p].pc # "idle"
        BY <1>2 DEF Gate!Recovered, Gate!Existing, Gate!Provision
      <3>2. \/ Goes(p, "existing") \/ post' = [post EXCEPT ![p] = Gate!Idle]
            \/ post' = [post EXCEPT ![p].pc = "write", ![p].at = gateNow]
        BY <1>2 DEF Gate!Recovered, Gate!Existing, Gate!Provision, Goes
      <3>3. Gate!Idle.snapshot = {} /\ "existing" \in Gate!Pcs
        BY DEF Gate!Idle, Gate!Pcs
      <3> QED BY <3>1, <3>2, <3>3, GoesState, EndedState, CountedState
    <2>2. gateMem' = gateMem \/ \E e : gateMem' = Gate!activeEntries \cup {e}
      BY <1>2 DEF Gate!Recovered, Gate!Existing, Gate!Provision, Gate!Consumed, Gate!quota
    <2>3. IsFiniteSet(gateMem')
      <3>1. IsFiniteSet(Gate!activeEntries)
        BY FS_Subset DEF GateFinite, Gate!activeEntries
      <3> QED BY <2>2, <3>1, FS_AddElement DEF GateFinite
    <2> QED BY <1>2, <2>1, <2>3, FS_EmptySet
        DEF GateFinite, Gate!Recovered, Gate!Existing, Gate!Provision, Gate!quota, Gate!history
  <1>3. ASSUME NEW p \in gateAt.Posts, Gate!Write(p) PROVE GateFinite'
    <2>1. post[p].pc # "idle"
      BY <1>3 DEF Gate!Write
    <2>2. \A q \in gateAt.Posts : post'[q].snapshot \in {{}, post[q].snapshot, gateMem}
      <3>1. \/ post' = [post EXCEPT ![p] = Gate!Idle]
            \/ post' = [post EXCEPT ![p].pc = "rename", ![p].snapshot = gateMem]
        BY <1>3 DEF Gate!Write
      <3>2. Gate!Idle.snapshot = {}
        BY DEF Gate!Idle
      <3> QED BY <2>1, <3>1, <3>2, EndedState, WrittenState
    <2> QED BY <1>3, <2>2, FS_EmptySet DEF GateFinite, Gate!Write, Gate!history
  <1>4. ASSUME NEW p \in gateAt.Posts, Gate!Rename(p) PROVE GateFinite'
    <2>1. post[p].pc # "idle"
      BY <1>4 DEF Gate!Rename
    <2>2. \A q \in gateAt.Posts : post'[q].snapshot \in {{}, post[q].snapshot}
      <3>1. Goes(p, "provision") \/ post' = [post EXCEPT ![p] = Gate!Idle]
        BY <1>4 DEF Gate!Rename, Goes
      <3>2. Gate!Idle.snapshot = {} /\ "provision" \in Gate!Pcs
        BY DEF Gate!Idle, Gate!Pcs
      <3> QED BY <2>1, <3>1, <3>2, EndedState, GoesState
    <2>3. /\ gateDisk' \in {gateDisk, post[p].snapshot}
          /\ attempts' = attempts \/ \E e : attempts' = attempts \cup {e}
      BY <1>4 DEF Gate!Rename, Gate!Renamed
    <2>4. IsFiniteSet(attempts')
      BY <2>3, FS_AddElement DEF GateFinite
    <2> QED BY <1>4, <2>2, <2>3, <2>4, FS_EmptySet DEF GateFinite, Gate!Rename
  <1>5. CASE Gate!Crash
    <2>1. \A q \in gateAt.Posts : post'[q].snapshot = {}
      BY <1>5 DEF Gate!Crash, Gate!Idle
    <2>2. IsFiniteSet(gateMem')
      BY <1>5, FS_Subset DEF Gate!Crash, Gate!Loaded, GateFinite
    <2> QED BY <1>5, <2>1, <2>2, FS_EmptySet DEF GateFinite, Gate!Crash, Gate!history
  <1>6. CASE UNCHANGED <<post, gateMem, gateDisk, attempts>>
    BY <1>6 DEF GateFinite
  <1>7. \/ UNCHANGED <<post, gateMem, gateDisk, attempts>> \/ Gate!Crash
        \/ \E p \in gateAt.Posts, a \in gateAt.Applicants, s \in gateAt.Applicants, id \in 1 .. issued : Gate!Verify(p, a, id, s)
        \/ \E p \in gateAt.Posts : Gate!PostStep(p)
    BY DEF Gate!Next, Gate!vars, Gate!Issue, Gate!Retire, Gate!Refuse, Gate!Tick, Gate!quota, Gate!history
  <1> QED BY <1>1, <1>2, <1>3, <1>4, <1>5, <1>6, <1>7 DEF Gate!PostStep

-----------------------------------------------------------------------------
(* A challenge is accepted once.                                           *)

\* A step after which fewer challenges are pending or carried and no more are accepted.
LEMMA ChallengeFewer ==
    ASSUME GateTypes, ChallengeInv, UNCHANGED accepted, issued' \in Nat, issued <= issued',
           \A a \in gateAt.Applicants : challenges'[a].id \in {0, challenges[a].id},
           \A p \in gateAt.Posts : post'[p].pc = "recover" =>
               post[p].pc = "recover" /\ post'[p].id = post[p].id,
           Gate!OnlyOwnersSponsored', GateTypes'
    PROVE  ChallengeInv'
  <1>1. \A a, b \in gateAt.Applicants : challenges'[a].id = challenges'[b].id /\ challenges'[a].id # 0 => a = b
    BY DEF ChallengeInv
  <1>2. \A p \in gateAt.Posts : post'[p].pc = "recover" =>
          /\ \A a \in gateAt.Applicants : challenges'[a].id # post'[p].id
          /\ \A q \in gateAt.Posts : post'[q].pc = "recover" /\ post'[q].id = post'[p].id => q = p
    BY DEF ChallengeInv, GateTypes
  <1>3. ASSUME NEW x \in accepted'
        PROVE  /\ x.id <= issued'
               /\ \A a \in gateAt.Applicants : challenges'[a].id # x.id
               /\ \A p \in gateAt.Posts : post'[p].pc = "recover" => post'[p].id # x.id
    <2>1. x \in accepted /\ x.id \in Nat \ {0} /\ issued \in Nat
      BY <1>3 DEF GateTypes
    <2> QED BY <2>1 DEF ChallengeInv
  <1>4. Gate!ChallengeAcceptedOnce'
    BY DEF ChallengeInv, Gate!ChallengeAcceptedOnce
  <1> QED BY <1>1, <1>2, <1>3, <1>4 DEF ChallengeInv

LEMMA ChallengeNext ==
    ASSUME Gate!GateBounds, GateTypes, ChallengeInv, [Gate!Next]_(Gate!vars)
    PROVE  ChallengeInv'
  <1>0. GateTypes'
    BY TypesNext
  <1>1. ASSUME NEW a \in gateAt.Applicants, Gate!Issue(a) PROVE ChallengeInv'
    <2>1. UNCHANGED <<post, accepted>>
      BY <1>1 DEF Gate!Issue, Gate!history
    <2>2. /\ issued' \in Nat /\ issued <= issued' /\ issued \in Nat
          /\ challenges \in [gateAt.Applicants -> [id : 0 .. issued, expires : 0 .. gateAt.MaxTime + gateAt.ttl]]
          /\ post \in [gateAt.Posts -> PostStates(issued)]
      BY <1>0, <1>1, IssueState DEF GateTypes
    <2>3. \A b \in gateAt.Applicants : \/ challenges'[b].id \in {0, challenges[b].id}
                                       \/ b = a /\ challenges'[b].id = issued + 1
      BY <1>1, IssueState
    <2>4. \A b \in gateAt.Applicants : challenges[b].id \in 0 .. issued
      BY <2>2
    <2>5. \A p \in gateAt.Posts : post[p].id \in 0 .. issued
      BY <2>2 DEF PostStates
    <2>6. \A x \in accepted : x.id <= issued /\ x.id \in Nat \ {0}
      BY DEF ChallengeInv, GateTypes
    <2>7. \A p \in gateAt.Posts : post[p].pc = "recover" => post[p].id # 0
      BY DEF GateTypes
    <2>8. \A b, c \in gateAt.Applicants : challenges'[b].id = challenges'[c].id /\ challenges'[b].id # 0 => b = c
      BY <2>2, <2>3, <2>4 DEF ChallengeInv
    <2>9. \A p \in gateAt.Posts : post[p].pc = "recover" => \A b \in gateAt.Applicants : challenges'[b].id # post[p].id
      BY <2>2, <2>3, <2>5, <2>7 DEF ChallengeInv
    <2>10. \A x \in accepted : x.id <= issued' /\ \A b \in gateAt.Applicants : challenges'[b].id # x.id
      BY <2>2, <2>3, <2>6 DEF ChallengeInv
    <2> QED BY <2>1, <2>8, <2>9, <2>10
        DEF ChallengeInv, Gate!ChallengeAcceptedOnce, Gate!OnlyOwnersSponsored
  <1>2. ASSUME NEW p \in gateAt.Posts, NEW a \in gateAt.Applicants, NEW s \in gateAt.Applicants,
               NEW id \in 1 .. issued, Gate!Verify(p, a, id, s)
        PROVE  ChallengeInv'
    <2>1. /\ \A q \in gateAt.Posts : q # p => post'[q] = post[q]
          /\ post'[p].pc = "recover" /\ post'[p].id = id
          /\ challenges[a].id = id /\ challenges'[a].id = 0 /\ id # 0
          /\ \A b \in gateAt.Applicants : challenges'[b].id \in {0, challenges[b].id}
          /\ UNCHANGED <<accepted, issued>>
      <3>1. UNCHANGED <<accepted, issued>>
        BY <1>2 DEF Gate!Verify, Gate!history
      <3>2. id # 0
        BY DEF GateTypes, Gate!GateBounds
      <3> QED BY <1>2, <3>1, <3>2, VerifyState
    <2>2. \A b \in gateAt.Applicants : challenges'[b].id # id
      BY <2>1 DEF ChallengeInv
    <2>3. \A q \in gateAt.Posts : post[q].pc = "recover" => post[q].id # id /\ post[q].id # 0
      BY <2>1 DEF ChallengeInv, GateTypes
    <2>4. \A x \in accepted : x.id # id /\ x.id # 0
      BY <2>1 DEF ChallengeInv, GateTypes
    <2>5. \A q \in gateAt.Posts : post'[q].pc = "recover" =>
            /\ \A b \in gateAt.Applicants : challenges'[b].id # post'[q].id
            /\ \A o \in gateAt.Posts : post'[o].pc = "recover" /\ post'[o].id = post'[q].id => o = q
      BY <2>1, <2>2, <2>3 DEF ChallengeInv
    <2>6. \A x \in accepted :
            /\ \A b \in gateAt.Applicants : challenges'[b].id # x.id
            /\ \A q \in gateAt.Posts : post'[q].pc = "recover" => post'[q].id # x.id
      BY <2>1, <2>4 DEF ChallengeInv
    <2>7. Gate!OnlyOwnersSponsored'
      BY <2>1 DEF ChallengeInv, Gate!OnlyOwnersSponsored
    <2>8. \A b, c \in gateAt.Applicants : challenges'[b].id = challenges'[c].id /\ challenges'[b].id # 0 => b = c
      BY <2>1 DEF ChallengeInv
    <2> QED BY <2>1, <2>5, <2>6, <2>7, <2>8 DEF ChallengeInv, Gate!ChallengeAcceptedOnce
  <1>3. ASSUME NEW p \in gateAt.Posts, Gate!Recovered(p) PROVE ChallengeInv'
    <2>1. post[p].pc = "recover" /\ UNCHANGED <<challenges, issued>> /\ issued \in Nat
      BY <1>3 DEF Gate!Recovered, GateTypes
    <2>2. ASSUME Gate!SignedByApplicant(p), Goes(p, "existing"),
                 accepted' = accepted \cup {[id |-> post[p].id, post |-> p]}
          PROVE  ChallengeInv'
      <3>1. /\ \A q \in gateAt.Posts : q # p => post'[q] = post[q]
            /\ post'[p].pc = "existing" /\ post'[p].signer = post'[p].who
        BY <2>1, <2>2, GoesState DEF Gate!Pcs, Gate!SignedByApplicant
      <3>2. Gate!OnlyOwnersSponsored'
        BY <3>1 DEF ChallengeInv, Gate!OnlyOwnersSponsored
      <3>3. \A x \in accepted : x.id # post[p].id
        BY <2>1 DEF ChallengeInv
      <3>4. Gate!ChallengeAcceptedOnce'
        BY <2>2, <3>3 DEF ChallengeInv, Gate!ChallengeAcceptedOnce
      <3>5. post[p].id <= issued /\ \A a \in gateAt.Applicants : challenges[a].id # post[p].id
        BY <2>1 DEF ChallengeInv, GateTypes, PostStates
      <3>6. \A q \in gateAt.Posts : post'[q].pc = "recover" => q # p /\ post'[q] = post[q]
        BY <3>1
      <3>7. \A x \in accepted' :
              /\ x.id <= issued
              /\ \A a \in gateAt.Applicants : challenges[a].id # x.id
              /\ \A q \in gateAt.Posts : post'[q].pc = "recover" => post'[q].id # x.id
        BY <2>1, <2>2, <3>5, <3>6 DEF ChallengeInv
      <3> QED BY <2>1, <3>2, <3>4, <3>6, <3>7 DEF ChallengeInv
    <2>3. ASSUME post' = [post EXCEPT ![p] = Gate!Idle], UNCHANGED accepted PROVE ChallengeInv'
      <3>1. \A q \in gateAt.Posts : post'[q] = post[q] \/ post'[q].pc = "idle"
        BY <2>3, EndedState DEF Gate!Idle
      <3>2. Gate!OnlyOwnersSponsored'
        BY <3>1 DEF ChallengeInv, Gate!OnlyOwnersSponsored
      <3> QED BY <1>0, <2>1, <2>3, <3>1, <3>2, ChallengeFewer
    <2> QED BY <1>3, <2>2, <2>3 DEF Gate!Recovered, Goes
  <1>4. ASSUME NEW p \in gateAt.Posts, Gate!Existing(p) \/ Gate!Write(p) \/ Gate!Rename(p) \/ Gate!Provision(p)
        PROVE  ChallengeInv'
    <2>1. /\ post[p].pc \in {"existing", "write", "rename", "provision"}
          /\ UNCHANGED <<challenges, issued, accepted>> /\ issued \in Nat
      BY <1>4 DEF Gate!Existing, Gate!Write, Gate!Rename, Gate!Provision, Gate!history, GateTypes
    <2>2. \/ Goes(p, "provision") \/ post' = [post EXCEPT ![p] = Gate!Idle]
          \/ post' = [post EXCEPT ![p].pc = "write", ![p].at = gateNow]
          \/ post' = [post EXCEPT ![p].pc = "rename", ![p].snapshot = gateMem]
      BY <1>4 DEF Gate!Existing, Gate!Write, Gate!Rename, Gate!Provision, Goes
    <2>3. Gate!Idle.pc = "idle" /\ "provision" \in Gate!Pcs
      BY DEF Gate!Idle, Gate!Pcs
    <2>4. /\ \A q \in gateAt.Posts : q # p => post'[q] = post[q]
          /\ post'[p].pc \in {"idle", "provision", "write", "rename"}
          /\ post'[p].pc = "idle" \/
               (post'[p].who = post[p].who /\ post'[p].signer = post[p].signer)
      BY <2>1, <2>2, <2>3, GoesState, EndedState, CountedState, WrittenState
    <2>5. Gate!OnlyOwnersSponsored'
      BY <2>1, <2>4 DEF ChallengeInv, Gate!OnlyOwnersSponsored
    <2>6. \A q \in gateAt.Posts : post'[q].pc = "recover" => q # p
      BY <2>4
    <2> QED BY <1>0, <2>1, <2>4, <2>5, <2>6, ChallengeFewer
  <1>5. CASE Gate!Crash
    <2>1. /\ UNCHANGED <<issued, accepted>> /\ issued \in Nat
          /\ \A a \in gateAt.Applicants : challenges'[a].id = 0
          /\ \A p \in gateAt.Posts : post'[p].pc = "idle"
      BY <1>5 DEF Gate!Crash, Gate!history, Gate!NoChallenge, Gate!Idle, GateTypes
    <2>2. Gate!OnlyOwnersSponsored'
      BY <2>1 DEF Gate!OnlyOwnersSponsored
    <2> QED BY <1>0, <2>1, <2>2, ChallengeFewer
  <1>6. ASSUME UNCHANGED <<post, issued, accepted>>, UNCHANGED challenges \/ challenges' = Gate!Purged
        PROVE  ChallengeInv'
    <2>1. \A a \in gateAt.Applicants : challenges'[a].id \in {0, challenges[a].id}
      BY <1>6, PurgedType
    <2>2. Gate!OnlyOwnersSponsored' /\ issued \in Nat
      BY <1>6 DEF ChallengeInv, Gate!OnlyOwnersSponsored, GateTypes
    <2> QED BY <1>0, <1>6, <2>1, <2>2, ChallengeFewer
  <1>7. \/ UNCHANGED <<post, issued, accepted>> /\ (UNCHANGED challenges \/ challenges' = Gate!Purged)
        \/ Gate!Crash \/ \E a \in gateAt.Applicants : Gate!Issue(a)
        \/ \E p \in gateAt.Posts, a \in gateAt.Applicants, s \in gateAt.Applicants, id \in 1 .. issued : Gate!Verify(p, a, id, s)
        \/ \E p \in gateAt.Posts : Gate!PostStep(p)
    BY DEF Gate!Next, Gate!vars, Gate!Retire, Gate!Refuse, Gate!Tick, Gate!history
  <1> QED BY <1>1, <1>2, <1>3, <1>4, <1>5, <1>6, <1>7 DEF Gate!PostStep

-----------------------------------------------------------------------------
(* The quota is not reopened.                                              *)

AttemptTimes == /\ \A e \in attempts : e.at \in Nat /\ e.at <= gateNow
                /\ gateNow \in Nat /\ gateAt.DAY \in Nat \ {0} /\ gateNow >= gateAt.DAY
                /\ gateAt.subjectWindow \in Nat \ {0} /\ gateAt.subjectWindow <= gateAt.DAY /\ gateAt.dailyCap \in Nat

LEMMA Times ==
    ASSUME Gate!GateBounds, GateTypes, QuotaInv
    PROVE  AttemptTimes
  BY DEF Gate!GateBounds, GateTypes, QuotaInv, AttemptTimes

\* The window of an address tells the attempts apart that the journal notes.
LEMMA EntriesDistinct ==
    ASSUME Gate!GateBounds, GateTypes, QuotaInv, NEW e \in attempts, NEW f \in attempts,
           EntryOf(e) = EntryOf(f)
    PROVE  e = f
  <1>1. e.subject = f.subject /\ e.at = f.at
    BY DEF EntryOf
  <1>2. e # f => f.at >= e.at + gateAt.subjectWindow
    BY <1>1, Times DEF QuotaInv, Gate!WindowOutlivesCrashes, AttemptTimes
  <1> QED BY <1>1, <1>2, Times DEF AttemptTimes

\* activeEntries counts all that was sponsored during the last day.
LEMMA RecentCounted ==
    ASSUME Gate!GateBounds, GateTypes, GateFinite, QuotaInv
    PROVE  /\ IsFiniteSet(Since(attempts, gateNow - gateAt.DAY))
           /\ Cardinality(Since(attempts, gateNow - gateAt.DAY)) <= Cardinality(Gate!activeEntries)
  <1> DEFINE S == Since(attempts, gateNow - gateAt.DAY)
             f == [e \in S |-> EntryOf(e)]
  <1>1. IsFiniteSet(Gate!activeEntries)
    BY FS_Subset DEF GateFinite, Gate!activeEntries
  <1>2. \A e \in S : EntryOf(e) \in Gate!activeEntries
    <2>1. ASSUME NEW e \in S PROVE EntryOf(e) \in gateMem /\ EntryOf(e).at > gateNow - gateAt.DAY
      BY DEF Since, QuotaInv, Remembers, EntryOf
    <2> QED BY <2>1 DEF Gate!activeEntries
  <1>3. \A e, g \in S : EntryOf(e) = EntryOf(g) => e = g
    BY EntriesDistinct DEF Since
  <1>4. f \in Injection(S, Gate!activeEntries)
    BY <1>2, <1>3 DEF Injection, IsInjective
  <1> HIDE DEF f
  <1> QED BY <1>1, <1>4, FS_Injection

\* A step that sponsors nothing and counts nobody.
LEMMA QuotaKept ==
    ASSUME Gate!GateBounds, GateTypes, QuotaInv, UNCHANGED <<gateNow, attempts>>,
           Serial', Remembers(gateMem)', Remembers(gateDisk)',
           \A p \in gateAt.Posts : Counted(p)' =>
             /\ Counted(p) /\ post'[p] = post[p]
             /\ [subject |-> post[p].who, at |-> post[p].at] \in gateMem'
    PROVE  QuotaInv'
  <1>1. ASSUME NEW p \in gateAt.Posts, Counted(p)' PROVE RoomFor(p)'
    <2>1. RoomFor(p) /\ post'[p] = post[p] /\ [subject |-> post[p].who, at |-> post[p].at] \in gateMem'
      BY <1>1 DEF QuotaInv
    <2> QED BY <2>1 DEF RoomFor, Remembers
  <1>2. Gate!CapOutlivesCrashes' /\ Gate!WindowOutlivesCrashes' /\ \A e \in attempts' : e.at <= gateNow'
    BY DEF QuotaInv, Gate!CapOutlivesCrashes, Gate!WindowOutlivesCrashes
  <1> QED BY <1>1, <1>2 DEF QuotaInv

\* A step that leaves the journal alone and moves no POST that is being sponsored.
LEMMA QuotaQuiet ==
    ASSUME Gate!GateBounds, GateTypes, QuotaInv, UNCHANGED <<gateNow, attempts, gateMem, gateDisk, inFlight>>,
           \A p \in gateAt.Posts : Provisioning(p)' => post'[p] = post[p]
    PROVE  QuotaInv'
  <1>1. Serial'
    BY DEF QuotaInv, Serial, Provisioning
  <1>2. Remembers(gateMem)' /\ Remembers(gateDisk)'
    BY DEF QuotaInv, Remembers
  <1>3. ASSUME NEW p \in gateAt.Posts, Counted(p)'
        PROVE  /\ Counted(p) /\ post'[p] = post[p]
               /\ [subject |-> post[p].who, at |-> post[p].at] \in gateMem'
    BY <1>3 DEF Counted, Provisioning, QuotaInv, RoomFor
  <1> QED BY <1>1, <1>2, <1>3, QuotaKept

\* The POST that is being sponsored ends, and the gate opens.
LEMMA QuotaEnds ==
    ASSUME Gate!GateBounds, GateTypes, QuotaInv, UNCHANGED <<gateNow, attempts, gateMem>>,
           NEW p \in gateAt.Posts, Provisioning(p), post' = [post EXCEPT ![p] = Gate!Idle],
           inFlight' = FALSE, Remembers(gateDisk)'
    PROVE  QuotaInv'
  <1>1. \A q \in gateAt.Posts : ~Provisioning(q)'
    BY EndedState DEF QuotaInv, Serial, Provisioning, Gate!Idle
  <1>2. Serial' /\ Remembers(gateMem)'
    BY <1>1 DEF QuotaInv, Serial, Remembers
  <1> QED BY <1>1, <1>2, QuotaKept DEF Counted, Provisioning

LEMMA ExistingQuota ==
    ASSUME Gate!GateBounds, GateTypes, GateFinite, QuotaInv, NEW p \in gateAt.Posts, Gate!Existing(p)
    PROVE  QuotaInv'
  <1>1. post[p].pc = "existing" /\ UNCHANGED <<gateNow, gateDisk, attempts>>
    BY DEF Gate!Existing, Gate!history
  <1>2. ASSUME post' = [post EXCEPT ![p] = Gate!Idle], UNCHANGED <<inFlight, gateMem>>
        PROVE  QuotaInv'
    <2>1. \A q \in gateAt.Posts : Provisioning(q)' => post'[q] = post[q]
      BY <1>2, EndedState DEF Provisioning, Gate!Idle
    <2> QED BY <1>1, <1>2, <2>1, QuotaQuiet
  <1>3. ASSUME Gate!GateOpen, Gate!Allowed(post[p].who), inFlight' = TRUE, Gate!Consumed(post[p].who),
               post' = [post EXCEPT ![p].pc = "write", ![p].at = gateNow]
        PROVE  QuotaInv'
    <2> DEFINE a   == post[p].who
               new == [subject |-> a, at |-> gateNow]
    <2>1. /\ \A q \in gateAt.Posts : q # p => post'[q] = post[q]
          /\ post'[p].pc = "write" /\ post'[p].who = a /\ post'[p].at = gateNow
      BY <1>1, <1>3, CountedState
    <2>2. \A q \in gateAt.Posts : ~Provisioning(q)
      BY <1>3 DEF QuotaInv, Serial, Gate!GateOpen
    <2>3. Serial'
      BY <1>3, <2>1, <2>2 DEF Serial, Provisioning
    <2>4. gateMem' = Gate!activeEntries \cup {new}
      BY <1>3 DEF Gate!Consumed
    <2>5. Remembers(gateMem)'
      BY <1>1, <2>4 DEF QuotaInv, Remembers, Gate!activeEntries, EntryOf
    <2>6. Remembers(gateDisk)'
      BY <1>1 DEF QuotaInv, Remembers
    <2>7. Cardinality(Since(attempts, gateNow - gateAt.DAY)) < gateAt.dailyCap
      <3>1. Cardinality(Gate!activeEntries) < gateAt.dailyCap /\ IsFiniteSet(Gate!activeEntries)
        BY <1>3, FS_Subset, GateCounts DEF Gate!Allowed, GateFinite, Gate!activeEntries
      <3>2. /\ IsFiniteSet(Since(attempts, gateNow - gateAt.DAY))
            /\ Cardinality(Since(attempts, gateNow - gateAt.DAY)) <= Cardinality(Gate!activeEntries)
        BY RecentCounted
      <3>3. Cardinality(Since(attempts, gateNow - gateAt.DAY)) \in Nat /\ Cardinality(Gate!activeEntries) \in Nat
        BY <3>1, <3>2, FS_CardinalityType
      <3> QED BY <3>1, <3>2, <3>3, Times DEF AttemptTimes
    <2>8. ASSUME NEW e \in attempts, e.subject = a PROVE gateNow >= e.at + gateAt.subjectWindow
      <3>1. CASE e.at > gateNow - gateAt.DAY
        <4>1. EntryOf(e) \in Gate!activeEntries
          BY <3>1 DEF QuotaInv, Remembers, Gate!activeEntries, EntryOf
        <4>2. ~ (e.at > gateNow - gateAt.subjectWindow)
          BY <1>3, <2>8, <4>1 DEF Gate!Allowed, EntryOf
        <4> QED BY <4>2, Times DEF AttemptTimes
      <3>2. CASE ~(e.at > gateNow - gateAt.DAY)
        BY <3>2, Times DEF AttemptTimes
      <3> QED BY <3>1, <3>2
    <2>9. RoomFor(p)'
      <3>1. post'[p].at <= gateNow /\ post'[p].at >= gateAt.DAY
        BY <2>1, Times DEF AttemptTimes
      <3>2. [subject |-> post'[p].who, at |-> post'[p].at] \in gateMem'
        BY <2>1, <2>4
      <3>3. Cardinality(Since(attempts, post'[p].at - gateAt.DAY)) < gateAt.dailyCap
        BY <2>1, <2>7
      <3>4. \A e \in attempts : /\ e.at <= post'[p].at
                                /\ e.subject = a => post'[p].at >= e.at + gateAt.subjectWindow
        BY <2>1, <2>8, Times DEF AttemptTimes
      <3> QED BY <1>1, <2>1, <3>1, <3>2, <3>3, <3>4 DEF RoomFor, Since
    <2>10. \A q \in gateAt.Posts : Counted(q)' => RoomFor(q)'
      BY <2>1, <2>2, <2>9 DEF Counted, Provisioning
    <2>11. Gate!CapOutlivesCrashes' /\ Gate!WindowOutlivesCrashes' /\ \A e \in attempts' : e.at <= gateNow'
      BY <1>1 DEF QuotaInv, Gate!CapOutlivesCrashes, Gate!WindowOutlivesCrashes
    <2> QED BY <2>3, <2>5, <2>6, <2>10, <2>11 DEF QuotaInv
  <1> QED BY <1>2, <1>3 DEF Gate!Existing

LEMMA WriteQuota ==
    ASSUME Gate!GateBounds, GateTypes, QuotaInv, NEW p \in gateAt.Posts, Gate!Write(p)
    PROVE  QuotaInv'
  <1>1. post[p].pc = "write" /\ UNCHANGED <<gateNow, gateMem, gateDisk, attempts>>
    BY DEF Gate!Write, Gate!history
  <1>2. Provisioning(p) /\ RoomFor(p) /\ Remembers(gateDisk)' /\ Remembers(gateMem)'
    BY <1>1 DEF Provisioning, Counted, QuotaInv, Remembers
  <1>3. CASE inFlight' = FALSE /\ post' = [post EXCEPT ![p] = Gate!Idle]
    BY <1>1, <1>2, <1>3, QuotaEnds
  <1>4. ASSUME post' = [post EXCEPT ![p].pc = "rename", ![p].snapshot = gateMem], UNCHANGED inFlight
        PROVE  QuotaInv'
    <2>1. /\ \A q \in gateAt.Posts : q # p => post'[q] = post[q]
          /\ post'[p].pc = "rename" /\ post'[p].who = post[p].who /\ post'[p].at = post[p].at
          /\ post'[p].snapshot = gateMem
      BY <1>1, <1>4, WrittenState
    <2>2. Serial'
      BY <1>2, <1>4, <2>1 DEF QuotaInv, Serial, Provisioning
    <2>3. RoomFor(p)'
      BY <1>1, <1>2, <2>1 DEF RoomFor, Remembers, QuotaInv
    <2>4. \A q \in gateAt.Posts : Counted(q)' => q = p
      BY <1>2, <2>1 DEF QuotaInv, Serial, Provisioning, Counted
    <2>5. Gate!CapOutlivesCrashes' /\ Gate!WindowOutlivesCrashes' /\ \A e \in attempts' : e.at <= gateNow'
      BY <1>1 DEF QuotaInv, Gate!CapOutlivesCrashes, Gate!WindowOutlivesCrashes
    <2> QED BY <1>2, <2>2, <2>3, <2>4, <2>5 DEF QuotaInv
  <1> QED BY <1>3, <1>4 DEF Gate!Write

\* What is sponsored now was counted while there was room, and nothing was sponsored since.
LEMMA SponsoredInRoom ==
    ASSUME Gate!GateBounds, GateTypes, GateFinite, QuotaInv, NEW p \in gateAt.Posts, RoomFor(p),
           post[p].at \in Nat, NEW n, n.at = post[p].at, n.subject = post[p].who,
           NEW A, A = attempts \cup {n}
    PROVE  /\ \A t \in gateAt.DAY .. gateNow : Cardinality({e \in A : t - gateAt.DAY < e.at /\ e.at <= t}) <= gateAt.dailyCap
           /\ \A e, f \in A : e # f /\ e.subject = f.subject /\ e.at <= f.at
                                => f.at >= e.at + gateAt.subjectWindow
  <1>1. AttemptTimes
    BY Times
  <1>2. ASSUME NEW t \in gateAt.DAY .. gateNow
        PROVE  Cardinality({e \in A : t - gateAt.DAY < e.at /\ e.at <= t}) <= gateAt.dailyCap
    <2> DEFINE W == {e \in A : t - gateAt.DAY < e.at /\ e.at <= t}
    <2>1. CASE t < n.at
      <3>1. W = {e \in attempts : t - gateAt.DAY < e.at /\ e.at <= t}
        BY <1>1, <2>1 DEF AttemptTimes
      <3> QED BY <3>1, GateCounts DEF QuotaInv, Gate!CapOutlivesCrashes
    <2>2. CASE n.at <= t
      <3> DEFINE S == Since(attempts, n.at - gateAt.DAY)
      <3>1. IsFiniteSet(S) /\ Cardinality(S) < gateAt.dailyCap
        <4>1. IsFiniteSet(S)
          BY FS_Subset DEF GateFinite, Since
        <4> QED BY <4>1 DEF RoomFor
      <3>2. W \subseteq S \cup {n}
        <4>1. ASSUME NEW e \in W, e # n PROVE e \in S
          <5>1. e \in attempts /\ t - gateAt.DAY < e.at /\ e.at \in Nat
            BY <1>1, <4>1 DEF AttemptTimes
          <5>2. n.at - gateAt.DAY <= t - gateAt.DAY
            BY <1>1, <2>2 DEF AttemptTimes
          <5>3. e.at > n.at - gateAt.DAY
            BY <1>1, <5>1, <5>2 DEF AttemptTimes
          <5> QED BY <5>1, <5>3 DEF Since
        <4> QED BY <4>1
      <3> HIDE DEF S, W
      <3>3. /\ IsFiniteSet(S \cup {n})
            /\ Cardinality(S \cup {n}) <= Cardinality(S) + 1
        <4>1. Cardinality(S) \in Nat
          BY <3>1, FS_CardinalityType
        <4>2. Cardinality(S \cup {n}) \in {Cardinality(S), Cardinality(S) + 1}
          BY <3>1, FS_AddElement
        <4>3. IsFiniteSet(S \cup {n})
          BY <3>1, FS_AddElement
        <4> QED BY <4>1, <4>2, <4>3
      <3>4. IsFiniteSet(W) /\ Cardinality(W) <= Cardinality(S \cup {n})
        BY <3>2, <3>3, FS_Subset
      <3>5. Cardinality(W) \in Nat /\ Cardinality(S) \in Nat /\ Cardinality(S \cup {n}) \in Nat
        BY <3>1, <3>3, <3>4, FS_CardinalityType
      <3>6. Cardinality(W) <= gateAt.dailyCap
        BY <1>1, <3>1, <3>3, <3>4, <3>5 DEF AttemptTimes
      <3> QED BY <3>6 DEF W
    <2> QED BY <1>1, <2>1, <2>2 DEF AttemptTimes
  <1>3. ASSUME NEW e \in A, NEW f \in A, e # f, e.subject = f.subject, e.at <= f.at
        PROVE  f.at >= e.at + gateAt.subjectWindow
    <2>1. CASE e \in attempts /\ f \in attempts
      BY <1>3, <2>1 DEF QuotaInv, Gate!WindowOutlivesCrashes
    <2>2. CASE e \in attempts /\ f = n
      BY <1>3, <2>2 DEF RoomFor
    <2>3. CASE e = n /\ f \in attempts
      <3>1. f.at <= n.at /\ n.at >= f.at + gateAt.subjectWindow
        BY <1>3, <2>3 DEF RoomFor
      <3>2. f.at \in Nat /\ n.at \in Nat /\ gateAt.subjectWindow \in Nat \ {0} /\ n.at <= f.at
        BY <1>1, <1>3, <2>3 DEF AttemptTimes
      <3> QED BY <3>1, <3>2
    <2> QED BY <1>3, <2>1, <2>2, <2>3
  <1> QED BY <1>2, <1>3

LEMMA RenameQuota ==
    ASSUME Gate!GateBounds, GateTypes, GateFinite, QuotaInv, NEW p \in gateAt.Posts, Gate!Rename(p)
    PROVE  QuotaInv'
  <1>1. post[p].pc = "rename" /\ UNCHANGED <<gateNow, gateMem>>
    BY DEF Gate!Rename
  <1>2. Provisioning(p) /\ RoomFor(p) /\ Remembers(post[p].snapshot)
    BY <1>1 DEF Provisioning, Counted, QuotaInv, RoomFor
  <1>3. ASSUME gateDisk' \in {gateDisk, post[p].snapshot}, inFlight' = FALSE,
               post' = [post EXCEPT ![p] = Gate!Idle], UNCHANGED attempts
        PROVE  QuotaInv'
    <2>1. Remembers(gateDisk)'
      BY <1>1, <1>2, <1>3 DEF QuotaInv, Remembers
    <2> QED BY <1>1, <1>2, <1>3, <2>1, QuotaEnds
  <1>4. ASSUME Gate!Renamed(p), Goes(p, "provision"), UNCHANGED inFlight,
               attempts' = attempts \cup
                 {[subject |-> post[p].who, at |-> post[p].at, id |-> post[p].id]}
        PROVE  QuotaInv'
    <2> DEFINE n == [subject |-> post[p].who, at |-> post[p].at, id |-> post[p].id]
    <2>1. /\ \A q \in gateAt.Posts : q # p => post'[q] = post[q]
          /\ post'[p].pc = "provision"
      BY <1>1, <1>4, GoesState DEF Gate!Pcs
    <2>2. Serial' /\ \A q \in gateAt.Posts : ~Counted(q)'
      BY <1>2, <1>4, <2>1 DEF QuotaInv, Serial, Provisioning, Counted
    <2>3. post[p].at \in Nat
      BY DEF GateTypes, PostStates, Gate!GateBounds
    <2>4. Gate!CapOutlivesCrashes' /\ Gate!WindowOutlivesCrashes'
      <3>1. PICK A : A = attempts \cup {n}
        OBVIOUS
      <3>2. n.at = post[p].at /\ n.subject = post[p].who
        OBVIOUS
      <3> HIDE DEF n
      <3>3. /\ \A t \in gateAt.DAY .. gateNow : Cardinality({e \in A : t - gateAt.DAY < e.at /\ e.at <= t}) <= gateAt.dailyCap
            /\ \A e, f \in A : e # f /\ e.subject = f.subject /\ e.at <= f.at
                                 => f.at >= e.at + gateAt.subjectWindow
        BY <1>2, <2>3, <3>1, <3>2, SponsoredInRoom
      <3>4. attempts' = A
        BY <1>4, <3>1 DEF n
      <3> QED BY <1>1, <3>3, <3>4, GateCounts DEF Gate!CapOutlivesCrashes, Gate!WindowOutlivesCrashes
    <2>5. EntryOf(n) \in gateMem /\ EntryOf(n) \in post[p].snapshot /\ n.at <= gateNow
      BY <1>1, <1>2 DEF RoomFor, EntryOf
    <2>6. Remembers(gateMem)' /\ Remembers(gateDisk)' /\ \A e \in attempts' : e.at <= gateNow'
      BY <1>1, <1>2, <1>4, <2>5 DEF QuotaInv, Remembers, Gate!Renamed
    <2> QED BY <2>2, <2>4, <2>6 DEF QuotaInv
  <1> QED BY <1>3, <1>4 DEF Gate!Rename, Goes

LEMMA TickQuota ==
    ASSUME Gate!GateBounds, GateTypes, GateFinite, QuotaInv, Gate!Tick
    PROVE  QuotaInv'
  <1>1. gateNow' = gateNow + 1 /\ UNCHANGED <<post, inFlight, gateMem, gateDisk, attempts>> /\ AttemptTimes
    BY Times DEF Gate!Tick, Gate!quota, Gate!history
  <1>2. ASSUME NEW t \in gateAt.DAY .. gateNow + 1
        PROVE  Cardinality({e \in attempts : t - gateAt.DAY < e.at /\ e.at <= t}) <= gateAt.dailyCap
    <2>1. CASE t \in gateAt.DAY .. gateNow
      BY <2>1, GateCounts DEF QuotaInv, Gate!CapOutlivesCrashes
    <2>2. CASE t = gateNow + 1
      <3> DEFINE W == {e \in attempts : t - gateAt.DAY < e.at /\ e.at <= t}
                 V == {e \in attempts : gateNow - gateAt.DAY < e.at /\ e.at <= gateNow}
      <3>1. W \subseteq V
        BY <1>1, <2>2 DEF AttemptTimes
      <3>2. IsFiniteSet(V)
        BY FS_Subset DEF GateFinite
      <3>3. Cardinality(V) <= gateAt.dailyCap
        BY <1>1, GateCounts DEF QuotaInv, Gate!CapOutlivesCrashes, AttemptTimes
      <3> HIDE DEF W, V
      <3>4. IsFiniteSet(W) /\ Cardinality(W) <= Cardinality(V)
        BY <3>1, <3>2, FS_Subset
      <3>5. Cardinality(W) \in Nat /\ Cardinality(V) \in Nat
        BY <3>2, <3>4, FS_CardinalityType
      <3>6. Cardinality(W) <= gateAt.dailyCap
        BY <1>1, <3>3, <3>4, <3>5 DEF AttemptTimes
      <3> QED BY <3>6 DEF W
    <2> QED BY <1>1, <2>1, <2>2 DEF AttemptTimes
  <1>3. Gate!CapOutlivesCrashes' /\ Gate!WindowOutlivesCrashes'
    BY <1>1, <1>2, GateCounts DEF QuotaInv, Gate!CapOutlivesCrashes, Gate!WindowOutlivesCrashes
  <1>4. \A E : Remembers(E) => \A e \in attempts : e.at > gateNow' - gateAt.DAY => EntryOf(e) \in E
    BY <1>1 DEF Remembers, AttemptTimes
  <1>5. Remembers(gateMem)' /\ Remembers(gateDisk)' /\ Serial'
    BY <1>1, <1>4 DEF QuotaInv, Remembers, Serial, Provisioning
  <1>6. ASSUME NEW p \in gateAt.Posts, Counted(p)' PROVE RoomFor(p)'
    <2>1. RoomFor(p)
      BY <1>1, <1>6 DEF QuotaInv, Counted
    <2>2. post[p].at \in Nat /\ gateNow \in Nat
      BY <1>1 DEF GateTypes, PostStates, Gate!GateBounds, AttemptTimes
    <2> QED BY <1>1, <1>4, <2>1, <2>2 DEF RoomFor, Remembers
  <1>7. \A e \in attempts' : e.at <= gateNow'
    BY <1>1 DEF AttemptTimes
  <1> QED BY <1>3, <1>5, <1>6, <1>7 DEF QuotaInv

LEMMA QuotaNext ==
    ASSUME Gate!GateBounds, GateTypes, GateFinite, QuotaInv, [Gate!Next]_(Gate!vars)
    PROVE  QuotaInv'
  <1>1. ASSUME NEW p \in gateAt.Posts, NEW a \in gateAt.Applicants, NEW s \in gateAt.Applicants,
               NEW id \in 1 .. issued, Gate!Verify(p, a, id, s)
        PROVE  QuotaInv'
    <2>1. \A q \in gateAt.Posts : Provisioning(q)' => post'[q] = post[q]
      BY <1>1, VerifyState DEF Provisioning
    <2> QED BY <1>1, <2>1, QuotaQuiet DEF Gate!Verify, Gate!quota, Gate!history
  <1>2. ASSUME NEW p \in gateAt.Posts, Gate!Recovered(p) PROVE QuotaInv'
    <2>1. post[p].pc = "recover" /\ (Goes(p, "existing") \/ post' = [post EXCEPT ![p] = Gate!Idle])
      BY <1>2 DEF Gate!Recovered, Goes
    <2>2. \A q \in gateAt.Posts : Provisioning(q)' => post'[q] = post[q]
      <3>1. Gate!Idle.pc = "idle" /\ "existing" \in Gate!Pcs
        BY DEF Gate!Idle, Gate!Pcs
      <3>2. /\ \A q \in gateAt.Posts : q # p => post'[q] = post[q]
            /\ post'[p].pc \in {"idle", "existing"}
        BY <2>1, <3>1, GoesState, EndedState
      <3> QED BY <3>2 DEF Provisioning
    <2> QED BY <1>2, <2>2, QuotaQuiet DEF Gate!Recovered, Gate!quota
  <1>3. ASSUME NEW p \in gateAt.Posts, Gate!Provision(p) PROVE QuotaInv'
    <2>1. Provisioning(p) /\ UNCHANGED <<gateNow, gateMem, gateDisk, attempts>>
      BY <1>3 DEF Gate!Provision, Provisioning, Gate!quota, Gate!history
    <2>2. Remembers(gateDisk)'
      BY <2>1 DEF QuotaInv, Remembers
    <2> QED BY <1>3, <2>1, <2>2, QuotaEnds DEF Gate!Provision, Gate!GateReopened
  <1>4. CASE Gate!Crash
    <2>1. /\ UNCHANGED <<gateNow, gateDisk, attempts>> /\ gateMem' = {e \in gateDisk : e.at > gateNow - gateAt.DAY}
          /\ \A p \in gateAt.Posts : post'[p].pc = "idle"
      BY <1>4 DEF Gate!Crash, Gate!Loaded, Gate!history, Gate!Idle
    <2>2. Remembers(gateMem)' /\ Remembers(gateDisk)' /\ Serial'
      BY <2>1 DEF QuotaInv, Remembers, EntryOf, Serial, Provisioning
    <2> QED BY <2>1, <2>2, QuotaKept DEF Counted
  <1>5. CASE UNCHANGED <<gateNow, post, attempts, gateMem, gateDisk, inFlight>>
    BY <1>5, QuotaQuiet
  <1>6. \/ UNCHANGED <<gateNow, post, attempts, gateMem, gateDisk, inFlight>> \/ Gate!Crash \/ Gate!Tick
        \/ \E p \in gateAt.Posts, a \in gateAt.Applicants, s \in gateAt.Applicants, id \in 1 .. issued : Gate!Verify(p, a, id, s)
        \/ \E p \in gateAt.Posts : Gate!PostStep(p)
    BY DEF Gate!Next, Gate!vars, Gate!Issue, Gate!Retire, Gate!Refuse, Gate!quota, Gate!history
  <1> QED BY <1>1, <1>2, <1>3, <1>4, <1>5, <1>6, ExistingQuota, WriteQuota, RenameQuota, TickQuota
      DEF Gate!PostStep

-----------------------------------------------------------------------------
(* The theorem.                                                            *)

GateInv == GateTypes /\ GateFinite /\ ChallengeInv /\ QuotaInv

LEMMA GateNext == ASSUME Gate!GateBounds PROVE GateInv /\ [Gate!Next]_(Gate!vars) => GateInv'
  BY TypesNext, FiniteNext, ChallengeNext, QuotaNext DEF GateInv

LEMMA GateInvSafe == ASSUME Gate!GateBounds PROVE GateInv => Gate!GateSafe
  <1> SUFFICES ASSUME GateInv PROVE Gate!GateSafe
    OBVIOUS
  <1>1. Gate!GateTypeOK
    BY DEF GateInv, GateTypes, PostStates, Gate!GateTypeOK
  <1>2. Gate!CountedBeforeSpent
    BY DEF GateInv, QuotaInv, Remembers, EntryOf, Gate!CountedBeforeSpent
  <1> QED BY <1>1, <1>2 DEF GateInv, ChallengeInv, QuotaInv, Gate!GateSafe

\* No crash, failed write or failed provisioning reopens the sponsored budget or the window
\* of an address, what is sponsored is on disk first, and a challenge is accepted once and
\* only from its owner (POST /api/provision, sponsored-rate-limit.mjs).
THEOREM GateIsSafe == ASSUME Gate!GateBounds PROVE Gate!Spec => []Gate!GateSafe
  <1>1. Gate!Init => GateInv
    BY GateInit DEF GateInv
  <1>2. GateInv /\ [Gate!Next]_(Gate!vars) => GateInv'
    BY GateNext
  <1>3. GateInv => Gate!GateSafe
    BY GateInvSafe
  <1> QED BY <1>1, <1>2, <1>3, PTL DEF Gate!Spec

-----------------------------------------------------------------------------
CourierMoves == focus = "courier"

\* Where it is chosen, Courier moves as its own specification says, and goes on to.
LEMMA CourierChosen ==
    /\ ServerSpec /\ CourierMoves => Courier!Init /\ [][Courier!Next]_(Courier!vars) /\ []CourierMoves
    /\ ServerSpec /\ ~CourierMoves => []~CourierMoves
<1>1. ServerInit /\ CourierMoves => Courier!Init
  BY DEF ServerInit, CourierMoves
<1>2. CourierMoves /\ [ServerNext]_serverVars => [Courier!Next]_(Courier!vars) /\ CourierMoves'
  BY DEF CourierMoves, ServerNext, serverVars, courierVars, Courier!vars
<1>3. ~CourierMoves /\ [ServerNext]_serverVars => ~CourierMoves'
  BY DEF CourierMoves, ServerNext, serverVars
<1> QED BY <1>1, <1>2, <1>3, PTL DEF ServerSpec

\* So its invariant holds there.
LEMMA CourierKept == ServerSpec => [](CourierMoves => Courier!CourierSafe)
<1>1. Courier!Init /\ [][Courier!Next]_(Courier!vars) => []Courier!CourierSafe
  BY CourierConstants, Courier!CourierStaysSafe
<1> QED BY <1>1, CourierChosen, PTL

-----------------------------------------------------------------------------
GateMoves == focus = "gate"

\* Where it is chosen, Gate moves as its own specification says, and goes on to.
LEMMA GateChosen ==
    /\ ServerSpec /\ GateMoves => Gate!Init /\ [][Gate!Next]_(Gate!vars) /\ []GateMoves
    /\ ServerSpec /\ ~GateMoves => []~GateMoves
<1>1. ServerInit /\ GateMoves => Gate!Init
  BY DEF ServerInit, GateMoves
<1>2. GateMoves /\ [ServerNext]_serverVars => [Gate!Next]_(Gate!vars) /\ GateMoves'
  BY DEF GateMoves, ServerNext, serverVars, gateVars, Gate!vars
<1>3. ~GateMoves /\ [ServerNext]_serverVars => ~GateMoves'
  BY DEF GateMoves, ServerNext, serverVars
<1> QED BY <1>1, <1>2, <1>3, PTL DEF ServerSpec

\* So its invariant holds there.
LEMMA GateKept == ServerSpec => [](GateMoves => Gate!GateSafe)
<1>1. Gate!Init /\ [][Gate!Next]_(Gate!vars) => []Gate!GateSafe
  BY GateConstants, GateIsSafe DEF Gate!Spec
<1> QED BY <1>1, GateChosen, PTL

-----------------------------------------------------------------------------
PipelinesMoves == focus = "pipelines"

\* Where it is chosen, Pipelines moves as its own specification says, and goes on to.
LEMMA PipelinesChosen ==
    /\ ServerSpec /\ PipelinesMoves => Pipelines!Init /\ [][Pipelines!Next]_(Pipelines!vars) /\ []PipelinesMoves
    /\ ServerSpec /\ ~PipelinesMoves => []~PipelinesMoves
<1>1. ServerInit /\ PipelinesMoves => Pipelines!Init
  BY DEF ServerInit, PipelinesMoves
<1>2. PipelinesMoves /\ [ServerNext]_serverVars => [Pipelines!Next]_(Pipelines!vars) /\ PipelinesMoves'
  BY DEF PipelinesMoves, ServerNext, serverVars, mandateVars, Pipelines!vars, Pipelines!switches,
         Pipelines!chain, Pipelines!journal
<1>3. ~PipelinesMoves /\ [ServerNext]_serverVars => ~PipelinesMoves'
  BY DEF PipelinesMoves, ServerNext, serverVars
<1> QED BY <1>1, <1>2, <1>3, PTL DEF ServerSpec

\* So its invariant holds there.
LEMMA PipelinesKept == ServerSpec => [](PipelinesMoves => Pipelines!MandatesSafe)
<1>1. Pipelines!Init /\ [][Pipelines!Next]_(Pipelines!vars) => []Pipelines!MandatesSafe
  BY MandateConstants, Pipelines!MandatesStaySafe
<1> QED BY <1>1, PipelinesChosen, PTL

-----------------------------------------------------------------------------
CrashesMoves == focus = "crashes"

\* Where it is chosen, Crashes moves as its own specification says, and goes on to.
LEMMA CrashesChosen ==
    /\ ServerSpec /\ CrashesMoves => Crashes!Init /\ [][Crashes!Next]_(Crashes!vars) /\ []CrashesMoves
    /\ ServerSpec /\ ~CrashesMoves => []~CrashesMoves
<1>1. ServerInit /\ CrashesMoves => Crashes!Init
  BY DEF ServerInit, CrashesMoves
<1>2. CrashesMoves /\ [ServerNext]_serverVars => [Crashes!Next]_(Crashes!vars) /\ CrashesMoves'
  BY DEF CrashesMoves, ServerNext, serverVars, mandateVars, Crashes!vars, Crashes!switches,
         Crashes!chain, Crashes!journal
<1>3. ~CrashesMoves /\ [ServerNext]_serverVars => ~CrashesMoves'
  BY DEF CrashesMoves, ServerNext, serverVars
<1> QED BY <1>1, <1>2, <1>3, PTL DEF ServerSpec

\* So its invariant holds there.
LEMMA CrashesKept == ServerSpec => [](CrashesMoves => Crashes!MandatesSafe)
<1>1. Crashes!Init /\ [][Crashes!Next]_(Crashes!vars) => []Crashes!MandatesSafe
  BY MandateConstants, Crashes!MandatesStaySafe
<1> QED BY <1>1, CrashesChosen, PTL

-----------------------------------------------------------------------------
ReadinessMoves == focus = "readiness"

\* Where it is chosen, Readiness moves as its own specification says, and goes on to.
LEMMA ReadinessChosen ==
    /\ ServerSpec /\ ReadinessMoves => Readiness!Init /\ [][Readiness!Next]_(Readiness!vars) /\ []ReadinessMoves
    /\ ServerSpec /\ ~ReadinessMoves => []~ReadinessMoves
<1>1. ServerInit /\ ReadinessMoves => Readiness!Init
  BY DEF ServerInit, ReadinessMoves
<1>2. ReadinessMoves /\ [ServerNext]_serverVars => [Readiness!Next]_(Readiness!vars) /\ ReadinessMoves'
  BY DEF ReadinessMoves, ServerNext, serverVars, mandateVars, Readiness!vars, Readiness!switches,
         Readiness!chain, Readiness!journal
<1>3. ~ReadinessMoves /\ [ServerNext]_serverVars => ~ReadinessMoves'
  BY DEF ReadinessMoves, ServerNext, serverVars
<1> QED BY <1>1, <1>2, <1>3, PTL DEF ServerSpec

\* So its invariant holds there.
LEMMA ReadinessKept == ServerSpec => [](ReadinessMoves => Readiness!MandatesSafe)
<1>1. Readiness!Init /\ [][Readiness!Next]_(Readiness!vars) => []Readiness!MandatesSafe
  BY MandateConstants, Readiness!MandatesStaySafe
<1> QED BY <1>1, ReadinessChosen, PTL

-----------------------------------------------------------------------------
AuditsMoves == focus = "audits"

\* Where it is chosen, Audits moves as its own specification says, and goes on to.
LEMMA AuditsChosen ==
    /\ ServerSpec /\ AuditsMoves => Audits!Init /\ [][Audits!Next]_(Audits!vars) /\ []AuditsMoves
    /\ ServerSpec /\ ~AuditsMoves => []~AuditsMoves
<1>1. ServerInit /\ AuditsMoves => Audits!Init
  BY DEF ServerInit, AuditsMoves
<1>2. AuditsMoves /\ [ServerNext]_serverVars => [Audits!Next]_(Audits!vars) /\ AuditsMoves'
  BY DEF AuditsMoves, ServerNext, serverVars, auditVars, Audits!vars, Audits!flights
<1>3. ~AuditsMoves /\ [ServerNext]_serverVars => ~AuditsMoves'
  BY DEF AuditsMoves, ServerNext, serverVars
<1> QED BY <1>1, <1>2, <1>3, PTL DEF ServerSpec

\* So its invariant holds there.
LEMMA AuditsKept == ServerSpec => [](AuditsMoves => Audits!PacketsSafe)
<1>1. Audits!Init /\ [][Audits!Next]_(Audits!vars) => []Audits!PacketsSafe
  BY AuditConstants, Audits!PacketsAreSafe DEF Audits!Spec
<1> QED BY <1>1, AuditsChosen, PTL

-----------------------------------------------------------------------------
(* The theorems                                                            *)

\* A signed payload is handed over once, to the right chain and truly reported, and reads
\* are recently checked, for any endpoints, calls and times; nothing else in the server
\* touches the fallback.
THEOREM ServerRpc == ServerSpec => []RpcSafe
<1>1. ServerInit => RpcInv
  BY RpcFirst DEF ServerInit
<1>2. RpcInv /\ [ServerNext]_serverVars => RpcInv'
  <2>1. [ServerNext]_serverVars => [Next]_vars
    BY DEF ServerNext, serverVars
  <2> QED BY <2>1, RpcStep
<1> QED BY <1>1, <1>2, RpcInvSafe, PTL DEF ServerSpec

\* The invariant of the couriers that the run of the server checks, for any requests,
\* POSTs, other jobs and faults (CourierStaysSafe of FinalizeCourier_proofs).
THEOREM ServerCouriers == ServerSpec => []CourierSafe
<1>1. (CourierMoves => Courier!CourierSafe) => CourierSafe
  BY DEF CourierMoves, CourierSafe
<1> QED BY <1>1, CourierKept, PTL

\* The sponsored quota and the challenges stay as the run checks them, for any addresses,
\* caps, windows and faults (GateIsSafe above).
THEOREM ServerGate == ServerSpec => []GateSafe
<1>1. (GateMoves => Gate!GateSafe) => GateSafe
  BY DEF GateMoves, GateSafe
<1> QED BY <1>1, GateKept, PTL

\* Mandates have assets of their own and are truly reported, for any delegates and
\* visitors and in each of the three focuses (MandatesStaySafe of MandateRefresh_proofs).
THEOREM ServerMandates == ServerSpec => []MandatesSafe
<1>1. /\ PipelinesMoves => Pipelines!MandatesSafe
      /\ CrashesMoves => Crashes!MandatesSafe
      /\ ReadinessMoves => Readiness!MandatesSafe
      => MandatesSafe
  BY DEF PipelinesMoves, CrashesMoves, ReadinessMoves, MandatesSafe
<1> QED BY <1>1, PipelinesKept, CrashesKept, ReadinessKept, PTL

\* Packets are complete, redelivered and paid from the quota, for any clients, mandates
\* and faults (PacketsAreSafe of AuditPackets_proofs).
THEOREM ServerPackets == ServerSpec => []PacketsSafe
<1>1. (AuditsMoves => Audits!PacketsSafe) => PacketsSafe
  BY DEF AuditsMoves, PacketsSafe
<1> QED BY <1>1, AuditsKept, PTL


-----------------------------------------------------------------------------
(* The fresh-deployment scripts: their steps *)

\* The steps of the scripts, one by one.
LEMMA SmokeSteps ==
    /\ Len(SmokeScript) = 9 /\ DOMAIN SmokeScript = 1..9
    /\ SmokeScript[1] = Once("check", K("preflight", "smoke"))
    /\ SmokeScript[2] = Do("transaction", K("faucet", "smoke"))
    /\ SmokeScript[3] = Do("transaction", K("approve", "smoke"))
    /\ SmokeScript[4] = Do("transaction", K("wrap", "smoke"))
    /\ SmokeScript[5] = Once("transaction", K("propose", "smoke"))
    /\ SmokeScript[6] = Do("safeAction", K("activate", "smoke"))
    /\ SmokeScript[7] = Once("transaction", K("request", "smoke"))
    /\ SmokeScript[8] = Do("finalize", K("finalize", "smoke"))
    /\ SmokeScript[9] = Do("check", K("complete", "smoke"))
BY DEF SmokeScript, FundSteps, MandateSteps, SmokeRequestSteps, SmokeFinalizeSteps

LEMMA E2ESteps ==
    /\ Len(E2EScript) = 14 /\ DOMAIN E2EScript = 1..14
    /\ E2EScript[1] = Once("check", K("preflight", "e2e"))
    /\ E2EScript[2] = Do("transaction", K("request", "cancelled"))
    /\ E2EScript[3] = Do("finalize", K("finalize", "cancelled"))
    /\ E2EScript[4] = Do("safeAction", K("safe", "cancelled"))
    /\ E2EScript[5] = Do("check", K("complete", "cancelled"))
    /\ E2EScript[6] = Do("transaction", K("request", "executed"))
    /\ E2EScript[7] = Do("finalize", K("finalize", "executed"))
    /\ E2EScript[8] = Do("safeAction", K("safe", "executed"))
    /\ E2EScript[9] = Do("check", K("complete", "executed"))
    /\ E2EScript[10] = Do("transaction", K("request", "blocked"))
    /\ E2EScript[11] = Do("finalize", K("finalize", "blocked"))
    /\ E2EScript[12] = Do("check", K("complete", "blocked"))
    /\ E2EScript[13] = Do("transaction", K("packet", "smoke"))
    /\ E2EScript[14] = Do("check", K("complete", "e2e"))
BY DEF E2EScript, CancelledSteps, ExecutedSteps, BlockedSteps, PacketSteps, requestAndFinalize

StepShape(s) == s = [kind |-> s.kind, key |-> s.key, once |-> s.once] /\ s.once \in BOOLEAN
                /\ s.kind \in {"transaction", "finalize", "safeAction", "check"}
\* What every script has: steps that are numbered, and a key for each.
LEMMA ScriptFacts ==
    ASSUME NEW c \in DOMAIN Steps
    PROVE  /\ Len(Steps[c]) \in Nat \ {0} /\ DOMAIN Steps[c] = 1..Len(Steps[c])
           /\ \A i \in DOMAIN Steps[c] : StepShape(Steps[c][i])
           /\ \A i, j \in DOMAIN Steps[c] : Steps[c][i].key = Steps[c][j].key => i = j
<1>1. \A kd, k : Do(kd, k).kind = kd /\ Do(kd, k).key = k /\ Once(kd, k).kind = kd /\ Once(kd, k).key = k
  BY DEF Do, Once
<1>2. \A k : \A kd \in {"transaction", "finalize", "safeAction", "check"} : StepShape(Do(kd, k)) /\ StepShape(Once(kd, k))
  BY DEF Do, Once, StepShape
<1>3. \A i \in 1..9 : StepShape(SmokeScript[i])
  BY <1>2, SmokeSteps
<1>4. \A i \in 1..14 : StepShape(E2EScript[i])
  BY <1>2, E2ESteps
<1>5. \A o, p, q, r : K(o, p) = K(q, r) => o = q /\ p = r
  BY DEF K
<1>6. \A i, j \in 1..9 : SmokeScript[i].key = SmokeScript[j].key => i = j
  BY <1>1, <1>5, SmokeSteps
<1>7. \A i, j \in 1..14 : E2EScript[i].key = E2EScript[j].key => i = j
  BY <1>1, <1>5, E2ESteps
<1>8. Steps["smoke"] = SmokeScript /\ Steps["e2e"] = E2EScript /\ c \in {"smoke", "e2e"}
  BY DEF Steps
<1>9. CASE c = "smoke"
  <2>1. Steps[c] = SmokeScript
    BY <1>8, <1>9
  <2> QED BY <1>3, <1>6, <2>1, SmokeSteps
<1>10. CASE c = "e2e"
  <2>1. Steps[c] = E2EScript
    BY <1>8, <1>10
  <2> QED BY <1>4, <1>7, <2>1, E2ESteps
<1> QED BY <1>8, <1>9, <1>10

-----------------------------------------------------------------------------
(* The file, and what was sent: of any script. *)

KeysOf(c) == {Steps[c][i].key : i \in DOMAIN Steps[c]}
Marks == [status : {"none", "preparing", "broadcast", "success", "verified"}, hash : BOOLEAN]
Throws == {"crashed", "failed", "ambiguous", "reverted", "refused", "unbound"}
ControllerTypes(c) ==
    /\ stages \in [KeysOf(c) -> Marks] /\ values \subseteq KeysOf(c)
    /\ pos \in DOMAIN Steps[c] /\ step \in Throws \cup {"enter", "send", "persist", "wait", "complete"}
    /\ unmined \subseteq KeysOf(c) /\ mined \in [KeysOf(c) -> {"none", "success", "reverted"}]
    /\ sends \in [KeysOf(c) -> {0, 1}]
\* What the file says of a key, and what became of it. Only a stage that was never marked was
\* never sent for sure.
EntryOK(st, n, m, unm) ==
    /\ st.status = "none" => n = 0 /\ ~st.hash
    /\ st.hash => n = 1
    /\ st.status = "success" => m = "success"
    /\ unm => n = 1 /\ m = "none"
    /\ m # "none" => n = 1
AtStep(s, st, n, where) ==
    /\ where \in {"send", "persist", "wait"} => s.kind # "check"
    /\ where = "send" => st.status = "preparing" /\ n = 0
    /\ where = "persist" => n = 1
FileInv(c) ==
    /\ ControllerTypes(c)
    /\ \A k \in KeysOf(c) : EntryOK(stages[k], sends[k], mined[k], k \in unmined)
    /\ AtStep(Steps[c][pos], stages[Steps[c][pos].key], sends[Steps[c][pos].key], step)
    /\ \A i \in DOMAIN Steps[c] : Steps[c][i].kind = "check" => sends[Steps[c][i].key] = 0

LEMMA KeysAre == ASSUME NEW c \in DOMAIN Steps PROVE Of(c)!Keys = KeysOf(c)
BY DEF Of!Keys, KeysOf

\* What a step of the file does to it: key k, mark st, and n the transactions sent for it.
LEMMA FileInitial == ASSUME NEW c \in DOMAIN Steps, Of(c)!Init PROVE FileInv(c)
<1>1. 1 \in DOMAIN Steps[c] /\ \A i \in DOMAIN Steps[c] : Steps[c][i].key \in KeysOf(c)
  BY ScriptFacts DEF KeysOf
<1>2. /\ stages = [k \in KeysOf(c) |-> [status |-> "none", hash |-> FALSE]] /\ values = {}
      /\ pos = 1 /\ step = "enter" /\ unmined = {}
      /\ sends = [k \in KeysOf(c) |-> 0] /\ mined = [k \in KeysOf(c) |-> "none"]
  BY KeysAre DEF Of!Init, Of!NoStage
<1>3. ControllerTypes(c)
  BY <1>1, <1>2 DEF ControllerTypes, Marks
<1>4. \A k \in KeysOf(c) : EntryOK(stages[k], sends[k], mined[k], k \in unmined)
  BY <1>2 DEF EntryOK
<1> QED BY <1>1, <1>2, <1>3, <1>4 DEF FileInv, AtStep

\* The next step, or the end of the script.
LEMMA NextStepIs ==
    ASSUME NEW c \in DOMAIN Steps, FileInv(c), Of(c)!NextStep
    PROVE  /\ pos' \in DOMAIN Steps[c] /\ step' \in {"enter", "complete"}
           /\ \/ pos = Len(Steps[c]) /\ pos' = pos /\ step' = "complete"
              \/ pos' = pos + 1 /\ step' = "enter"
<1> QED BY ScriptFacts DEF FileInv, ControllerTypes, Of!NextStep

\* A mark at the current key, and what it leaves alone.
LEMMA MarkKeeps ==
    ASSUME NEW c \in DOMAIN Steps, FileInv(c), NEW st \in Marks, NEW k \in KeysOf(c),
           stages' = [stages EXCEPT ![k] = st], UNCHANGED <<sends, unmined, mined>>,
           EntryOK(st, sends[k], mined[k], k \in unmined),
           values' \subseteq KeysOf(c), pos' \in DOMAIN Steps[c],
           step' \in Throws \cup {"enter", "send", "persist", "wait", "complete"},
           AtStep(Steps[c][pos'], stages'[Steps[c][pos'].key], sends[Steps[c][pos'].key], step')
    PROVE  FileInv(c)'
<1>1. stages' \in [KeysOf(c) -> Marks] /\ stages'[k] = st /\ \A l \in KeysOf(c) \ {k} : stages'[l] = stages[l]
  BY DEF FileInv, ControllerTypes
<1>2. ControllerTypes(c)'
  BY <1>1 DEF FileInv, ControllerTypes
<1>3. \A l \in KeysOf(c) : EntryOK(stages'[l], sends[l], mined[l], l \in unmined)
  BY <1>1 DEF FileInv
<1> QED BY <1>2, <1>3 DEF FileInv

\* The step the script is at.
LEMMA HereIs ==
    ASSUME NEW c \in DOMAIN Steps, FileInv(c)
    PROVE  /\ Of(c)!key = Steps[c][pos].key /\ Of(c)!kind = Steps[c][pos].kind
           /\ Steps[c][pos].key \in KeysOf(c) /\ pos \in DOMAIN Steps[c]
           /\ stages[Steps[c][pos].key] \in Marks
           /\ EntryOK(stages[Steps[c][pos].key], sends[Steps[c][pos].key], mined[Steps[c][pos].key],
                      Steps[c][pos].key \in unmined)
BY DEF Of!key, Of!kind, FileInv, ControllerTypes, KeysOf

\* Nothing but the place in the script moves.
LEMMA PlaceKeeps ==
    ASSUME NEW c \in DOMAIN Steps, FileInv(c), UNCHANGED <<stages, values, sends, unmined, mined>>,
           pos' \in DOMAIN Steps[c], step' \in Throws \cup {"enter", "wait", "complete"},
           step' = "wait" => pos' = pos /\ Steps[c][pos].kind # "check"
    PROVE  FileInv(c)'
<1>1. AtStep(Steps[c][pos'], stages'[Steps[c][pos'].key], sends'[Steps[c][pos'].key], step')
  BY DEF AtStep, Throws
<1>2. ControllerTypes(c)'
  BY DEF FileInv, ControllerTypes
<1> QED BY <1>1, <1>2 DEF FileInv

LEMMA FileEnter ==
    ASSUME NEW c \in DOMAIN Steps, FileInv(c), Of(c)!Enter PROVE FileInv(c)'
<1> DEFINE k == Steps[c][pos].key
           marked(status) == [stages[k] EXCEPT !.status = status]
<1>1. /\ Of(c)!key = k /\ Of(c)!kind = Steps[c][pos].kind /\ k \in KeysOf(c) /\ pos \in DOMAIN Steps[c]
      /\ stages[k] \in Marks /\ EntryOK(stages[k], sends[k], mined[k], k \in unmined)
  BY HereIs
<1>2. ASSUME NEW status \in {"preparing", "verified"}, Of(c)!Mark(k, status)
      PROVE  /\ marked(status) \in Marks /\ stages' = [stages EXCEPT ![k] = marked(status)]
             /\ marked(status).status = status /\ marked(status).hash = stages[k].hash
             /\ EntryOK(marked(status), sends[k], mined[k], k \in unmined)
  <2>1. stages' = [stages EXCEPT ![k] = marked(status)]
    BY <1>1, <1>2 DEF Of!Mark
  <2>2. marked(status) \in Marks /\ marked(status).status = status /\ marked(status).hash = stages[k].hash
    BY <1>1 DEF Marks
  <2> QED BY <1>1, <2>1, <2>2 DEF EntryOK
<1> HIDE DEF k
<1>3. CASE Of(c)!Skip
  <2>1. Of(c)!NextStep /\ UNCHANGED <<stages, values, sends, unmined, mined>>
    BY <1>3 DEF Of!Skip, Of!file, Of!chainSide
  <2> QED BY <2>1, NextStepIs, PlaceKeeps DEF Throws
<1>4. CASE Of(c)!EnterTransaction
  <2>1. Steps[c][pos].kind # "check" /\ UNCHANGED <<values, sends, unmined, mined>>
    BY <1>1, <1>4 DEF Of!EnterTransaction, Of!chainSide
  <2>2. CASE UNCHANGED stages /\ (Of(c)!Goto("wait") \/ Of(c)!Throw("ambiguous"))
    BY <1>1, <2>1, <2>2, PlaceKeeps DEF Of!Goto, Of!Throw, Throws
  <2>3. CASE Of(c)!Fresh(k) /\ Of(c)!Mark(k, "preparing") /\ Of(c)!Goto("send")
    <3>1. pos' = pos /\ step' = "send" /\ stages[k].status = "none"
      BY <2>3 DEF Of!Goto, Of!Fresh, Of!Tracked
    <3>2. sends[k] = 0 /\ stages'[k] = marked("preparing")
      BY <1>1, <1>2, <2>3, <3>1 DEF EntryOK, FileInv, ControllerTypes
    <3>3. AtStep(Steps[c][pos'], stages'[Steps[c][pos'].key], sends[Steps[c][pos'].key], step')
      BY <1>2, <2>1, <2>3, <3>1, <3>2 DEF AtStep, k
    <3>4. values' \subseteq KeysOf(c)
      BY <2>1 DEF FileInv, ControllerTypes
    <3> QED BY <1>1, <1>2, <2>1, <2>3, <3>1, <3>3, <3>4, MarkKeeps
  <2> QED BY <1>1, <1>4, <2>2, <2>3 DEF Of!EnterTransaction
<1>5. CASE Of(c)!EnterFinalized
  BY <1>1, <1>5, PlaceKeeps DEF Of!EnterFinalized, Of!Goto, Of!Throw, Throws, Of!file, Of!chainSide
<1>6. CASE Of(c)!EnterSafeAction
  <2>1. Steps[c][pos].kind # "check" /\ UNCHANGED <<values, sends, unmined, mined>> /\ values' \subseteq KeysOf(c)
    BY <1>1, <1>6 DEF Of!EnterSafeAction, Of!chainSide, FileInv, ControllerTypes
  <2>2. CASE UNCHANGED stages /\ (Of(c)!Goto("wait") \/ Of(c)!Throw("ambiguous"))
    BY <1>1, <2>1, <2>2, PlaceKeeps DEF Of!Goto, Of!Throw, Throws
  <2>3. CASE Of(c)!Fresh(k) /\ Of(c)!Mark(k, "preparing") /\ Of(c)!Goto("send")
    <3>1. pos' = pos /\ step' = "send" /\ stages[k].status = "none"
      BY <2>3 DEF Of!Goto, Of!Fresh, Of!Tracked
    <3>2. sends[k] = 0 /\ stages'[k] = marked("preparing")
      BY <1>1, <1>2, <2>3, <3>1 DEF EntryOK, FileInv, ControllerTypes
    <3>3. AtStep(Steps[c][pos'], stages'[Steps[c][pos'].key], sends[Steps[c][pos'].key], step')
      BY <1>2, <2>1, <2>3, <3>1, <3>2 DEF AtStep, k
    <3> QED BY <1>1, <1>2, <2>1, <2>3, <3>1, <3>3, MarkKeeps
  <2>4. CASE Of(c)!Mark(k, "verified") /\ Of(c)!NextStep
    <3>1. AtStep(Steps[c][pos'], stages'[Steps[c][pos'].key], sends[Steps[c][pos'].key], step')
      BY <2>4, NextStepIs DEF AtStep
    <3> QED BY <1>1, <1>2, <2>1, <2>4, <3>1, NextStepIs, MarkKeeps
  <2> QED BY <1>1, <1>6, <2>2, <2>3, <2>4 DEF Of!EnterSafeAction
<1>7. CASE Of(c)!EnterCheck
  <2>1. UNCHANGED <<values, sends, unmined, mined>> /\ values' \subseteq KeysOf(c)
    BY <1>7 DEF Of!EnterCheck, Of!chainSide, FileInv, ControllerTypes
  <2>2. CASE Of(c)!Throw("refused") /\ UNCHANGED stages
    BY <1>1, <2>1, <2>2, PlaceKeeps DEF Of!Throw, Throws
  <2>3. CASE Of(c)!Mark(k, "verified") /\ Of(c)!NextStep
    <3>1. AtStep(Steps[c][pos'], stages'[Steps[c][pos'].key], sends[Steps[c][pos'].key], step')
      BY <2>3, NextStepIs DEF AtStep
    <3> QED BY <1>1, <1>2, <2>1, <2>3, <3>1, NextStepIs, MarkKeeps
  <2> QED BY <1>1, <1>7, <2>2, <2>3 DEF Of!EnterCheck
<1> QED BY <1>3, <1>4, <1>5, <1>6, <1>7 DEF Of!Enter

\* A transaction goes out for the current key, whose first it is.
LEMMA FileSend ==
    ASSUME NEW c \in DOMAIN Steps, FileInv(c), Of(c)!Send PROVE FileInv(c)'
<1> DEFINE k == Steps[c][pos].key
<1>1. /\ Of(c)!key = k /\ k \in KeysOf(c) /\ pos \in DOMAIN Steps[c]
      /\ stages[k] \in Marks /\ EntryOK(stages[k], sends[k], mined[k], k \in unmined)
      /\ Steps[c][pos].kind # "check" /\ sends[k] = 0 /\ stages[k].status = "preparing"
  BY HereIs DEF FileInv, AtStep, Of!Send
<1> HIDE DEF k
<1>2. UNCHANGED <<stages, values, pos, mined>> /\ step' \in {"persist", "failed"}
  BY DEF Of!Send, Of!Goto, Of!Throw, Of!file
<1>3. CASE Of(c)!Sent(k)
  <2>1. sends' \in [KeysOf(c) -> {0, 1}] /\ sends'[k] = 1 /\ \A l \in KeysOf(c) \ {k} : sends'[l] = sends[l]
    BY <1>1, <1>3 DEF Of!Sent, FileInv, ControllerTypes
  <2>2. unmined' = unmined \cup {k}
    BY <1>3 DEF Of!Sent
  <2>3. ControllerTypes(c)'
    BY <1>1, <1>2, <2>1, <2>2 DEF FileInv, ControllerTypes, Throws
  <2>4. \A l \in KeysOf(c) : EntryOK(stages'[l], sends'[l], mined'[l], l \in unmined')
    <3> TAKE l \in KeysOf(c)
    <3>1. EntryOK(stages[l], sends[l], mined[l], l \in unmined)
      BY DEF FileInv
    <3>2. mined[k] \in {"none", "success", "reverted"}
      BY <1>1 DEF FileInv, ControllerTypes
    <3> QED BY <1>1, <1>2, <2>1, <2>2, <3>1, <3>2 DEF EntryOK
  <2>5. AtStep(Steps[c][pos'], stages'[Steps[c][pos'].key], sends'[Steps[c][pos'].key], step')
    BY <1>1, <1>2, <2>1 DEF AtStep, k
  <2>6. \A i \in DOMAIN Steps[c] : Steps[c][i].kind = "check" => sends'[Steps[c][i].key] = 0
    <3> TAKE i \in DOMAIN Steps[c]
    <3>1. Steps[c][i].kind = "check" => Steps[c][i].key # k
      BY <1>1, ScriptFacts DEF k
    <3> QED BY <2>1, <3>1 DEF FileInv, KeysOf
  <2> QED BY <2>3, <2>4, <2>5, <2>6 DEF FileInv
<1>4. CASE UNCHANGED <<sends, unmined>> /\ step' = "failed"
  BY <1>1, <1>2, <1>4, PlaceKeeps DEF Throws
<1> QED BY <1>1, <1>3, <1>4 DEF Of!Send, Of!Throw

LEMMA FilePersist ==
    ASSUME NEW c \in DOMAIN Steps, FileInv(c), Of(c)!Persist PROVE FileInv(c)'
<1> DEFINE k == Steps[c][pos].key
<1>1. /\ Of(c)!key = k /\ k \in KeysOf(c) /\ pos \in DOMAIN Steps[c]
      /\ EntryOK(stages[k], sends[k], mined[k], k \in unmined)
      /\ Steps[c][pos].kind # "check" /\ sends[k] = 1
  BY HereIs DEF FileInv, AtStep, Of!Persist
<1>2. /\ stages' = [stages EXCEPT ![k] = [status |-> "broadcast", hash |-> TRUE]]
      /\ UNCHANGED <<values, sends, unmined, mined, pos>> /\ step' = "wait" /\ values' \subseteq KeysOf(c)
  BY <1>1 DEF Of!Persist, Of!Goto, Of!chainSide, FileInv, ControllerTypes
<1>3. EntryOK([status |-> "broadcast", hash |-> TRUE], sends[k], mined[k], k \in unmined)
  BY <1>1 DEF EntryOK
<1>4. AtStep(Steps[c][pos'], stages'[Steps[c][pos'].key], sends[Steps[c][pos'].key], step')
  BY <1>1, <1>2 DEF AtStep
<1> QED BY <1>1, <1>2, <1>3, <1>4, MarkKeeps DEF Marks

LEMMA FileConfirm ==
    ASSUME NEW c \in DOMAIN Steps, FileInv(c), Of(c)!Confirm PROVE FileInv(c)'
<1> DEFINE k == Steps[c][pos].key
<1>1. /\ Of(c)!key = k /\ k \in KeysOf(c) /\ pos \in DOMAIN Steps[c] /\ stages[k] \in Marks
      /\ EntryOK(stages[k], sends[k], mined[k], k \in unmined)
      /\ UNCHANGED <<sends, unmined, mined>>
  BY HereIs DEF Of!Confirm, Of!chainSide
<1>2. CASE UNCHANGED <<stages, values>> /\ (Of(c)!Throw("reverted") \/ Of(c)!Throw("failed"))
  BY <1>1, <1>2, PlaceKeeps DEF Of!Throw, Throws
<1>3. ASSUME NEW status \in {"verified", "success"}, Of(c)!Mark(k, status), mined[k] = "success",
             values' = values \cup {k}, Of(c)!NextStep
      PROVE  FileInv(c)'
  <2> DEFINE st == [stages[k] EXCEPT !.status = status]
  <2>1. st \in Marks /\ st.status = status /\ st.hash = stages[k].hash
    BY <1>1 DEF Marks
  <2>2. stages' = [stages EXCEPT ![k] = st]
    BY <1>1, <1>3 DEF Of!Mark
  <2> HIDE DEF st
  <2>3. EntryOK(st, sends[k], mined[k], k \in unmined)
    BY <1>1, <1>3, <2>1 DEF EntryOK
  <2>4. AtStep(Steps[c][pos'], stages'[Steps[c][pos'].key], sends[Steps[c][pos'].key], step')
    BY <1>3, NextStepIs DEF AtStep
  <2>5. values' \subseteq KeysOf(c)
    BY <1>1, <1>3 DEF FileInv, ControllerTypes
  <2> QED BY <1>1, <1>3, <2>1, <2>2, <2>3, <2>4, <2>5, NextStepIs, MarkKeeps
<1> QED BY <1>1, <1>2, <1>3 DEF Of!Confirm, Of!Succeeded, Of!file

LEMMA FileMine ==
    ASSUME NEW c \in DOMAIN Steps, FileInv(c), NEW k \in KeysOf(c), Of(c)!Mine(k) PROVE FileInv(c)'
<1>1. /\ k \in unmined /\ unmined' = unmined \ {k} /\ UNCHANGED <<stages, values, pos, step, sends>>
      /\ \E m \in {"success", "reverted"} : mined' = [mined EXCEPT ![k] = m]
  BY DEF Of!Mine, Of!file
<1>2. PICK m \in {"success", "reverted"} : mined' = [mined EXCEPT ![k] = m]
  BY <1>1
<1>3. mined' \in [KeysOf(c) -> {"none", "success", "reverted"}] /\ mined'[k] = m
      /\ \A l \in KeysOf(c) \ {k} : mined'[l] = mined[l]
  BY <1>2 DEF FileInv, ControllerTypes
<1>4. ControllerTypes(c)'
  BY <1>1, <1>3 DEF FileInv, ControllerTypes
<1>5. \A l \in KeysOf(c) : EntryOK(stages'[l], sends'[l], mined'[l], l \in unmined')
  <2> TAKE l \in KeysOf(c)
  <2>1. EntryOK(stages[l], sends[l], mined[l], l \in unmined)
    BY DEF FileInv
  <2> QED BY <1>1, <1>3, <2>1 DEF EntryOK
<1> QED BY <1>1, <1>4, <1>5 DEF FileInv

LEMMA FileStep ==
    ASSUME NEW c \in DOMAIN Steps, FileInv(c), Of(c)!Next PROVE FileInv(c)'
<1>1. CASE Of(c)!Run
  BY <1>1, FileEnter, FileSend, FilePersist, FileConfirm DEF Of!Run
<1>2. ASSUME NEW k \in KeysOf(c), Of(c)!Mine(k) PROVE FileInv(c)'
  BY <1>2, FileMine
<1>3. ASSUME NEW k \in KeysOf(c), Of(c)!KeeperFinalizes(k) PROVE FileInv(c)'
  <2>1. UNCHANGED <<stages, values, pos, step, sends, unmined, mined>>
    BY <1>3 DEF Of!KeeperFinalizes, Of!file
  <2> QED BY <2>1 DEF FileInv, ControllerTypes
<1>4. CASE Of(c)!Crash
  BY <1>4, PlaceKeeps DEF Of!Crash, Of!file, Of!chainSide, FileInv, ControllerTypes, Throws
<1>5. CASE Of(c)!Restart
  BY <1>5, PlaceKeeps, ScriptFacts DEF Of!Restart, Of!file, Of!chainSide, Throws
<1> QED BY <1>1, <1>2, <1>3, <1>4, <1>5, KeysAre DEF Of!Next

-----------------------------------------------------------------------------
(* The chain under the end-to-end script: ten states, one after the other. *)

FirstOf(n) == IF n = "cancelled" THEN 0 ELSE IF n = "executed" THEN 3 ELSE 6
Last(n) == IF n = "cancelled" THEN "Cancelled" ELSE IF n = "executed" THEN "Executed" ELSE "Blocked"
StateAt(n, j) ==
    IF n = "smoke" THEN "Executed"
    ELSE IF j <= FirstOf(n) THEN "None"
    ELSE IF j = FirstOf(n) + 1 THEN "Requested"
    ELSE IF j = FirstOf(n) + 2 /\ n # "blocked" THEN "AwaitingSafeApproval"
    ELSE Last(n)
DecidedAt(n, j) ==
    IF n = "smoke" THEN "EXECUTE"
    ELSE IF j <= FirstOf(n) THEN "none"
    ELSE IF n = "blocked" THEN "BLOCK" ELSE "ESCALATE"
LedgerShape(x) ==
    x = [treasury |-> x.treasury, mandate |-> x.mandate, budget |-> x.budget, payee |-> x.payee,
         packets |-> x.packets, decided |-> x.decided, state |-> x.state]
Milestone(x, j) ==
    /\ LedgerShape(x) /\ x.treasury = "wrapped" /\ x.mandate = "Active"
    /\ x.budget = (IF j \in {0, 3} THEN 75 ELSE 15) /\ x.payee = (IF j >= 6 THEN 85 ELSE 25)
    /\ x.packets = (IF j = 9 THEN 1 ELSE 0)
    /\ x.decided = [n \in Names |-> x.decided[n]] /\ x.state = [n \in Names |-> x.state[n]]
    /\ \A n \in Names : x.state[n] = StateAt(n, j) /\ x.decided[n] = DecidedAt(n, j)

LEMMA NamesAre == /\ Names = {"smoke", "cancelled", "executed", "blocked"} /\ amount["smoke"] = 25
                  /\ amount["cancelled"] = 60 /\ amount["executed"] = 60 /\ amount["blocked"] = 500
BY DEF Names, amount

LEMMA StartsAtZero == Milestone(AfterSmoke, 0)
<1>1. PICK D : D = [n \in Names |-> IF n = "smoke" THEN "EXECUTE" ELSE "none"]
  OBVIOUS
<1>2. PICK S : S = [n \in Names |-> IF n = "smoke" THEN "Executed" ELSE "None"]
  OBVIOUS
<1>3. D = [[n \in Names |-> "none"] EXCEPT !["smoke"] = "EXECUTE"]
  BY <1>1, NamesAre
<1>4. S = [[n \in Names |-> "None"] EXCEPT !["smoke"] = "Executed"]
  BY <1>2, NamesAre
<1>5. PICK x : x = [treasury |-> "wrapped", mandate |-> "Active", budget |-> 75, payee |-> 25, packets |-> 0,
                    decided |-> D, state |-> S]
  OBVIOUS
<1>6. x = AfterSmoke
  <2>1. PICK u : u = [treasury |-> "empty", mandate |-> "none", budget |-> budget, payee |-> 0, packets |-> 0,
                      decided |-> [n \in Names |-> "none"], state |-> [n \in Names |-> "None"]]
    OBVIOUS
  <2>2. AfterSmoke = [u EXCEPT !.treasury = "wrapped", !.mandate = "Active", !.budget = 75, !.payee = 25,
                      !.decided["smoke"] = "EXECUTE", !.state["smoke"] = "Executed"]
    BY Zenon, <2>1 DEF AfterSmoke, Untouched
  <2>3. D = [u.decided EXCEPT !["smoke"] = "EXECUTE"] /\ S = [u.state EXCEPT !["smoke"] = "Executed"]
    BY <1>3, <1>4, <2>1
  <2> QED BY <1>5, <2>1, <2>2, <2>3
<1>7. Milestone(x, 0)
  BY <1>1, <1>2, <1>5, NamesAre DEF Milestone, LedgerShape, StateAt, DecidedAt, FirstOf
<1> QED BY <1>6, <1>7

LEMMA RequestMoves ==
    ASSUME NEW x, NEW n \in {"cancelled", "executed", "blocked"}, Milestone(x, FirstOf(n))
    PROVE  Milestone(ScriptEffect(K("request", n), x), FirstOf(n) + 1)
<1>1. PICK d : d = Decision(n, x)
  OBVIOUS
<1>2. d = IF n = "blocked" THEN "BLOCK" ELSE "ESCALATE"
  <2>1. x.budget = IF n = "blocked" THEN 15 ELSE 75
    BY DEF Milestone, FirstOf
  <2>2. amount[n] = IF n = "blocked" THEN 500 ELSE 60
    BY NamesAre
  <2> QED BY <1>1, <2>1, <2>2 DEF Decision, autoLimit
<1>3. PICK b : b = IF d = "BLOCK" THEN x.budget ELSE x.budget - amount[n]
  OBVIOUS
<1>4. b = 15
  BY <1>2, <1>3, NamesAre DEF Milestone, FirstOf
<1>5. PICK y : y = [treasury |-> x.treasury, mandate |-> x.mandate, budget |-> b, payee |-> x.payee, packets |-> x.packets,
                    decided |-> [x.decided EXCEPT ![n] = d], state |-> [x.state EXCEPT ![n] = "Requested"]]
  OBVIOUS
<1>6. y = ScriptEffect(K("request", n), x)
  BY <1>1, <1>3, <1>5 DEF ScriptEffect, K, Milestone, LedgerShape
<1>7. Milestone(y, FirstOf(n) + 1)
  <2>1. /\ LedgerShape(y) /\ y.treasury = "wrapped" /\ y.mandate = "Active"
        /\ y.decided = [m \in Names |-> y.decided[m]] /\ y.state = [m \in Names |-> y.state[m]]
    BY <1>5, NamesAre DEF LedgerShape, Milestone
  <2>2. \A m \in Names : y.state[m] = (IF m = n THEN "Requested" ELSE x.state[m]) /\ y.decided[m] = (IF m = n THEN d ELSE x.decided[m])
    BY <1>5, NamesAre DEF Milestone
  <2>3. \A m \in Names : y.state[m] = StateAt(m, FirstOf(n) + 1)
    BY <2>2, NamesAre DEF Milestone, StateAt, FirstOf, Last
  <2>4. \A m \in Names : y.decided[m] = DecidedAt(m, FirstOf(n) + 1)
    BY <1>2, <2>2, NamesAre DEF Milestone, DecidedAt, FirstOf
  <2>5. /\ y.budget = (IF FirstOf(n) + 1 \in {0, 3} THEN 75 ELSE 15) /\ y.payee = (IF FirstOf(n) + 1 >= 6 THEN 85 ELSE 25)
        /\ y.packets = (IF FirstOf(n) + 1 = 9 THEN 1 ELSE 0)
    BY <1>4, <1>5 DEF Milestone, FirstOf
  <2> QED BY <2>1, <2>3, <2>4, <2>5 DEF Milestone
<1> QED BY <1>6, <1>7

LEMMA FinalizeMoves ==
    ASSUME NEW x, NEW n \in {"cancelled", "executed", "blocked"}, Milestone(x, FirstOf(n) + 1)
    PROVE  Milestone(ScriptEffect(K("finalize", n), x), FirstOf(n) + 2)
<1>1. x.decided[n] = IF n = "blocked" THEN "BLOCK" ELSE "ESCALATE"
  BY NamesAre DEF Milestone, DecidedAt, FirstOf
<1>2. PICK w : w = IF n = "blocked" THEN "Blocked" ELSE "AwaitingSafeApproval"
  OBVIOUS
<1>3. PICK y : y = [treasury |-> x.treasury, mandate |-> x.mandate, budget |-> x.budget, payee |-> x.payee, packets |-> x.packets,
                    decided |-> x.decided, state |-> [x.state EXCEPT ![n] = w]]
  OBVIOUS
<1>4. y = ScriptEffect(K("finalize", n), x)
  BY <1>1, <1>2, <1>3 DEF ScriptEffect, K, Milestone, LedgerShape
<1>5. Milestone(y, FirstOf(n) + 2)
  <2>1. /\ LedgerShape(y) /\ y.treasury = "wrapped" /\ y.mandate = "Active"
        /\ y.decided = [m \in Names |-> y.decided[m]] /\ y.state = [m \in Names |-> y.state[m]]
    BY <1>3, NamesAre DEF LedgerShape, Milestone
  <2>2. \A m \in Names : y.state[m] = (IF m = n THEN w ELSE x.state[m]) /\ y.decided[m] = x.decided[m]
    BY <1>3, NamesAre DEF Milestone
  <2>3. \A m \in Names : y.state[m] = StateAt(m, FirstOf(n) + 2)
    BY <1>2, <2>2, NamesAre DEF Milestone, StateAt, FirstOf, Last
  <2>4. \A m \in Names : y.decided[m] = DecidedAt(m, FirstOf(n) + 2)
    BY <2>2, NamesAre DEF Milestone, DecidedAt, FirstOf
  <2>5. /\ y.budget = (IF FirstOf(n) + 2 \in {0, 3} THEN 75 ELSE 15) /\ y.payee = (IF FirstOf(n) + 2 >= 6 THEN 85 ELSE 25)
        /\ y.packets = (IF FirstOf(n) + 2 = 9 THEN 1 ELSE 0)
    BY <1>3 DEF Milestone, FirstOf
  <2> QED BY <2>1, <2>3, <2>4, <2>5 DEF Milestone
<1> QED BY <1>4, <1>5

LEMMA SafeMoves ==
    ASSUME NEW x, NEW n \in {"cancelled", "executed"}, Milestone(x, FirstOf(n) + 2)
    PROVE  Milestone(ScriptEffect(K("safe", n), x), FirstOf(n) + 3)
<1>1. PICK y : y = [treasury |-> x.treasury, mandate |-> x.mandate,
                    budget |-> IF n = "cancelled" THEN x.budget + 60 ELSE x.budget,
                    payee |-> IF n = "cancelled" THEN x.payee ELSE x.payee + 60, packets |-> x.packets,
                    decided |-> x.decided, state |-> [x.state EXCEPT ![n] = Last(n)]]
  OBVIOUS
<1>2. y = ScriptEffect(K("safe", n), x)
  <2>2. CASE n = "cancelled"
    <3>1. ScriptEffect(K("safe", n), x) = [x EXCEPT !.state["cancelled"] = "Cancelled", !.budget = @ + 60]
      BY <2>2, NamesAre DEF ScriptEffect, K
    <3> QED BY <1>1, <2>2, <3>1 DEF Milestone, LedgerShape, Last
  <2>3. CASE n = "executed"
    <3>1. ScriptEffect(K("safe", n), x) = [x EXCEPT !.state["executed"] = "Executed", !.payee = @ + 60]
      BY <2>3, NamesAre DEF ScriptEffect, K
    <3> QED BY <1>1, <2>3, <3>1 DEF Milestone, LedgerShape, Last
  <2> QED BY <2>2, <2>3
<1>3. Milestone(y, FirstOf(n) + 3)
  <2>1. /\ LedgerShape(y) /\ y.treasury = "wrapped" /\ y.mandate = "Active"
        /\ y.decided = [m \in Names |-> y.decided[m]] /\ y.state = [m \in Names |-> y.state[m]]
    BY <1>1, NamesAre DEF LedgerShape, Milestone
  <2>2. \A m \in Names : y.state[m] = (IF m = n THEN Last(n) ELSE x.state[m]) /\ y.decided[m] = x.decided[m]
    BY <1>1, NamesAre DEF Milestone
  <2>3. \A m \in Names : y.state[m] = StateAt(m, FirstOf(n) + 3)
    BY <2>2, NamesAre DEF Milestone, StateAt, FirstOf, Last
  <2>4. \A m \in Names : y.decided[m] = DecidedAt(m, FirstOf(n) + 3)
    BY <2>2, NamesAre DEF Milestone, DecidedAt, FirstOf
  <2>5. /\ y.budget = (IF FirstOf(n) + 3 \in {0, 3} THEN 75 ELSE 15) /\ y.payee = (IF FirstOf(n) + 3 >= 6 THEN 85 ELSE 25)
        /\ y.packets = (IF FirstOf(n) + 3 = 9 THEN 1 ELSE 0)
    BY <1>1 DEF Milestone, FirstOf
  <2> QED BY <2>1, <2>3, <2>4, <2>5 DEF Milestone
<1> QED BY <1>2, <1>3

LEMMA PacketMoves ==
    ASSUME NEW x, Milestone(x, 8) PROVE Milestone(ScriptEffect(K("packet", "smoke"), x), 9)
<1>1. PICK y : y = [treasury |-> x.treasury, mandate |-> x.mandate, budget |-> x.budget, payee |-> x.payee,
                    packets |-> x.packets + 1, decided |-> x.decided, state |-> x.state]
  OBVIOUS
<1>2. y = ScriptEffect(K("packet", "smoke"), x)
  BY <1>1 DEF ScriptEffect, K, Milestone, LedgerShape
<1>3. Milestone(y, 9)
  BY <1>1, NamesAre DEF Milestone, LedgerShape, StateAt, DecidedAt, FirstOf, Last
<1> QED BY <1>2, <1>3

\* When a request is in which state.
LEMMA StatesTell ==
    ASSUME NEW x, NEW j \in 0..9, Milestone(x, j)
    PROVE  /\ \A n \in {"cancelled", "executed", "blocked"} : x.state[n] = "Requested" <=> j = FirstOf(n) + 1
           /\ \A n \in {"cancelled", "executed"} : x.state[n] = "AwaitingSafeApproval" <=> j = FirstOf(n) + 2
           /\ \A n \in {"cancelled", "executed"} : x.state[n] = Last(n) <=> j >= FirstOf(n) + 3
           /\ x.state["blocked"] = "Blocked" <=> j >= 8
           /\ x.packets > 0 <=> j = 9
<1> QED BY NamesAre DEF Milestone, StateAt, FirstOf, Last

LEMMA LastIsEvidence == ASSUME NEW x, Milestone(x, 9) PROVE Evidence(x)
<1>1. x.state["smoke"] = "Executed" /\ x.state["cancelled"] = "Cancelled" /\ x.state["executed"] = "Executed"
      /\ x.state["blocked"] = "Blocked" /\ x.budget = 15 /\ x.payee = 85 /\ x.packets = 1
  BY NamesAre DEF Milestone, StateAt, FirstOf, Last
<1>2. x.state = [n \in {"smoke", "cancelled", "executed", "blocked"} |-> x.state[n]]
  BY NamesAre DEF Milestone
<1>3. x.state = [smoke |-> "Executed", cancelled |-> "Cancelled", executed |-> "Executed", blocked |-> "Blocked"]
  BY <1>1, <1>2
<1> QED BY <1>1, <1>3 DEF Evidence

-----------------------------------------------------------------------------
(* What the scripts' own steps do, of any script. *)

\* The chain is others'; what is sent is sent for the current key, and a Safe execution is
\* verified only at its target.
LEMMA RunIs ==
    ASSUME NEW c \in DOMAIN Steps, FileInv(c), Of(c)!Run
    PROVE  /\ UNCHANGED <<chain, mined>>
           /\ \A k \in KeysOf(c) : sends'[k] = sends[k] \/ k = Steps[c][pos].key
           /\ \A i \in DOMAIN Steps[c] :
                Steps[c][i].kind = "safeAction" /\ stages'[Steps[c][i].key].status = "verified"
                  => stages[Steps[c][i].key].status = "verified" \/ ScriptReached(Steps[c][i].key, chain)
<1> DEFINE k == Steps[c][pos].key
<1>1. /\ Of(c)!key = k /\ Of(c)!kind = Steps[c][pos].kind /\ k \in KeysOf(c) /\ pos \in DOMAIN Steps[c]
      /\ stages \in [KeysOf(c) -> Marks] /\ sends \in [KeysOf(c) -> {0, 1}]
  BY HereIs DEF FileInv, ControllerTypes
<1>2. ASSUME NEW i \in DOMAIN Steps[c], Steps[c][i].key = k PROVE i = pos
  BY <1>1, <1>2, ScriptFacts
<1>3. \A i \in DOMAIN Steps[c] : Steps[c][i].key \in KeysOf(c)
  BY DEF KeysOf
<1> DEFINE Keeps == \A i \in DOMAIN Steps[c] :
                Steps[c][i].kind = "safeAction" /\ stages'[Steps[c][i].key].status = "verified"
                  => stages[Steps[c][i].key].status = "verified" \/ ScriptReached(Steps[c][i].key, chain)
<1> HIDE DEF k
<1>4. stages' = stages => Keeps
  OBVIOUS
<1>5. ASSUME NEW st \in Marks, stages' = [stages EXCEPT ![k] = st],
             st.status = "verified" /\ Steps[c][pos].kind = "safeAction" => ScriptReached(k, chain)
      PROVE  Keeps
  <2> TAKE i \in DOMAIN Steps[c]
  <2>1. CASE Steps[c][i].key = k
    BY <1>1, <1>2, <1>5, <2>1
  <2>2. CASE Steps[c][i].key # k
    BY <1>1, <1>3, <1>5, <2>2
  <2> QED BY <2>1, <2>2
<1>6. ASSUME NEW status \in {"preparing", "verified", "success"}, Of(c)!Mark(k, status),
             status = "verified" /\ Steps[c][pos].kind = "safeAction" => ScriptReached(k, chain)
      PROVE  Keeps
  <2> DEFINE st == [stages[k] EXCEPT !.status = status]
  <2>1. st \in Marks /\ st.status = status /\ stages' = [stages EXCEPT ![k] = st]
    BY <1>1, <1>6 DEF Of!Mark, Marks
  <2> QED BY <1>5, <1>6, <2>1
<1>7. CASE Of(c)!Enter
  <2>1. UNCHANGED <<chain, mined, sends>>
    BY <1>7 DEF Of!Enter, Of!Skip, Of!EnterTransaction, Of!EnterFinalized, Of!EnterSafeAction, Of!EnterCheck, Of!chainSide
  <2>2. Of(c)!Skip \/ Of(c)!EnterFinalized => UNCHANGED stages
    BY DEF Of!Skip, Of!EnterFinalized, Of!file
  <2>3. Of(c)!EnterTransaction => UNCHANGED stages \/ Of(c)!Mark(k, "preparing")
    BY <1>1 DEF Of!EnterTransaction
  <2>4. Of(c)!EnterSafeAction =>
           UNCHANGED stages \/ Of(c)!Mark(k, "preparing") \/ (Of(c)!Mark(k, "verified") /\ ScriptReached(k, chain))
    BY <1>1 DEF Of!EnterSafeAction
  <2>5. Of(c)!EnterCheck => UNCHANGED stages \/ (Of(c)!Mark(k, "verified") /\ Steps[c][pos].kind = "check")
    BY <1>1 DEF Of!EnterCheck
  <2>6. Keeps
    BY <1>4, <1>6, <1>7, <2>2, <2>3, <2>4, <2>5 DEF Of!Enter
  <2> QED BY <2>1, <2>6
<1>8. CASE Of(c)!Send
  <2>1. UNCHANGED <<chain, mined, stages>> /\ (sends' = sends \/ sends' = [sends EXCEPT ![k] = @ + 1])
    BY <1>1, <1>8 DEF Of!Send, Of!Sent, Of!file
  <2>2. \A l \in KeysOf(c) : sends'[l] = sends[l] \/ l = k
    BY <1>1, <2>1
  <2> QED BY <1>4, <2>1, <2>2 DEF k
<1>9. CASE Of(c)!Persist
  <2>1. UNCHANGED <<chain, mined, sends>> /\ stages' = [stages EXCEPT ![k] = [status |-> "broadcast", hash |-> TRUE]]
    BY <1>1, <1>9 DEF Of!Persist, Of!chainSide
  <2>2. [status |-> "broadcast", hash |-> TRUE] \in Marks /\ [status |-> "broadcast", hash |-> TRUE].status # "verified"
    BY DEF Marks
  <2> QED BY <1>5, <2>1, <2>2
<1>10. CASE Of(c)!Confirm
  <2>1. UNCHANGED <<chain, mined, sends>>
    BY <1>10 DEF Of!Confirm, Of!chainSide
  <2>2. \/ UNCHANGED stages
        \/ Of(c)!Mark(k, "verified") /\ ScriptReached(k, chain)
        \/ Of(c)!Mark(k, "success")
    BY <1>1, <1>10 DEF Of!Confirm, Of!file
  <2> QED BY <1>4, <1>6, <2>1, <2>2
<1> QED BY <1>7, <1>8, <1>9, <1>10 DEF Of!Run

\* The script goes on past a Safe action at its target, past a check that holds.
LEMMA RunPasses ==
    ASSUME NEW c \in DOMAIN Steps, FileInv(c), Of(c)!Run
    PROVE  \/ pos' = pos /\ step' # "complete"
           \/ /\ \/ pos = Len(Steps[c]) /\ pos' = pos
                 \/ pos' = pos + 1 /\ step' # "complete"
              /\ ~Steps[c][pos].once => 
                    /\ Steps[c][pos].kind = "safeAction" => ScriptReached(Steps[c][pos].key, chain)
                    /\ Steps[c][pos].kind = "check" => ScriptHolds(Steps[c][pos].key, chain, stages)
<1> DEFINE k == Steps[c][pos].key
           Passes == ~Steps[c][pos].once => 
                    /\ Steps[c][pos].kind = "safeAction" => ScriptReached(k, chain)
                    /\ Steps[c][pos].kind = "check" => ScriptHolds(k, chain, stages)
<1>1. Of(c)!key = k /\ Of(c)!kind = Steps[c][pos].kind
  BY HereIs
<1>2. (\E why \in Throws \cup {"enter", "send", "persist", "wait"} : Of(c)!Throw(why) \/ Of(c)!Goto(why))
        => pos' = pos /\ step' # "complete"
  BY DEF Of!Throw, Of!Goto, Throws
<1>3. Of(c)!NextStep => \/ pos = Len(Steps[c]) /\ pos' = pos
                        \/ pos' = pos + 1 /\ step' # "complete"
  BY NextStepIs
<1> HIDE DEF k
<1>4. CASE Of(c)!Enter
  <2>1. Of(c)!Skip => Of(c)!NextStep /\ Steps[c][pos].once
    BY DEF Of!Skip, Of!Skipped
  <2>2. Of(c)!EnterTransaction => Of(c)!Goto("wait") \/ Of(c)!Goto("send") \/ Of(c)!Throw("ambiguous")
    BY DEF Of!EnterTransaction
  <2>3. Of(c)!EnterFinalized => Of(c)!Goto("wait") \/ Of(c)!Throw("unbound")
    BY DEF Of!EnterFinalized
  <2>4. Of(c)!EnterSafeAction =>
          \/ Of(c)!Goto("wait") \/ Of(c)!Goto("send") \/ Of(c)!Throw("ambiguous")
          \/ Of(c)!NextStep /\ ScriptReached(k, chain) /\ Steps[c][pos].kind = "safeAction"
    BY <1>1 DEF Of!EnterSafeAction
  <2>5. Of(c)!EnterCheck =>
          \/ Of(c)!Throw("refused")
          \/ Of(c)!NextStep /\ ScriptHolds(k, chain, stages) /\ Steps[c][pos].kind = "check"
    BY <1>1 DEF Of!EnterCheck
  <2>6. (\E why \in Throws \cup {"enter", "send", "persist", "wait"} : Of(c)!Throw(why) \/ Of(c)!Goto(why))
        \/ (Of(c)!NextStep /\ Passes)
    BY <1>4, <2>1, <2>2, <2>3, <2>4, <2>5 DEF Of!Enter, Throws
  <2> QED BY <1>2, <1>3, <2>6 DEF k
<1>5. CASE Of(c)!Send \/ Of(c)!Persist
  BY <1>2, <1>5 DEF Of!Send, Of!Persist, Throws
<1>6. CASE Of(c)!Confirm
  <2>1. \/ Of(c)!NextStep /\ (Steps[c][pos].kind = "safeAction" => ScriptReached(k, chain))
        \/ Of(c)!Throw("reverted") \/ Of(c)!Throw("failed")
    BY <1>1, <1>6 DEF Of!Confirm
  <2>2. Steps[c][pos].kind # "check"
    BY <1>6 DEF Of!Confirm, FileInv, AtStep
  <2> QED BY <1>2, <1>3, <2>1, <2>2 DEF k, Throws
<1> QED BY <1>4, <1>5, <1>6 DEF Of!Run

-----------------------------------------------------------------------------
(* The smoke script. *)

Activate == K("activate", "smoke")
Propose == K("propose", "smoke")
\* Once proposed for good, a mandate that was activated stays so.
SmokeInv ==
    /\ FileInv("smoke") /\ LedgerShape(chain)
    /\ chain.mandate # "none" => mined[Propose] = "success"
    /\ stages[Activate].status = "verified" => chain.mandate = "Active"

LEMMA SmokeFacts ==
    /\ "smoke" \in DOMAIN Steps /\ Steps["smoke"] = SmokeScript
    /\ StartsAt["smoke"] = Untouched /\ HasKeeper["smoke"] = FALSE
    /\ Activate = SmokeScript[6].key /\ SmokeScript[6].kind = "safeAction" /\ 6 \in DOMAIN SmokeScript
    /\ \A i \in DOMAIN SmokeScript : SmokeScript[i].kind = "safeAction" => i = 6
    /\ Propose \in KeysOf("smoke") /\ Activate \in KeysOf("smoke")
<1>1. Steps["smoke"] = SmokeScript /\ "smoke" \in DOMAIN Steps /\ StartsAt["smoke"] = Untouched /\ HasKeeper["smoke"] = FALSE
  BY DEF Steps, StartsAt, HasKeeper
<1>2. \A kd, k : Do(kd, k).kind = kd /\ Do(kd, k).key = k /\ Once(kd, k).kind = kd /\ Once(kd, k).key = k
  BY DEF Do, Once
<1>3. \A i \in 1..9 : SmokeScript[i].kind = "safeAction" => i = 6
  BY <1>2, SmokeSteps
<1>4. SmokeScript[6].key = Activate /\ SmokeScript[6].kind = "safeAction" /\ SmokeScript[5].key = Propose
  BY <1>2, SmokeSteps DEF Activate, Propose
<1>5. 5 \in DOMAIN SmokeScript /\ 6 \in DOMAIN SmokeScript
  BY SmokeSteps
<1> QED BY <1>1, <1>3, <1>4, <1>5, SmokeSteps DEF KeysOf

LEMMA UntouchedIs == LedgerShape(Untouched) /\ Untouched.mandate = "none"
BY DEF Untouched, LedgerShape

\* What a transaction of the script does to the mandate.
LEMMA SmokeEffect ==
    ASSUME NEW x, LedgerShape(x), NEW k \in KeysOf("smoke")
    PROVE  /\ LedgerShape(ScriptEffect(k, x))
           /\ ScriptEffect(k, x).mandate # "none" => k = Propose \/ x.mandate # "none" \/ ~ScriptValid(k, x)
           /\ k # Propose /\ x.mandate = "Active" => ScriptEffect(k, x).mandate = "Active"
<1>1. \A kd, l : Do(kd, l).key = l /\ Once(kd, l).key = l
  BY DEF Do, Once
<1>2. PICK i \in 1..9 : k = SmokeScript[i].key
  BY SmokeFacts, SmokeSteps DEF KeysOf
<1>3. \E op \in {"preflight", "faucet", "approve", "wrap", "propose", "activate", "request", "finalize", "complete"} :
         k = K(op, "smoke")
  BY <1>1, <1>2, SmokeSteps
<1>4. PICK op \in {"preflight", "faucet", "approve", "wrap", "propose", "activate", "request", "finalize", "complete"} :
         k = K(op, "smoke")
  BY <1>3
<1>5. k.op = op /\ k.of = "smoke" /\ (op = "propose" => k = Propose)
  BY <1>4 DEF K, Propose
<1>6. CASE op = "propose"
  BY <1>5, <1>6 DEF ScriptEffect, LedgerShape
<1>7. CASE op = "activate"
  <2>1. ScriptValid(k, x) => x.mandate = "Proposed"
    BY <1>5, <1>7 DEF ScriptValid
  <2>2. ScriptEffect(k, x) = [x EXCEPT !.mandate = "Active"]
    BY <1>5, <1>7 DEF ScriptEffect
  <2> QED BY <2>1, <2>2 DEF LedgerShape
<1>8. CASE op \in {"faucet", "approve", "wrap"}
  <2>1. \E t : ScriptEffect(k, x) = [x EXCEPT !.treasury = t]
    BY <1>5, <1>8 DEF ScriptEffect
  <2> QED BY <2>1 DEF LedgerShape
<1>9. CASE op = "request"
  <2>1. \E s, d, b : ScriptEffect(k, x) = [x EXCEPT !.state["smoke"] = s, !.decided["smoke"] = d, !.budget = b]
    BY <1>5, <1>9 DEF ScriptEffect
  <2> QED BY <2>1 DEF LedgerShape
<1>10. CASE op = "finalize"
  <2>1. \E s, p : ScriptEffect(k, x) = [x EXCEPT !.state["smoke"] = s, !.payee = p]
    BY <1>5, <1>10 DEF ScriptEffect
  <2> QED BY <2>1 DEF LedgerShape
<1>11. CASE op \in {"preflight", "complete"}
  <2>1. ScriptEffect(k, x) = x
    BY <1>5, <1>11 DEF ScriptEffect
  <2> QED BY <2>1
<1> QED BY <1>6, <1>7, <1>8, <1>9, <1>10, <1>11

LEMMA SmokeInitial == Of("smoke")!Init => SmokeInv
<1> SUFFICES ASSUME Of("smoke")!Init PROVE SmokeInv
  OBVIOUS
<1>1. FileInv("smoke")
  BY FileInitial, SmokeFacts
<1>2. chain = Untouched /\ stages[Activate].status = "none"
  BY SmokeFacts, KeysAre DEF Of!Init, Of!NoStage
<1> QED BY <1>1, <1>2, UntouchedIs DEF SmokeInv

LEMMA SmokeStep == SmokeInv /\ Of("smoke")!Next => SmokeInv'
<1> SUFFICES ASSUME SmokeInv, Of("smoke")!Next PROVE SmokeInv'
  OBVIOUS
<1>1. FileInv("smoke") /\ FileInv("smoke")'
  BY FileStep, SmokeFacts DEF SmokeInv
<1>2. CASE Of("smoke")!Run
  <2>1. UNCHANGED <<chain, mined>>
    BY <1>1, <1>2, RunIs, SmokeFacts
  <2>2. stages'[Activate].status = "verified" => stages[Activate].status = "verified" \/ ScriptReached(Activate, chain)
    BY <1>1, <1>2, RunIs, SmokeFacts
  <2>3. ScriptReached(Activate, chain) => chain.mandate = "Active"
    BY DEF ScriptReached, Activate, K
  <2> QED BY <1>1, <2>1, <2>2, <2>3 DEF SmokeInv
<1>3. ASSUME NEW k \in KeysOf("smoke"), Of("smoke")!Mine(k) PROVE SmokeInv'
  <2>1. k \in unmined /\ mined \in [KeysOf("smoke") -> {"none", "success", "reverted"}]
    BY <1>1, <1>3 DEF Of!Mine, FileInv, ControllerTypes
  <2>2. mined[k] = "none" /\ UNCHANGED stages
    BY <1>1, <1>3, <2>1 DEF FileInv, EntryOK, Of!Mine, Of!file
  <2>3. CASE ScriptValid(k, chain) /\ chain' = ScriptEffect(k, chain) /\ mined' = [mined EXCEPT ![k] = "success"]
    <3>1. mined'[Propose] = IF k = Propose THEN "success" ELSE mined[Propose]
      BY <2>1, <2>3, SmokeFacts
    <3>2. k = Propose => chain.mandate = "none"
      BY <2>2 DEF SmokeInv
    <3> QED BY <1>1, <2>2, <2>3, <3>1, <3>2, SmokeEffect DEF SmokeInv
  <2>4. CASE UNCHANGED chain /\ mined' = [mined EXCEPT ![k] = "reverted"]
    <3>1. mined[Propose] = "success" => mined'[Propose] = "success"
      BY <2>1, <2>2, <2>4, SmokeFacts
    <3> QED BY <1>1, <2>2, <2>4, <3>1 DEF SmokeInv
  <2> QED BY <1>3, <2>3, <2>4 DEF Of!Mine
<1>4. ASSUME NEW k \in KeysOf("smoke"), Of("smoke")!KeeperFinalizes(k) PROVE SmokeInv'
  BY <1>4, SmokeFacts DEF Of!KeeperFinalizes
<1>5. CASE Of("smoke")!Crash \/ Of("smoke")!Restart
  BY <1>1, <1>5 DEF SmokeInv, Of!Crash, Of!Restart, Of!file, Of!chainSide
<1> QED BY <1>2, <1>3, <1>4, <1>5, KeysAre, SmokeFacts DEF Of!Next

-----------------------------------------------------------------------------
(* The end-to-end script. *)

Asked == {"cancelled", "executed", "blocked"}
Released == {"cancelled", "executed"}
\* What the chain at milestone j says of transactions and of the script.
Reaches(j) ==
    /\ \A n \in Asked : j > FirstOf(n) => mined[K("request", n)] = "success"
    /\ j = 9 => mined[K("packet", "smoke")] = "success"
    /\ \A n \in Asked : sends[K("request", n)] = 1 => j >= FirstOf(n)
    /\ sends[K("packet", "smoke")] = 1 => j >= 8
    /\ \A n \in Released : stages[K("safe", n)].status = "verified" => j >= FirstOf(n) + 3
    /\ pos >= 5 => j >= 3
    /\ pos >= 9 => j >= 6
    /\ pos >= 13 => j >= 8
    /\ step = "complete" => j = 9
E2EInv == FileInv("e2e") /\ \E j \in 0..9 : Milestone(chain, j) /\ Reaches(j)

LEMMA E2EFacts ==
    /\ "e2e" \in DOMAIN Steps /\ Steps["e2e"] = E2EScript /\ StartsAt["e2e"] = AfterSmoke
    /\ \A i \in 2..14 : ~E2EScript[i].once
    /\ E2EScript[2].key = K("request", "cancelled") /\ E2EScript[6].key = K("request", "executed")
    /\ E2EScript[10].key = K("request", "blocked") /\ E2EScript[13].key = K("packet", "smoke")
    /\ E2EScript[4].key = K("safe", "cancelled") /\ E2EScript[4].kind = "safeAction"
    /\ E2EScript[8].key = K("safe", "executed") /\ E2EScript[8].kind = "safeAction"
    /\ E2EScript[12].key = K("complete", "blocked") /\ E2EScript[12].kind = "check"
    /\ E2EScript[14].key = K("complete", "e2e") /\ E2EScript[14].kind = "check"
<1>1. \A kd, k : Do(kd, k).kind = kd /\ Do(kd, k).key = k /\ Do(kd, k).once = FALSE
  BY DEF Do
<1>2. \A i \in 2..14 : ~E2EScript[i].once
  BY <1>1, E2ESteps
<1> QED BY <1>1, <1>2, E2ESteps DEF Steps, StartsAt

LEMMA E2EKeys ==
    /\ \A k \in KeysOf("e2e") :
        \/ \E n \in Asked : k = K("request", n)
        \/ \E n \in Asked : k = K("finalize", n)
        \/ \E n \in Released : k = K("safe", n)
        \/ k = K("packet", "smoke")
        \/ \E i \in DOMAIN Steps["e2e"] : k = Steps["e2e"][i].key /\ Steps["e2e"][i].kind = "check"
    /\ \A n \in Asked : K("request", n) \in KeysOf("e2e")
    /\ \A n \in Released : K("safe", n) \in KeysOf("e2e")
    /\ K("packet", "smoke") \in KeysOf("e2e")
<1>1. \A kd, k : Do(kd, k).kind = kd /\ Do(kd, k).key = k /\ Once(kd, k).kind = kd /\ Once(kd, k).key = k
  BY DEF Do, Once
<1>2. \A i \in 1..14 :
        \/ \E n \in Asked : E2EScript[i].key = K("request", n)
        \/ \E n \in Asked : E2EScript[i].key = K("finalize", n)
        \/ \E n \in Released : E2EScript[i].key = K("safe", n)
        \/ E2EScript[i].key = K("packet", "smoke")
        \/ E2EScript[i].kind = "check"
  BY <1>1, E2ESteps DEF Asked, Released
<1>3. 2 \in DOMAIN E2EScript /\ 4 \in DOMAIN E2EScript /\ 6 \in DOMAIN E2EScript /\ 8 \in DOMAIN E2EScript
      /\ 10 \in DOMAIN E2EScript /\ 13 \in DOMAIN E2EScript
  BY E2ESteps
<1>4. \A n \in Asked : K("request", n) \in KeysOf("e2e")
  BY <1>3, E2EFacts DEF Asked, KeysOf
<1>5. \A n \in Released : K("safe", n) \in KeysOf("e2e")
  BY <1>3, E2EFacts DEF Released, KeysOf
<1>6. K("packet", "smoke") \in KeysOf("e2e")
  BY <1>3, E2EFacts DEF KeysOf
<1> QED BY <1>2, <1>4, <1>5, <1>6, E2EFacts, E2ESteps DEF KeysOf

LEMMA E2EInitial == Of("e2e")!Init => E2EInv
<1> SUFFICES ASSUME Of("e2e")!Init PROVE E2EInv
  OBVIOUS
<1>1. FileInv("e2e")
  BY FileInitial, E2EFacts
<1>2. /\ chain = AfterSmoke /\ pos = 1 /\ step = "enter"
      /\ \A k \in KeysOf("e2e") : stages[k].status = "none" /\ sends[k] = 0
  BY E2EFacts, KeysAre DEF Of!Init, Of!NoStage
<1>3. Milestone(chain, 0)
  BY <1>2, StartsAtZero
<1>4. Reaches(0)
  BY <1>2, E2EKeys DEF Reaches, FirstOf, Asked
<1> QED BY <1>1, <1>3, <1>4 DEF E2EInv

\* The script's own steps: what they pass is behind them.
LEMMA E2ERun ==
    ASSUME FileInv("e2e"), Of("e2e")!Run, NEW j \in 0..9, Milestone(chain, j), Reaches(j)
    PROVE  Milestone(chain', j) /\ Reaches(j)'
<1>1. /\ UNCHANGED <<chain, mined>>
      /\ \A k \in KeysOf("e2e") : sends'[k] = sends[k] \/ k = E2EScript[pos].key
      /\ \A i \in DOMAIN E2EScript :
            E2EScript[i].kind = "safeAction" /\ stages'[E2EScript[i].key].status = "verified"
              => stages[E2EScript[i].key].status = "verified" \/ ScriptReached(E2EScript[i].key, chain)
  BY RunIs, E2EFacts
<1>2. pos \in 1..14
  BY E2EFacts, E2ESteps DEF FileInv, ControllerTypes
<1>3. \A i \in 1..14 : E2EScript[i].key = E2EScript[pos].key => i = pos
  BY <1>2, ScriptFacts, E2EFacts, E2ESteps
<1>4. \A n \in Released : ScriptReached(K("safe", n), chain) => j >= FirstOf(n) + 3
  BY StatesTell DEF ScriptReached, K, Released, Last
<1>5. \A n \in Asked : sends'[K("request", n)] = 1 => j >= FirstOf(n)
  <2>1. sends'[K("request", "executed")] = 1 => j >= 3
    BY <1>1, <1>2, <1>3, E2EFacts, E2EKeys DEF Reaches, Asked, FirstOf
  <2>2. sends'[K("request", "blocked")] = 1 => j >= 6
    BY <1>1, <1>2, <1>3, E2EFacts, E2EKeys DEF Reaches, Asked, FirstOf
  <2> QED BY <2>1, <2>2 DEF Asked, FirstOf
<1>6. sends'[K("packet", "smoke")] = 1 => j >= 8
  BY <1>1, <1>2, <1>3, E2EFacts, E2EKeys DEF Reaches
<1>7. \A n \in Released : stages'[K("safe", n)].status = "verified" => j >= FirstOf(n) + 3
  <2>1. 4 \in DOMAIN E2EScript /\ 8 \in DOMAIN E2EScript
    BY E2ESteps
  <2> QED BY <1>1, <1>4, <2>1, E2EFacts DEF Reaches, Released
<1>8. \/ pos' = pos /\ step' # "complete"
      \/ /\ \/ pos = 14 /\ pos' = pos
            \/ pos' = pos + 1 /\ step' # "complete"
         /\ ~E2EScript[pos].once =>
               /\ E2EScript[pos].kind = "safeAction" => ScriptReached(E2EScript[pos].key, chain)
               /\ E2EScript[pos].kind = "check" => ScriptHolds(E2EScript[pos].key, chain, stages)
  BY RunPasses, E2EFacts, E2ESteps
<1>9. pos' = 5 => j >= 3
  BY <1>2, <1>4, <1>8, E2EFacts DEF Reaches, Released, FirstOf
<1>10. pos' = 9 => j >= 6
  BY <1>2, <1>4, <1>8, E2EFacts DEF Reaches, Released, FirstOf
<1>11. ScriptHolds(K("complete", "blocked"), chain, stages) => j >= 8
  BY StatesTell DEF ScriptHolds, K, BlockedHolds
<1>12. ScriptHolds(K("complete", "e2e"), chain, stages) => j = 9
  BY StatesTell DEF ScriptHolds, K, SnapshotsHold
<1>13. pos' = 13 => j >= 8
  BY <1>2, <1>8, <1>11, E2EFacts DEF Reaches
<1>14. step' = "complete" => j = 9
  BY <1>2, <1>8, <1>12, E2EFacts
<1>15. pos' >= 5 => j >= 3
  BY <1>2, <1>8, <1>9 DEF Reaches
<1>16. pos' >= 9 => j >= 6
  BY <1>2, <1>8, <1>10 DEF Reaches
<1>17. pos' >= 13 => j >= 8
  BY <1>2, <1>8, <1>13 DEF Reaches
<1> QED BY <1>1, <1>5, <1>6, <1>7, <1>14, <1>15, <1>16, <1>17 DEF Reaches

\* A transaction is mined with effect only where the chain is at its turn.
LEMMA E2EMoves ==
    ASSUME FileInv("e2e"), NEW j \in 0..9, Milestone(chain, j), Reaches(j), NEW k \in KeysOf("e2e"),
           k \in unmined \/ ScriptPending(k, chain), ScriptValid(k, chain)
    PROVE  /\ j + 1 \in 0..9 /\ Milestone(ScriptEffect(k, chain), j + 1)
           /\ \A n \in Asked : j + 1 > FirstOf(n) => mined[K("request", n)] = "success" \/ k = K("request", n)
           /\ j + 1 = 9 => k = K("packet", "smoke")
<1>1. k \in unmined => mined[k] = "none" /\ sends[k] = 1
  BY DEF FileInv, EntryOK
<1>2. \A n : K("request", n).op = "request" /\ K("finalize", n).op = "finalize" /\ K("safe", n).op = "safe"
             /\ K("packet", n).op = "packet" /\ K("finalize", n).of = n /\ K("safe", n).of = n
  BY DEF K
<1>3. k.op # "finalize" => k \in unmined
  BY DEF ScriptPending
<1>4. CASE \E n \in Asked : k = K("request", n)
  <2>1. PICK n \in Asked : k = K("request", n)
    BY <1>4
  <2>2. j = FirstOf(n)
    BY <1>1, <1>2, <1>3, <2>1 DEF Reaches, Asked, FirstOf
  <2>3. Milestone(ScriptEffect(k, chain), j + 1)
    BY <2>1, <2>2, RequestMoves DEF Asked
  <2>4. \A m \in Asked \ {n} : FirstOf(m) >= j + 1 \/ FirstOf(m) < j
    BY <2>1, <2>2 DEF Asked, FirstOf
  <2>5. \A m \in Asked : j + 1 > FirstOf(m) => mined[K("request", m)] = "success" \/ k = K("request", m)
    BY <2>1, <2>2, <2>4 DEF Reaches, Asked, FirstOf
  <2> QED BY <2>2, <2>3, <2>5 DEF FirstOf
<1>5. CASE \E n \in Asked : k = K("finalize", n)
  <2>1. PICK n \in Asked : k = K("finalize", n)
    BY <1>5
  <2>2. chain.state[n] = "Requested"
    BY <1>2, <2>1 DEF ScriptValid
  <2>3. j = FirstOf(n) + 1
    BY <2>1, <2>2, StatesTell DEF Asked
  <2>4. Milestone(ScriptEffect(k, chain), j + 1)
    BY <2>1, <2>3, FinalizeMoves DEF Asked, FirstOf
  <2>5. \A m \in Asked : j + 1 > FirstOf(m) => j > FirstOf(m)
    BY <2>1, <2>3 DEF Asked, FirstOf
  <2> QED BY <2>3, <2>4, <2>5 DEF FirstOf, Reaches
<1>6. CASE \E n \in Released : k = K("safe", n)
  <2>1. PICK n \in Released : k = K("safe", n)
    BY <1>6
  <2>2. chain.state[n] = "AwaitingSafeApproval"
    BY <1>2, <2>1 DEF ScriptValid
  <2>3. j = FirstOf(n) + 2
    BY <2>1, <2>2, StatesTell DEF Released
  <2>4. Milestone(ScriptEffect(k, chain), j + 1)
    BY <2>1, <2>3, SafeMoves DEF Released, FirstOf
  <2>5. \A m \in Asked : j + 1 > FirstOf(m) => j > FirstOf(m)
    BY <2>1, <2>3 DEF Asked, Released, FirstOf
  <2> QED BY <2>1, <2>3, <2>4, <2>5 DEF FirstOf, Reaches, Released
<1>7. CASE k = K("packet", "smoke")
  <2>1. j = 8
    BY <1>1, <1>2, <1>3, <1>7 DEF Reaches
  <2> QED BY <1>7, <2>1, PacketMoves DEF Reaches, Asked, FirstOf
<1>8. ASSUME NEW i \in DOMAIN Steps["e2e"], k = Steps["e2e"][i].key, Steps["e2e"][i].kind = "check" PROVE FALSE
  <2>1. sends[k] = 0 /\ k.op # "finalize"
    <3>1. \A kd, l : Do(kd, l).kind = kd /\ Do(kd, l).key = l /\ Once(kd, l).kind = kd /\ Once(kd, l).key = l
      BY DEF Do, Once
    <3>2. \A l \in 1..14 : E2EScript[l].kind = "check" => E2EScript[l].key.op # "finalize"
      BY <3>1, E2ESteps DEF K
    <3> QED BY <1>8, <3>2, E2EFacts, E2ESteps DEF FileInv
  <2> QED BY <1>1, <1>3, <2>1
<1> QED BY <1>4, <1>5, <1>6, <1>7, <1>8, E2EKeys

\* The chain goes on by one, and with it what was mined.
LEMMA E2EAdvances ==
    ASSUME NEW j \in 0..9, Reaches(j), UNCHANGED <<stages, pos, step, sends>>, NEW k \in KeysOf("e2e"),
           \A n \in Asked : j + 1 > FirstOf(n) => mined'[K("request", n)] = "success",
           j + 1 = 9 => mined'[K("packet", "smoke")] = "success", step = "complete" => j + 1 <= 9, j + 1 \in 0..9
    PROVE  Reaches(j + 1)'
<1>1. step # "complete"
  BY DEF Reaches
<1>2. \A n \in Asked : FirstOf(n) \in 0..6
  BY DEF Asked, FirstOf
<1>3. \A n \in Released : n \in Asked
  BY DEF Asked, Released
<1> QED BY <1>1, <1>2, <1>3 DEF Reaches

LEMMA E2EStep == E2EInv /\ Of("e2e")!Next => E2EInv'
<1> SUFFICES ASSUME E2EInv, Of("e2e")!Next PROVE E2EInv'
  OBVIOUS
<1>1. FileInv("e2e") /\ FileInv("e2e")'
  BY FileStep, E2EFacts DEF E2EInv
<1>2. PICK j \in 0..9 : Milestone(chain, j) /\ Reaches(j)
  BY DEF E2EInv
<1>3. CASE Of("e2e")!Run
  BY <1>1, <1>2, <1>3, E2ERun DEF E2EInv
<1>4. ASSUME NEW k \in KeysOf("e2e"), Of("e2e")!Mine(k) PROVE E2EInv'
  <2>1. k \in unmined /\ UNCHANGED <<stages, pos, step, sends>> /\ mined \in [KeysOf("e2e") -> {"none", "success", "reverted"}]
    BY <1>1, <1>4 DEF Of!Mine, Of!file, FileInv, ControllerTypes
  <2>2. mined[k] = "none"
    BY <1>1, <2>1 DEF FileInv, EntryOK
  <2>3. CASE ScriptValid(k, chain) /\ chain' = ScriptEffect(k, chain) /\ mined' = [mined EXCEPT ![k] = "success"]
    <3>1. /\ j + 1 \in 0..9 /\ Milestone(chain', j + 1)
          /\ \A n \in Asked : j + 1 > FirstOf(n) => mined[K("request", n)] = "success" \/ k = K("request", n)
          /\ j + 1 = 9 => k = K("packet", "smoke")
      BY <1>1, <1>2, <2>1, <2>3, E2EMoves
    <3>2. mined'[k] = "success" /\ \A l \in KeysOf("e2e") : mined[l] = "success" => mined'[l] = "success"
      BY <2>1, <2>3
    <3>3. Reaches(j + 1)'
      BY <1>2, <2>1, <3>1, <3>2, E2EKeys, E2EAdvances
    <3> QED BY <1>1, <3>1, <3>3 DEF E2EInv
  <2>4. CASE UNCHANGED chain /\ mined' = [mined EXCEPT ![k] = "reverted"]
    <3>1. \A l \in KeysOf("e2e") : mined[l] = "success" => mined'[l] = "success"
      BY <2>1, <2>2, <2>4
    <3>2. Reaches(j)'
      BY <1>2, <2>1, <3>1, E2EKeys DEF Reaches
    <3> QED BY <1>1, <1>2, <2>4, <3>2 DEF E2EInv
  <2> QED BY <1>4, <2>3, <2>4 DEF Of!Mine
<1>5. ASSUME NEW k \in KeysOf("e2e"), Of("e2e")!KeeperFinalizes(k) PROVE E2EInv'
  <2>1. ScriptPending(k, chain) /\ ScriptValid(k, chain) /\ chain' = ScriptEffect(k, chain)
        /\ UNCHANGED <<stages, pos, step, sends, mined>> /\ k.op = "finalize"
    BY <1>5 DEF Of!KeeperFinalizes, Of!file, ScriptPending
  <2>2. \A n : k # K("request", n) /\ k # K("packet", n)
    BY <2>1 DEF K
  <2>3. /\ j + 1 \in 0..9 /\ Milestone(chain', j + 1) /\ j + 1 # 9
        /\ \A n \in Asked : j + 1 > FirstOf(n) => mined[K("request", n)] = "success"
    BY <1>1, <1>2, <2>1, <2>2, E2EMoves
  <2>4. Reaches(j + 1)'
    BY <1>2, <2>1, <2>3, E2EAdvances
  <2> QED BY <1>1, <2>3, <2>4 DEF E2EInv
<1>6. CASE Of("e2e")!Crash \/ Of("e2e")!Restart
  <2>1. UNCHANGED <<stages, chain, sends, mined>> /\ step' # "complete" /\ (pos' = pos \/ pos' = 1)
    BY <1>6 DEF Of!Crash, Of!Restart, Of!file, Of!chainSide
  <2>2. Reaches(j)'
    BY <1>2, <2>1 DEF Reaches
  <2> QED BY <1>1, <1>2, <2>1, <2>2 DEF E2EInv
<1> QED BY <1>3, <1>4, <1>5, <1>6, KeysAre, E2EFacts DEF Of!Next

-----------------------------------------------------------------------------
(* Both scripts. *)

ScriptsInv ==
    /\ script \in DOMAIN Steps
    /\ script = "smoke" => SmokeInv
    /\ script = "e2e" => E2EInv

LEMMA ScriptNames == DOMAIN Steps = {"smoke", "e2e"}
BY DEF Steps

\* A verified Safe execution reached its target, which is not left again.
LEMMA ScriptsAreTrue ==
    ASSUME NEW c \in DOMAIN Steps, script = c, ScriptsInv PROVE Of(c)!FreshSafe
<1>1. FileInv(c)
  BY ScriptNames DEF ScriptsInv, SmokeInv, E2EInv
<1>2. \A i \in DOMAIN Steps[c] : Steps[c][i].key \in KeysOf(c)
  BY DEF KeysOf
<1>3. Of(c)!FreshTypeOK
  BY <1>1, KeysAre DEF Of!FreshTypeOK, Of!Thrown, FileInv, ControllerTypes, Marks, Throws
<1>4. Of(c)!NeverSentTwice
  BY <1>1, KeysAre DEF Of!NeverSentTwice, FileInv, ControllerTypes
<1>5. \A k \in KeysOf(c) : (stages[k].hash => sends[k] = 1) /\ (stages[k].status = "success" => mined[k] = "success")
  BY <1>1 DEF FileInv, EntryOK
<1>6. ASSUME NEW i \in DOMAIN Steps[c], Steps[c][i].kind = "safeAction", stages[Steps[c][i].key].status = "verified"
      PROVE  ScriptReached(Steps[c][i].key, chain)
  <2>1. CASE c = "smoke"
    <3>1. Steps[c][i].key = Activate
      BY <1>6, <2>1, SmokeFacts
    <3> QED BY <1>6, <2>1, <3>1 DEF ScriptsInv, SmokeInv, ScriptReached, Activate, K
  <2>2. CASE c = "e2e"
    <3>1. PICK j \in 0..9 : Milestone(chain, j) /\ Reaches(j)
      BY <2>2 DEF ScriptsInv, E2EInv
    <3>2. \A l \in 1..14 : E2EScript[l].kind = "safeAction" => \E n \in Released : E2EScript[l].key = K("safe", n)
      <4>1. \A kd, k : Do(kd, k).kind = kd /\ Do(kd, k).key = k /\ Once(kd, k).kind = kd
        BY DEF Do, Once
      <4> QED BY <4>1, E2ESteps DEF Released
    <3>3. PICK n \in Released : Steps[c][i].key = K("safe", n)
      BY <1>6, <2>2, <3>2, E2EFacts, E2ESteps
    <3>4. chain.state[n] = Last(n)
      BY <1>6, <3>1, <3>3, StatesTell DEF Reaches, Released
    <3> QED BY <3>3, <3>4 DEF ScriptReached, K, Released, Last
  <2> QED BY <2>1, <2>2, ScriptNames
<1>7. Of(c)!CheckpointIsTrue
  BY <1>5, <1>6, KeysAre DEF Of!CheckpointIsTrue
<1> QED BY <1>3, <1>4, <1>7 DEF Of!FreshSafe

LEMMA ScriptsInitial == ScriptsInit => ScriptsInv
BY SmokeInitial, E2EInitial, ScriptNames DEF ScriptsInit, ScriptsInv

LEMMA ScriptsStep == ScriptsInv /\ [ScriptsNext]_<<script, scriptVars>> => ScriptsInv'
<1> SUFFICES ASSUME ScriptsInv, [ScriptsNext]_<<script, scriptVars>> PROVE ScriptsInv'
  OBVIOUS
<1>1. CASE ScriptsNext
  BY <1>1, SmokeStep, E2EStep DEF ScriptsNext, ScriptsInv
<1>2. CASE UNCHANGED <<script, scriptVars>>
  <2>1. UNCHANGED <<script, stages, values, pos, step, chain, sends, unmined, mined>>
    BY <1>2 DEF scriptVars
  <2>2. \A c : FileInv(c) => FileInv(c)'
    BY <2>1 DEF FileInv, ControllerTypes
  <2>3. SmokeInv => SmokeInv'
    BY <2>1, <2>2 DEF SmokeInv
  <2>4. E2EInv => E2EInv'
    BY <2>1, <2>2 DEF E2EInv, Reaches
  <2> QED BY <2>1, <2>3, <2>4 DEF ScriptsInv
<1> QED BY <1>1, <1>2

\* However often a fresh-deployment script crashes, fails and is run again, it sends no
\* transaction twice, its file says only what happened (a hash was sent, a success was mined,
\* a verified Safe execution is on the chain), and a complete end-to-end run leaves exactly
\* the evidence it reports (scripts/lib/fresh-run.mjs, smoke-sepolia, e2e-sepolia).
THEOREM ScriptsAreSafe == ScriptsSpec => []FreshSafe
<1>1. ScriptsInv => FreshSafe
  <2> SUFFICES ASSUME ScriptsInv PROVE FreshSafe
    OBVIOUS
  <2>1. \A c \in DOMAIN Steps : script = c => Of(c)!FreshSafe
    BY ScriptsAreTrue
  <2>2. script = "e2e" /\ step = "complete" => Evidence(chain)
    BY LastIsEvidence DEF ScriptsInv, E2EInv, Reaches
  <2> QED BY <2>1, <2>2 DEF FreshSafe
<1> QED BY <1>1, ScriptsInitial, ScriptsStep, PTL DEF ScriptsSpec
=============================================================================
