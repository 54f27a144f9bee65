---------------------------- MODULE RpcFallback ----------------------------
(***************************************************************************)
(* The guarded RPC fallback: reads go through an ordered fallback with a   *)
(* chain guard per endpoint; a broadcast probes for one endpoint and is    *)
(* handed to it once.  Endpoints fail, lose answers and change chains; any *)
(* number of calls interleave, one action from an await to the next.       *)
(***************************************************************************)
EXTENDS Naturals, Sequences, FiniteSets, Functions

CONSTANTS
    primary, fallbackUrls,  \* the configured lists of endpoints, with repetitions
    Broadcasts, Reads,      \* the calls that may be under way
    quarantineMs, chainCheckTtlMs,
    LastSwitch,             \* bound: endpoints change chains up to this time
    MaxTime                 \* bound on the clock

RpcBounds ==
    /\ primary \in Seq(Range(primary)) /\ fallbackUrls \in Seq(Range(fallbackUrls))
    /\ primary \o fallbackUrls # <<>>
    /\ quarantineMs \in Nat /\ chainCheckTtlMs \in Nat \ {0}
    /\ LastSwitch \in Nat /\ MaxTime \in Nat \ {0}

VARIABLES
    now,
    expected,           \* the endpoints (by index) that serve the expected chain
    switchedAt,         \* when each endpoint last changed chains
    wrongOnce,          \* the endpoints that ever served another chain
    quarantineUntil, readChainVerifiedUntil,
    bcast,              \* broadcast -> pc, endpoint index and time of its probe
    sent,               \* broadcast -> the deliveries of its payload, oldest first
    read,               \* read -> pc, endpoint index and time it came to that endpoint
    readFrom            \* read -> what its answer came from

vars == <<now, expected, switchedAt, wrongOnce, quarantineUntil,
          readChainVerifiedUntil, bcast, sent, read, readFrom>>

\* parseRpcUrls: the candidates in order, the first of equal ones kept.
candidates == primary \o fallbackUrls
Kept == {i \in DOMAIN candidates : \A j \in 1 .. i - 1 : candidates[j] # candidates[i]}
PlaceOf(n) == CHOOSE i \in Kept : Cardinality({j \in Kept : j < i}) = n - 1
urls == [n \in 1 .. Cardinality(Kept) |-> candidates[PlaceOf(n)]]
Endpoints == 1 .. Len(urls)

Infinity == MaxTime + quarantineMs + 1      \* later than any time there is

NotRead == [right |-> TRUE, switched |-> 0, asked |-> 0]
NewRead == [pc |-> "new", at |-> 1, asked |-> 0]

Init ==
    /\ now = 1
    /\ expected \in SUBSET Endpoints
    /\ switchedAt = [e \in Endpoints |-> 0] /\ wrongOnce = Endpoints \ expected
    /\ quarantineUntil = [e \in Endpoints |-> 0]
    /\ readChainVerifiedUntil = [e \in Endpoints |-> 0]
    /\ bcast = [b \in Broadcasts |-> [pc |-> "new", at |-> 1, probed |-> 0]]
    /\ sent = [b \in Broadcasts |-> <<>>]
    /\ read = [r \in Reads |-> NewRead]
    /\ readFrom = [r \in Reads |-> NotRead]

environment == <<now, expected, switchedAt, wrongOnce>>

-----------------------------------------------------------------------------
(* A broadcast                                                             *)

Goto(b, pc, i) == bcast' = [bcast EXCEPT ![b].pc = pc, ![b].at = i]

\* The loop's next endpoint, or no endpoint is left.
Advance(b) == Goto(b, IF bcast[b].at = Len(urls) THEN "noEndpoint" ELSE "select", bcast[b].at + 1)

Quarantined(e) == quarantineUntil[e] > now

\* A quarantined endpoint is passed over, another one is asked for its chain.
SelectEndpoint(b) ==
    /\ bcast[b].pc \in {"new", "select"}
    /\ IF Quarantined(bcast[b].at)
       THEN Advance(b)
       ELSE Goto(b, "probe", bcast[b].at)
    /\ UNCHANGED <<environment, quarantineUntil, readChainVerifiedUntil, sent, read, readFrom>>

RightChain(e) == e \in expected

Banned(e) == quarantineUntil' = [quarantineUntil EXCEPT ![e] = Infinity]

Rested(e) == quarantineUntil' = [quarantineUntil EXCEPT ![e] = now + quarantineMs]

\* The answer to the probe, or none.
Probed(b) ==
    /\ bcast[b].pc = "probe"
    /\ LET e == bcast[b].at IN
       \/ /\ RightChain(e)
          /\ bcast' = [bcast EXCEPT ![b].pc = "send", ![b].probed = now]
          /\ UNCHANGED quarantineUntil
       \/ ~RightChain(e) /\ Banned(e) /\ Advance(b)
       \/ Rested(e) /\ Advance(b)
    /\ UNCHANGED <<environment, readChainVerifiedUntil, sent, read, readFrom>>

Deliver(b, e) ==
    sent' = [sent EXCEPT ![b] = Append(@, [to |-> e, right |-> e \in expected,
                                           probed |-> bcast[b].probed])]

\* mutant: after a failure the next endpoint is tried
TryTheNext(b) == Advance(b)

Uncertain(b) == Goto(b, "uncertain", bcast[b].at)

\* The payload is handed over: an answer, or an answer lost after or before it got there.
Send(b) ==
    /\ bcast[b].pc = "send"
    /\ LET e == bcast[b].at IN
       \/ Deliver(b, e) /\ Goto(b, "ok", e) /\ UNCHANGED quarantineUntil
       \/ Deliver(b, e) /\ Rested(e) /\ Uncertain(b)
       \/ UNCHANGED sent /\ Rested(e) /\ Uncertain(b)
    /\ UNCHANGED <<environment, readChainVerifiedUntil, read, readFrom>>

-----------------------------------------------------------------------------
(* A read                                                                  *)

NextRead(r, e) ==
    read' = [read EXCEPT ![r].pc = IF e = Len(urls) THEN "failed" ELSE "guard", ![r].at = e + 1]

Verified(e) == readChainVerifiedUntil[e] > now

\* The guard asks for the chain when the last check is too old.
Guard(r) ==
    /\ read[r].pc \in {"new", "guard"}
    /\ read' = [read EXCEPT ![r].pc = IF Verified(read[r].at) THEN "request" ELSE "check",
                            ![r].asked = now]
    /\ UNCHANGED <<environment, quarantineUntil, readChainVerifiedUntil, bcast, sent, readFrom>>

Checked(r) ==
    /\ read[r].pc = "check"
    /\ LET e == read[r].at IN
       \/ /\ RightChain(e)
          /\ readChainVerifiedUntil' = [readChainVerifiedUntil EXCEPT ![e] = now + chainCheckTtlMs]
          /\ read' = [read EXCEPT ![r].pc = "request"]
          /\ UNCHANGED quarantineUntil
       \/ ~RightChain(e) /\ Banned(e) /\ NextRead(r, e) /\ UNCHANGED readChainVerifiedUntil
       \/ NextRead(r, e) /\ UNCHANGED <<quarantineUntil, readChainVerifiedUntil>>
    /\ UNCHANGED <<environment, bcast, sent, readFrom>>

\* The fallback passes on to the next endpoint, except on an error that any of them
\* would give.
Request(r) ==
    /\ read[r].pc = "request"
    /\ LET e == read[r].at IN
       \/ /\ read' = [read EXCEPT ![r].pc = "answered"]
          /\ readFrom' = [readFrom EXCEPT ![r] =
                 [right |-> e \in expected, switched |-> switchedAt[e], asked |-> read[r].asked]]
       \/ NextRead(r, e) /\ UNCHANGED readFrom
       \/ read' = [read EXCEPT ![r].pc = "failed"] /\ UNCHANGED readFrom
    /\ UNCHANGED <<environment, quarantineUntil, readChainVerifiedUntil, bcast, sent>>

-----------------------------------------------------------------------------

\* The caller forgets a finished call and makes another.
Again ==
    /\ \/ \E b \in Broadcasts :
            /\ bcast[b].pc \in {"ok", "uncertain", "noEndpoint"}
            /\ bcast' = [bcast EXCEPT ![b] = [pc |-> "new", at |-> 1, probed |-> 0]]
            /\ sent' = [sent EXCEPT ![b] = <<>>]
            /\ UNCHANGED <<read, readFrom>>
       \/ \E r \in Reads :
            /\ read[r].pc \in {"answered", "failed"}
            /\ read' = [read EXCEPT ![r] = NewRead]
            /\ readFrom' = [readFrom EXCEPT ![r] = NotRead]
            /\ UNCHANGED <<bcast, sent>>
    /\ UNCHANGED <<environment, quarantineUntil, readChainVerifiedUntil>>

\* An endpoint starts to serve another chain, or comes back.
Switch(e) ==
    /\ now <= LastSwitch /\ switchedAt[e] < now
    /\ expected' = IF e \in expected THEN expected \ {e} ELSE expected \cup {e}
    /\ switchedAt' = [switchedAt EXCEPT ![e] = now]
    /\ wrongOnce' = wrongOnce \cup (Endpoints \ expected')
    /\ UNCHANGED <<now, quarantineUntil, readChainVerifiedUntil, bcast, sent, read, readFrom>>

Tick ==
    /\ now < MaxTime /\ now' = now + 1
    /\ UNCHANGED <<expected, switchedAt, wrongOnce, quarantineUntil,
                   readChainVerifiedUntil, bcast, sent, read, readFrom>>

BroadcastStep(b) == SelectEndpoint(b) \/ Probed(b) \/ Send(b)
ReadStep(r) == Guard(r) \/ Checked(r) \/ Request(r)

Next ==
    \/ \E b \in Broadcasts : BroadcastStep(b)
    \/ \E r \in Reads : ReadStep(r)
    \/ \E e \in Endpoints : Switch(e)
    \/ Again \/ Tick

Spec == Init /\ [][Next]_vars

-----------------------------------------------------------------------------
(* Properties                                                              *)

RpcTypeOK ==
    /\ now \in 1 .. MaxTime /\ expected \subseteq Endpoints
    /\ quarantineUntil \in [Endpoints -> 0 .. Infinity]
    /\ readChainVerifiedUntil \in [Endpoints -> 0 .. MaxTime + chainCheckTtlMs]
    /\ \A b \in Broadcasts : bcast[b].at \in 1 .. Len(urls) + 1
    /\ \A r \in Reads : read[r].at \in 1 .. Len(urls) + 1
    /\ \A i, j \in Endpoints : urls[i] = urls[j] => i = j

\* A signed payload is handed to one endpoint, once, whatever answers are lost.
OneDelivery == \A b \in Broadcasts : Len(sent[b]) <= 1

\* Only a payload that went nowhere is reported as unsent, and an answer means that it
\* was sent: a caller that retries on "no endpoint" cannot send twice.
AnswerIsHonest ==
    \A b \in Broadcasts :
        /\ bcast[b].pc = "noEndpoint" => sent[b] = <<>>
        /\ bcast[b].pc = "ok" => sent[b] # <<>>

\* A payload reaches another chain only through an endpoint that changed chains after
\* this very call had asked it.
NotToAnotherChain ==
    \A b \in Broadcasts :
        \A i \in DOMAIN sent[b] :
            sent[b][i].right \/ switchedAt[sent[b][i].to] >= sent[b][i].probed

\* An answer comes from another chain only if the endpoint changed chains less than the
\* life of a check before it was asked.
ReadsAreRecentlyChecked ==
    \A r \in Reads :
        LET x == readFrom[r]
        IN  read[r].pc = "answered" /\ ~x.right => x.asked < x.switched + chainCheckTtlMs

\* Faults alone never lose an endpoint: one that always served the chain is back within
\* the quarantine.
FaultsNeverBan ==
    \A e \in Endpoints \ wrongOnce : quarantineUntil[e] <= now + quarantineMs

\* The safety of the fallback.
RpcSafe ==
    /\ RpcTypeOK /\ OneDelivery /\ AnswerIsHonest /\ NotToAnotherChain
    /\ ReadsAreRecentlyChecked /\ FaultsNeverBan
=============================================================================
