--------------------------- MODULE Clients_proofs ---------------------------
(***************************************************************************)
(* Theorems about what runs in a page.  The disclosure, for any number of  *)
(* tabs, selections and prompts, and any refused writes, failed calls and  *)
(* closed tabs: no group is signed twice while its first signature may     *)
(* count, because its pointer is in every checkpoint a tab may go on with. *)
(* The browser, for any wallets, flights, handlers, requests, handles,     *)
(* blocks, packets, faults and moves of the visitor.                       *)
(***************************************************************************)
EXTENDS DisclosureCheckpoint, Browser, FiniteSetTheorems, WellFoundedInduction, TLAPS

-----------------------------------------------------------------------------
(* Checkpoints and prompts, as values.                                     *)

Entries     == [pending : BOOLEAN, hash : Nat]
Checkpoints == {NoCheckpoint} \cup UNION {[scope : {s}, group : [Range(s) -> Entries]] : s \in Scopes}

Statuses  == {"open", "sent", "rejected", "success", "reverted"}
PromptSeq == Seq([group : Groups, by : Tabs, status : Statuses])

\* Live and Matches, of any prompts P.
LiveOf(P, g)    == {p \in DOMAIN P : P[p].group = g /\ P[p].status \in {"open", "sent", "success"}}
MatchesOf(P, g) == {p \in DOMAIN P : P[p].group = g /\ P[p].status = "success"}

\* A stored hash is of a prompt for its group that was sent.
Tracks(c, P) ==
    \A g \in DOMAIN c.group : c.group[g].hash # 0 =>
        /\ c.group[g].hash \in DOMAIN P /\ P[c.group[g].hash].group = g
        /\ P[c.group[g].hash].status \notin {"open", "rejected"}

\* A checkpoint knows every signature that may count: where it has a hash, it is that one.
\* A are the scopes reported, F the groups forgotten.
Knows(c, P, A, F) ==
    \A s \in Scopes \ A : \A g \in Range(s) \ F : LiveOf(P, g) # {} =>
        /\ c.scope = s /\ g \in LockedGroups(c)
        /\ c.group[g].hash # 0 => LiveOf(P, g) \subseteq {c.group[g].hash}

Good(c, P, A, F) == c \in Checkpoints /\ Tracks(c, P) /\ Knows(c, P, A, F)

Pcs == {"page", "closed", "group", "prompt", "receipt", "archive"}

\* The operation of a tab that holds the lock, at group i of checkpoint c: those before are on
\* the chain, and the wallet's last request is its own while it waits for the answer.
WorkOK(where, c, i, P, A, F) ==
    /\ Good(c, P, A, F)
    /\ c.scope \in Scopes \ A /\ i \in 1 .. Len(c.scope)
    /\ where \in {"group", "prompt", "receipt", "archive"}
    /\ \A j \in 1 .. i : j < i \/ where = "archive" => MatchesOf(P, c.scope[j]) # {}
    /\ where = "archive" => i = Len(c.scope)
    /\ where = "receipt" => c.group[c.scope[i]].hash # 0
    /\ where = "prompt" =>
         /\ c.group[c.scope[i]] = [pending |-> TRUE, hash |-> 0]
         /\ Len(P) # 0 /\ P[Len(P)].group = c.scope[i]
         /\ c.scope[i] \notin F => LiveOf(P, c.scope[i]) \subseteq {Len(P)}

-----------------------------------------------------------------------------
(* The inductive invariant.                                                *)

StoreTypes ==
    /\ durable \in Checkpoints /\ volatile \in [Tabs -> Checkpoints] /\ newer \in SUBSET Tabs
    /\ screen \in [Tabs -> Checkpoints] /\ mounted \in SUBSET Tabs
OperationTypes ==
    /\ pc \in [Tabs -> Pcs] /\ ck \in [Tabs -> Checkpoints] /\ at \in [Tabs -> Nat]
    /\ lock \in SUBSET Tabs
ChainTypes ==
    /\ prompt \in PromptSeq /\ archived \in SUBSET Scopes /\ forgotten \in SUBSET Groups
    /\ faults \in Nat

WebLockInv ==
    /\ \A t, u \in lock : t = u
    /\ \A t \in Tabs \ lock : pc[t] \in {"page", "closed"} /\ at[t] = 1

\* The stores d, v, n and the screens s, for prompts P, reported scopes A and forgotten groups F.
StoresOK(d, v, n, s, P, A, F) ==
    /\ Tracks(d, P) /\ Knows(d, P, A, F)
    /\ \A t \in Tabs : Tracks(v[t], P) /\ Tracks(s[t], P)
    /\ \A t \in n : Exists(v[t]) => Knows(v[t], P, A, F)
StoresInv == StoresOK(durable, volatile, newer, screen, prompt, archived, forgotten)

WorkInv == \A t \in lock : WorkOK(pc[t], ck[t], at[t], prompt, archived, forgotten)

ChainOK(P, A, F) ==
    /\ \A g \in Groups \ F : \A p, q \in LiveOf(P, g) : p = q
    /\ \A s \in A : \A g \in Range(s) : MatchesOf(P, g) # {}
ChainInv == ChainOK(prompt, archived, forgotten)

StorePart     == StoreTypes /\ StoresInv
OperationPart == OperationTypes /\ WebLockInv /\ WorkInv
ChainPart     == ChainTypes /\ ChainInv
DisclosureInv == StorePart /\ OperationPart /\ ChainPart

-----------------------------------------------------------------------------
(* Lemmas about checkpoints.                                               *)

\* A checkpoint is none, or one of a selection with an entry for each of its groups.
LEMMA CheckpointShape ==
    ASSUME DisclosureBounds, NEW c \in Checkpoints
    PROVE  /\ DOMAIN c.group = Range(c.scope)
           /\ \A g \in DOMAIN c.group : c.group[g] \in Entries
           /\ c.scope \in Scopes \cup {<<>>}
           /\ c = NoCheckpoint \/ c.scope \in Scopes
           /\ c # NoCheckpoint => \E s \in Scopes : c \in [scope : {s}, group : [Range(s) -> Entries]]
<1>1. CASE c = NoCheckpoint
  <2>1. c.scope = <<>> /\ DOMAIN c.group = {}
    BY <1>1 DEF NoCheckpoint
  <2>2. Range(<<>>) = {}
    BY DEF Range
  <2> QED BY <1>1, <2>1, <2>2
<1>2. CASE c # NoCheckpoint
  <2>1. PICK s \in Scopes : c \in [scope : {s}, group : [Range(s) -> Entries]]
    BY <1>2 DEF Checkpoints
  <2>2. c.scope = s /\ c.group \in [Range(s) -> Entries]
    BY <2>1
  <2> QED BY <2>1, <2>2
<1> QED BY <1>1, <1>2

\* A checkpoint of a selection is not none.
LEMMA ScopeExists ==
    ASSUME DisclosureBounds, NEW c, c.scope \in Scopes
    PROVE  Exists(c) /\ c # NoCheckpoint
BY DEF DisclosureBounds, Exists, NoCheckpoint

\* Without a scope a checkpoint is none.
LEMMA NoScope ==
    ASSUME DisclosureBounds, NEW c \in Checkpoints, ~Exists(c)
    PROVE  c = NoCheckpoint
BY CheckpointShape DEF DisclosureBounds, Exists

PatchOf(c, g, e) == [c EXCEPT !.group[g] = e]

\* Patching a group's entry changes that entry only.
LEMMA PatchShape ==
    ASSUME DisclosureBounds, NEW c \in Checkpoints, c.scope \in Scopes,
           NEW g \in Range(c.scope), NEW e \in Entries, NEW d, d = PatchOf(c, g, e)
    PROVE  /\ d \in Checkpoints /\ d.scope = c.scope /\ DOMAIN d.group = Range(c.scope)
           /\ d.group[g] = e /\ \A h \in Range(c.scope) \ {g} : d.group[h] = c.group[h]
<1>1. c # NoCheckpoint
  BY ScopeExists
<1>2. PICK s \in Scopes : c \in [scope : {s}, group : [Range(s) -> Entries]]
  BY <1>1, CheckpointShape
<1>3. c.scope = s /\ c.group \in [Range(s) -> Entries] /\ g \in Range(s)
  BY <1>2
<1>4. d = [c EXCEPT !.group = [c.group EXCEPT ![g] = e]]
  BY DEF PatchOf
<1>5. PICK f : f = [c.group EXCEPT ![g] = e]
  OBVIOUS
<1>6. f \in [Range(s) -> Entries] /\ f[g] = e /\ \A h \in Range(s) \ {g} : f[h] = c.group[h]
  BY <1>3, <1>5
<1>7. d = [c EXCEPT !.group = f]
  BY <1>4, <1>5
<1>8. d \in [scope : {s}, group : [Range(s) -> Entries]] /\ d.scope = s /\ d.group = f
  BY <1>2, <1>6, <1>7
<1>9. d \in Checkpoints
  BY <1>8 DEF Checkpoints
<1> QED BY <1>3, <1>6, <1>8, <1>9

\* A new checkpoint has no pointer.
LEMMA FreshShape ==
    ASSUME DisclosureBounds, NEW s \in Scopes, NEW c, c = createAdminDisclosureCheckpoint(s)
    PROVE  /\ c \in Checkpoints /\ c.scope = s
           /\ \A g \in DOMAIN c.group : c.group[g].hash = 0
<1>1. Blank \in Entries /\ Blank.hash = 0
  BY DEF Blank, Entries
<1>2. PICK f : f = [g \in Range(s) |-> Blank]
  OBVIOUS
<1>3. f \in [Range(s) -> Entries] /\ \A g \in DOMAIN f : f[g].hash = 0
  BY <1>1, <1>2
<1>4. c = [scope |-> s, group |-> f]
  BY <1>2 DEF createAdminDisclosureCheckpoint
<1>5. c \in [scope : {s}, group : [Range(s) -> Entries]] /\ c.scope = s /\ c.group = f
  BY <1>3, <1>4
<1> QED BY <1>3, <1>5 DEF Checkpoints

\* A group belongs to one selection.
LEMMA OneScope ==
    ASSUME DisclosureBounds, NEW s \in Scopes, NEW u \in Scopes, NEW g, g \in Range(s), g \in Range(u)
    PROVE  s = u
BY DEF DisclosureBounds

\* A locked group of a checkpoint is a group.
LEMMA LockedAreGroups ==
    ASSUME DisclosureBounds, NEW c \in Checkpoints
    PROVE  LockedGroups(c) \subseteq Groups
<1>1. c.scope \in Scopes => Range(c.scope) \subseteq Groups
  BY DEF Groups
<1>2. Range(<<>>) = {}
  BY DEF Range
<1>3. DOMAIN c.group \subseteq Groups
  BY <1>1, <1>2, CheckpointShape
<1> QED BY <1>3 DEF LockedGroups

-----------------------------------------------------------------------------
(* Lemmas about what a checkpoint knows.                                   *)

\* Requests go on: none leaves, and what was sent stays sent.
Follows(P, Q) ==
    /\ DOMAIN P \subseteq DOMAIN Q
    /\ \A p \in DOMAIN P :
        /\ Q[p].group = P[p].group
        /\ P[p].status \notin {"open", "rejected"} => Q[p].status \notin {"open", "rejected"}
        /\ P[p].status = "success" => Q[p].status = "success"
Fades(P, Q) == \A g : LiveOf(Q, g) \subseteq LiveOf(P, g)

\* A checkpoint tracks what it tracked, and a packet on the chain stays there.
LEMMA FollowsKeeps ==
    ASSUME NEW P, NEW Q, Follows(P, Q)
    PROVE  /\ \A c : Tracks(c, P) => Tracks(c, Q)
           /\ \A g : MatchesOf(P, g) \subseteq MatchesOf(Q, g)
BY DEF Follows, Tracks, MatchesOf

\* A checkpoint knows what is left of what it knew.
LEMMA KnowsKeeps ==
    ASSUME NEW c, NEW P, NEW Q, NEW A, NEW B, NEW F, NEW G,
           Knows(c, P, A, F), Fades(P, Q), A \subseteq B, F \subseteq G
    PROVE  Knows(c, Q, B, G)
BY DEF Knows, Fades

\* No checkpoint at all knows every signature when there is none; then every one does.
LEMMA NothingOut ==
    ASSUME DisclosureBounds, NEW P, NEW A, NEW F, Knows(NoCheckpoint, P, A, F)
    PROVE  \A c : Knows(c, P, A, F)
BY DEF Knows, NoCheckpoint, DisclosureBounds

\* A checkpoint without a pointer knows of no signature.
LEMMA UnlockedKnowsNone ==
    ASSUME NEW c, NEW P, NEW A, NEW F, Knows(c, P, A, F), ~HasLockedPointers(c)
    PROVE  \A d : Knows(d, P, A, F)
BY DEF Knows, HasLockedPointers

\* The entry e of group g leaves no signature unknown.
Pins(e, g, P, F) ==
    g \in F \/ LiveOf(P, g) = {} \/ (e.pending /\ e.hash = 0) \/ (e.hash # 0 /\ LiveOf(P, g) \subseteq {e.hash})

\* A stored hash e of group g is of a request that was sent.
Sent(e, g, P) ==
    e.hash # 0 => e.hash \in DOMAIN P /\ P[e.hash].group = g /\ P[e.hash].status \notin {"open", "rejected"}

\* A checkpoint stays good when an entry is patched so.
LEMMA PatchGood ==
    ASSUME DisclosureBounds, NEW c, c.scope \in Scopes, NEW P, NEW A, NEW F, Good(c, P, A, F),
           NEW g \in Range(c.scope), NEW e \in Entries, Pins(e, g, P, F), Sent(e, g, P),
           NEW d, d = PatchOf(c, g, e)
    PROVE  Good(d, P, A, F) /\ d.scope = c.scope /\ d.group[g] = e
<1>1. c \in Checkpoints /\ Tracks(c, P) /\ Knows(c, P, A, F)
  BY DEF Good
<1>2. /\ d \in Checkpoints /\ d.scope = c.scope /\ DOMAIN d.group = Range(c.scope)
      /\ d.group[g] = e /\ \A h \in Range(c.scope) \ {g} : d.group[h] = c.group[h]
  BY <1>1, PatchShape
<1>3. DOMAIN c.group = Range(c.scope)
  BY <1>1, CheckpointShape
<1>4. Tracks(d, P)
  BY <1>1, <1>2, <1>3 DEF Tracks, Sent
<1>5. ASSUME NEW s \in Scopes \ A, NEW h \in Range(s) \ F, LiveOf(P, h) # {}
      PROVE  /\ d.scope = s /\ h \in LockedGroups(d)
             /\ d.group[h].hash # 0 => LiveOf(P, h) \subseteq {d.group[h].hash}
  <2>1. /\ c.scope = s /\ h \in LockedGroups(c)
        /\ c.group[h].hash # 0 => LiveOf(P, h) \subseteq {c.group[h].hash}
    BY <1>1, <1>5 DEF Knows
  <2>2. CASE h = g
    BY <1>2, <1>5, <2>1, <2>2 DEF Pins, LockedGroups
  <2>3. CASE h # g
    <3>1. d.group[h] = c.group[h] /\ h \in DOMAIN d.group
      BY <1>2, <2>1, <2>3
    <3>2. c.group[h].pending \/ c.group[h].hash # 0
      BY <2>1 DEF LockedGroups
    <3>3. h \in LockedGroups(d)
      BY <3>1, <3>2 DEF LockedGroups
    <3> QED BY <1>2, <2>1, <3>1, <3>3
  <2> QED BY <2>2, <2>3
<1>6. Knows(d, P, A, F)
  BY <1>5 DEF Knows
<1> QED BY <1>2, <1>4, <1>6 DEF Good

-----------------------------------------------------------------------------
(* Lemmas about the wallet's requests.                                     *)

Opened(P, r)      == Append(P, r)
Turned(P, p, to)  == [P EXCEPT ![p].status = to]

\* A request that opens may count from now on, and is nobody else's.
LEMMA OpenedRequest ==
    ASSUME NEW P \in PromptSeq, NEW r \in [group : Groups, by : Tabs, status : Statuses],
           r.status = "open", NEW Q, Q = Opened(P, r)
    PROVE  /\ Q \in PromptSeq /\ Follows(P, Q) /\ Len(Q) = Len(P) + 1 /\ Len(Q) \in DOMAIN Q
           /\ Q[Len(Q)] = r
           /\ \A g : g # r.group => LiveOf(Q, g) = LiveOf(P, g)
           /\ \A g : LiveOf(Q, g) \subseteq LiveOf(P, g) \cup {Len(Q)}
<1>1. Q \in PromptSeq
  BY DEF PromptSeq, Opened
<1>2. /\ Len(P) \in Nat /\ DOMAIN P = 1 .. Len(P)
      /\ DOMAIN Q = 1 .. (Len(P) + 1) /\ Len(Q) = Len(P) + 1
      /\ Q[Len(P) + 1] = r /\ \A p \in 1 .. Len(P) : Q[p] = P[p]
  BY DEF PromptSeq, Opened
<1>3. DOMAIN P \subseteq DOMAIN Q /\ DOMAIN Q = DOMAIN P \cup {Len(Q)} /\ Len(Q) \notin DOMAIN P
  BY <1>2
<1>4. Q[Len(Q)] = r /\ \A p \in DOMAIN P : Q[p] = P[p]
  BY <1>2
<1>5. Follows(P, Q)
  BY Zenon, <1>3, <1>4 DEF Follows
<1>6. ASSUME NEW g PROVE g # r.group => LiveOf(Q, g) = LiveOf(P, g)
  BY Zenon, <1>3, <1>4 DEF LiveOf
<1>7. ASSUME NEW g PROVE LiveOf(Q, g) \subseteq LiveOf(P, g) \cup {Len(Q)}
  BY Zenon, <1>3, <1>4 DEF LiveOf
<1> QED BY <1>1, <1>2, <1>3, <1>4, <1>5, <1>6, <1>7

\* An element of a sequence is replaced by one of its kind.
LEMMA SeqReplace ==
    ASSUME NEW S, NEW P \in Seq(S), NEW p \in DOMAIN P, NEW r \in S
    PROVE  /\ P[p] \in S /\ [P EXCEPT ![p] = r] \in Seq(S)
           /\ Len([P EXCEPT ![p] = r]) = Len(P)
OBVIOUS

\* A request that is answered or mined may still count only if it could before.
LEMMA ChangedRequest ==
    ASSUME NEW P \in PromptSeq, NEW p \in DOMAIN P, NEW from, NEW to \in Statuses, P[p].status = from,
           <<from, to>> \in {<<"open", "sent">>, <<"open", "rejected">>,
                             <<"sent", "success">>, <<"sent", "reverted">>},
           NEW Q, Q = Turned(P, p, to)
    PROVE  /\ Q \in PromptSeq /\ Follows(P, Q) /\ Fades(P, Q) /\ Len(Q) = Len(P)
<1>1. PICK r : r = [P[p] EXCEPT !.status = to]
  OBVIOUS
<1>2. Q = [P EXCEPT ![p] = r]
  BY <1>1 DEF Turned
<1>a. PICK S : S = [group : Groups, by : Tabs, status : Statuses]
  OBVIOUS
<1>b. P \in Seq(S)
  BY <1>a DEF PromptSeq
<1>c. \A x \in S : P[p] \in S /\ [P EXCEPT ![p] = x] \in Seq(S) /\ Len([P EXCEPT ![p] = x]) = Len(P)
  BY <1>b, SeqReplace
<1>e. P[p] \in S
  BY <1>b
<1>3. P[p] \in [group : Groups, by : Tabs, status : Statuses]
  BY <1>a, <1>e
<1>4. r \in [group : Groups, by : Tabs, status : Statuses] /\ r.group = P[p].group /\ r.status = to
  BY <1>1, <1>3
<1>5. Q \in PromptSeq /\ Len(Q) = Len(P)
  <2>1. r \in S
    BY <1>a, <1>4
  <2>2. [P EXCEPT ![p] = r] \in Seq(S) /\ Len([P EXCEPT ![p] = r]) = Len(P)
    BY <1>c, <2>1
  <2>3. Q \in Seq(S) /\ Len(Q) = Len(P)
    BY <1>2, <2>2, Zenon
  <2> QED BY <1>a, <2>3 DEF PromptSeq
<1>6. DOMAIN Q = DOMAIN P /\ Q[p] = r /\ \A q \in DOMAIN P \ {p} : Q[q] = P[q]
  BY <1>2 DEF PromptSeq
<1>7. Follows(P, Q)
  BY <1>4, <1>6 DEF Follows
<1>8. Fades(P, Q)
  BY <1>4, <1>6 DEF Fades, LiveOf
<1> QED BY <1>5, <1>7, <1>8

\* Requests that stay as they are.
LEMMA SameRequests ==
    ASSUME NEW P
    PROVE  Follows(P, P) /\ Fades(P, P)
BY DEF Follows, Fades

-----------------------------------------------------------------------------
(* Lemmas about the stores.                                                *)

\* What a tab loads is good: the volatile copy is used when it is newer, or when nothing is out.
LEMMA LoadIsGood ==
    ASSUME DisclosureBounds, DisclosureInv, NEW t \in Tabs
    PROVE  Good(Load(t), prompt, archived, forgotten)
<1>1. durable \in Checkpoints /\ volatile[t] \in Checkpoints
  BY DEF DisclosureInv, StorePart, StoreTypes
<1>2. /\ Tracks(durable, prompt) /\ Knows(durable, prompt, archived, forgotten)
      /\ Tracks(volatile[t], prompt)
      /\ t \in newer /\ Exists(volatile[t]) => Knows(volatile[t], prompt, archived, forgotten)
  BY DEF DisclosureInv, StorePart, StoresInv, StoresOK
<1>3. ~Exists(durable) => Knows(volatile[t], prompt, archived, forgotten)
  <2> SUFFICES ASSUME ~Exists(durable) PROVE Knows(volatile[t], prompt, archived, forgotten)
    OBVIOUS
  <2>1. durable = NoCheckpoint
    BY <1>1, NoScope
  <2>2. Knows(NoCheckpoint, prompt, archived, forgotten)
    BY <1>2, <2>1
  <2> HIDE DEF Knows
  <2> QED BY <2>2, NothingOut
<1>4. CASE Exists(volatile[t]) /\ (~Exists(durable) \/ t \in newer)
  <2>1. Load(t) = volatile[t]
    BY <1>4 DEF Load
  <2> QED BY <1>1, <1>2, <1>3, <1>4, <2>1 DEF Good
<1>5. CASE ~(Exists(volatile[t]) /\ (~Exists(durable) \/ t \in newer))
  <2>1. Load(t) = durable
    BY <1>5 DEF Load
  <2> QED BY <1>1, <1>2, <2>1 DEF Good
<1> QED BY <1>4, <1>5

\* Stores that stay as they are.
LEMMA StoresKeep ==
    ASSUME NEW d, NEW v, NEW n, NEW s, NEW P, NEW Q, NEW A, NEW B, NEW F, NEW G,
           StoresOK(d, v, n, s, P, A, F), Follows(P, Q), Fades(P, Q), A \subseteq B, F \subseteq G
    PROVE  StoresOK(d, v, n, s, Q, B, G)
<1>1. \A c : Tracks(c, P) => Tracks(c, Q)
  BY FollowsKeeps
<1>2. ASSUME NEW c, Knows(c, P, A, F) PROVE Knows(c, Q, B, G)
  BY <1>2, KnowsKeeps
<1> HIDE DEF Tracks, Knows
<1> QED BY <1>1, <1>2 DEF StoresOK

\* A screen that shows a checkpoint that tracks its requests.
LEMMA ShownOK ==
    ASSUME NEW d, NEW v, NEW n, NEW s, NEW z, NEW P, NEW A, NEW F, NEW c,
           StoresOK(d, v, n, s, P, A, F), Tracks(c, P), \A u \in Tabs : z[u] = s[u] \/ z[u] = c
    PROVE  StoresOK(d, v, n, z, P, A, F)
BY DEF StoresOK

\* A good checkpoint is stored.
LEMMA StoredOK ==
    ASSUME NEW d, NEW v \in [Tabs -> Checkpoints], NEW n, NEW s, NEW P, NEW Q, NEW A, NEW F, NEW c, NEW t \in Tabs,
           StoresOK(d, v, n, s, P, A, F), Follows(P, Q), Good(c, Q, A, F)
    PROVE  StoresOK(c, [v EXCEPT ![t] = c], {}, s, Q, A, F)
<1>1. \A x : Tracks(x, P) => Tracks(x, Q)
  BY FollowsKeeps
<1>2. \A u \in Tabs : [v EXCEPT ![t] = c][u] = v[u] \/ [v EXCEPT ![t] = c][u] = c
  OBVIOUS
<1> QED BY <1>1, <1>2 DEF StoresOK, Good

\* A refused write leaves a good checkpoint in the tab.
LEMMA RefusedOK ==
    ASSUME NEW d, NEW v \in [Tabs -> Checkpoints], NEW n \in SUBSET Tabs, NEW s, NEW P, NEW A, NEW F, NEW c, NEW t \in Tabs,
           StoresOK(d, v, n, s, P, A, F), Good(c, P, A, F)
    PROVE  StoresOK(d, [v EXCEPT ![t] = c], n \cup {t}, s, P, A, F)
<1>1. /\ \A u \in Tabs : [v EXCEPT ![t] = c][u] = v[u] \/ [v EXCEPT ![t] = c][u] = c
      /\ [v EXCEPT ![t] = c][t] = c
  OBVIOUS
<1>2. \A u \in Tabs \ {t} : [v EXCEPT ![t] = c][u] = v[u]
  OBVIOUS
<1> QED BY <1>1, <1>2 DEF StoresOK, Good

\* A tab forgets its copy.
LEMMA ForgetOK ==
    ASSUME NEW d, NEW v \in [Tabs -> Checkpoints], NEW n \in SUBSET Tabs, NEW s, NEW P, NEW A, NEW F, NEW t \in Tabs,
           StoresOK(d, v, n, s, P, A, F)
    PROVE  StoresOK(d, [v EXCEPT ![t] = NoCheckpoint], n \ {t}, s, P, A, F)
<1>1. \A u \in Tabs \ {t} : [v EXCEPT ![t] = NoCheckpoint][u] = v[u]
  OBVIOUS
<1>2. [v EXCEPT ![t] = NoCheckpoint][t] = NoCheckpoint
  OBVIOUS
<1>3. Tracks(NoCheckpoint, P)
  BY DEF Tracks, NoCheckpoint
<1> QED BY <1>1, <1>2, <1>3 DEF StoresOK

\* The durable checkpoint is removed when nothing is out.
LEMMA RemovedOK ==
    ASSUME DisclosureBounds, NEW d, NEW v \in [Tabs -> Checkpoints], NEW n \in SUBSET Tabs, NEW s, NEW P,
           NEW A, NEW B, NEW F, NEW G, NEW t \in Tabs,
           StoresOK(d, v, n, s, P, A, F), Knows(NoCheckpoint, P, B, G), A \subseteq B, F \subseteq G
    PROVE  StoresOK(NoCheckpoint, [v EXCEPT ![t] = NoCheckpoint], n \ {t}, s, P, B, G)
<1>1. \A c : Knows(c, P, B, G)
  BY NothingOut
<1>2. StoresOK(d, [v EXCEPT ![t] = NoCheckpoint], n \ {t}, s, P, A, F)
  BY ForgetOK
<1>3. Tracks(NoCheckpoint, P)
  BY DEF Tracks, NoCheckpoint
<1> HIDE DEF Tracks, Knows
<1> QED BY <1>1, <1>2, <1>3 DEF StoresOK

-----------------------------------------------------------------------------
(* The three parts of the invariant, for the steps that share them.        *)

\* Stores and screens that stay as they are.
LEMMA StoresStay ==
    ASSUME StorePart, UNCHANGED <<stores, screen, mounted>>,
           Follows(prompt, prompt'), Fades(prompt, prompt'), archived \subseteq archived', forgotten \subseteq forgotten'
    PROVE  StorePart'
<1>1. /\ durable' = durable /\ volatile' = volatile /\ newer' = newer /\ screen' = screen
      /\ mounted' = mounted
  BY DEF stores
<1>2. StoresOK(durable, volatile, newer, screen, prompt, archived, forgotten)
  BY DEF StorePart, StoresInv
<1>3. StoresOK(durable, volatile, newer, screen, prompt', archived', forgotten')
  BY <1>2, StoresKeep
<1>4. StoresOK(durable', volatile', newer', screen', prompt', archived', forgotten')
  BY <1>1, <1>3
<1>5. StoreTypes'
  BY <1>1 DEF StorePart, StoreTypes
<1> QED BY <1>4, <1>5 DEF StorePart, StoresInv

\* A checkpoint that is stored, while the requests go on.
LEMMA Stored ==
    ASSUME StorePart, NEW t \in Tabs, NEW c, Save(t, c, TRUE), screen' \in {screen, [screen EXCEPT ![t] = c]},
           mounted' \in SUBSET Tabs, UNCHANGED <<archived, forgotten>>,
           Follows(prompt, prompt'), Good(c, prompt', archived, forgotten)
    PROVE  StorePart'
<1>1. /\ durable' = c /\ volatile' = [volatile EXCEPT ![t] = c] /\ newer' = {}
      /\ archived' = archived /\ forgotten' = forgotten
  BY DEF Save
<1>2. StoresOK(durable, volatile, newer, screen, prompt, archived, forgotten) /\ volatile \in [Tabs -> Checkpoints]
  BY DEF StorePart, StoresInv, StoreTypes
<1>3. StoresOK(c, [volatile EXCEPT ![t] = c], {}, screen, prompt', archived, forgotten)
  BY <1>2, StoredOK
<1>4. c \in Checkpoints /\ Tracks(c, prompt')
  BY DEF Good
<1>5. screen' \in [Tabs -> Checkpoints] /\ \A u \in Tabs : screen'[u] = screen[u] \/ screen'[u] = c
  BY <1>4 DEF StorePart, StoreTypes
<1>6. StoresOK(c, [volatile EXCEPT ![t] = c], {}, screen', prompt', archived, forgotten)
  BY <1>3, <1>4, <1>5, ShownOK
<1>7. StoreTypes'
  BY <1>1, <1>4, <1>5 DEF StorePart, StoreTypes
<1> QED BY <1>1, <1>6, <1>7 DEF StorePart, StoresInv

\* A checkpoint whose write is refused.
LEMMA Refused ==
    ASSUME StorePart, NEW t \in Tabs, NEW c, Save(t, c, FALSE), screen' \in {screen, [screen EXCEPT ![t] = c]},
           mounted' \in SUBSET Tabs, UNCHANGED <<prompt, archived, forgotten>>,
           Good(c, prompt, archived, forgotten)
    PROVE  StorePart'
<1>1. /\ durable' = durable /\ volatile' = [volatile EXCEPT ![t] = c] /\ newer' = newer \cup {t}
      /\ prompt' = prompt /\ archived' = archived /\ forgotten' = forgotten
  BY DEF Save
<1>2. /\ StoresOK(durable, volatile, newer, screen, prompt, archived, forgotten)
      /\ volatile \in [Tabs -> Checkpoints] /\ newer \in SUBSET Tabs
  BY DEF StorePart, StoresInv, StoreTypes
<1>3. StoresOK(durable, [volatile EXCEPT ![t] = c], newer \cup {t}, screen, prompt, archived, forgotten)
  BY <1>2, RefusedOK
<1>4. c \in Checkpoints /\ Tracks(c, prompt)
  BY DEF Good
<1>5. screen' \in [Tabs -> Checkpoints] /\ \A u \in Tabs : screen'[u] = screen[u] \/ screen'[u] = c
  BY <1>4 DEF StorePart, StoreTypes
<1>6. StoresOK(durable, [volatile EXCEPT ![t] = c], newer \cup {t}, screen', prompt, archived, forgotten)
  BY <1>3, <1>4, <1>5, ShownOK
<1>7. StoreTypes'
  BY <1>1, <1>4, <1>5 DEF StorePart, StoreTypes
<1> QED BY <1>1, <1>6, <1>7 DEF StorePart, StoresInv

\* A checkpoint that is written, or refused, while the chain stays as it is.
LEMMA Saved ==
    ASSUME StorePart, NEW t \in Tabs, NEW c, NEW ok \in BOOLEAN, Save(t, c, ok),
           screen' \in {screen, [screen EXCEPT ![t] = c]}, mounted' \in SUBSET Tabs,
           UNCHANGED <<prompt, archived, forgotten>>, Good(c, prompt, archived, forgotten)
    PROVE  StorePart'
<1>1. CASE ok
  <2>1. Save(t, c, TRUE)
    BY <1>1 DEF Save
  <2>2. Follows(prompt, prompt') /\ Good(c, prompt', archived, forgotten)
    BY SameRequests
  <2> QED BY <2>1, <2>2, Stored
<1>2. CASE ~ok
  <2>1. Save(t, c, FALSE)
    BY <1>2 DEF Save
  <2> QED BY <2>1, Refused
<1> QED BY <1>1, <1>2

\* The same of a checkpoint that the mounted view shows.
LEMMA Updated ==
    ASSUME StorePart, NEW t \in Tabs, NEW c, NEW ok \in BOOLEAN, Update(t, c, ok),
           UNCHANGED <<mounted, prompt, archived, forgotten>>, Good(c, prompt, archived, forgotten)
    PROVE  StorePart'
<1>1. mounted' \in SUBSET Tabs
  BY DEF StorePart, StoreTypes
<1>2. Save(t, c, ok) /\ screen' \in {screen, [screen EXCEPT ![t] = c]}
  BY DEF Update, Show
<1> QED BY <1>1, <1>2, Saved

\* The operation that has the lock, its checkpoint and its group.
LEMMA OperationHolds ==
    ASSUME DisclosureBounds, OperationPart, NEW t \in Tabs, pc[t] \notin {"page", "closed"}
    PROVE  /\ lock = {t} /\ WorkOK(pc[t], ck[t], at[t], prompt, archived, forgotten)
           /\ ck[t].scope \in Scopes /\ ck[t].scope \notin archived
           /\ group(t) \in Range(ck[t].scope) /\ group(t) = ck[t].scope[at[t]]
           /\ Len(ck[t].scope) \in Nat /\ DOMAIN ck[t].scope = 1 .. Len(ck[t].scope)
           /\ at[t] \in 1 .. Len(ck[t].scope)
<1>1. t \in lock /\ \A u \in lock : u = t
  BY DEF OperationPart, WebLockInv
<1>2. lock = {t}
  BY <1>1
<1>3. WorkOK(pc[t], ck[t], at[t], prompt, archived, forgotten)
  BY <1>1 DEF OperationPart, WorkInv
<1>4. ck[t].scope \in Scopes /\ ck[t].scope \notin archived /\ at[t] \in 1 .. Len(ck[t].scope)
  BY <1>3 DEF WorkOK
<1>5. ck[t].scope \in Seq(Range(ck[t].scope))
  BY <1>4 DEF DisclosureBounds
<1>6. Len(ck[t].scope) \in Nat /\ DOMAIN ck[t].scope = 1 .. Len(ck[t].scope)
  BY <1>5
<1>7. group(t) \in Range(ck[t].scope)
  BY <1>4, <1>6 DEF group, Range
<1> QED BY <1>2, <1>3, <1>4, <1>6, <1>7 DEF group

\* The operation ends and the lock is free.
LEMMA Throws ==
    ASSUME OperationPart, NEW t \in Tabs, lock = {t}, Throw(t)
    PROVE  OperationPart'
<1>1. lock' = {}
  BY DEF Throw
<1>2. OperationTypes'
  BY <1>1 DEF Throw, OperationPart, OperationTypes, Pcs, Checkpoints
<1>3. \A u \in Tabs : pc'[u] \in {"page", "closed"} /\ at'[u] = 1
  BY DEF Throw, OperationPart, OperationTypes, WebLockInv
<1> QED BY <1>1, <1>2, <1>3 DEF OperationPart, WebLockInv, WorkInv

\* The operation goes on.
LEMMA GoesOn ==
    ASSUME OperationPart, NEW t \in Tabs, lock = {t}, NEW c, NEW i, NEW where, Continue(t, c, i, where),
           WorkOK(where, c, i, prompt', archived', forgotten')
    PROVE  OperationPart'
<1>1. /\ lock' = {t} /\ pc' = [pc EXCEPT ![t] = where] /\ ck' = [ck EXCEPT ![t] = c]
      /\ at' = [at EXCEPT ![t] = i]
  BY DEF Continue
<1>2. c \in Checkpoints /\ i \in Nat /\ where \in Pcs
  BY DEF WorkOK, Good, Pcs
<1>3. /\ OperationTypes' /\ pc'[t] = where /\ ck'[t] = c /\ at'[t] = i
  BY <1>1, <1>2 DEF OperationPart, OperationTypes
<1>4. \A u \in Tabs \ {t} : pc'[u] \in {"page", "closed"} /\ at'[u] = 1
  BY <1>1 DEF OperationPart, OperationTypes, WebLockInv
<1>5. WorkOK(pc'[t], ck'[t], at'[t], prompt', archived', forgotten')
  BY <1>3
<1> QED BY <1>1, <1>3, <1>4, <1>5 DEF OperationPart, WebLockInv, WorkInv

\* What an operation relies on, when requests go on and groups are forgotten.
LEMMA WorkKeeps ==
    ASSUME NEW w, NEW c, NEW i, NEW P, NEW Q, NEW A, NEW F, NEW G,
           WorkOK(w, c, i, P, A, F), Follows(P, Q), Fades(P, Q), Len(Q) = Len(P), F \subseteq G,
           DOMAIN P = 1 .. Len(P), Len(P) \in Nat
    PROVE  WorkOK(w, c, i, Q, A, G)
<1>1. Good(c, Q, A, G)
  <2>1. Tracks(c, Q)
    BY FollowsKeeps DEF WorkOK, Good
  <2>2. Knows(c, P, A, F) /\ A \subseteq A
    BY DEF WorkOK, Good
  <2>3. Knows(c, Q, A, G)
    BY <2>2, KnowsKeeps
  <2> QED BY <2>1, <2>3 DEF WorkOK, Good
<1>2. \A g : MatchesOf(P, g) # {} => MatchesOf(Q, g) # {}
  BY FollowsKeeps
<1>3. Len(P) # 0 => Q[Len(Q)].group = P[Len(P)].group
  BY DEF Follows
<1>4. \A g : LiveOf(Q, g) \subseteq LiveOf(P, g)
  BY DEF Fades
<1> HIDE DEF Good
<1> QED BY <1>1, <1>2, <1>3, <1>4 DEF WorkOK

\* Operations that stay as they are.
LEMMA OperationsStay ==
    ASSUME OperationPart, ChainTypes, UNCHANGED <<pc, ck, at, lock, archived>>,
           Follows(prompt, prompt'), Fades(prompt, prompt'), Len(prompt') = Len(prompt), forgotten \subseteq forgotten'
    PROVE  OperationPart'
<1>1. OperationTypes' /\ WebLockInv'
  BY DEF OperationPart, OperationTypes, WebLockInv
<1>2. DOMAIN prompt = 1 .. Len(prompt) /\ Len(prompt) \in Nat
  BY DEF ChainTypes, PromptSeq
<1>3. ASSUME NEW t \in lock'
      PROVE  WorkOK(pc'[t], ck'[t], at'[t], prompt', archived', forgotten')
  <2>1. WorkOK(pc[t], ck[t], at[t], prompt, archived, forgotten)
    BY <1>3 DEF OperationPart, WorkInv
  <2>2. WorkOK(pc[t], ck[t], at[t], prompt', archived, forgotten')
    BY <1>2, <2>1, WorkKeeps
  <2> QED BY <2>2
<1> QED BY <1>1, <1>3 DEF OperationPart, WorkInv

\* Signatures that fade, and groups that are forgotten.
LEMMA ChainKeeps ==
    ASSUME NEW P, NEW Q, NEW A, NEW F, NEW G,
           ChainOK(P, A, F), Follows(P, Q), Fades(P, Q), F \subseteq G
    PROVE  ChainOK(Q, A, G)
<1>1. \A g : MatchesOf(P, g) # {} => MatchesOf(Q, g) # {}
  BY FollowsKeeps
<1>2. \A g : LiveOf(Q, g) \subseteq LiveOf(P, g)
  BY DEF Fades
<1> QED BY <1>1, <1>2 DEF ChainOK

\* The chain stays as it is.
LEMMA ChainStays ==
    ASSUME ChainPart, UNCHANGED <<prompt, archived, forgotten>>, faults' \in Nat
    PROVE  ChainPart'
BY DEF ChainPart, ChainTypes, ChainInv, ChainOK

-----------------------------------------------------------------------------
(* The steps of the page.                                                  *)

\* A counter of faults stays a number.
LEMMA FaultCounts ==
    ASSUME ChainPart, faults' = faults + 1 \/ faults' = faults
    PROVE  faults' \in Nat
BY DEF ChainPart, ChainTypes

\* Storing or refusing a checkpoint counts a fault or none.
LEMMA UpdateCounts ==
    ASSUME ChainPart, NEW t, NEW c, NEW ok \in BOOLEAN, Update(t, c, ok)
    PROVE  faults' \in Nat
<1>1. faults' = faults + 1 \/ faults' = faults
  BY DEF Update, Save, Fault
<1> QED BY <1>1, FaultCounts

\* The screen changes, the stores do not.
LEMMA ScreenSteps ==
    ASSUME StorePart, NEW t \in Tabs, NEW c \in Checkpoints, Tracks(c, prompt),
           screen' = [screen EXCEPT ![t] = c], mounted' \in SUBSET Tabs,
           UNCHANGED <<stores, prompt, archived, forgotten>>
    PROVE  StorePart'
<1>1. durable' = durable /\ volatile' = volatile /\ newer' = newer
  BY DEF stores
<1>2. /\ screen' \in [Tabs -> Checkpoints] /\ \A u \in Tabs : screen'[u] = screen[u] \/ screen'[u] = c
  BY DEF StorePart, StoreTypes
<1>3. StoreTypes'
  BY <1>1, <1>2 DEF StorePart, StoreTypes
<1>4. StoresOK(durable, volatile, newer, screen', prompt, archived, forgotten)
  BY <1>2, ShownOK DEF StorePart, StoresInv
<1>5. StoresInv'
  BY <1>1, <1>4 DEF StoresInv
<1> QED BY <1>3, <1>5 DEF StorePart

\* A view that mounts shows what its tab loads.
LEMMA MountKeeps ==
    ASSUME DisclosureBounds, DisclosureInv, NEW t \in Tabs, Mount(t)
    PROVE  DisclosureInv'
<1>1. Good(Load(t), prompt, archived, forgotten)
  BY LoadIsGood
<1>2. PICK c : c = Load(t)
  OBVIOUS
<1>3. c \in Checkpoints /\ Tracks(c, prompt)
  BY <1>1, <1>2 DEF Good
<1>4. /\ screen' = [screen EXCEPT ![t] = c] /\ mounted' \in SUBSET Tabs
      /\ UNCHANGED <<stores, prompt, archived, forgotten>>
      /\ UNCHANGED <<pc, ck, at, lock>> /\ faults' = faults
  BY <1>2 DEF Mount, DisclosureInv, StorePart, StoreTypes
<1>5. StorePart'
  BY <1>3, <1>4, ScreenSteps DEF DisclosureInv
<1>6. OperationPart'
  BY <1>4, OperationsStay, SameRequests DEF DisclosureInv, ChainPart
<1>7. ChainPart'
  BY <1>4, ChainStays, FaultCounts DEF DisclosureInv
<1> QED BY <1>5, <1>6, <1>7 DEF DisclosureInv

\* A discarded checkpoint leaves no signature out but those of the groups it forgets.
LEMMA DiscardKeeps ==
    ASSUME DisclosureBounds, DisclosureInv, NEW t \in Tabs, Discard(t)
    PROVE  DisclosureInv'
<1>1. /\ NoCheckpoint \in Checkpoints /\ Tracks(NoCheckpoint, prompt) /\ durable \in Checkpoints
      /\ volatile \in [Tabs -> Checkpoints] /\ newer \in SUBSET Tabs
      /\ Knows(durable, prompt, archived, forgotten)
      /\ StoresOK(durable, volatile, newer, screen, prompt, archived, forgotten)
      /\ StorePart /\ OperationPart /\ ChainPart
  BY DEF DisclosureInv, StorePart, StoreTypes, StoresInv, StoresOK, Checkpoints, Tracks, NoCheckpoint
<1>2. /\ screen' = [screen EXCEPT ![t] = NoCheckpoint]
      /\ mounted' = mounted /\ mounted' \in SUBSET Tabs /\ UNCHANGED <<pc, ck, at, lock, prompt, archived>>
  BY <1>1 DEF Discard, StorePart, StoreTypes
<1>3. ASSUME durable' = NoCheckpoint, volatile' = [volatile EXCEPT ![t] = NoCheckpoint],
             newer' = newer \ {t}, forgotten' = forgotten \cup LockedGroups(durable), faults' = faults
      PROVE  DisclosureInv'
  <2>1. forgotten \subseteq forgotten' /\ forgotten' \in SUBSET Groups
    BY <1>1, <1>3, LockedAreGroups DEF ChainPart, ChainTypes
  <2>2. Knows(NoCheckpoint, prompt, archived, forgotten')
    BY <1>1, <1>3 DEF Knows
  <2>3. StoresOK(NoCheckpoint, [volatile EXCEPT ![t] = NoCheckpoint], newer \ {t}, screen,
                 prompt, archived, forgotten')
    BY <1>1, <2>1, <2>2, RemovedOK
  <2>4. screen' \in [Tabs -> Checkpoints] /\ \A u \in Tabs : screen'[u] = screen[u] \/ screen'[u] = NoCheckpoint
    BY <1>1, <1>2 DEF StorePart, StoreTypes
  <2>5. StoresOK(NoCheckpoint, [volatile EXCEPT ![t] = NoCheckpoint], newer \ {t}, screen',
                 prompt, archived, forgotten')
    BY <1>1, <2>3, <2>4, ShownOK
  <2>6. StoresInv'
    BY <1>2, <1>3, <2>5 DEF StoresInv
  <2>7. StoreTypes'
    BY <1>1, <1>2, <1>3, <2>4 DEF StorePart, StoreTypes
  <2>8. OperationPart'
    BY <1>1, <1>2, <2>1, OperationsStay, SameRequests DEF ChainPart
  <2>9. ChainPart'
    <3>1. ChainOK(prompt, archived, forgotten')
      BY <1>1, <2>1, ChainKeeps, SameRequests DEF ChainPart, ChainInv
    <3>2. ChainTypes'
      BY <1>1, <1>2, <1>3, <2>1 DEF ChainPart, ChainTypes
    <3> QED BY <1>2, <3>1, <3>2 DEF ChainPart, ChainInv
  <2> QED BY <2>6, <2>7, <2>8, <2>9 DEF DisclosureInv, StorePart
<1>4. ASSUME Fault, UNCHANGED <<stores, forgotten>> PROVE DisclosureInv'
  <2>1. StorePart'
    BY <1>1, <1>2, <1>4, ScreenSteps
  <2>2. OperationPart'
    BY <1>1, <1>2, <1>4, OperationsStay, SameRequests DEF ChainPart
  <2>3. ChainPart'
    BY <1>1, <1>2, <1>4, ChainStays, FaultCounts DEF Fault
  <2> QED BY <2>1, <2>2, <2>3 DEF DisclosureInv
<1> QED BY <1>3, <1>4 DEF Discard

\* A tab that is closed takes its own copies with it, and its operation.
LEMMA CloseKeeps ==
    ASSUME DisclosureBounds, DisclosureInv, NEW t \in Tabs, Close(t)
    PROVE  DisclosureInv'
<1>1. /\ NoCheckpoint \in Checkpoints /\ Tracks(NoCheckpoint, prompt)
      /\ volatile \in [Tabs -> Checkpoints] /\ newer \in SUBSET Tabs
      /\ StoresOK(durable, volatile, newer, screen, prompt, archived, forgotten)
      /\ StorePart /\ OperationPart /\ ChainPart
  BY DEF DisclosureInv, StorePart, StoreTypes, StoresInv, Checkpoints, Tracks, NoCheckpoint
<1>2. /\ screen' = [screen EXCEPT ![t] = NoCheckpoint] /\ mounted' = mounted \ {t}
      /\ durable' = durable /\ volatile' = [volatile EXCEPT ![t] = NoCheckpoint] /\ newer' = newer \ {t}
      /\ UNCHANGED <<prompt, archived, forgotten>> /\ faults' = faults + 1
  BY DEF Close, Fault
<1>3. /\ pc' = [pc EXCEPT ![t] = "closed"] /\ lock' = lock \ {t}
      /\ ck' = [ck EXCEPT ![t] = NoCheckpoint] /\ at' = [at EXCEPT ![t] = 1]
  BY DEF Close
<1>4. StorePart'
  <2>1. StoresOK(durable, [volatile EXCEPT ![t] = NoCheckpoint], newer \ {t}, screen, prompt, archived, forgotten)
    BY <1>1, ForgetOK
  <2>2. screen' \in [Tabs -> Checkpoints] /\ \A u \in Tabs : screen'[u] = screen[u] \/ screen'[u] = NoCheckpoint
    BY <1>1, <1>2 DEF StorePart, StoreTypes
  <2>3. StoresOK(durable, [volatile EXCEPT ![t] = NoCheckpoint], newer \ {t}, screen', prompt, archived, forgotten)
    BY <1>1, <2>1, <2>2, ShownOK
  <2>4. StoreTypes'
    BY <1>1, <1>2, <2>2 DEF StorePart, StoreTypes
  <2> QED BY <1>2, <2>3, <2>4 DEF StorePart, StoresInv
<1>5. OperationPart'
  <2>1. OperationTypes'
    BY <1>1, <1>3 DEF OperationPart, OperationTypes, Pcs
  <2>2. /\ pc'[t] = "closed" /\ at'[t] = 1
        /\ \A u \in Tabs \ {t} : pc'[u] = pc[u] /\ ck'[u] = ck[u] /\ at'[u] = at[u]
    BY <1>1, <1>3 DEF OperationPart, OperationTypes
  <2>3. WebLockInv'
    BY <1>1, <1>3, <2>2 DEF OperationPart, WebLockInv
  <2>4. ASSUME NEW u \in lock' PROVE WorkOK(pc'[u], ck'[u], at'[u], prompt', archived', forgotten')
    <3>1. u \in lock /\ u \in Tabs \ {t}
      BY <1>1, <1>3 DEF OperationPart, OperationTypes
    <3>2. WorkOK(pc[u], ck[u], at[u], prompt, archived, forgotten)
      BY <1>1, <3>1 DEF OperationPart, WorkInv
    <3> QED BY <1>2, <2>2, <3>1, <3>2
  <2> QED BY <2>1, <2>3, <2>4 DEF OperationPart, WorkInv
<1>6. ChainPart'
  BY <1>1, <1>2, ChainStays, FaultCounts
<1> QED BY <1>4, <1>5, <1>6 DEF DisclosureInv

\* A tab that opens shows the durable checkpoint.
LEMMA OpenKeeps ==
    ASSUME DisclosureBounds, DisclosureInv, NEW t \in Tabs, Open(t)
    PROVE  DisclosureInv'
<1>1. /\ durable \in Checkpoints /\ Tracks(durable, prompt) /\ mounted \in SUBSET Tabs
      /\ StorePart /\ OperationPart /\ ChainPart
  BY DEF DisclosureInv, StorePart, StoreTypes, StoresInv, StoresOK
<1>2. /\ screen' = [screen EXCEPT ![t] = durable] /\ mounted' = mounted
      /\ UNCHANGED <<stores, prompt, archived, forgotten>>
      /\ pc[t] = "closed" /\ pc' = [pc EXCEPT ![t] = "page"] /\ UNCHANGED <<ck, at, lock>> /\ faults' = faults
  BY DEF Open
<1>3. PICK c : c = durable
  OBVIOUS
<1>4. StorePart'
  BY <1>1, <1>2, <1>3, ScreenSteps
<1>5. OperationPart'
  <2>1. OperationTypes'
    BY <1>1, <1>2 DEF OperationPart, OperationTypes, Pcs
  <2>2. pc'[t] = "page" /\ \A u \in Tabs \ {t} : pc'[u] = pc[u]
    BY <1>1, <1>2 DEF OperationPart, OperationTypes
  <2>3. t \notin lock
    BY <1>1, <1>2 DEF OperationPart, WorkInv, WorkOK
  <2>4. WebLockInv'
    BY <1>1, <1>2, <2>2, <2>3 DEF OperationPart, WebLockInv
  <2>5. ASSUME NEW u \in lock' PROVE WorkOK(pc'[u], ck'[u], at'[u], prompt', archived', forgotten')
    <3>1. u \in lock /\ u \in Tabs \ {t}
      BY <1>1, <1>2, <2>3 DEF OperationPart, OperationTypes
    <3>2. WorkOK(pc[u], ck[u], at[u], prompt, archived, forgotten)
      BY <1>1, <3>1 DEF OperationPart, WorkInv
    <3> QED BY <1>2, <2>2, <3>1, <3>2
  <2> QED BY <2>1, <2>4, <2>5 DEF OperationPart, WorkInv
<1>6. ChainPart'
  BY <1>1, <1>2, ChainStays, FaultCounts
<1> QED BY <1>4, <1>5, <1>6 DEF DisclosureInv

\* An operation that begins at the first group of a good checkpoint.
LEMMA Begins ==
    ASSUME DisclosureBounds, OperationPart, NEW t \in Tabs, lock = {}, NEW c, Begin(t, c),
           c.scope \in Scopes, c.scope \notin archived, Good(c, prompt, archived, forgotten),
           UNCHANGED <<prompt, archived, forgotten>>
    PROVE  OperationPart'
<1>1. /\ lock' = {t} /\ pc' = [pc EXCEPT ![t] = "group"] /\ ck' = [ck EXCEPT ![t] = c]
      /\ at' = at
  BY DEF Begin
<1>2. c \in Checkpoints
  BY DEF Good
<1>3. /\ OperationTypes' /\ pc'[t] = "group" /\ ck'[t] = c
  BY <1>1, <1>2 DEF OperationPart, OperationTypes, Pcs
<1>4. /\ \A u \in Tabs \ {t} : pc'[u] \in {"page", "closed"} /\ at'[u] = 1
      /\ at'[t] = 1
  BY <1>1 DEF OperationPart, OperationTypes, WebLockInv
<1>5. c.scope \in Seq(Range(c.scope)) /\ c.scope # <<>>
  BY DEF DisclosureBounds
<1>6. 1 \in 1 .. Len(c.scope)
  BY <1>5
<1>7. WorkOK("group", c, 1, prompt, archived, forgotten)
  BY <1>6 DEF WorkOK
<1>8. WorkOK(pc'[t], ck'[t], at'[t], prompt', archived', forgotten')
  BY <1>3, <1>4, <1>7
<1> QED BY <1>1, <1>3, <1>4, <1>8 DEF OperationPart, WebLockInv, WorkInv

\* An operation starts from what the tab loads, or from nothing when nothing is out.
LEMMA CreateKeeps ==
    ASSUME DisclosureBounds, DisclosureInv, NEW t \in Tabs, NEW s \in Scopes, Create(t, s)
    PROVE  DisclosureInv'
<1>1. /\ lock = {} /\ s \notin archived /\ mounted' \in SUBSET Tabs
      /\ UNCHANGED <<prompt, archived, forgotten>> /\ MayStart(Load(t), s)
      /\ StorePart /\ OperationPart /\ ChainPart
  BY DEF Create, DisclosureInv, StorePart, StoreTypes
<1>2. PICK c : c = Load(t)
  OBVIOUS
<1>3. Good(c, prompt, archived, forgotten)
  BY <1>2, LoadIsGood
<1>4. ASSUME c.scope = s, Begin(t, c), UNCHANGED <<stores, screen, faults>>
      PROVE  DisclosureInv'
  <2>1. StoreTypes'
    BY <1>1, <1>4 DEF StorePart, StoreTypes, stores
  <2>2. StoresInv'
    BY <1>1, <1>4 DEF StorePart, StoresInv, stores
  <2>3. OperationPart'
    BY <1>1, <1>3, <1>4, Begins
  <2>4. ChainPart'
    BY <1>1, <1>4, ChainStays, FaultCounts
  <2> QED BY <2>1, <2>2, <2>3, <2>4 DEF DisclosureInv, StorePart
<1>5. ASSUME NEW ok \in BOOLEAN, NEW blank, blank = createAdminDisclosureCheckpoint(s), c.scope # s,
             screen' = [screen EXCEPT ![t] = blank], Save(t, blank, ok),
             IF ok THEN Begin(t, blank) ELSE UNCHANGED <<pc, ck, at, lock>>
      PROVE  DisclosureInv'
  <2>1. blank \in Checkpoints /\ blank.scope = s /\ \A g \in DOMAIN blank.group : blank.group[g].hash = 0
    BY <1>5, FreshShape
  <2>2. Tracks(blank, prompt)
    BY <2>1 DEF Tracks
  <2>3. ~HasLockedPointers(c)
    BY <1>1, <1>2, <1>5 DEF MayStart
  <2>4. Knows(c, prompt, archived, forgotten)
    BY <1>3 DEF Good
  <2>5. Knows(blank, prompt, archived, forgotten)
    BY <2>3, <2>4, UnlockedKnowsNone
  <2>6. Good(blank, prompt, archived, forgotten)
    BY <2>1, <2>2, <2>5 DEF Good
  <2>7. StorePart'
    BY <1>1, <1>5, <2>6, Saved
  <2>8. OperationPart'
    <3>1. CASE ok
      BY <1>1, <1>5, <2>1, <2>6, <3>1, Begins
    <3>2. CASE ~ok
      BY <1>1, <1>5, <3>2, OperationsStay, SameRequests DEF ChainPart
    <3> QED BY <3>1, <3>2
  <2>9. ChainPart'
    <3>1. faults' = faults + 1 \/ faults' = faults
      BY <1>5 DEF Save, Fault
    <3> QED BY <1>1, <3>1, ChainStays, FaultCounts
  <2> QED BY <2>7, <2>8, <2>9 DEF DisclosureInv
<1> QED BY <1>2, <1>4, <1>5 DEF Create

-----------------------------------------------------------------------------
(* The steps of the operation.                                             *)

\* An operation that ends, or goes on as it is, with its stores as they are.
LEMMA EndsQuietly ==
    ASSUME DisclosureBounds, DisclosureInv, NEW t \in Tabs, pc[t] \notin {"page", "closed"}, Throw(t),
           UNCHANGED <<stores, screen, mounted, prompt, archived, forgotten>>, faults' \in Nat
    PROVE  DisclosureInv'
<1>1. StorePart'
  BY StoresStay, SameRequests DEF DisclosureInv
<1>2. OperationPart'
  BY OperationHolds, Throws DEF DisclosureInv
<1>3. ChainPart'
  BY ChainStays DEF DisclosureInv
<1> QED BY <1>1, <1>2, <1>3 DEF DisclosureInv

\* A good checkpoint is recorded, or refused, and the operation ends.
LEMMA EndsWith ==
    ASSUME DisclosureBounds, DisclosureInv, NEW t \in Tabs, pc[t] \notin {"page", "closed"}, Throw(t),
           NEW c, NEW ok \in BOOLEAN, Update(t, c, ok), Good(c, prompt, archived, forgotten),
           UNCHANGED <<mounted, prompt, archived, forgotten>>
    PROVE  DisclosureInv'
<1>1. StorePart'
  BY Updated DEF DisclosureInv
<1>2. OperationPart'
  BY OperationHolds, Throws DEF DisclosureInv
<1>3. ChainPart'
  BY ChainStays, UpdateCounts DEF DisclosureInv
<1> QED BY <1>1, <1>2, <1>3 DEF DisclosureInv

\* A good checkpoint is recorded and the operation goes on, or ends when it is refused.
LEMMA RecordKeeps ==
    ASSUME DisclosureBounds, DisclosureInv, NEW t \in Tabs, pc[t] \notin {"page", "closed"},
           NEW c, NEW ok \in BOOLEAN, NEW i, NEW where, Update(t, c, ok),
           IF ok THEN Continue(t, c, i, where) ELSE Throw(t),
           Good(c, prompt, archived, forgotten), WorkOK(where, c, i, prompt, archived, forgotten),
           UNCHANGED <<mounted, prompt, archived, forgotten>>
    PROVE  DisclosureInv'
<1>1. StorePart'
  BY Updated DEF DisclosureInv
<1>2. OperationPart /\ lock = {t}
  BY OperationHolds DEF DisclosureInv
<1>3. OperationPart'
  <2>1. CASE ok
    <3>1. WorkOK(where, c, i, prompt', archived', forgotten')
      OBVIOUS
    <3> QED BY <1>2, <2>1, <3>1, GoesOn
  <2>2. CASE ~ok
    BY <1>2, <2>2, Throws
  <2> QED BY <2>1, <2>2
<1>4. ChainPart'
  BY ChainStays, UpdateCounts DEF DisclosureInv
<1> QED BY <1>1, <1>3, <1>4 DEF DisclosureInv

\* What the operation knows of the group it works on.
LEMMA GroupKnown ==
    ASSUME DisclosureBounds, DisclosureInv, NEW t \in Tabs, pc[t] \notin {"page", "closed"}
    PROVE  /\ entry(t) = ck[t].group[group(t)] /\ entry(t) \in Entries
           /\ Good(ck[t], prompt, archived, forgotten)
           /\ group(t) \in Groups
           /\ Sent(entry(t), group(t), prompt)
           /\ group(t) \notin forgotten /\ LiveOf(prompt, group(t)) # {} =>
                /\ entry(t).pending \/ entry(t).hash # 0
                /\ entry(t).hash # 0 => LiveOf(prompt, group(t)) \subseteq {entry(t).hash}
<1>1. /\ WorkOK(pc[t], ck[t], at[t], prompt, archived, forgotten)
      /\ ck[t].scope \in Scopes /\ ck[t].scope \notin archived /\ group(t) \in Range(ck[t].scope)
  BY OperationHolds DEF DisclosureInv
<1>2. Good(ck[t], prompt, archived, forgotten)
  BY <1>1 DEF WorkOK
<1>3. ck[t] \in Checkpoints /\ Tracks(ck[t], prompt) /\ Knows(ck[t], prompt, archived, forgotten)
  BY <1>2 DEF Good
<1>4. DOMAIN ck[t].group = Range(ck[t].scope) /\ ck[t].group[group(t)] \in Entries
  BY <1>1, <1>3, CheckpointShape
<1>5. entry(t) = ck[t].group[group(t)]
  BY DEF entry
<1>6. Sent(entry(t), group(t), prompt)
  BY <1>1, <1>3, <1>4, <1>5 DEF Tracks, Sent
<1>7. group(t) \notin forgotten /\ LiveOf(prompt, group(t)) # {} =>
        /\ group(t) \in LockedGroups(ck[t])
        /\ ck[t].group[group(t)].hash # 0 => LiveOf(prompt, group(t)) \subseteq {ck[t].group[group(t)].hash}
  BY <1>1, <1>3 DEF Knows
<1>8. group(t) \in LockedGroups(ck[t]) => ck[t].group[group(t)].pending \/ ck[t].group[group(t)].hash # 0
  BY DEF LockedGroups
<1>9. group(t) \in Groups
  BY <1>1 DEF Groups
<1> QED BY <1>2, <1>4, <1>5, <1>6, <1>7, <1>8, <1>9

\* The checkpoint of the operation, with the entry of its group patched.
LEMMA PatchedGood ==
    ASSUME DisclosureBounds, DisclosureInv, NEW t \in Tabs, pc[t] \notin {"page", "closed"},
           NEW e \in Entries, Pins(e, group(t), prompt, forgotten), Sent(e, group(t), prompt),
           NEW d, d = Patched(t, e)
    PROVE  Good(d, prompt, archived, forgotten) /\ d.scope = ck[t].scope /\ d.group[group(t)] = e
<1>1. ck[t].scope \in Scopes /\ group(t) \in Range(ck[t].scope)
  BY OperationHolds DEF DisclosureInv
<1>2. Good(ck[t], prompt, archived, forgotten)
  BY GroupKnown
<1>3. PICK c : c = ck[t]
  OBVIOUS
<1>4. PICK g : g = group(t)
  OBVIOUS
<1>5. d = PatchOf(c, g, e)
  BY <1>3, <1>4 DEF Patched, PatchOf
<1> HIDE DEF Good, Pins, Sent, group
<1>6. /\ c.scope \in Scopes /\ g \in Range(c.scope) /\ Good(c, prompt, archived, forgotten)
      /\ Pins(e, g, prompt, forgotten) /\ Sent(e, g, prompt)
  BY <1>1, <1>2, <1>3, <1>4
<1>7. Good(d, prompt, archived, forgotten) /\ d.scope = c.scope /\ d.group[g] = e
  BY <1>5, <1>6, PatchGood
<1> QED BY <1>3, <1>4, <1>7

\* Once the hash is recorded, the operation follows its receipt.
LEMMA HashRecorded ==
    ASSUME DisclosureBounds, DisclosureInv, NEW t \in Tabs, pc[t] \notin {"page", "closed", "archive"},
           NEW d, Good(d, prompt, archived, forgotten), d.scope = ck[t].scope, d.group[group(t)].hash # 0
    PROVE  WorkOK("receipt", d, at[t], prompt, archived, forgotten)
<1>1. /\ WorkOK(pc[t], ck[t], at[t], prompt, archived, forgotten)
      /\ group(t) = ck[t].scope[at[t]]
  BY OperationHolds DEF DisclosureInv
<1> HIDE DEF Good, group
<1> QED BY <1>1 DEF WorkOK

\* A new entry with a hash.
LEMMA HashEntry ==
    ASSUME NEW p \in Nat
    PROVE  [Blank EXCEPT !.hash = p] \in Entries /\ [Blank EXCEPT !.hash = p].hash = p
BY DEF Blank, Entries

\* A packet that is found on the chain is the only signature of its group.
LEMMA RecoverKeeps ==
    ASSUME DisclosureBounds, DisclosureInv, NEW t \in Tabs, Recover(t)
    PROVE  DisclosureInv'
<1>1. pc[t] = "group" /\ UNCHANGED <<mounted, prompt, archived, forgotten>>
  BY DEF Recover
<1>2. ASSUME NEW p \in Matches(group(t)), NEW ok \in BOOLEAN,
             Record(t, Patched(t, [Blank EXCEPT !.hash = p]), ok, "receipt")
      PROVE  DisclosureInv'
  <2>1. PICK g : g = group(t)
    OBVIOUS
  <2>2. p \in DOMAIN prompt /\ prompt[p].group = g /\ prompt[p].status = "success"
    BY <2>1 DEF Matches
  <2>3. p \in Nat /\ p # 0
    BY <2>2 DEF DisclosureInv, ChainPart, ChainTypes, PromptSeq
  <2>4. PICK e : e = [Blank EXCEPT !.hash = p]
    OBVIOUS
  <2>5. e \in Entries /\ e.hash = p
    BY <2>3, <2>4, HashEntry
  <2>6. g \in Groups
    BY <1>1, <2>1, GroupKnown
  <2>7. p \in LiveOf(prompt, g)
    BY <2>2 DEF LiveOf
  <2>8. g \in forgotten \/ LiveOf(prompt, g) \subseteq {p}
    BY <2>6, <2>7 DEF DisclosureInv, ChainPart, ChainInv, ChainOK
  <2>9. Pins(e, g, prompt, forgotten)
    BY <2>3, <2>5, <2>8 DEF Pins
  <2>10. Sent(e, g, prompt)
    BY <2>2, <2>5 DEF Sent
  <2>11. PICK d : d = Patched(t, e)
    OBVIOUS
  <2>12. Good(d, prompt, archived, forgotten) /\ d.scope = ck[t].scope /\ d.group[group(t)] = e
    BY <1>1, <2>1, <2>5, <2>9, <2>10, <2>11, PatchedGood
  <2>13. WorkOK("receipt", d, at[t], prompt, archived, forgotten)
    BY <1>1, <2>3, <2>5, <2>12, HashRecorded
  <2>14. Update(t, d, ok) /\ IF ok THEN Continue(t, d, at[t], "receipt") ELSE Throw(t)
    BY <1>2, <2>4, <2>11 DEF Record
  <2> QED BY <1>1, <2>12, <2>13, <2>14, RecordKeeps
<1>3. ASSUME Throw(t), UNCHANGED <<stores, screen, faults>> PROVE DisclosureInv'
  <2>1. faults' \in Nat
    BY <1>3, FaultCounts DEF DisclosureInv
  <2> QED BY <1>1, <1>3, <2>1, EndsQuietly
<1> QED BY <1>2, <1>3 DEF Recover

\* A prompt opens only when its group has no signature that may count, and after its marker.
LEMMA SignKeeps ==
    ASSUME DisclosureBounds, DisclosureInv, NEW t \in Tabs, Sign(t)
    PROVE  DisclosureInv'
<1>1. /\ pc[t] = "group" /\ entry(t).hash = 0 /\ ~entry(t).pending
      /\ UNCHANGED <<mounted, archived, forgotten>>
      /\ StorePart /\ OperationPart /\ ChainPart
  BY DEF Sign, DisclosureInv
<1>2. PICK c, g, i : c = ck[t] /\ g = group(t) /\ i = at[t]
  OBVIOUS
<1>3. /\ lock = {t} /\ WorkOK("group", c, i, prompt, archived, forgotten)
      /\ c.scope \in Scopes /\ g \in Range(c.scope) /\ g = c.scope[i]
  BY <1>1, <1>2, OperationHolds
<1>4. /\ Good(c, prompt, archived, forgotten) /\ g \in Groups
      /\ g \in forgotten \/ LiveOf(prompt, g) = {}
  BY <1>1, <1>2, GroupKnown
<1>5. ASSUME Update(t, c, FALSE), Throw(t), UNCHANGED prompt PROVE DisclosureInv'
  BY <1>1, <1>4, <1>5, EndsWith
<1>6. ASSUME NEW d, d = Patched(t, [Blank EXCEPT !.pending = TRUE]), Update(t, d, TRUE),
             NEW Q, Q = prompt', Q = Append(prompt, [group |-> g, by |-> t, status |-> "open"]),
             Continue(t, d, i, "prompt")
      PROVE  DisclosureInv'
  <2>1. PICK e : e = [Blank EXCEPT !.pending = TRUE]
    OBVIOUS
  <2>2. e \in Entries /\ e.pending = TRUE /\ e.hash = 0 /\ e = [pending |-> TRUE, hash |-> 0]
    BY <2>1 DEF Blank, Entries
  <2>3. PICK r : r = [group |-> g, by |-> t, status |-> "open"]
    OBVIOUS
  <2>4. r \in [group : Groups, by : Tabs, status : Statuses] /\ r.status = "open" /\ r.group = g
    BY <1>4, <2>3 DEF Statuses
  <2>5. prompt \in PromptSeq /\ Q = Opened(prompt, r)
    BY <1>1, <1>6, <2>3 DEF ChainPart, ChainTypes, Opened
  <2>6. /\ Q \in PromptSeq /\ Follows(prompt, Q) /\ Len(Q) = Len(prompt) + 1 /\ Len(Q) \in DOMAIN Q
        /\ Q[Len(Q)] = r
        /\ \A h : h # g => LiveOf(Q, h) = LiveOf(prompt, h)
        /\ \A h : LiveOf(Q, h) \subseteq LiveOf(prompt, h) \cup {Len(Q)}
    <3>1. /\ Q \in PromptSeq /\ Follows(prompt, Q) /\ Len(Q) = Len(prompt) + 1 /\ Len(Q) \in DOMAIN Q
          /\ Q[Len(Q)] = r
          /\ \A h : h # r.group => LiveOf(Q, h) = LiveOf(prompt, h)
          /\ \A h : LiveOf(Q, h) \subseteq LiveOf(prompt, h) \cup {Len(Q)}
      BY <2>4, <2>5, OpenedRequest
    <3>2. \A h : h # g => LiveOf(Q, h) = LiveOf(prompt, h)
      BY <2>4, <3>1, Zenon
    <3> QED BY <3>1, <3>2, Zenon
  <2>7. g \in forgotten \/ LiveOf(Q, g) \subseteq {Len(Q)}
    BY <1>4, <2>6
  <2>8. Good(c, Q, archived, forgotten \cup {g})
    <3>1. Knows(c, prompt, archived, forgotten) /\ Tracks(c, prompt) /\ c \in Checkpoints
      BY <1>4 DEF Good
    <3>2. Tracks(c, Q)
      BY <2>6, <3>1, FollowsKeeps
    <3>3. Knows(c, Q, archived, forgotten \cup {g})
      BY <2>6, <3>1 DEF Knows
    <3> QED BY <3>1, <3>2, <3>3 DEF Good
  <2>9. d = PatchOf(c, g, e)
    BY <1>2, <1>6, <2>1 DEF Patched, PatchOf
  <2>10. Pins(e, g, Q, forgotten \cup {g}) /\ Sent(e, g, Q)
    BY <2>2 DEF Pins, Sent
  <2>11. Good(d, Q, archived, forgotten \cup {g}) /\ d.scope = c.scope /\ d.group[g] = e
    BY <1>3, <2>2, <2>8, <2>9, <2>10, PatchGood
  <2>12. Good(d, Q, archived, forgotten)
    <3>1. d \in Checkpoints /\ Tracks(d, Q) /\ Knows(d, Q, archived, forgotten \cup {g})
      BY <2>11 DEF Good
    <3>2. g \in LockedGroups(d) /\ d.group[g].hash = 0
      BY <1>3, <2>2, <2>11, <3>1, CheckpointShape DEF LockedGroups
    <3>3. ASSUME NEW s \in Scopes \ archived, NEW h \in Range(s) \ forgotten, LiveOf(Q, h) # {}
          PROVE  /\ d.scope = s /\ h \in LockedGroups(d)
                 /\ d.group[h].hash # 0 => LiveOf(Q, h) \subseteq {d.group[h].hash}
      <4>1. CASE h = g
        <5>1. s = c.scope
          BY <1>3, <3>3, <4>1, OneScope
        <5> QED BY <2>11, <3>2, <4>1, <5>1
      <4>2. CASE h # g
        BY <3>1, <3>3, <4>2 DEF Knows
      <4> QED BY <4>1, <4>2
    <3>4. Knows(d, Q, archived, forgotten)
      BY <3>3 DEF Knows
    <3> QED BY <3>1, <3>4 DEF Good
  <2>13. WorkOK("prompt", d, i, Q, archived, forgotten)
    <3>1. \A h : MatchesOf(prompt, h) # {} => MatchesOf(Q, h) # {}
      BY <2>6, FollowsKeeps
    <3>2. Len(Q) # 0 /\ Q[Len(Q)].group = g
      BY <2>4, <2>5, <2>6 DEF PromptSeq
    <3> HIDE DEF Good, group
    <3> QED BY <1>3, <2>2, <2>7, <2>11, <2>12, <3>1, <3>2 DEF WorkOK
  <2>14. StorePart'
    <3>1. Follows(prompt, prompt') /\ Good(d, prompt', archived, forgotten)
      BY <1>6, <2>6, <2>12
    <3>2. Save(t, d, TRUE) /\ screen' \in {screen, [screen EXCEPT ![t] = d]}
      BY <1>6 DEF Update, Show
    <3>3. mounted' \in SUBSET Tabs
      BY <1>1 DEF StorePart, StoreTypes
    <3> QED BY <1>1, <3>1, <3>2, <3>3, Stored
  <2>15. OperationPart'
    <3>1. WorkOK("prompt", d, i, prompt', archived', forgotten')
      BY <1>1, <1>6, <2>13
    <3> QED BY <1>1, <1>3, <1>6, <3>1, GoesOn
  <2>16. ChainPart'
    <3>1. ChainOK(Q, archived, forgotten)
      <4>1. \A h : MatchesOf(prompt, h) # {} => MatchesOf(Q, h) # {}
        BY <2>6, FollowsKeeps
      <4> QED BY <1>1, <2>6, <2>7, <4>1 DEF ChainPart, ChainInv, ChainOK
    <3>2. ChainTypes'
      <4>1. faults' \in Nat
        BY <1>1, <1>6, UpdateCounts
      <4> QED BY <1>1, <1>6, <2>6, <4>1 DEF ChainPart, ChainTypes
    <3> QED BY <1>1, <1>6, <3>1, <3>2 DEF ChainPart, ChainInv
  <2> QED BY <2>14, <2>15, <2>16 DEF DisclosureInv
<1>7. PICK ok \in BOOLEAN :
        LET kept == IF ok THEN Patched(t, [Blank EXCEPT !.pending = TRUE]) ELSE c IN
        /\ Update(t, kept, ok)
        /\ IF ok
           THEN /\ prompt' = Append(prompt, [group |-> g, by |-> t, status |-> "open"])
                /\ Continue(t, kept, i, "prompt")
           ELSE Throw(t) /\ UNCHANGED prompt
  BY <1>2 DEF Sign, Marked
<1>8. CASE ok = TRUE
  <2>1. PICK d, Q : d = Patched(t, [Blank EXCEPT !.pending = TRUE]) /\ Q = prompt'
    OBVIOUS
  <2>2. /\ Update(t, d, TRUE) /\ Continue(t, d, i, "prompt")
        /\ Q = Append(prompt, [group |-> g, by |-> t, status |-> "open"])
    BY <1>7, <1>8, <2>1
  <2> QED BY <1>6, <2>1, <2>2
<1>9. CASE ok = FALSE
  BY <1>5, <1>7, <1>9
<1> QED BY <1>8, <1>9

\* A preflight that fails, before any prompt.
LEMMA PreflightKeeps ==
    ASSUME DisclosureBounds, DisclosureInv, NEW t \in Tabs, PreflightFails(t)
    PROVE  DisclosureInv'
<1>1. /\ pc[t] = "group" /\ Throw(t) /\ UNCHANGED <<stores, screen, mounted, prompt, archived, forgotten>>
      /\ faults' = faults + 1
  BY DEF PreflightFails, Fault
<1>2. faults' \in Nat
  BY <1>1, FaultCounts DEF DisclosureInv
<1> QED BY <1>1, <1>2, EndsQuietly

\* A stored hash is followed.
LEMMA FollowKeeps ==
    ASSUME DisclosureBounds, DisclosureInv, NEW t \in Tabs, Follow(t)
    PROVE  DisclosureInv'
<1>1. /\ pc[t] = "group" /\ entry(t).hash # 0 /\ Continue(t, ck[t], at[t], "receipt")
      /\ UNCHANGED <<stores, screen, mounted, prompt, archived, forgotten, faults>>
      /\ StorePart /\ OperationPart /\ ChainPart
  BY DEF Follow, Goto, DisclosureInv
<1>2. Good(ck[t], prompt, archived, forgotten) /\ ck[t].group[group(t)].hash # 0 /\ lock = {t}
  BY <1>1, GroupKnown, OperationHolds
<1>3. WorkOK("receipt", ck[t], at[t], prompt, archived, forgotten)
  BY <1>1, <1>2, HashRecorded
<1>4. WorkOK("receipt", ck[t], at[t], prompt', archived', forgotten')
  BY <1>1, <1>3
<1>5. StorePart'
  BY <1>1, StoresStay, SameRequests
<1>6. OperationPart'
  BY <1>1, <1>2, <1>4, GoesOn
<1>7. ChainPart'
  BY <1>1, ChainStays, FaultCounts
<1> QED BY <1>5, <1>6, <1>7 DEF DisclosureInv

\* The entry of a group without a signature is blank.
LEMMA BlankEntry == Blank \in Entries /\ Blank.hash = 0
BY DEF Blank, Entries

\* A group whose last signature does not count is cleared.
LEMMA ClearedGood ==
    ASSUME DisclosureBounds, DisclosureInv, NEW t \in Tabs, pc[t] \notin {"page", "closed"},
           group(t) \in forgotten \/ LiveOf(prompt, group(t)) = {}
    PROVE  Good(Patched(t, Blank), prompt, archived, forgotten)
<1>1. Pins(Blank, group(t), prompt, forgotten) /\ Sent(Blank, group(t), prompt)
  BY BlankEntry DEF Pins, Sent
<1>2. PICK d : d = Patched(t, Blank)
  OBVIOUS
<1>3. Good(d, prompt, archived, forgotten)
  BY <1>1, <1>2, BlankEntry, PatchedGood
<1> QED BY <1>2, <1>3

\* The wallet answers the request of the operation: its hash is the one signature, and a
\* rejection leaves none.
LEMMA AnswerKeeps ==
    ASSUME DisclosureBounds, DisclosureInv, NEW t \in Tabs, NEW p \in DOMAIN prompt, Answer(t, p)
    PROVE  DisclosureInv'
<1>1. pc[t] = "prompt" /\ p = Len(prompt) /\ UNCHANGED <<mounted, prompt, archived, forgotten>>
  BY DEF Answer
<1>2. PICK g : g = group(t)
  OBVIOUS
<1>3. /\ WorkOK("prompt", ck[t], at[t], prompt, archived, forgotten) /\ g = ck[t].scope[at[t]]
  BY <1>1, <1>2, OperationHolds DEF DisclosureInv
<1>4. prompt[p].group = g /\ (g \notin forgotten => LiveOf(prompt, g) \subseteq {p})
  BY <1>1, <1>3 DEF WorkOK
<1>5. p \in Nat /\ p # 0
  BY DEF DisclosureInv, ChainPart, ChainTypes, PromptSeq
<1>6. ASSUME prompt[p].status \notin {"open", "rejected"}, NEW ok \in BOOLEAN,
             Record(t, Patched(t, [Blank EXCEPT !.hash = p]), ok, "receipt")
      PROVE  DisclosureInv'
  <2>1. PICK e : e = [Blank EXCEPT !.hash = p]
    OBVIOUS
  <2>2. e \in Entries /\ e.hash = p
    BY <1>5, <2>1, HashEntry
  <2>3. Pins(e, g, prompt, forgotten)
    BY <1>4, <1>5, <2>2 DEF Pins
  <2>4. Sent(e, g, prompt)
    BY <1>4, <1>6, <2>2 DEF Sent
  <2>5. PICK d : d = Patched(t, e)
    OBVIOUS
  <2>6. Good(d, prompt, archived, forgotten) /\ d.scope = ck[t].scope /\ d.group[group(t)] = e
    BY <1>1, <1>2, <2>2, <2>3, <2>4, <2>5, PatchedGood
  <2>7. WorkOK("receipt", d, at[t], prompt, archived, forgotten)
    BY <1>1, <1>5, <2>2, <2>6, HashRecorded
  <2>8. Update(t, d, ok) /\ IF ok THEN Continue(t, d, at[t], "receipt") ELSE Throw(t)
    BY <1>6, <2>1, <2>5 DEF Record
  <2> QED BY <1>1, <2>6, <2>7, <2>8, RecordKeeps
<1>7. ASSUME Rejected(t, p), NEW ok \in BOOLEAN, Update(t, Patched(t, Blank), ok), Throw(t)
      PROVE  DisclosureInv'
  <2>1. prompt[p].status = "rejected"
    BY <1>7 DEF Rejected
  <2>2. p \notin LiveOf(prompt, g)
    BY <2>1 DEF LiveOf
  <2>3. g \in forgotten \/ LiveOf(prompt, g) = {}
    BY <1>4, <2>2
  <2>4. Good(Patched(t, Blank), prompt, archived, forgotten)
    BY <1>1, <1>2, <2>3, ClearedGood
  <2>5. PICK d : d = Patched(t, Blank)
    OBVIOUS
  <2>6. Update(t, d, ok) /\ Good(d, prompt, archived, forgotten)
    BY <1>7, <2>4, <2>5
  <2> QED BY <1>1, <1>7, <2>6, EndsWith
<1>8. ASSUME Fault, Throw(t), UNCHANGED <<stores, screen>> PROVE DisclosureInv'
  <2>1. faults' \in Nat
    BY <1>8, FaultCounts DEF DisclosureInv, Fault
  <2> QED BY <1>1, <1>8, <2>1, EndsQuietly
<1> QED BY <1>6, <1>7, <1>8 DEF Answer

\* A packet on the chain finishes its group; a reverted one leaves no signature.
LEMMA ReceiptKeeps ==
    ASSUME DisclosureBounds, DisclosureInv, NEW t \in Tabs, Receipt(t)
    PROVE  DisclosureInv'
<1>1. pc[t] = "receipt" /\ UNCHANGED <<mounted, prompt, archived, forgotten>>
  BY DEF Receipt
<1>2. PICK c, g, i, p : c = ck[t] /\ g = group(t) /\ i = at[t] /\ p = entry(t).hash
  OBVIOUS
<1>3. /\ WorkOK("receipt", c, i, prompt, archived, forgotten) /\ g = c.scope[i]
      /\ Len(c.scope) \in Nat /\ i \in 1 .. Len(c.scope)
  BY <1>1, <1>2, OperationHolds DEF DisclosureInv
<1>4. /\ Good(c, prompt, archived, forgotten) /\ Sent(entry(t), g, prompt) /\ p = c.group[g].hash
      /\ g \notin forgotten /\ LiveOf(prompt, g) # {} /\ p # 0 => LiveOf(prompt, g) \subseteq {p}
  BY <1>1, <1>2, GroupKnown
<1>5. p # 0
  BY <1>3, <1>4 DEF WorkOK
<1>6. p \in DOMAIN prompt /\ prompt[p].group = g
  BY <1>2, <1>4, <1>5 DEF Sent
<1>7. ASSUME Succeeded(p), NEW ok \in BOOLEAN, Update(t, c, ok),
             IF ~ok THEN Throw(t)
             ELSE IF i = Len(c.scope) THEN Continue(t, c, i, "archive")
             ELSE Continue(t, c, i + 1, "group")
      PROVE  DisclosureInv'
  <2>1. MatchesOf(prompt, g) # {}
    BY <1>6, <1>7 DEF MatchesOf, Succeeded
  <2>2. \A j \in 1 .. i : MatchesOf(prompt, c.scope[j]) # {}
    BY <1>3, <2>1 DEF WorkOK
  <2>3. CASE i = Len(c.scope)
    <3>1. WorkOK("archive", c, i, prompt, archived, forgotten)
      BY <1>3, <2>2, <2>3 DEF WorkOK
    <3>2. IF ok THEN Continue(t, c, i, "archive") ELSE Throw(t)
      BY <1>7, <2>3
    <3> QED BY <1>1, <1>4, <1>7, <3>1, <3>2, RecordKeeps
  <2>4. CASE i # Len(c.scope)
    <3>1. PICK j : j = i + 1
      OBVIOUS
    <3>2. j \in 1 .. Len(c.scope) /\ \A k \in 1 .. j : k < j => k \in 1 .. i
      BY <1>3, <2>4, <3>1
    <3>3. WorkOK("group", c, j, prompt, archived, forgotten)
      BY <1>3, <2>2, <3>2 DEF WorkOK
    <3>4. IF ok THEN Continue(t, c, j, "group") ELSE Throw(t)
      BY <1>7, <2>4, <3>1
    <3> QED BY <1>1, <1>4, <1>7, <3>3, <3>4, RecordKeeps
  <2> QED BY <2>3, <2>4
<1>8. ASSUME prompt[p].status = "reverted", NEW ok \in BOOLEAN, Update(t, Patched(t, Blank), ok), Throw(t)
      PROVE  DisclosureInv'
  <2>1. p \notin LiveOf(prompt, g)
    BY <1>8 DEF LiveOf
  <2>2. g \in forgotten \/ LiveOf(prompt, g) = {}
    BY <1>4, <1>5, <2>1
  <2>3. Good(Patched(t, Blank), prompt, archived, forgotten)
    BY <1>1, <1>2, <2>2, ClearedGood
  <2>4. PICK d : d = Patched(t, Blank)
    OBVIOUS
  <2>5. Update(t, d, ok) /\ Good(d, prompt, archived, forgotten)
    BY <1>8, <2>3, <2>4
  <2> QED BY <1>1, <1>8, <2>5, EndsWith
<1>9. ASSUME Fault, Throw(t), UNCHANGED <<stores, screen>> PROVE DisclosureInv'
  <2>1. faults' \in Nat
    BY <1>9, FaultCounts DEF DisclosureInv, Fault
  <2> QED BY <1>1, <1>9, <2>1, EndsQuietly
<1> QED BY <1>2, <1>7, <1>8, <1>9 DEF Receipt, Goto

\* A finished scope is reported: what is out was its own, and each of its groups is on the chain.
LEMMA ArchiveKeeps ==
    ASSUME DisclosureBounds, DisclosureInv, NEW t \in Tabs, Archive(t)
    PROVE  DisclosureInv'
<1>1. /\ pc[t] = "archive" /\ Throw(t) /\ UNCHANGED <<mounted, prompt, forgotten>>
      /\ StorePart /\ OperationPart /\ ChainPart
  BY DEF Archive, DisclosureInv
<1>2. /\ lock = {t} /\ WorkOK("archive", ck[t], at[t], prompt, archived, forgotten)
      /\ ck[t].scope \in Scopes /\ DOMAIN ck[t].scope = 1 .. Len(ck[t].scope)
  BY <1>1, OperationHolds
<1>3. OperationPart'
  BY <1>1, <1>2, Throws
<1>4. PICK s : s = ck[t].scope
  OBVIOUS
<1>5. ASSUME durable' = NoCheckpoint, volatile' = [volatile EXCEPT ![t] = NoCheckpoint],
             newer' = newer \ {t}, Show(t, NoCheckpoint), archived' = archived \cup {s}, faults' = faults
      PROVE  DisclosureInv'
  <2>1. /\ NoCheckpoint \in Checkpoints /\ Tracks(NoCheckpoint, prompt)
        /\ volatile \in [Tabs -> Checkpoints] /\ newer \in SUBSET Tabs
        /\ StoresOK(durable, volatile, newer, screen, prompt, archived, forgotten)
    BY <1>1 DEF StorePart, StoreTypes, StoresInv, Checkpoints, Tracks, NoCheckpoint
  <2>2. Knows(ck[t], prompt, archived, forgotten)
    BY <1>2 DEF WorkOK, Good
  <2>3. Knows(NoCheckpoint, prompt, archived', forgotten)
    BY <1>4, <1>5, <2>2 DEF Knows
  <2>4. StoresOK(NoCheckpoint, [volatile EXCEPT ![t] = NoCheckpoint], newer \ {t}, screen,
                 prompt, archived', forgotten)
    BY <1>5, <2>1, <2>3, RemovedOK
  <2>5. screen' \in [Tabs -> Checkpoints] /\ \A u \in Tabs : screen'[u] = screen[u] \/ screen'[u] = NoCheckpoint
    BY <1>1, <1>5, <2>1 DEF Show, StorePart, StoreTypes
  <2>6. StoresOK(NoCheckpoint, [volatile EXCEPT ![t] = NoCheckpoint], newer \ {t}, screen',
                 prompt, archived', forgotten)
    BY <2>1, <2>4, <2>5, ShownOK
  <2>7. StoreTypes'
    BY <1>1, <1>5, <2>1, <2>5 DEF StorePart, StoreTypes
  <2>8. StorePart'
    BY <1>1, <1>5, <2>6, <2>7 DEF StorePart, StoresInv
  <2>9. \A g \in Range(s) : MatchesOf(prompt, g) # {}
    <3>1. \A j \in DOMAIN s : MatchesOf(prompt, s[j]) # {}
      BY <1>2, <1>4 DEF WorkOK
    <3> QED BY <3>1 DEF Range
  <2>10. ChainOK(prompt, archived', forgotten)
    BY <1>1, <1>5, <2>9 DEF ChainPart, ChainInv, ChainOK
  <2>11. ChainTypes'
    BY <1>1, <1>2, <1>4, <1>5 DEF ChainPart, ChainTypes
  <2>12. ChainPart'
    BY <1>1, <2>10, <2>11 DEF ChainPart, ChainInv
  <2> QED BY <1>3, <2>8, <2>12 DEF DisclosureInv
<1>6. ASSUME Fault, UNCHANGED <<stores, screen, archived>> PROVE DisclosureInv'
  <2>1. faults' \in Nat
    BY <1>1, <1>6, FaultCounts DEF Fault
  <2> QED BY <1>1, <1>6, <2>1, EndsQuietly
<1> QED BY <1>4, <1>5, <1>6 DEF Archive

\* A request that the user answers, or the chain mines.
LEMMA ChainStepKeeps ==
    ASSUME DisclosureBounds, DisclosureInv, NEW p \in DOMAIN prompt, WalletAndChain(p)
    PROVE  DisclosureInv'
<1>1. /\ UNCHANGED <<stores, screen, mounted>> /\ UNCHANGED <<pc, ck, at, lock, archived>>
      /\ forgotten' = forgotten /\ faults' = faults
      /\ StorePart /\ OperationPart /\ ChainPart
  BY DEF WalletAndChain, DisclosureInv
<1>2. PICK from, to :
        /\ <<from, to>> \in {<<"open", "sent">>, <<"open", "rejected">>,
                             <<"sent", "success">>, <<"sent", "reverted">>}
        /\ prompt[p].status = from /\ prompt' = [prompt EXCEPT ![p].status = to]
  BY DEF WalletAndChain, Becomes
<1>3. to \in Statuses
  BY <1>2 DEF Statuses
<1>4. prompt \in PromptSeq
  BY <1>1 DEF ChainPart, ChainTypes
<1>5. PICK Q : Q = prompt'
  OBVIOUS
<1>6. Q = Turned(prompt, p, to)
  BY <1>2, <1>5 DEF Turned
<1>7. Q \in PromptSeq /\ Follows(prompt, Q) /\ Fades(prompt, Q) /\ Len(Q) = Len(prompt)
  BY <1>2, <1>3, <1>4, <1>6, ChangedRequest
<1>8. StorePart'
  BY <1>1, <1>5, <1>7, StoresStay
<1>9. OperationPart'
  BY <1>1, <1>5, <1>7, OperationsStay DEF ChainPart
<1>10. ChainPart'
  <2>1. ChainOK(Q, archived, forgotten)
    BY <1>1, <1>7, ChainKeeps DEF ChainPart, ChainInv
  <2>2. ChainTypes'
    BY <1>1, <1>5, <1>7 DEF ChainPart, ChainTypes
  <2> QED BY <1>1, <1>5, <2>1, <2>2 DEF ChainPart, ChainInv
<1> QED BY <1>8, <1>9, <1>10 DEF DisclosureInv

-----------------------------------------------------------------------------
(* The theorems.                                                           *)

\* At first nothing is stored and nothing was asked of the wallet.
LEMMA DisclosureInit ==
    ASSUME DisclosureBounds, Init
    PROVE  DisclosureInv
<1>1. NoCheckpoint \in Checkpoints
  BY DEF Checkpoints
<1>2. StorePart
  <2>1. StoreTypes
    BY <1>1 DEF Init, StoreTypes
  <2>2. /\ Tracks(NoCheckpoint, prompt)
        /\ \A t \in Tabs : volatile[t] = NoCheckpoint /\ screen[t] = NoCheckpoint
    BY DEF Init, Tracks, NoCheckpoint
  <2>3. Knows(NoCheckpoint, prompt, archived, forgotten)
    BY DEF Init, Knows, LiveOf
  <2>4. durable = NoCheckpoint /\ newer = {}
    BY DEF Init
  <2> QED BY <2>1, <2>2, <2>3, <2>4 DEF StorePart, StoresInv, StoresOK
<1>3. OperationPart
  BY <1>1 DEF Init, OperationPart, OperationTypes, WebLockInv, WorkInv, Pcs
<1>4. ChainPart
  BY DEF Init, ChainPart, ChainTypes, ChainInv, ChainOK, PromptSeq, LiveOf
<1> QED BY <1>2, <1>3, <1>4 DEF DisclosureInv

\* Every step keeps the invariant.
LEMMA DisclosureStep ==
    ASSUME DisclosureBounds, DisclosureInv, [Next]_vars
    PROVE  DisclosureInv'
<1>1. CASE UNCHANGED vars
  <2>1. /\ UNCHANGED <<stores, screen, mounted>> /\ UNCHANGED <<pc, ck, at, lock, archived>>
        /\ UNCHANGED <<prompt, archived, forgotten>> /\ faults' = faults
    BY <1>1 DEF vars
  <2>2. StorePart'
    BY <2>1, StoresStay, SameRequests DEF DisclosureInv
  <2>3. OperationPart'
    BY <2>1, OperationsStay, SameRequests DEF DisclosureInv, ChainPart
  <2>4. ChainPart'
    BY <2>1, ChainStays, FaultCounts DEF DisclosureInv
  <2> QED BY <2>2, <2>3, <2>4 DEF DisclosureInv
<1>2. ASSUME NEW t \in Tabs, Mount(t) \/ Discard(t) \/ Close(t) \/ Open(t) PROVE DisclosureInv'
  BY <1>2, MountKeeps, DiscardKeeps, CloseKeeps, OpenKeeps
<1>3. ASSUME NEW t \in Tabs, Operation(t) PROVE DisclosureInv'
  BY <1>3, RecoverKeeps, SignKeeps, PreflightKeeps, FollowKeeps, AnswerKeeps, ReceiptKeeps, ArchiveKeeps
     DEF Operation
<1>4. ASSUME NEW t \in Tabs, NEW s \in Scopes, Create(t, s) PROVE DisclosureInv'
  BY <1>4, CreateKeeps
<1>5. ASSUME NEW p \in DOMAIN prompt, WalletAndChain(p) PROVE DisclosureInv'
  BY <1>5, ChainStepKeeps
<1> QED BY <1>1, <1>2, <1>3, <1>4, <1>5 DEF Next

\* In every state a checkpoint that a tab may go on with knows every signature that may count.
THEOREM CheckpointsKnow == ASSUME DisclosureBounds PROVE Spec => []DisclosureInv
<1>1. Init => DisclosureInv
  BY DisclosureInit
<1>2. DisclosureInv /\ [Next]_vars => DisclosureInv'
  BY DisclosureStep
<1> QED BY <1>1, <1>2, PTL DEF Spec

\* The checkpoints that are stored are of a selection and of the wallet's requests.
LEMMA TrackedOK ==
    ASSUME DisclosureBounds, ChainTypes, NEW c \in Checkpoints, Tracks(c, prompt)
    PROVE  CheckpointOK(c)
<1>1. /\ DOMAIN c.group = Range(c.scope) /\ \A g \in DOMAIN c.group : c.group[g] \in Entries
      /\ c.scope \in Scopes \cup {<<>>}
  BY CheckpointShape
<1>2. DOMAIN prompt = 1 .. Len(prompt) /\ Len(prompt) \in Nat
  BY DEF ChainTypes, PromptSeq
<1>3. ASSUME NEW g \in DOMAIN c.group PROVE c.group[g].pending \in BOOLEAN /\ c.group[g].hash \in 0 .. Len(prompt)
  <2>1. c.group[g].pending \in BOOLEAN /\ c.group[g].hash \in Nat
    BY <1>1 DEF Entries
  <2>2. c.group[g].hash # 0 => c.group[g].hash \in 1 .. Len(prompt)
    BY <1>2 DEF Tracks
  <2> QED BY <1>2, <2>1, <2>2
<1> QED BY <1>1, <1>3 DEF CheckpointOK

\* A set whose elements are all the same has one at most.
LEMMA OneAtMost ==
    ASSUME NEW S, \A x, y \in S : x = y
    PROVE  Cardinality(S) <= 1
<1>1. CASE S = {}
  BY <1>1, FS_EmptySet
<1>2. CASE S # {}
  <2>1. PICK x : x \in S
    BY <1>2
  <2>2. S = {x}
    BY <2>1
  <2>3. Cardinality({x}) = 1
    BY FS_Singleton
  <2> QED BY <2>2, <2>3
<1> QED BY <1>1, <1>2

\* The invariant gives the promises of a disclosure.
LEMMA DisclosurePromises ==
    ASSUME DisclosureBounds, DisclosureInv
    PROVE  DisclosureSafe /\ PointerSurvives
<1>1. \A g : Live(g) = LiveOf(prompt, g) /\ Matches(g) = MatchesOf(prompt, g)
  BY DEF Live, LiveOf, Matches, MatchesOf
<1>2. DisclosureTypeOK
  <2>1. CheckpointOK(durable) /\ \A t \in Tabs : CheckpointOK(volatile[t]) /\ CheckpointOK(screen[t])
    <3>1. /\ durable \in Checkpoints /\ Tracks(durable, prompt) /\ ChainTypes
          /\ \A t \in Tabs : /\ volatile[t] \in Checkpoints /\ screen[t] \in Checkpoints
                             /\ Tracks(volatile[t], prompt) /\ Tracks(screen[t], prompt)
      BY DEF DisclosureInv, StorePart, StoreTypes, StoresInv, StoresOK, ChainPart
    <3> QED BY <3>1, TrackedOK
  <2>2. newer \subseteq Tabs /\ mounted \subseteq Tabs /\ lock \subseteq Tabs
    BY DEF DisclosureInv, StorePart, StoreTypes, OperationPart, OperationTypes
  <2>3. Cardinality(lock) <= 1
    BY OneAtMost DEF DisclosureInv, OperationPart, WebLockInv
  <2>4. ASSUME NEW t \in Tabs PROVE pc[t] \in {"page", "closed"} <=> t \notin lock
    <3>1. t \in lock => pc[t] \in {"group", "prompt", "receipt", "archive"}
      BY DEF DisclosureInv, OperationPart, WorkInv, WorkOK
    <3>2. t \notin lock => pc[t] \in {"page", "closed"}
      BY DEF DisclosureInv, OperationPart, WebLockInv
    <3> QED BY <3>1, <3>2
  <2>5. ASSUME NEW p \in DOMAIN prompt
        PROVE  prompt[p].status \in {"open", "sent", "rejected", "success", "reverted"}
    <3>1. PICK S : S = [group : Groups, by : Tabs, status : Statuses]
      OBVIOUS
    <3>2. prompt \in Seq(S)
      BY <3>1 DEF DisclosureInv, ChainPart, ChainTypes, PromptSeq
    <3>3. prompt[p] \in S
      BY <3>2
    <3>4. prompt[p].status \in Statuses
      BY <3>1, <3>3
    <3> QED BY <3>4 DEF Statuses
  <2> QED BY <2>1, <2>2, <2>3, <2>4, <2>5 DEF DisclosureTypeOK
<1>3. OneSignature
  <2>1. ASSUME NEW g \in Groups \ forgotten PROVE Cardinality(LiveOf(prompt, g)) <= 1
    BY <2>1, OneAtMost DEF DisclosureInv, ChainPart, ChainInv, ChainOK
  <2> QED BY <1>1, <2>1 DEF OneSignature
<1>4. ReportIsTrue
  BY <1>1 DEF DisclosureInv, ChainPart, ChainInv, ChainOK, ReportIsTrue
<1>5. PointerSurvives
  <2>1. Knows(durable, prompt, archived, forgotten)
    BY DEF DisclosureInv, StorePart, StoresInv, StoresOK
  <2> QED BY <1>1, <2>1 DEF Knows, PointerSurvives
<1> QED BY <1>2, <1>3, <1>4, <1>5 DEF DisclosureSafe

\* No group is signed a second time while its first signature may count, and a scope is
\* reported as created only with its packets on the chain: for any tabs, reloads, lost
\* answers, refused writes and selections that share no group.
THEOREM NoSecondSignature == ASSUME DisclosureBounds PROVE Spec => []DisclosureSafe
<1>1. DisclosureInv => DisclosureSafe
  BY DisclosurePromises
<1> QED BY <1>1, CheckpointsKnow, PTL

\* Every signature that may count has its pointer in the durable storage until its scope is
\* reported, unless the user discarded it.
THEOREM PointersStay == ASSUME DisclosureBounds PROVE Spec => []PointerSurvives
<1>1. DisclosureInv => PointerSurvives
  BY DisclosurePromises
<1> QED BY <1>1, CheckpointsKnow, PTL

-----------------------------------------------------------------------------
(***************************************************************************)
(* The wallets of the browser: a check per wallet, and what the handlers do *)
(* that wait for it.                                                       *)
(***************************************************************************)

TaskKinds == {"none", "connect", "silent", "switch", "account", "client"}
TaskPcs == {"idle", "accounts", "chain", "flight", "reread", "permissions", "client"}
Stages == {"idle", "read", "switch", "add", "select", "settle", "confirm"}
NetTypes ==
    /\ flight \in [netAt.Flights -> [w : netAt.Wallets \cup {0}, stage : Stages]]
    /\ check \in [netAt.Wallets -> netAt.Flights \cup {0}]
    /\ task \in [netAt.Tasks -> [kind : TaskKinds, w : netAt.Wallets \cup {0}, live : BOOLEAN, pc : TaskPcs,
                       on : netAt.Flights \cup {0}]]
    /\ account \in netAt.Wallets \cup {0, netAt.Demo} /\ info \in netAt.Wallets \cup {0} /\ active \in netAt.Wallets \cup {0}
    /\ intent \in netAt.Wallets \cup {0, netAt.Demo} /\ netReq \in netAt.Flights \cup {0}
    /\ handleClients \in [netAt.Wallets -> netAt.Wallets \cup {0}]
    /\ switching \in BOOLEAN /\ restoring \in BOOLEAN
ChecksAgree ==
    /\ \A f \in netAt.Flights : flight[f].stage # "idle" => flight[f].w \in netAt.Wallets /\ check[flight[f].w] = f
    /\ \A w \in netAt.Wallets : check[w] # 0 => flight[check[w]].w = w /\ flight[check[w]].stage # "idle"
    /\ switching <=> netReq # 0
    /\ netReq # 0 => flight[netReq].stage # "idle"
TaskOK(t) ==
    /\ t.pc = "idle" => ~t.live
    /\ t.pc # "idle" => t.w \in netAt.Wallets /\ t.kind # "none"
    /\ t.pc \in {"accounts", "chain"} => t.kind \in {"connect", "silent"}
    /\ t.pc = "permissions" => t.kind = "account"
    /\ t.pc = "client" \/ t.kind = "client" => ~t.live /\ t.kind = "client"
    /\ t.pc = "flight" =>
        t.on \in netAt.Flights /\ flight[t.on].stage # "idle" /\ (t.kind # "client" => flight[t.on].w = t.w)
Main(t) == t.live /\ t.kind \in {"connect", "silent", "account"}
MainOK(t) == Main(t) => /\ t.pc \in {"accounts", "permissions"} => t.w = intent
                        /\ t.pc # "accounts" => t.w = active
TasksOK ==
    /\ \A t \in netAt.Tasks : TaskOK(task[t]) /\ MainOK(task[t])
    /\ \A t, u \in netAt.Tasks : Main(task[t]) /\ Main(task[u]) => t = u
    /\ restoring => intent = netAt.Saved /\ \A t \in netAt.Tasks : ~Main(task[t])
PageOK ==
    /\ Net!ClientIsProviders
    /\ (account \in netAt.Wallets => active # 0) /\ (info # 0 => info = active)
NetInv == NetTypes /\ ChecksAgree /\ PageOK /\ TasksOK

LEMMA NetConst == /\ 0 \notin netAt.Wallets /\ netAt.Fallback \in netAt.Wallets /\ netAt.Saved \in netAt.Wallets \cup {0}
                  /\ 0 \notin netAt.Tasks /\ 0 \notin netAt.Flights /\ netAt.Demo \notin netAt.Wallets \cup {0}
BY BrowserConstants DEF Net!WalletsAssumption

LEMMA NetStart ==
    ASSUME NetInv, NEW w \in netAt.Wallets, NEW f \in Net!FlightFor(w), Net!Start(w, f)
    PROVE  /\ f \in netAt.Flights
           /\ flight' \in [netAt.Flights -> [w : netAt.Wallets \cup {0}, stage : Stages]] /\ check' \in [netAt.Wallets -> netAt.Flights \cup {0}]
           /\ \A g \in netAt.Flights : flight'[g].stage # "idle" => flight'[g].w \in netAt.Wallets /\ check'[flight'[g].w] = g
           /\ \A u \in netAt.Wallets : check'[u] # 0 => flight'[check'[u]].w = u /\ flight'[check'[u]].stage # "idle"
           /\ \A g \in netAt.Flights : flight[g].stage # "idle" => flight'[g] = flight[g]
           /\ flight'[f].w = w /\ flight'[f].stage # "idle"
BY NetConst DEF Net!FlightFor, Net!Start, NetInv, NetTypes, ChecksAgree, Stages

LEMMA NetRequest ==
    ASSUME NetInv, NEW w \in netAt.Wallets, NEW f \in netAt.Flights, Net!Request(w, f)
    PROVE  /\ flight' \in [netAt.Flights -> [w : netAt.Wallets \cup {0}, stage : Stages]] /\ check' \in [netAt.Wallets -> netAt.Flights \cup {0}]
           /\ netReq' \in netAt.Flights \cup {0} /\ switching' \in BOOLEAN
           /\ ChecksAgree'
           /\ \A g \in netAt.Flights : flight[g].stage # "idle" => flight'[g] = flight[g]
           /\ flight'[f].w = w /\ flight'[f].stage # "idle"
<1>1. CASE netReq # 0 /\ flight[netReq].w = w
  BY <1>1, NetConst DEF Net!Request, NetInv, NetTypes, ChecksAgree, Net!net
<1>2. CASE ~(netReq # 0 /\ flight[netReq].w = w)
  <2>1. f \in Net!FlightFor(w) /\ Net!Start(w, f) /\ switching' = TRUE /\ netReq' = f
    BY <1>2 DEF Net!Request
  <2> HIDE <1>2
  <2> QED BY <2>1, NetStart, NetConst DEF ChecksAgree
<1> QED BY <1>1, <1>2

\* What becomes of a task when a flight settles.
LEMMA NetSettledTasks ==
    ASSUME NetInv, NEW f \in netAt.Flights, NEW ok \in BOOLEAN, Net!Settle(f, ok), NEW t \in netAt.Tasks
    PROVE  \/ task'[t] = task[t] /\ ~(task[t].pc = "flight" /\ task[t].on = f)
           \/ task[t].pc = "flight" /\ task[t].live /\ task[t].kind # "client"
              /\ task'[t] = [task[t] EXCEPT !.pc = "reread", !.on = 0]
           \/ task[t].pc = "flight" /\ task[t].kind = "client"
              /\ task'[t] = [task[t] EXCEPT !.pc = "client", !.on = 0]
           \/ task'[t] = Net!NoTask
BY Zenon DEF Net!Settle, NetInv, NetTypes, Net!Waiting

LEMMA NetSettledTask ==
    ASSUME NetInv, NEW f \in netAt.Flights, NEW ok \in BOOLEAN, Net!Settle(f, ok), NEW t \in netAt.Tasks
    PROVE  /\ task'[t] \in [kind : TaskKinds, w : netAt.Wallets \cup {0}, live : BOOLEAN, pc : TaskPcs, on : netAt.Flights \cup {0}]
           /\ TaskOK(task[t])' /\ MainOK(task[t])'
           /\ Main(task[t])' => Main(task[t])
<1>1. task[t] \in [kind : TaskKinds, w : netAt.Wallets \cup {0}, live : BOOLEAN, pc : TaskPcs, on : netAt.Flights \cup {0}]
      /\ TaskOK(task[t]) /\ MainOK(task[t])
  BY DEF NetInv, NetTypes, TasksOK
<1>2. flight' = [flight EXCEPT ![f] = Net!NoFlight] /\ active' = active /\ intent' = intent
  BY Zenon DEF Net!Settle
<1>3. flight \in [netAt.Flights -> [w : netAt.Wallets \cup {0}, stage : Stages]]
  BY DEF NetInv, NetTypes
<1>4. CASE task'[t] = task[t] /\ ~(task[t].pc = "flight" /\ task[t].on = f)
  BY <1>1, <1>2, <1>3, <1>4, NetConst DEF TaskOK, MainOK, Main
<1>5. CASE task[t].pc = "flight" /\ task[t].live /\ task[t].kind # "client"
           /\ task'[t] = [task[t] EXCEPT !.pc = "reread", !.on = 0]
  BY <1>1, <1>2, <1>3, <1>5, NetConst DEF TaskOK, MainOK, Main, TaskPcs
<1>6. CASE task[t].pc = "flight" /\ task[t].kind = "client"
           /\ task'[t] = [task[t] EXCEPT !.pc = "client", !.on = 0]
  BY <1>1, <1>2, <1>3, <1>6, NetConst DEF TaskOK, MainOK, Main, TaskPcs
<1>7. CASE task'[t] = Net!NoTask
  BY <1>1, <1>2, <1>3, <1>7, NetConst DEF TaskOK, MainOK, Main, TaskPcs, TaskKinds, Net!NoTask
<1> QED BY Zenon, <1>4, <1>5, <1>6, <1>7, NetSettledTasks

LEMMA NetSettle ==
    ASSUME NetInv, NEW f \in netAt.Flights, NEW ok \in BOOLEAN, flight[f].stage # "idle", Net!Settle(f, ok)
    PROVE  NetInv'
<1>1. /\ flight' = [flight EXCEPT ![f] = Net!NoFlight] /\ check' = [check EXCEPT ![flight[f].w] = 0]
      /\ switching' = (switching /\ netReq # f) /\ netReq' = IF netReq = f THEN 0 ELSE netReq
      /\ UNCHANGED <<account, info, active, restoring, intent>>
  BY Zenon DEF Net!Settle
<1>2. \A a \in netAt.Wallets : handleClients'[a] \in {handleClients[a], Net!Provider}
  BY Zenon DEF Net!Settle, NetInv, NetTypes
<1>3. DOMAIN handleClients' = netAt.Wallets /\ handleClients' = [a \in netAt.Wallets |-> handleClients'[a]]
  BY Zenon DEF Net!Settle
<1>4. DOMAIN task' = netAt.Tasks /\ task' = [t \in netAt.Tasks |-> task'[t]]
  BY Zenon DEF Net!Settle
<1>5. NetTypes'
  <2>1. flight' \in [netAt.Flights -> [w : netAt.Wallets \cup {0}, stage : Stages]] /\ check' \in [netAt.Wallets -> netAt.Flights \cup {0}]
    BY <1>1, NetConst DEF NetInv, NetTypes, Net!NoFlight, Stages
  <2>2. handleClients' \in [netAt.Wallets -> netAt.Wallets \cup {0}]
    BY <1>2, <1>3, NetConst DEF NetInv, NetTypes, Net!Provider
  <2>3. task' \in [netAt.Tasks -> [kind : TaskKinds, w : netAt.Wallets \cup {0}, live : BOOLEAN, pc : TaskPcs, on : netAt.Flights \cup {0}]]
    BY <1>4, NetSettledTask
  <2>4. netReq' \in netAt.Flights \cup {0} /\ switching' \in BOOLEAN
    BY <1>1 DEF NetInv, NetTypes
  <2> QED BY <1>1, <2>1, <2>2, <2>3, <2>4 DEF NetInv, NetTypes
<1>6. ChecksAgree'
  <2>1. \A g \in netAt.Flights : flight'[g].stage # "idle" => g # f /\ flight'[g] = flight[g]
    BY <1>1 DEF NetInv, NetTypes, Net!NoFlight
  <2>2. \A w \in netAt.Wallets : check'[w] # 0 => w # flight[f].w /\ check'[w] = check[w]
    BY <1>1 DEF NetInv, NetTypes
  <2>3. \A w \in netAt.Wallets : check'[w] # 0 => check[w] # f
    BY <2>2 DEF NetInv, ChecksAgree
  <2>4. \A g \in netAt.Flights : g # f => flight'[g] = flight[g]
    BY <1>1 DEF NetInv, NetTypes
  <2>5. \A g \in netAt.Flights : flight'[g].stage # "idle" => flight'[g].w \in netAt.Wallets /\ check'[flight'[g].w] = g
    <3> SUFFICES ASSUME NEW g \in netAt.Flights, flight'[g].stage # "idle" PROVE flight'[g].w \in netAt.Wallets /\ check'[flight'[g].w] = g
      OBVIOUS
    <3>1. g # f /\ flight'[g] = flight[g] /\ flight[g].w \in netAt.Wallets /\ check[flight[g].w] = g
      BY <2>1 DEF NetInv, ChecksAgree
    <3>2. flight[f].w \in netAt.Wallets /\ check[flight[f].w] = f
      BY DEF NetInv, ChecksAgree
    <3> QED BY <3>1, <3>2, <1>1 DEF NetInv, NetTypes
  <2>6. \A w \in netAt.Wallets : check'[w] # 0 => flight'[check'[w]].w = w /\ flight'[check'[w]].stage # "idle"
    BY <2>2, <2>3, <2>4 DEF NetInv, ChecksAgree, NetTypes
  <2>7. switching' <=> netReq' # 0
    BY <1>1 DEF NetInv, ChecksAgree, NetTypes
  <2>8. netReq' # 0 => flight'[netReq'].stage # "idle"
    BY <1>1, <2>4 DEF NetInv, ChecksAgree, NetTypes
  <2> QED BY <2>5, <2>6, <2>7, <2>8 DEF ChecksAgree
<1>7. PageOK'
  BY <1>1, <1>2 DEF NetInv, PageOK, Net!ClientIsProviders, Net!Provider
<1>8. TasksOK'
  BY <1>1, NetSettledTask DEF NetInv, TasksOK
<1> QED BY <1>5, <1>6, <1>7, <1>8 DEF NetInv


netFrame == <<flight, check, task, account, info, active, netReq, switching, handleClients, restoring, intent>>

LEMMA NetStutter == ASSUME NetInv, UNCHANGED netFrame PROVE NetInv'
BY DEF netFrame, NetInv, NetTypes, ChecksAgree, PageOK, TasksOK, TaskOK, MainOK, Main, Net!ClientIsProviders, Net!Provider

\* A flight goes on.
LEMMA NetTo ==
    ASSUME NetInv, NEW f \in netAt.Flights, flight[f].stage # "idle", NEW s \in Stages \ {"idle"}, Net!To(f, s),
           UNCHANGED <<check, task, account, info, active, netReq, switching, handleClients, restoring, intent>>
    PROVE  NetInv'
<1>1. \A g \in netAt.Flights : flight'[g].w = flight[g].w /\ (flight'[g].stage = "idle" <=> flight[g].stage = "idle")
  BY DEF Net!To, NetInv, NetTypes
<1>2. NetTypes'
  BY DEF Net!To, NetInv, NetTypes
<1>3. ChecksAgree'
  BY <1>1 DEF NetInv, NetTypes, ChecksAgree
<1>4. PageOK'
  BY DEF NetInv, PageOK, Net!ClientIsProviders, Net!Provider
<1>5. TasksOK'
  BY <1>1 DEF NetInv, TasksOK, TaskOK, MainOK, Main
<1> QED BY <1>2, <1>3, <1>4, <1>5 DEF NetInv

netQuiet == <<check, task, account, info, active, netReq, switching, handleClients, restoring, intent>>
LEMMA NetFlightStep ==
    ASSUME NetInv, NEW f \in netAt.Flights,
           Net!ReadFirst(f) \/ Net!ReadFails(f) \/ Net!Refuse(f) \/ Net!Approve(f)
             \/ Net!Unrecognized(f) \/ Net!Poll(f) \/ Net!Deadline(f)
    PROVE  NetInv'
<1>1. /\ flight[f].stage # "idle"
      /\ \/ \E ok \in BOOLEAN : Net!Settle(f, ok)
         \/ (\E s \in Stages \ {"idle"} : Net!To(f, s)) /\ UNCHANGED netQuiet
  BY DEF Net!ReadFirst, Net!ReadFails, Net!Refuse, Net!Approve, Net!Unrecognized, Net!Poll, Net!Deadline,
         Net!Stage, Stages, netQuiet, Net!app, Net!page, Net!ghosts, Net!wallet, Net!net
<1> QED BY <1>1, NetSettle, NetTo DEF netQuiet

-----------------------------------------------------------------------------
LEMMA NetTaskType ==
    ASSUME NetInv, NEW t \in netAt.Tasks
    PROVE  task[t] \in [kind : TaskKinds, w : netAt.Wallets \cup {0}, live : BOOLEAN, pc : TaskPcs, on : netAt.Flights \cup {0}]
           /\ TaskOK(task[t]) /\ MainOK(task[t])
BY DEF NetInv, NetTypes, TasksOK

\* A task alone ends.
LEMMA NetEnd ==
    ASSUME NetInv, NEW t \in netAt.Tasks, Net!End(t),
           UNCHANGED <<flight, check, account, info, active, netReq, switching, restoring, intent>>,
           handleClients' \in [netAt.Wallets -> netAt.Wallets \cup {0}], Net!ClientIsProviders'
    PROVE  NetInv'
<1>1. NetTypes'
  BY NetConst DEF Net!End, NetInv, NetTypes, Net!NoTask, TaskKinds, TaskPcs
<1>2. ChecksAgree'
  BY DEF NetInv, ChecksAgree
<1>3. PageOK'
  BY DEF NetInv, PageOK
<1>4. \A u \in netAt.Tasks : task'[u] = task[u] \/ (u = t /\ task'[u] = Net!NoTask)
  BY DEF Net!End, NetInv, NetTypes
<1>5. TaskOK(Net!NoTask)' /\ ~Main(Net!NoTask)
  BY DEF TaskOK, Main, Net!NoTask
<1>6. TasksOK'
  BY <1>4, <1>5 DEF NetInv, TasksOK, TaskOK, MainOK, Main, Net!NoTask
<1> QED BY <1>1, <1>2, <1>3, <1>6 DEF NetInv

\* The accounts of a wallet.
LEMMA NetAccounts == ASSUME NetInv, NEW t \in netAt.Tasks, Net!Accounts(t) PROVE NetInv'
<1>1. CASE /\ task[t].live
           /\ active' = task[t].w /\ handleClients' = Net!CacheUnder(task[t].w)
           /\ account' = task[t].w /\ info' = task[t].w
           /\ task' = [task EXCEPT ![t].pc = "chain"]
  <2>1. UNCHANGED <<flight, check, netReq, switching, restoring, intent>>
    BY DEF Net!Accounts, Net!net, Net!ghosts
  <2>2. /\ task[t].w \in netAt.Wallets /\ task[t].w = intent /\ task[t].w # 0 /\ Main(task[t]) /\ task[t].pc = "accounts"
        /\ task[t].kind \in {"connect", "silent"}
    BY <1>1, NetTaskType, NetConst DEF Net!Accounts, TaskOK, MainOK, Main
  <2>3. handleClients' \in [netAt.Wallets -> netAt.Wallets \cup {0}] /\ Net!ClientIsProviders'
    BY <1>1, <2>2 DEF Net!CacheUnder, Net!ClientIsProviders, Net!Provider, NetInv, NetTypes, PageOK
  <2>4. \A u \in netAt.Tasks : IF u = t THEN task'[u] = [task[u] EXCEPT !.pc = "chain"] ELSE task'[u] = task[u]
    BY <1>1 DEF NetInv, NetTypes
  <2>5. task' \in [netAt.Tasks -> [kind : TaskKinds, w : netAt.Wallets \cup {0}, live : BOOLEAN, pc : TaskPcs, on : netAt.Flights \cup {0}]]
    BY <1>1, NetTaskType DEF NetInv, NetTypes, TaskPcs
  <2>6. \A u \in netAt.Tasks : Main(task[u])' <=> Main(task[u])
    BY Zenon, <2>4, NetTaskType DEF Main
  <2>7. \A u \in netAt.Tasks : TaskOK(task[u])' /\ MainOK(task[u])'
    <3> SUFFICES ASSUME NEW u \in netAt.Tasks PROVE TaskOK(task[u])' /\ MainOK(task[u])'
      OBVIOUS
    <3>1. CASE u = t
      BY <3>1, <2>1, <2>2, <2>4, <1>1, NetTaskType DEF TaskOK, MainOK, Main
    <3>2. CASE u # t
      <4>1. ~Main(task[u])
        BY <3>2, <2>2 DEF NetInv, TasksOK
      <4> QED BY <4>1, <3>2, <2>1, <2>4, NetTaskType DEF TaskOK, MainOK, Main
    <3> QED BY <3>1, <3>2
  <2>8. TasksOK'
    BY <2>1, <2>6, <2>7 DEF NetInv, TasksOK
  <2>9. NetTypes'
    BY <2>1, <2>2, <2>3, <2>5, <1>1 DEF NetInv, NetTypes
  <2>10. PageOK'
    BY <1>1, <2>2, <2>3 DEF PageOK
  <2> QED BY <2>1, <2>8, <2>9, <2>10 DEF NetInv, ChecksAgree
<1>2. CASE Net!End(t) /\ UNCHANGED <<active, handleClients, account, info>>
  <2>1. UNCHANGED <<flight, check, netReq, switching, restoring, intent>>
    BY DEF Net!Accounts, Net!net, Net!ghosts
  <2>2. handleClients' \in [netAt.Wallets -> netAt.Wallets \cup {0}] /\ Net!ClientIsProviders'
    BY <1>2 DEF Net!ClientIsProviders, Net!Provider, NetInv, NetTypes, PageOK
  <2> QED BY <1>2, <2>1, <2>2, NetEnd
<1> QED BY <1>1, <1>2 DEF Net!Accounts


TaskType == [kind : TaskKinds, w : netAt.Wallets \cup {0}, live : BOOLEAN, pc : TaskPcs, on : netAt.Flights \cup {0}]
FlightsKept == \A g \in netAt.Flights : flight[g].stage # "idle" => flight'[g] = flight[g]

\* A task that is left alone, or outdated.
LEMMA NetKept ==
    ASSUME NetInv, NEW u \in netAt.Tasks, FlightsKept,
           \/ task'[u] = task[u] /\ (Main(task[u]) => UNCHANGED <<active, intent>>)
           \/ task'[u] = [task[u] EXCEPT !.live = FALSE]
    PROVE  /\ task'[u] \in TaskType /\ TaskOK(task[u])' /\ MainOK(task[u])'
           /\ Main(task'[u]) => Main(task[u]) /\ task'[u] = task[u]
<1>1. task[u] \in TaskType /\ TaskOK(task[u]) /\ MainOK(task[u])
  BY NetTaskType DEF TaskType
<1>2. CASE task'[u] = task[u] /\ (Main(task[u]) => UNCHANGED <<active, intent>>)
  BY <1>1, <1>2 DEF TaskOK, MainOK, Main, FlightsKept
<1>3. CASE task'[u] = [task[u] EXCEPT !.live = FALSE]
  <2>1. task'[u] \in TaskType /\ ~task'[u].live /\ task'[u].pc = task[u].pc /\ task'[u].kind = task[u].kind
        /\ task'[u].w = task[u].w /\ task'[u].on = task[u].on
    BY <1>1, <1>3 DEF TaskType
  <2> QED BY <1>1, <2>1 DEF TaskOK, MainOK, Main, FlightsKept
<1> QED BY <1>2, <1>3

\* One task is set, the others are left alone or outdated.
LEMMA NetSet ==
    ASSUME NetInv, NEW t \in netAt.Tasks, FlightsKept,
           flight' \in [netAt.Flights -> [w : netAt.Wallets \cup {0}, stage : Stages]], check' \in [netAt.Wallets -> netAt.Flights \cup {0}],
           netReq' \in netAt.Flights \cup {0}, switching' \in BOOLEAN, ChecksAgree',
           DOMAIN task' = netAt.Tasks, task' = [u \in netAt.Tasks |-> task'[u]],
           task'[t] \in TaskType, TaskOK(task[t])', MainOK(task[t])',
           \/ \A u \in netAt.Tasks \ {t} : task'[u] = [task[u] EXCEPT !.live = FALSE]
           \/ \A u \in netAt.Tasks \ {t} : task'[u] = task[u] /\ (Main(task[u]) => UNCHANGED <<active, intent>>)
              /\ ~(Main(task[u]) /\ Main(task'[t])),
           restoring' => intent' = netAt.Saved /\ (\A u \in netAt.Tasks : ~Main(task[u])) /\ ~Main(task'[t]),
           restoring' \in BOOLEAN,
           account' \in netAt.Wallets \cup {0, netAt.Demo}, info' \in netAt.Wallets \cup {0}, active' \in netAt.Wallets \cup {0},
           intent' \in netAt.Wallets \cup {0, netAt.Demo}, handleClients' \in [netAt.Wallets -> netAt.Wallets \cup {0}],
           PageOK'
    PROVE  NetInv'
<1>1. ASSUME NEW u \in netAt.Tasks, u # t
      PROVE  /\ task'[u] \in TaskType /\ TaskOK(task[u])' /\ MainOK(task[u])'
             /\ Main(task'[u]) => Main(task[u]) /\ task'[u] = task[u]
  <2>1. \/ task'[u] = task[u] /\ (Main(task[u]) => UNCHANGED <<active, intent>>)
        \/ task'[u] = [task[u] EXCEPT !.live = FALSE]
    BY <1>1
  <2> QED BY <2>1, NetKept
<1>2. ASSUME NEW u \in netAt.Tasks, u # t PROVE ~(Main(task'[u]) /\ Main(task'[t]))
  <2> SUFFICES ASSUME Main(task'[u]), Main(task'[t]) PROVE FALSE
    OBVIOUS
  <2>1. Main(task[u]) /\ task'[u] = task[u]
    BY <1>1, <1>2
  <2>2. task[u].live /\ task[u] \in TaskType
    BY <2>1, NetTaskType DEF Main, TaskType
  <2>3. task'[u] # [task[u] EXCEPT !.live = FALSE]
    BY <2>1, <2>2 DEF TaskType
  <2> QED BY <1>2, <2>1, <2>3
<1>3. task' \in [netAt.Tasks -> TaskType]
  <2>1. \A u \in netAt.Tasks : task'[u] \in TaskType
    BY <1>1
  <2> QED BY <2>1
<1>4. NetTypes'
  BY <1>3 DEF NetTypes, TaskType
<1>5. TasksOK'
  <2>1. ASSUME NEW u \in netAt.Tasks PROVE TaskOK(task[u])' /\ MainOK(task[u])'
    BY <1>1
  <2>2. ASSUME NEW u \in netAt.Tasks, NEW v \in netAt.Tasks, Main(task'[u]), Main(task'[v]) PROVE u = v
    <3>1. CASE u = t \/ v = t
      BY <2>2, <3>1, <1>2
    <3>2. CASE u # t /\ v # t
      <4>1. Main(task[u]) /\ Main(task[v])
        BY <2>2, <3>2, <1>1
      <4> QED BY <4>1 DEF NetInv, TasksOK
    <3> QED BY <3>1, <3>2
  <2>3. ASSUME restoring', NEW u \in netAt.Tasks PROVE ~Main(task'[u]) /\ intent' = netAt.Saved
    BY <2>3, <1>1
  <2> QED BY <2>1, <2>2, <2>3 DEF TasksOK
<1> QED BY <1>4, <1>5 DEF NetInv

LEMMA NetChain == ASSUME NetInv, NEW t \in netAt.Tasks, Net!Chain(t) PROVE NetInv'
<1>1. /\ task[t].pc = "chain"
      /\ UNCHANGED <<chainOf, account, info, active, handleClients, restoring, intent>>
  BY DEF Net!Chain, Net!wallet
<1>2. CASE Net!End(t) /\ UNCHANGED <<flight, check, switching, netReq>>
  <2>1. handleClients' \in [netAt.Wallets -> netAt.Wallets \cup {0}] /\ Net!ClientIsProviders'
    BY <1>1 DEF Net!ClientIsProviders, Net!Provider, NetInv, NetTypes, PageOK
  <2> QED BY <1>1, <1>2, <2>1, NetEnd
<1>3. ASSUME NEW f \in netAt.Flights, task[t].live, Net!Request(task[t].w, f),
             task' = [task EXCEPT ![t].pc = "flight", ![t].on = f]
      PROVE  NetInv'
  <2>1. task[t] \in TaskType /\ TaskOK(task[t]) /\ MainOK(task[t]) /\ task[t].w \in netAt.Wallets
        /\ task[t].kind \in {"connect", "silent"}
    BY <1>1, NetTaskType DEF TaskType, TaskOK
  <2>2. /\ flight' \in [netAt.Flights -> [w : netAt.Wallets \cup {0}, stage : Stages]] /\ check' \in [netAt.Wallets -> netAt.Flights \cup {0}]
        /\ netReq' \in netAt.Flights \cup {0} /\ switching' \in BOOLEAN
        /\ ChecksAgree' /\ FlightsKept
        /\ flight'[f].w = task[t].w /\ flight'[f].stage # "idle"
    BY <1>3, <2>1, NetRequest DEF FlightsKept
  <2>3. task'[t] = [task[t] EXCEPT !.pc = "flight", !.on = f] /\ \A u \in netAt.Tasks \ {t} : task'[u] = task[u]
    BY <1>3 DEF NetInv, NetTypes
  <2>4. task'[t] \in TaskType /\ TaskOK(task[t])' /\ MainOK(task[t])'
    <3>1. /\ task'[t] \in TaskType /\ task'[t].pc = "flight" /\ task'[t].on = f
          /\ task'[t].w = task[t].w /\ task'[t].kind = task[t].kind /\ task'[t].live = task[t].live
      BY <2>1, <2>3 DEF TaskType, TaskPcs
    <3> QED BY <1>1, <1>3, <2>1, <2>2, <3>1, NetConst DEF TaskOK, MainOK, Main
  <2>5. Main(task[t])
    BY <1>3, <2>1 DEF Main
  <2>6. DOMAIN task' = netAt.Tasks /\ task' = [u \in netAt.Tasks |-> task'[u]]
    BY <1>3 DEF NetInv, NetTypes
  <2>7. \A u \in netAt.Tasks \ {t} : task'[u] = task[u] /\ (Main(task[u]) => UNCHANGED <<active, intent>>)
              /\ ~(Main(task[u]) /\ Main(task'[t]))
    BY <1>1, <2>3, <2>5 DEF NetInv, TasksOK
  <2>8. ~restoring
    BY <2>5 DEF NetInv, TasksOK
  <2>9. PageOK'
    BY <1>1 DEF NetInv, PageOK, Net!ClientIsProviders, Net!Provider
  <2>10. /\ restoring' \in BOOLEAN /\ account' \in netAt.Wallets \cup {0, netAt.Demo} /\ info' \in netAt.Wallets \cup {0}
         /\ active' \in netAt.Wallets \cup {0} /\ intent' \in netAt.Wallets \cup {0, netAt.Demo}
         /\ handleClients' \in [netAt.Wallets -> netAt.Wallets \cup {0}]
    BY <1>1 DEF NetInv, NetTypes
  <2>11. ~restoring'
    BY <1>1, <2>8
  <2> QED BY <2>2, <2>4, <2>6, <2>7, <2>9, <2>10, <2>11, NetSet
<1>4. \/ Net!End(t) /\ UNCHANGED <<flight, check, switching, netReq>>
      \/ \E f \in netAt.Flights : task[t].live /\ Net!Request(task[t].w, f)
                      /\ task' = [task EXCEPT ![t].pc = "flight", ![t].on = f]
  BY DEF Net!Chain, Net!net
<1> QED BY <1>2, <1>3, <1>4

LEMMA NetPermitted == ASSUME NetInv, NEW t \in netAt.Tasks, Net!Permitted(t) PROVE NetInv'
<1>1. /\ task[t].pc = "permissions"
      /\ UNCHANGED <<chainOf, info, active, handleClients, restoring, intent>>
  BY DEF Net!Permitted, Net!wallet, Net!ghosts
<1>2. CASE Net!End(t) /\ UNCHANGED <<account, flight, check, switching, netReq>>
  <2>1. handleClients' \in [netAt.Wallets -> netAt.Wallets \cup {0}] /\ Net!ClientIsProviders'
    BY <1>1 DEF Net!ClientIsProviders, Net!Provider, NetInv, NetTypes, PageOK
  <2> QED BY <1>1, <1>2, <2>1, NetEnd
<1>3. ASSUME NEW f \in netAt.Flights, task[t].live, account' = task[t].w, Net!Request(task[t].w, f),
             task' = [task EXCEPT ![t].pc = "flight", ![t].on = f]
      PROVE  NetInv'
  <2>1. task[t] \in TaskType /\ TaskOK(task[t]) /\ MainOK(task[t]) /\ task[t].w \in netAt.Wallets
        /\ task[t].kind = "account"
    BY <1>1, NetTaskType DEF TaskType, TaskOK
  <2>2. /\ flight' \in [netAt.Flights -> [w : netAt.Wallets \cup {0}, stage : Stages]] /\ check' \in [netAt.Wallets -> netAt.Flights \cup {0}]
        /\ netReq' \in netAt.Flights \cup {0} /\ switching' \in BOOLEAN
        /\ ChecksAgree' /\ FlightsKept
        /\ flight'[f].w = task[t].w /\ flight'[f].stage # "idle"
    BY <1>3, <2>1, NetRequest DEF FlightsKept
  <2>3. task'[t] = [task[t] EXCEPT !.pc = "flight", !.on = f] /\ \A u \in netAt.Tasks \ {t} : task'[u] = task[u]
    BY <1>3 DEF NetInv, NetTypes
  <2>4. task'[t] \in TaskType /\ TaskOK(task[t])' /\ MainOK(task[t])'
    <3>1. /\ task'[t] \in TaskType /\ task'[t].pc = "flight" /\ task'[t].on = f
          /\ task'[t].w = task[t].w /\ task'[t].kind = task[t].kind /\ task'[t].live = task[t].live
      BY <2>1, <2>3 DEF TaskType, TaskPcs
    <3> QED BY <1>1, <1>3, <2>1, <2>2, <3>1, NetConst DEF TaskOK, MainOK, Main
  <2>5. Main(task[t])
    BY <1>3, <2>1 DEF Main
  <2>6. DOMAIN task' = netAt.Tasks /\ task' = [u \in netAt.Tasks |-> task'[u]]
    BY <1>3 DEF NetInv, NetTypes
  <2>7. \A u \in netAt.Tasks \ {t} : task'[u] = task[u] /\ (Main(task[u]) => UNCHANGED <<active, intent>>)
              /\ ~(Main(task[u]) /\ Main(task'[t]))
    BY <1>1, <2>3, <2>5 DEF NetInv, TasksOK
  <2>8. ~restoring'
    BY <1>1, <2>5 DEF NetInv, TasksOK
  <2>9. PageOK'
    BY <1>1, <1>3, <2>1, <2>5, NetConst DEF NetInv, PageOK, Net!ClientIsProviders, Net!Provider, MainOK
  <2>10. /\ restoring' \in BOOLEAN /\ account' \in netAt.Wallets \cup {0, netAt.Demo} /\ info' \in netAt.Wallets \cup {0}
         /\ active' \in netAt.Wallets \cup {0} /\ intent' \in netAt.Wallets \cup {0, netAt.Demo}
         /\ handleClients' \in [netAt.Wallets -> netAt.Wallets \cup {0}]
    BY <1>1, <1>3, <2>1 DEF NetInv, NetTypes
  <2> QED BY <2>2, <2>4, <2>6, <2>7, <2>8, <2>9, <2>10, NetSet
<1>4. \/ Net!End(t) /\ UNCHANGED <<account, flight, check, switching, netReq>>
      \/ \E f \in netAt.Flights : task[t].live /\ account' = task[t].w /\ Net!Request(task[t].w, f)
                      /\ task' = [task EXCEPT ![t].pc = "flight", ![t].on = f]
  BY DEF Net!Permitted, Net!net
<1> QED BY <1>2, <1>3, <1>4

LEMMA NetTaskEnds ==
    ASSUME NetInv, NEW t \in netAt.Tasks, Net!ChainFails(t) \/ Net!Reread(t) \/ Net!ClientUp(t) PROVE NetInv'
<1>1. Net!End(t) /\ UNCHANGED <<flight, check, account, info, active, netReq, switching, restoring, intent>>
  BY DEF Net!ChainFails, Net!Reread, Net!ClientUp, Net!wallet, Net!net, Net!ghosts
<1>2. handleClients' \in [netAt.Wallets -> netAt.Wallets \cup {0}] /\ Net!ClientIsProviders'
  BY <1>1, NetConst DEF Net!ChainFails, Net!Reread, Net!ClientUp, NetInv, NetTypes, PageOK, Net!ClientIsProviders, Net!Provider
<1> QED BY <1>1, <1>2, NetEnd

-----------------------------------------------------------------------------
LEMMA NetWorld ==
    ASSUME NetInv, NEW w \in netAt.Wallets, Net!Move(w) \/ Net!ChainChanged(w) PROVE NetInv'
BY NetStutter DEF netFrame, Net!Move, Net!ChainChanged, Net!net, Net!app, Net!page, Net!ghosts

LEMMA NetLocked == ASSUME NetInv, NEW w \in netAt.Wallets, Net!Locked(w) PROVE NetInv'
<1>1. /\ account' = 0 /\ info' = 0
      /\ UNCHANGED <<flight, check, task, active, netReq, switching, handleClients, restoring, intent>>
  BY DEF Net!Locked, Net!net, Net!ghosts
<1>2. NetTypes' /\ ChecksAgree'
  BY <1>1 DEF NetInv, NetTypes, ChecksAgree
<1>3. PageOK'
  BY <1>1, NetConst DEF NetInv, PageOK, Net!ClientIsProviders, Net!Provider
<1>4. TasksOK'
  BY <1>1 DEF NetInv, TasksOK, TaskOK, MainOK, Main
<1> QED BY <1>2, <1>3, <1>4 DEF NetInv

\* The epoch moves on, and no new handler runs.
LEMMA NetOutdated ==
    ASSUME NetInv, task' = Net!Outdated, UNCHANGED <<flight, check>>, restoring' = FALSE,
           netReq' \in netAt.Flights \cup {0}, switching' \in BOOLEAN, ChecksAgree',
           account' \in netAt.Wallets \cup {0, netAt.Demo}, info' \in netAt.Wallets \cup {0}, active' \in netAt.Wallets \cup {0},
           intent' \in netAt.Wallets \cup {0, netAt.Demo}, handleClients' \in [netAt.Wallets -> netAt.Wallets \cup {0}], PageOK'
    PROVE  NetInv'
<1>1. ASSUME NEW u \in netAt.Tasks
      PROVE  task'[u] \in TaskType /\ TaskOK(task[u])' /\ MainOK(task[u])' /\ ~Main(task'[u])
  <2>1. task'[u] = [task[u] EXCEPT !.live = FALSE]
    BY DEF Net!Outdated
  <2>2. task'[u] \in TaskType /\ ~task'[u].live
    BY <2>1, NetTaskType DEF TaskType
  <2> QED BY <2>1, <2>2, NetKept DEF FlightsKept, Main
<1>2. task' \in [netAt.Tasks -> TaskType]
  BY <1>1 DEF Net!Outdated
<1>3. NetTypes'
  BY <1>2 DEF NetInv, NetTypes, TaskType
<1>4. TasksOK'
  BY <1>1 DEF TasksOK
<1> QED BY <1>3, <1>4 DEF NetInv

LEMMA NetConnect == ASSUME NetInv, Net!Connect PROVE NetInv'
<1>1. /\ task' = Net!Outdated /\ restoring' = FALSE
      /\ UNCHANGED <<flight, check, account, info, active, netReq, switching, handleClients, intent>>
  BY DEF Net!Connect, Net!net, Net!page, Net!ghosts
<1>2. ChecksAgree' /\ PageOK'
  BY <1>1 DEF NetInv, ChecksAgree, PageOK, Net!ClientIsProviders, Net!Provider
<1> QED BY <1>1, <1>2, NetOutdated DEF NetInv, NetTypes

LEMMA NetDrop == ASSUME NetInv, NEW who \in {0, netAt.Demo}, Net!Drop(who) PROVE NetInv'
<1>1. /\ task' = Net!Outdated /\ restoring' = FALSE /\ netReq' = 0 /\ switching' = FALSE
      /\ active' = 0 /\ handleClients' = Net!CacheUnder(0) /\ info' = 0
      /\ account' = who /\ intent' = who /\ UNCHANGED <<flight, check>>
  BY DEF Net!Drop, Net!net
<1>2. handleClients' \in [netAt.Wallets -> netAt.Wallets \cup {0}] /\ Net!ClientIsProviders'
  BY <1>1 DEF Net!CacheUnder, Net!ClientIsProviders, Net!Provider, NetInv, NetTypes, PageOK
<1>3. ChecksAgree' /\ PageOK'
  BY <1>1, <1>2, NetConst DEF NetInv, ChecksAgree, PageOK
<1> QED BY <1>1, <1>2, <1>3, NetOutdated

\* A handler that outdates every other one.
LEMMA NetBegin ==
    ASSUME NetInv, NEW w \in netAt.Wallets, NEW r \in TaskType, NEW t \in netAt.Tasks,
           task' = [Net!Outdated EXCEPT ![t] = r], UNCHANGED <<flight, check, netReq, switching>>,
           UNCHANGED <<account, info, active, handleClients>>, restoring' = FALSE, intent' \in netAt.Wallets,
           TaskOK(r), r.pc \in {"accounts", "permissions"}, r.w = intent',
           r.pc = "permissions" => r.w = active
    PROVE  NetInv'
<1>1. task'[t] = r /\ DOMAIN task' = netAt.Tasks /\ task' = [u \in netAt.Tasks |-> task'[u]]
      /\ \A u \in netAt.Tasks \ {t} : task'[u] = [task[u] EXCEPT !.live = FALSE]
  BY DEF Net!Outdated
<1>2. TaskOK(task[t])' /\ MainOK(task[t])'
  BY <1>1 DEF TaskOK, MainOK, Main
<1>3. FlightsKept /\ ChecksAgree' /\ PageOK'
  BY DEF FlightsKept, NetInv, ChecksAgree, PageOK, Net!ClientIsProviders, Net!Provider
<1>4. /\ flight' \in [netAt.Flights -> [w : netAt.Wallets \cup {0}, stage : Stages]] /\ check' \in [netAt.Wallets -> netAt.Flights \cup {0}]
      /\ netReq' \in netAt.Flights \cup {0} /\ switching' \in BOOLEAN
      /\ account' \in netAt.Wallets \cup {0, netAt.Demo} /\ info' \in netAt.Wallets \cup {0} /\ active' \in netAt.Wallets \cup {0}
      /\ intent' \in netAt.Wallets \cup {0, netAt.Demo} /\ handleClients' \in [netAt.Wallets -> netAt.Wallets \cup {0}]
  BY DEF NetInv, NetTypes
<1> QED BY <1>1, <1>2, <1>3, <1>4, NetSet

LEMMA NetConnectWallet == ASSUME NetInv, NEW w \in netAt.Wallets, Net!ConnectWallet(w) PROVE NetInv'
<1>1. PICK t \in netAt.Tasks : task' = [Net!Outdated EXCEPT ![t] = [kind |-> "connect", w |-> w, live |-> TRUE, pc |-> "accounts", on |-> 0]]
  BY DEF Net!ConnectWallet, Net!Begin, Net!Free
<1>2. PICK r : r = [kind |-> "connect", w |-> w, live |-> TRUE, pc |-> "accounts", on |-> 0]
  OBVIOUS
<1>3. r \in TaskType /\ TaskOK(r) /\ r.pc = "accounts" /\ r.w = w
  BY <1>2 DEF TaskType, TaskKinds, TaskPcs, TaskOK
<1>4. intent' = w /\ restoring' = FALSE /\ UNCHANGED <<flight, check, netReq, switching, account, info, active, handleClients>>
  BY DEF Net!ConnectWallet, Net!net, Net!page
<1> QED BY <1>1, <1>2, <1>3, <1>4, NetBegin

LEMMA NetSwitchAccount == ASSUME NetInv, Net!SwitchAccount PROVE NetInv'
<1>1. active \in netAt.Wallets /\ Net!Provider = active
  BY NetConst DEF Net!SwitchAccount, NetInv, PageOK, NetTypes, Net!Provider
<1>2. PICK t \in netAt.Tasks : task' = [Net!Outdated EXCEPT ![t] = [kind |-> "account", w |-> active, live |-> TRUE, pc |-> "permissions", on |-> 0]]
  BY <1>1 DEF Net!SwitchAccount, Net!Begin, Net!Free
<1>3. PICK r : r = [kind |-> "account", w |-> active, live |-> TRUE, pc |-> "permissions", on |-> 0]
  OBVIOUS
<1>4. r \in TaskType /\ TaskOK(r) /\ r.pc = "permissions" /\ r.w = active
  BY <1>1, <1>3 DEF TaskType, TaskKinds, TaskPcs, TaskOK
<1>5. intent' = active /\ restoring' = FALSE /\ UNCHANGED <<flight, check, netReq, switching, account, info, active, handleClients>>
  BY <1>1 DEF Net!SwitchAccount, Net!net, Net!page
<1> QED BY <1>1, <1>2, <1>3, <1>4, <1>5, NetBegin

LEMMA NetRestore == ASSUME NetInv, Net!Restore \/ Net!RestoreOver PROVE NetInv'
<1>1. CASE Net!RestoreOver
  <2>1. restoring' = FALSE /\ UNCHANGED <<flight, check, task, account, info, active, netReq, switching, handleClients, intent>>
    BY <1>1 DEF Net!RestoreOver, Net!net, Net!page, Net!ghosts
  <2> QED BY <2>1 DEF NetInv, NetTypes, ChecksAgree, PageOK, TasksOK, TaskOK, MainOK, Main, Net!ClientIsProviders, Net!Provider
<1>2. CASE Net!Restore
  <2>1. restoring /\ netAt.Saved \in netAt.Wallets /\ intent = netAt.Saved /\ \A u \in netAt.Tasks : ~Main(task[u])
    BY <1>2, NetConst DEF Net!Restore, NetInv, TasksOK
  <2>2. PICK t \in netAt.Tasks : task' = [task EXCEPT ![t] = [kind |-> "silent", w |-> netAt.Saved, live |-> TRUE, pc |-> "accounts", on |-> 0]]
    BY <1>2 DEF Net!Restore, Net!Free
  <2>3. PICK r : r = [kind |-> "silent", w |-> netAt.Saved, live |-> TRUE, pc |-> "accounts", on |-> 0]
    OBVIOUS
  <2>4. r \in TaskType /\ TaskOK(r) /\ r.pc = "accounts" /\ r.w = netAt.Saved
    BY <2>1, <2>3 DEF TaskType, TaskKinds, TaskPcs, TaskOK
  <2>5. restoring' = FALSE /\ UNCHANGED <<flight, check, netReq, switching, account, info, active, handleClients, intent>>
    BY <1>2 DEF Net!Restore, Net!net, Net!page, Net!ghosts
  <2>6. task'[t] = r /\ DOMAIN task' = netAt.Tasks /\ task' = [u \in netAt.Tasks |-> task'[u]] /\ \A u \in netAt.Tasks \ {t} : task'[u] = task[u]
    BY <2>2, <2>3 DEF NetInv, NetTypes
  <2>7. TaskOK(task[t])' /\ MainOK(task[t])'
    BY <2>1, <2>4, <2>5, <2>6 DEF TaskOK, MainOK, Main
  <2>8. FlightsKept /\ ChecksAgree' /\ PageOK'
    BY <2>5 DEF FlightsKept, NetInv, ChecksAgree, PageOK, Net!ClientIsProviders, Net!Provider
  <2>9. \A u \in netAt.Tasks \ {t} : task'[u] = task[u] /\ (Main(task[u]) => UNCHANGED <<active, intent>>)
              /\ ~(Main(task[u]) /\ Main(task'[t]))
    BY <2>1, <2>5, <2>6
  <2>10. /\ flight' \in [netAt.Flights -> [w : netAt.Wallets \cup {0}, stage : Stages]] /\ check' \in [netAt.Wallets -> netAt.Flights \cup {0}]
         /\ netReq' \in netAt.Flights \cup {0} /\ switching' \in BOOLEAN
         /\ account' \in netAt.Wallets \cup {0, netAt.Demo} /\ info' \in netAt.Wallets \cup {0} /\ active' \in netAt.Wallets \cup {0}
         /\ intent' \in netAt.Wallets \cup {0, netAt.Demo} /\ handleClients' \in [netAt.Wallets -> netAt.Wallets \cup {0}]
    BY <2>5 DEF NetInv, NetTypes
  <2>11. task'[t] \in TaskType
    BY <2>4, <2>6
  <2> QED BY <2>5, <2>6, <2>7, <2>8, <2>9, <2>10, <2>11, NetSet
<1> QED BY <1>1, <1>2

\* A handler joins or starts a check beside those that run.
LEMMA NetJoins ==
    ASSUME NetInv, NEW t \in netAt.Tasks, NEW f \in netAt.Flights, NEW r \in TaskType, task' = [task EXCEPT ![t] = r],
           FlightsKept,
           flight' \in [netAt.Flights -> [w : netAt.Wallets \cup {0}, stage : Stages]], check' \in [netAt.Wallets -> netAt.Flights \cup {0}],
           netReq' \in netAt.Flights \cup {0}, switching' \in BOOLEAN, ChecksAgree',
           flight'[f].stage # "idle", r.w \in netAt.Wallets, r.kind \in {"switch", "client"},
           r.kind # "client" => flight'[f].w = r.w,
           r.kind = "client" => ~r.live,
           r.pc = "flight", r.on = f,
           UNCHANGED <<account, info, active, handleClients, restoring, intent>>
    PROVE  NetInv'
<1>1. task'[t] = r /\ DOMAIN task' = netAt.Tasks /\ task' = [u \in netAt.Tasks |-> task'[u]] /\ \A u \in netAt.Tasks \ {t} : task'[u] = task[u]
  BY DEF NetInv, NetTypes
<1>2. TaskOK(task[t])' /\ MainOK(task[t])' /\ ~Main(task'[t])
  BY <1>1 DEF TaskOK, MainOK, Main
<1>3. PageOK'
  BY DEF NetInv, PageOK, Net!ClientIsProviders, Net!Provider
<1>4. \A u \in netAt.Tasks \ {t} : task'[u] = task[u] /\ (Main(task[u]) => UNCHANGED <<active, intent>>)
              /\ ~(Main(task[u]) /\ Main(task'[t]))
  BY <1>1, <1>2
<1>5. /\ account' \in netAt.Wallets \cup {0, netAt.Demo} /\ info' \in netAt.Wallets \cup {0} /\ active' \in netAt.Wallets \cup {0}
      /\ intent' \in netAt.Wallets \cup {0, netAt.Demo} /\ handleClients' \in [netAt.Wallets -> netAt.Wallets \cup {0}]
      /\ restoring' \in BOOLEAN
  BY DEF NetInv, NetTypes
<1>6. restoring' => intent' = netAt.Saved /\ (\A u \in netAt.Tasks : ~Main(task[u])) /\ ~Main(task'[t])
  BY <1>2 DEF NetInv, TasksOK
<1>7. task'[t] \in TaskType
  BY <1>1
<1> QED BY <1>1, <1>2, <1>3, <1>4, <1>5, <1>6, <1>7, NetSet

LEMMA NetProvider == ASSUME NetInv PROVE Net!Provider \in netAt.Wallets
BY NetConst DEF NetInv, NetTypes, Net!Provider

LEMMA NetSwitchChain == ASSUME NetInv, Net!SwitchChain PROVE NetInv'
<1>1. PICK t \in netAt.Tasks, f \in netAt.Flights :
          /\ Net!Request(Net!Provider, f)
          /\ task' = [task EXCEPT ![t] = [kind |-> "switch", w |-> Net!Provider, live |-> TRUE, pc |-> "flight", on |-> f]]
  BY DEF Net!SwitchChain, Net!Free
<1>2. PICK r : r = [kind |-> "switch", w |-> Net!Provider, live |-> TRUE, pc |-> "flight", on |-> f]
  OBVIOUS
<1>3. r \in TaskType /\ r.w = Net!Provider /\ r.kind = "switch" /\ r.pc = "flight" /\ r.on = f /\ r.w \in netAt.Wallets
  BY <1>2, NetProvider DEF TaskType, TaskKinds, TaskPcs
<1>4. /\ flight' \in [netAt.Flights -> [w : netAt.Wallets \cup {0}, stage : Stages]] /\ check' \in [netAt.Wallets -> netAt.Flights \cup {0}]
      /\ netReq' \in netAt.Flights \cup {0} /\ switching' \in BOOLEAN
      /\ ChecksAgree' /\ FlightsKept
      /\ flight'[f].w = Net!Provider /\ flight'[f].stage # "idle"
  BY <1>1, NetProvider, NetRequest DEF FlightsKept
<1>5. UNCHANGED <<account, info, active, handleClients, restoring, intent>>
  BY DEF Net!SwitchChain, Net!ghosts
<1> QED BY <1>1, <1>2, <1>3, <1>4, <1>5, NetJoins

LEMMA NetClient == ASSUME NetInv, Net!Client PROVE NetInv'
<1>1. account \in netAt.Wallets
  BY DEF Net!Client, NetInv, NetTypes
<1>2. PICK t \in netAt.Tasks, f \in Net!FlightFor(Net!Provider) :
          /\ Net!Start(Net!Provider, f)
          /\ task' = [task EXCEPT ![t] = [kind |-> "client", w |-> account, live |-> FALSE, pc |-> "flight", on |-> f]]
  BY DEF Net!Client, Net!Free
<1>3. PICK r : r = [kind |-> "client", w |-> account, live |-> FALSE, pc |-> "flight", on |-> f]
  OBVIOUS
<1>4. /\ f \in netAt.Flights
      /\ flight' \in [netAt.Flights -> [w : netAt.Wallets \cup {0}, stage : Stages]] /\ check' \in [netAt.Wallets -> netAt.Flights \cup {0}]
      /\ \A g \in netAt.Flights : flight'[g].stage # "idle" => flight'[g].w \in netAt.Wallets /\ check'[flight'[g].w] = g
      /\ \A u \in netAt.Wallets : check'[u] # 0 => flight'[check'[u]].w = u /\ flight'[check'[u]].stage # "idle"
      /\ FlightsKept
      /\ flight'[f].w = Net!Provider /\ flight'[f].stage # "idle"
  BY <1>2, NetProvider, NetStart DEF FlightsKept
<1>5. r \in TaskType /\ r.kind = "client" /\ r.pc = "flight" /\ r.on = f /\ r.w \in netAt.Wallets /\ ~r.live
  BY <1>1, <1>3, <1>4 DEF TaskType, TaskKinds, TaskPcs
<1>6. UNCHANGED <<account, info, active, switching, netReq, handleClients, restoring, intent>>
  BY DEF Net!Client, Net!ghosts, Net!app, Net!page
<1>7. ChecksAgree'
  BY <1>4, <1>6 DEF NetInv, NetTypes, ChecksAgree, FlightsKept
<1>8. netReq' \in netAt.Flights \cup {0} /\ switching' \in BOOLEAN
  BY <1>6 DEF NetInv, NetTypes
<1> QED BY <1>2, <1>3, <1>5, <1>4, <1>6, <1>7, <1>8, NetJoins

-----------------------------------------------------------------------------
LEMMA NetInitial == Net!Init => NetInv
<1> SUFFICES ASSUME Net!Init PROVE NetInv
  OBVIOUS
<1>1. NetTypes
  BY NetConst DEF Net!Init, NetTypes, Net!NoFlight, Net!NoTask, TaskKinds, TaskPcs, Stages
<1>2. ChecksAgree /\ PageOK
  BY NetConst DEF Net!Init, ChecksAgree, Net!NoFlight, PageOK, Net!ClientIsProviders
<1>3. TasksOK
  BY DEF Net!Init, TasksOK, TaskOK, MainOK, Main, Net!NoTask
<1> QED BY <1>1, <1>2, <1>3 DEF NetInv

LEMMA NetStep == NetInv /\ Net!Next => NetInv'
<1> SUFFICES ASSUME NetInv, Net!Next PROVE NetInv'
  OBVIOUS
<1>1. CASE Net!FlightStep
  BY <1>1, NetFlightStep DEF Net!FlightStep
<1>2. CASE Net!TaskStep
  BY <1>2, NetAccounts, NetChain, NetPermitted, NetTaskEnds DEF Net!TaskStep
<1>3. CASE Net!WalletStep
  BY <1>3, NetWorld, NetLocked, NetConnectWallet DEF Net!WalletStep
<1>4. CASE Net!Connect \/ Net!Restore \/ Net!RestoreOver \/ Net!SwitchChain \/ Net!SwitchAccount \/ Net!Client
  BY <1>4, NetConnect, NetRestore, NetSwitchChain, NetSwitchAccount, NetClient
<1>5. CASE Net!Disconnect \/ Net!EnterDemo
  BY <1>5, NetDrop DEF Net!Disconnect, Net!EnterDemo
<1> QED BY <1>1, <1>2, <1>3, <1>4, <1>5 DEF Net!Next

\* A check that is not under way has no wallet.
IdleFlights == \A f \in netAt.Flights : flight[f].stage = "idle" => flight[f].w = 0

\* What a step does to the checks: one starts, goes on or settles.
LEMMA NetMoves ==
    ASSUME NetInv, Net!Next
    PROVE  \/ flight' = flight
           \/ \E f \in netAt.Flights : Net!FlightStep /\ flight[f].stage # "idle"
                  /\ ((\E ok \in BOOLEAN : Net!Settle(f, ok)) \/ \E s \in Stages \ {"idle"} : Net!To(f, s))
           \/ FlightsKept /\ \E f \in netAt.Flights, w \in netAt.Wallets : Net!Start(w, f)
<1>1. ASSUME NEW w \in netAt.Wallets, NEW f \in netAt.Flights, Net!Request(w, f)
      PROVE  flight' = flight \/ (FlightsKept /\ \E g \in netAt.Flights, u \in netAt.Wallets : Net!Start(u, g))
  <2>1. FlightsKept
    BY <1>1, NetRequest DEF FlightsKept
  <2> QED BY <1>1, <2>1 DEF Net!Request, Net!net
<1>2. CASE Net!FlightStep
  BY <1>2 DEF Net!FlightStep, Net!ReadFirst, Net!ReadFails, Net!Refuse, Net!Approve, Net!Unrecognized,
         Net!Poll, Net!Deadline, Net!Stage, Stages
<1>3. CASE Net!TaskStep
  <2> PICK t \in netAt.Tasks : Net!Accounts(t) \/ Net!Chain(t) \/ Net!ChainFails(t) \/ Net!Reread(t) \/ Net!Permitted(t) \/ Net!ClientUp(t)
    BY <1>3 DEF Net!TaskStep
  <2>1. flight' = flight \/ \E f \in netAt.Flights : Net!Request(task[t].w, f) /\ task[t].pc \in {"chain", "permissions"}
    BY DEF Net!Accounts, Net!Chain, Net!ChainFails, Net!Reread, Net!Permitted, Net!ClientUp, Net!net
  <2>2. task[t].pc \in {"chain", "permissions"} => task[t].w \in netAt.Wallets
    BY NetTaskType DEF TaskOK
  <2> QED BY <1>1, <2>1, <2>2
<1>4. CASE Net!WalletStep
  BY <1>4 DEF Net!WalletStep, Net!Move, Net!ChainChanged, Net!Locked, Net!ConnectWallet, Net!net
<1>5. CASE Net!Connect \/ Net!Restore \/ Net!RestoreOver \/ Net!SwitchAccount \/ Net!Disconnect \/ Net!EnterDemo
  BY <1>5 DEF Net!Connect, Net!Restore, Net!RestoreOver, Net!SwitchAccount, Net!Disconnect, Net!EnterDemo, Net!Drop, Net!net
<1>6. CASE Net!SwitchChain
  BY <1>1, <1>6, NetProvider DEF Net!SwitchChain
<1>7. CASE Net!Client
  <2>1. PICK f \in Net!FlightFor(Net!Provider) : Net!Start(Net!Provider, f)
    BY <1>7 DEF Net!Client
  <2>2. f \in netAt.Flights /\ FlightsKept
    BY <2>1, NetProvider, NetStart DEF FlightsKept
  <2> QED BY <2>1, <2>2, NetProvider
<1> QED BY <1>2, <1>3, <1>4, <1>5, <1>6, <1>7 DEF Net!Next

LEMMA NetIdle == NetInv /\ IdleFlights /\ Net!Next => IdleFlights'
<1> SUFFICES ASSUME NetInv, IdleFlights, Net!Next PROVE IdleFlights'
  OBVIOUS
<1>1. flight \in [netAt.Flights -> [w : netAt.Wallets \cup {0}, stage : Stages]]
  BY DEF NetInv, NetTypes
<1>2. CASE flight' = flight
  BY <1>2 DEF IdleFlights
<1>3. ASSUME NEW f \in netAt.Flights, NEW ok \in BOOLEAN, Net!Settle(f, ok) PROVE IdleFlights'
  BY Zenon, <1>1, <1>3 DEF Net!Settle, Net!NoFlight, IdleFlights
<1>4. ASSUME NEW f \in netAt.Flights, NEW s \in Stages \ {"idle"}, Net!To(f, s) PROVE IdleFlights'
  BY <1>1, <1>4 DEF Net!To, IdleFlights
<1>5. ASSUME NEW f \in netAt.Flights, NEW w \in netAt.Wallets, Net!Start(w, f) PROVE IdleFlights'
  BY <1>1, <1>5 DEF Net!Start, IdleFlights
<1> QED BY <1>2, <1>3, <1>4, <1>5, NetMoves

LEMMA NetIsSafe == NetInv /\ IdleFlights => Net!WalletSafe
<1> SUFFICES ASSUME NetInv, IdleFlights PROVE Net!WalletSafe
  OBVIOUS
<1>1. Net!NetTypeOK
  BY DEF NetInv, NetTypes, ChecksAgree, TasksOK, TaskOK, Net!NetTypeOK
<1>2. Net!OnePrompt
  <2> SUFFICES ASSUME NEW f \in netAt.Flights, NEW g \in netAt.Flights, f # g, flight[f].stage # "idle", flight[f].w = flight[g].w PROVE FALSE
    BY DEF Net!OnePrompt
  <2>1. flight[f].w \in netAt.Wallets /\ check[flight[f].w] = f
    BY DEF NetInv, ChecksAgree
  <2>2. flight[g].stage # "idle"
    BY <2>1, NetConst DEF IdleFlights
  <2> QED BY <2>1, <2>2 DEF NetInv, ChecksAgree
<1> QED BY <1>1, <1>2 DEF NetInv, PageOK, Net!WalletSafe

-----------------------------------------------------------------------------
LEMMA NetIntent == NetInv /\ Net!Next => Net!LatestIntentWins
<1> SUFFICES ASSUME NetInv, Net!Next PROVE account' = account \/ account' \in {0, intent'}
  BY DEF Net!LatestIntentWins
<1>1. CASE Net!FlightStep
  BY Zenon, <1>1 DEF Net!FlightStep, Net!ReadFirst, Net!ReadFails, Net!Refuse, Net!Approve, Net!Unrecognized,
         Net!Poll, Net!Deadline, Net!Settle, Net!app, Net!page
<1>2. CASE Net!TaskStep
  <2> PICK t \in netAt.Tasks : Net!Accounts(t) \/ Net!Chain(t) \/ Net!ChainFails(t) \/ Net!Reread(t) \/ Net!Permitted(t) \/ Net!ClientUp(t)
    BY <1>2 DEF Net!TaskStep
  <2>1. \/ account' = account
        \/ /\ account' = task[t].w /\ task[t].live /\ intent' = intent
           /\ task[t].pc \in {"accounts", "permissions"}
    BY DEF Net!Accounts, Net!Chain, Net!ChainFails, Net!Reread, Net!Permitted, Net!ClientUp, Net!ghosts
  <2>2. task[t].live /\ task[t].pc \in {"accounts", "permissions"} => task[t].w = intent
    BY NetTaskType DEF TaskOK, MainOK, Main
  <2> QED BY <2>1, <2>2
<1>3. CASE Net!WalletStep
  BY <1>3 DEF Net!WalletStep, Net!Move, Net!ChainChanged, Net!Locked, Net!ConnectWallet, Net!app, Net!page
<1>4. CASE Net!Connect \/ Net!Restore \/ Net!RestoreOver \/ Net!SwitchChain \/ Net!SwitchAccount \/ Net!Client
  BY <1>4 DEF Net!Connect, Net!Restore, Net!RestoreOver, Net!SwitchChain, Net!SwitchAccount, Net!Client, Net!app, Net!page
<1>5. CASE Net!Disconnect \/ Net!EnterDemo
  BY <1>5 DEF Net!Disconnect, Net!EnterDemo, Net!Drop
<1> QED BY <1>1, <1>2, <1>3, <1>4, <1>5 DEF Net!Next

\* A live handler past the accounts is about the wallet in use.
LEMMA NetLive ==
    ASSUME NetInv, Net!Overtaken = {}, NEW t \in netAt.Tasks, task[t].live, task[t].pc \in {"chain", "flight", "reread"}
    PROVE  task[t].w = active
<1>1. task[t] \in TaskType /\ TaskOK(task[t]) /\ MainOK(task[t])
  BY NetTaskType DEF TaskType
<1>2. task[t].kind = "switch" \/ Main(task[t])
  BY <1>1 DEF TaskOK, Main, TaskType, TaskKinds
<1> QED BY <1>1, <1>2 DEF MainOK, Net!Overtaken

LEMMA NetSettleShows ==
    ASSUME NetInv, Net!Overtaken = {}, NEW f \in netAt.Flights, NEW ok \in BOOLEAN, Net!Settle(f, ok)
    PROVE  UNCHANGED <<shown, source>> \/ source' = active'
<1>1. \/ UNCHANGED <<shown, source>>
      \/ source' = flight[f].w /\ \E t \in Net!Waiting(f) : task[t].live /\ task[t].kind # "client"
  BY Zenon DEF Net!Settle
<1>2. ASSUME NEW t \in Net!Waiting(f), task[t].live, task[t].kind # "client" PROVE flight[f].w = active
  <2>1. t \in netAt.Tasks /\ task[t].pc = "flight" /\ task[t].on = f
    BY DEF Net!Waiting
  <2>2. flight[f].w = task[t].w
    BY <1>2, <2>1, NetTaskType DEF TaskOK
  <2> QED BY <1>2, <2>1, <2>2, NetLive
<1>3. active' = active
  BY Zenon DEF Net!Settle
<1> QED BY <1>1, <1>2, <1>3

LEMMA NetLate == NetInv /\ Net!Next => Net!LateAnswersIgnored
<1> SUFFICES ASSUME NetInv, Net!Next, Net!Overtaken = {}
             PROVE  UNCHANGED <<shown, source>> \/ shown' = "unknown" \/ source' = active'
  BY DEF Net!LateAnswersIgnored, Net!Written
<1>1. CASE Net!FlightStep
  <2>1. UNCHANGED <<shown, source>> \/ \E f \in netAt.Flights, ok \in BOOLEAN : Net!Settle(f, ok)
    BY <1>1 DEF Net!FlightStep, Net!ReadFirst, Net!ReadFails, Net!Refuse, Net!Approve, Net!Unrecognized,
         Net!Poll, Net!Deadline, Net!app, Net!page, Net!ghosts
  <2> QED BY <2>1, NetSettleShows
<1>2. CASE Net!TaskStep
  <2> PICK t \in netAt.Tasks : Net!Accounts(t) \/ Net!Chain(t) \/ Net!ChainFails(t) \/ Net!Reread(t) \/ Net!Permitted(t) \/ Net!ClientUp(t)
    BY <1>2 DEF Net!TaskStep
  <2>1. \/ UNCHANGED <<shown, source>> \/ shown' = "unknown"
        \/ /\ source' = task[t].w /\ task[t].live /\ active' = active
           /\ task[t].pc \in {"chain", "reread"}
    BY DEF Net!Accounts, Net!Chain, Net!ChainFails, Net!Reread, Net!Permitted, Net!ClientUp, Net!ghosts
  <2> QED BY <2>1, NetLive
<1>3. CASE Net!WalletStep
  <2>1. ASSUME NEW w \in netAt.Wallets, Net!ChainChanged(w)
        PROVE  UNCHANGED <<shown, source>> \/ source' = active'
    BY <2>1, NetConst DEF Net!ChainChanged, NetInv, PageOK
  <2> QED BY <1>3, <2>1 DEF Net!WalletStep, Net!Move, Net!Locked, Net!ConnectWallet, Net!app, Net!page, Net!ghosts
<1>4. CASE Net!Connect \/ Net!Restore \/ Net!RestoreOver \/ Net!SwitchChain \/ Net!SwitchAccount \/ Net!Client
  BY <1>4 DEF Net!Connect, Net!Restore, Net!RestoreOver, Net!SwitchChain, Net!SwitchAccount, Net!Client, Net!app, Net!page, Net!ghosts
<1>5. CASE Net!Disconnect \/ Net!EnterDemo
  BY <1>5 DEF Net!Disconnect, Net!EnterDemo, Net!Drop
<1> QED BY <1>1, <1>2, <1>3, <1>4, <1>5 DEF Net!Next

LEMMA NetObserved == NetInv /\ Net!Next => Net!SepoliaWasObserved
<1> SUFFICES ASSUME NetInv, Net!Next, NEW f \in netAt.Flights, Net!Stage(f, {"settle", "confirm"}), flight'[f].stage = "idle"
             PROVE  Net!OnSepolia(f) \/ shown' = shown
  BY DEF Net!SepoliaWasObserved
<1>1. flight[f].stage \in {"settle", "confirm"} /\ flight \in [netAt.Flights -> [w : netAt.Wallets \cup {0}, stage : Stages]]
  BY DEF Net!Stage, NetInv, NetTypes
<1>2. Net!FlightStep
  BY <1>1, NetMoves DEF FlightsKept
<1>3. PICK g \in netAt.Flights : Net!ReadFirst(g) \/ Net!ReadFails(g) \/ Net!Refuse(g) \/ Net!Approve(g)
             \/ Net!Unrecognized(g) \/ Net!Poll(g) \/ Net!Deadline(g)
  BY <1>2 DEF Net!FlightStep
<1>4. \/ \E ok \in BOOLEAN : Net!Settle(g, ok)
      \/ \E s \in Stages \ {"idle"} : Net!To(g, s)
  BY <1>3 DEF Net!ReadFirst, Net!ReadFails, Net!Refuse, Net!Approve, Net!Unrecognized, Net!Poll, Net!Deadline, Stages
<1>5. g = f
  BY Zenon, <1>1, <1>4 DEF Net!Settle, Net!To
<1>6. (\E ok \in BOOLEAN : Net!Settle(f, ok)) \/ shown' = shown
  BY <1>3, <1>5 DEF Net!ReadFirst, Net!ReadFails, Net!Refuse, Net!Approve, Net!Unrecognized,
         Net!Poll, Net!Deadline, Net!app, Net!page
<1>7. Net!OnSepolia(f) \/ Net!Settle(f, FALSE) \/ shown' = shown
  BY <1>1, <1>3, <1>5 DEF Net!ReadFirst, Net!ReadFails, Net!Refuse, Net!Approve, Net!Unrecognized,
         Net!Poll, Net!Deadline, Net!app, Net!page, Net!Stage
<1> QED BY Zenon, <1>7 DEF Net!Settle

LEMMA NetSteps == NetInv /\ Net!Next => Net!WalletSteps
BY NetIntent, NetLate, NetObserved DEF Net!WalletSteps

-----------------------------------------------------------------------------
(***************************************************************************)
(* The operations of the pages.                                            *)
(***************************************************************************)

FollowPhases == {"idle", "ask", "loop", "await"}
\* Who holds what.
LockInv ==
    /\ running \subseteq Ops!Ops /\ held \in [Ops!Resources -> Ops!Ops \cup {Ops!NoOp}]
    /\ Ops!HoldsItsResources
OpsInv ==
    /\ LockInv /\ Ops!OperationsTypeOK
    /\ follow \in [opsAt.Ids -> FollowPhases] /\ finalizing \in [id : opsAt.Ids \cup {0}, old : BOOLEAN]

LEMMA OpsConst == opsAt.MaxRounds \in Nat \ {0} /\ opsAt.MaxFaults \in Nat /\ 0 \notin opsAt.Ids
BY BrowserConstants DEF Ops!RoundsAssumption

LEMMA OpsNames ==
    /\ Ops!NoOp \notin Ops!Ops /\ Ops!Submit \in Ops!Ops /\ Ops!Policy \in Ops!Ops
    /\ \A i \in opsAt.Ids : Ops!Finalize(i) \in Ops!Ops /\ Ops!Finalize(i) # Ops!Submit /\ Ops!Finalize(i) # Ops!Policy
    /\ \A i, j \in opsAt.Ids : Ops!Finalize(i) = Ops!Finalize(j) => i = j
    /\ \A op \in Ops!Ops : Ops!Needs[op] \subseteq Ops!Resources
BY DEF Ops!NoOp, Ops!Ops, Ops!Submit, Ops!Policy, Ops!Finalize, Ops!Resources, Ops!Needs

LEMMA OpsNoLock == Ops!NoLock \in [id : opsAt.Ids \cup {0}, old : BOOLEAN] /\ Ops!NoLock.id = 0
BY DEF Ops!NoLock

\* What an operation needs is free, so that nobody else loses it.
LEMMA LockBegin ==
    ASSUME LockInv, NEW op \in Ops!Ops, Ops!Begin(op)
    PROVE  LockInv' /\ running' = running \cup {op}
<1>1. /\ held' = [r \in Ops!Resources |-> IF r \in Ops!Needs[op] THEN op ELSE held[r]]
      /\ running' = running \cup {op} /\ \A r \in Ops!Needs[op] : held[r] = Ops!NoOp
  BY DEF Ops!Begin, Ops!Blocked
<1>2. running' \subseteq Ops!Ops /\ held' \in [Ops!Resources -> Ops!Ops \cup {Ops!NoOp}]
  BY <1>1 DEF LockInv
<1>3. \A o \in running : \A r \in Ops!Needs[o] : r \notin Ops!Needs[op]
  BY <1>1, OpsNames DEF LockInv, Ops!HoldsItsResources
<1>4. \A o \in running' : \A r \in Ops!Needs[o] : held'[r] = o
  <2> TAKE o \in running'
  <2> TAKE r \in Ops!Needs[o]
  <2>1. r \in Ops!Resources
    BY <1>2, OpsNames
  <2>2. CASE o = op
    BY <1>1, <2>1, <2>2
  <2>3. CASE o \in running
    BY <1>1, <1>3, <2>1, <2>3 DEF LockInv, Ops!HoldsItsResources
  <2> QED BY <1>1, <2>2, <2>3
<1>5. \A r \in Ops!Resources : held'[r] = Ops!NoOp \/ held'[r] \in running'
  BY <1>1 DEF LockInv, Ops!HoldsItsResources
<1> QED BY <1>1, <1>2, <1>4, <1>5 DEF LockInv, Ops!HoldsItsResources

LEMMA LockEnd ==
    ASSUME LockInv, NEW op \in Ops!Ops, NEW ok \in BOOLEAN, Ops!End(op, ok)
    PROVE  LockInv' /\ running' = running \ {op}
<1>1. /\ held' = [r \in Ops!Resources |-> IF held[r] = op THEN Ops!NoOp ELSE held[r]]
      /\ running' = running \ {op}
  BY DEF Ops!End
<1>2. running' \subseteq Ops!Ops /\ held' \in [Ops!Resources -> Ops!Ops \cup {Ops!NoOp}]
  BY <1>1 DEF LockInv
<1>3. \A o \in running' : \A r \in Ops!Needs[o] : held'[r] = o
  BY <1>1, OpsNames DEF LockInv, Ops!HoldsItsResources
<1>4. \A r \in Ops!Resources : held'[r] = Ops!NoOp \/ held'[r] \in running'
  BY <1>1 DEF LockInv, Ops!HoldsItsResources
<1> QED BY <1>1, <1>2, <1>3, <1>4 DEF LockInv, Ops!HoldsItsResources

opsFrame == <<req, track, opsFaults, rounds, finalizing, running, held, follow>>

LEMMA OpsStutter == ASSUME OpsInv, UNCHANGED opsFrame PROVE OpsInv'
BY DEF opsFrame, OpsInv, LockInv, Ops!OperationsTypeOK, Ops!HoldsItsResources

LEMMA OpsFault ==
    ASSUME OpsInv, Ops!Fault PROVE opsFaults' \in 0..opsAt.MaxFaults
BY OpsConst DEF Ops!Fault, OpsInv, Ops!OperationsTypeOK

\* An operation that is not a finalization starts, or ends.
LEMMA OpsOther ==
    ASSUME OpsInv, LockInv', NEW op \in {Ops!Submit, Ops!Policy},
           running' \in {running \cup {op}, running \ {op}},
           UNCHANGED <<rounds, finalizing, follow>>,
           req' \in [opsAt.Ids -> {"none", "pending", "ready", "published"}], track' \in opsAt.Ids \cup {0},
           opsFaults' \in 0..opsAt.MaxFaults
    PROVE  OpsInv'
<1>1. \A i \in opsAt.Ids : Ops!Finalize(i) \in running' <=> Ops!Finalize(i) \in running
  BY OpsNames
<1> QED BY <1>1 DEF OpsInv, Ops!OperationsTypeOK

LEMMA OpsUser ==
    ASSUME OpsInv,
           Ops!StartSubmit \/ Ops!SubmitLands \/ Ops!SubmitFails \/ Ops!StartPolicy \/ Ops!EndPolicy
    PROVE  OpsInv'
<1>1. req \in [opsAt.Ids -> {"none", "pending", "ready", "published"}] /\ track \in opsAt.Ids \cup {0}
      /\ opsFaults \in 0..opsAt.MaxFaults /\ LockInv
  BY DEF OpsInv, Ops!OperationsTypeOK
<1>2. CASE Ops!StartSubmit
  BY <1>1, <1>2, OpsNames, LockBegin, OpsOther DEF Ops!StartSubmit, Ops!chain, Ops!page
<1>3. CASE Ops!SubmitLands
  <2>1. /\ Ops!End(Ops!Submit, TRUE) /\ UNCHANGED <<rounds, finalizing, follow, opsFaults>>
        /\ req' \in [opsAt.Ids -> {"none", "pending", "ready", "published"}] /\ track' \in opsAt.Ids \cup {0}
    BY <1>1, <1>3 DEF Ops!SubmitLands, Ops!Submittable
  <2> QED BY <1>1, <2>1, OpsNames, LockEnd, OpsOther
<1>4. CASE Ops!SubmitFails
  BY <1>1, <1>4, OpsNames, OpsFault, LockEnd, OpsOther DEF Ops!SubmitFails, Ops!chain, Ops!page
<1>5. CASE Ops!StartPolicy
  BY <1>1, <1>5, OpsNames, LockBegin, OpsOther DEF Ops!StartPolicy, Ops!chain
<1>6. CASE Ops!EndPolicy
  <2>1. /\ \E ok \in BOOLEAN : Ops!End(Ops!Policy, ok)
        /\ UNCHANGED <<req, track, rounds, finalizing, follow>> /\ opsFaults' \in 0..opsAt.MaxFaults
    BY <1>1, <1>6, OpsFault DEF Ops!EndPolicy, Ops!chain
  <2> QED BY <1>1, <2>1, OpsNames, LockEnd, OpsOther
<1> QED BY <1>2, <1>3, <1>4, <1>5, <1>6

LEMMA OpsEffect == ASSUME OpsInv, Ops!Effect PROVE OpsInv'
<1>1. UNCHANGED <<req, track, opsFaults>>
  BY DEF Ops!Effect, Ops!chain
<1>2. CASE UNCHANGED <<running, held, follow, rounds>> /\ finalizing' \in {finalizing, Ops!NoLock}
  <2>1. /\ finalizing' \in [id : opsAt.Ids \cup {0}, old : BOOLEAN]
        /\ finalizing'.id # 0 => finalizing' = finalizing
    BY <1>2, OpsNoLock DEF OpsInv
  <2>2. LockInv' /\ follow' \in [opsAt.Ids -> FollowPhases]
    BY <1>2 DEF OpsInv, LockInv, Ops!HoldsItsResources
  <2> QED BY <1>1, <1>2, <2>1, <2>2 DEF OpsInv, Ops!OperationsTypeOK
<1>3. CASE /\ Ops!Seen = "ready" /\ Ops!Begin(Ops!Finalize(track))
           /\ finalizing' = [id |-> track, old |-> FALSE]
           /\ follow' = [follow EXCEPT ![track] = "ask"] /\ rounds' = [rounds EXCEPT ![track] = 0]
  <2>1. track \in opsAt.Ids
    BY <1>3 DEF Ops!Seen, OpsInv, Ops!OperationsTypeOK
  <2>2. LockInv' /\ running' = running \cup {Ops!Finalize(track)}
    BY <1>3, <2>1, OpsNames, LockBegin DEF OpsInv
  <2>3. follow' \in [opsAt.Ids -> FollowPhases] /\ rounds' \in [opsAt.Ids -> 0..opsAt.MaxRounds]
        /\ finalizing' \in [id : opsAt.Ids \cup {0}, old : BOOLEAN] /\ finalizing'.id = track
    BY <1>3, <2>1, OpsConst DEF OpsInv, Ops!OperationsTypeOK, FollowPhases
  <2>4. \A i \in opsAt.Ids : follow'[i] # "idle" <=> Ops!Finalize(i) \in running'
    BY <1>3, <2>1, <2>2, OpsNames DEF OpsInv, Ops!OperationsTypeOK
  <2> QED BY <1>1, <2>1, <2>2, <2>3, <2>4 DEF OpsInv, Ops!OperationsTypeOK
<1> QED BY <1>2, <1>3 DEF Ops!Effect, Ops!ops

\* A finalization goes on: its operation runs as before.
LEMMA OpsGoesOn ==
    ASSUME OpsInv, UNCHANGED <<req, track, finalizing, running, held>>,
           opsFaults' \in 0..opsAt.MaxFaults, rounds' \in [opsAt.Ids -> 0..opsAt.MaxRounds],
           follow' \in [opsAt.Ids -> FollowPhases],
           \A i \in opsAt.Ids : follow'[i] = "idle" <=> follow[i] = "idle"
    PROVE  OpsInv'
BY DEF OpsInv, LockInv, Ops!OperationsTypeOK, Ops!HoldsItsResources

\* A finalization ends.
LEMMA OpsEnds ==
    ASSUME OpsInv, NEW i \in opsAt.Ids, NEW ok \in BOOLEAN, Ops!End(Ops!Finalize(i), ok),
           UNCHANGED <<req, track, rounds>>, opsFaults' \in 0..opsAt.MaxFaults,
           follow' = [follow EXCEPT ![i] = "idle"],
           finalizing' = Ops!NoLock \/ (finalizing' = finalizing /\ finalizing.id # i)
    PROVE  OpsInv'
<1>1. LockInv' /\ running' = running \ {Ops!Finalize(i)}
  BY OpsNames, LockEnd DEF OpsInv
<1>2. follow' \in [opsAt.Ids -> FollowPhases]
  BY DEF OpsInv, FollowPhases
<1>3. \A j \in opsAt.Ids : follow'[j] # "idle" <=> Ops!Finalize(j) \in running'
  BY <1>1, OpsNames DEF OpsInv, Ops!OperationsTypeOK
<1>4. finalizing' \in [id : opsAt.Ids \cup {0}, old : BOOLEAN]
      /\ (finalizing'.id # 0 => Ops!Finalize(finalizing'.id) \in running')
  <2>1. CASE finalizing' = Ops!NoLock
    BY <2>1, OpsNoLock
  <2>2. CASE finalizing' = finalizing /\ finalizing.id # i
    <3>1. finalizing.id \in opsAt.Ids \cup {0}
      BY DEF OpsInv
    <3>2. finalizing.id # 0 => Ops!Finalize(finalizing.id) \in running /\ Ops!Finalize(finalizing.id) # Ops!Finalize(i)
      BY <2>2, <3>1, OpsNames DEF OpsInv, Ops!OperationsTypeOK
    <3> QED BY <1>1, <2>2, <3>2 DEF OpsInv
  <2> QED BY <2>1, <2>2
<1> QED BY <1>1, <1>2, <1>3, <1>4 DEF OpsInv, Ops!OperationsTypeOK

LEMMA OpsFollow ==
    ASSUME OpsInv, NEW i \in opsAt.Ids, Ops!Ask(i) \/ Ops!AskRefused(i) \/ Ops!Round(i) \/ Ops!FollowEnds(i)
    PROVE  OpsInv'
<1>1. /\ follow \in [opsAt.Ids -> FollowPhases] /\ rounds \in [opsAt.Ids -> 0..opsAt.MaxRounds]
      /\ opsFaults \in 0..opsAt.MaxFaults
  BY DEF OpsInv, Ops!OperationsTypeOK
<1>2. CASE Ops!Ask(i)
  <2>1. UNCHANGED <<req, track, finalizing, running, held, rounds>> /\ opsFaults' \in 0..opsAt.MaxFaults
    BY <1>1, <1>2, OpsFault DEF Ops!Ask, Ops!ops, Ops!page
  <2>2. follow' \in [opsAt.Ids -> FollowPhases] /\ \A j \in opsAt.Ids : follow'[j] = "idle" <=> follow[j] = "idle"
    BY <1>1, <1>2 DEF Ops!Ask, FollowPhases
  <2> QED BY <1>1, <2>1, <2>2, OpsGoesOn
<1>3. CASE Ops!Round(i)
  <2>1. UNCHANGED <<req, track, finalizing, running, held, opsFaults>>
    BY <1>3 DEF Ops!Round, Ops!ops, Ops!page, Ops!chain
  <2>2. follow' \in [opsAt.Ids -> FollowPhases] /\ \A j \in opsAt.Ids : follow'[j] = "idle" <=> follow[j] = "idle"
    BY <1>1, <1>3 DEF Ops!Round, FollowPhases
  <2>3. rounds' \in [opsAt.Ids -> 0..opsAt.MaxRounds]
    BY <1>1, <1>3, OpsConst DEF Ops!Round
  <2> QED BY <1>1, <2>1, <2>2, <2>3, OpsGoesOn
<1>4. CASE Ops!AskRefused(i)
  BY <1>4, OpsFault, OpsEnds DEF Ops!AskRefused, Ops!chain
<1>5. CASE Ops!FollowEnds(i)
  <2>1. finalizing' = Ops!NoLock \/ (finalizing' = finalizing /\ finalizing.id # i)
    BY <1>5 DEF Ops!FollowEnds
  <2>2. Ops!End(Ops!Finalize(i), TRUE) /\ UNCHANGED <<req, track, rounds>> /\ opsFaults' \in 0..opsAt.MaxFaults
        /\ follow' = [follow EXCEPT ![i] = "idle"]
    BY <1>1, <1>5 DEF Ops!FollowEnds, Ops!chain
  <2> QED BY <2>1, <2>2, OpsEnds
<1> QED BY <1>2, <1>3, <1>4, <1>5

LEMMA OpsReading == ASSUME OpsInv, Ops!Poll \/ Ops!Read \/ Ops!LoadDone \/ Ops!LoadFails PROVE OpsInv'
<1>1. UNCHANGED <<req, track, finalizing, running, held, rounds>>
  BY DEF Ops!Poll, Ops!Read, Ops!LoadDone, Ops!LoadFails, Ops!chain, Ops!ops, Ops!page
<1>2. opsFaults' \in 0..opsAt.MaxFaults
  BY OpsFault DEF Ops!Poll, Ops!Read, Ops!LoadDone, Ops!LoadFails, OpsInv, Ops!OperationsTypeOK
<1>3. follow' \in {follow, Ops!Resumed}
  BY DEF Ops!Poll, Ops!Read, Ops!LoadDone, Ops!LoadFails
<1>4. follow' \in [opsAt.Ids -> FollowPhases] /\ \A j \in opsAt.Ids : follow'[j] = "idle" <=> follow[j] = "idle"
  BY <1>3 DEF Ops!Resumed, FollowPhases, OpsInv
<1>5. rounds \in [opsAt.Ids -> 0..opsAt.MaxRounds]
  BY DEF OpsInv, Ops!OperationsTypeOK
<1> QED BY <1>1, <1>2, <1>4, <1>5, OpsGoesOn

LEMMA OpsWorld ==
    ASSUME OpsInv, Ops!Minute \/ Ops!RetryTime \/ \E i \in opsAt.Ids : Ops!Decide(i) \/ Ops!Publish(i)
    PROVE  OpsInv'
<1>1. UNCHANGED <<track, running, held, rounds, follow, opsFaults>>
  BY DEF Ops!Minute, Ops!RetryTime, Ops!Decide, Ops!Publish, Ops!chain, Ops!ops, Ops!page
<1>2. req' \in [opsAt.Ids -> {"none", "pending", "ready", "published"}]
  BY DEF Ops!Minute, Ops!RetryTime, Ops!Decide, Ops!Publish, Ops!chain, OpsInv, Ops!OperationsTypeOK
<1>3. finalizing' \in [id : opsAt.Ids \cup {0}, old : BOOLEAN] /\ finalizing'.id = finalizing.id
  BY DEF Ops!Minute, Ops!RetryTime, Ops!Decide, Ops!Publish, Ops!page, OpsInv
<1> QED BY <1>1, <1>2, <1>3 DEF OpsInv, LockInv, Ops!OperationsTypeOK, Ops!HoldsItsResources

LEMMA OpsInitial == Ops!Init => OpsInv
<1> SUFFICES ASSUME Ops!Init PROVE OpsInv
  OBVIOUS
<1>1. LockInv
  BY DEF Ops!Init, LockInv, Ops!HoldsItsResources
<1>2. Ops!OperationsTypeOK /\ follow \in [opsAt.Ids -> FollowPhases] /\ finalizing \in [id : opsAt.Ids \cup {0}, old : BOOLEAN]
  BY OpsConst DEF Ops!Init, Ops!OperationsTypeOK, FollowPhases, Ops!NoLock
<1> QED BY <1>1, <1>2 DEF OpsInv

LEMMA OpsStep == OpsInv /\ Ops!Next => OpsInv'
BY OpsReading, OpsUser, OpsEffect, OpsFollow, OpsWorld DEF Ops!Next, Ops!Follow, Ops!World

LEMMA OpsIsSafe == OpsInv => Ops!OperationsSafe
BY DEF OpsInv, LockInv, Ops!OperationsSafe

-----------------------------------------------------------------------------
(***************************************************************************)
(* A read of encrypted handles.                                            *)
(***************************************************************************)

NoxTypes ==
    /\ resolved \subseteq readAt.Handles /\ caughtUp \in BOOLEAN /\ down \in BOOLEAN
    /\ (caughtUp => resolved = readAt.Handles)
    /\ client \in {"none", "ready"} /\ well \in BOOLEAN
    /\ phase \in {"idle", "client", "resolution", "read"} /\ loopAt \in {"check", "asking", "asleep"}
    /\ elapsed \in Nat /\ clock \in Nat /\ pause \in Nat /\ readAsked \in Nat /\ since \in Nat
    /\ outcome \in {"none", "shown", "timeout", "refused", "aborted", "client"}
\* Where the time of a wait stands: a pause ends, and an attempt begins, by its deadline.
NoxTimes ==
    /\ clock <= elapsed /\ pause <= readAt.Interval
    /\ ~Read!Waiting => loopAt = "check" /\ elapsed = 0
    /\ loopAt = "check" => elapsed <= Read!Limit
    /\ loopAt = "asking" => /\ readAsked <= Read!Limit /\ elapsed = readAsked + clock
                            /\ clock <= readAt.RequestTimeout
    /\ loopAt = "asleep" => clock <= pause /\ elapsed + pause <= Read!Limit + clock
\* since is when the network got well for good; an attempt that began before that knows it
\* was not well.
NoxWell ==
    /\ phase = "read" => resolved = readAt.Handles
    /\ well => Read!Waiting /\ Read!Well(phase) /\ (loopAt = "asking" => clock <= readAt.Latency)
    /\ Read!Waiting => (since # Read!Never <=> Read!Well(phase))
    /\ since # Read!Never => since <= elapsed
    /\ loopAt = "asking" /\ ~well /\ since # Read!Never => readAsked <= since
NoxInv == NoxTypes /\ NoxTimes /\ NoxWell

LEMMA NoxConst ==
    /\ readAt.Timeout \in Nat \ {0} /\ readAt.ReadTimeout \in Nat \ {0} /\ readAt.Interval \in Nat \ {0}
    /\ readAt.RequestTimeout \in Nat \ {0} /\ readAt.Latency \in Nat \ {0}
    /\ readAt.Latency < readAt.RequestTimeout /\ readAt.RequestTimeout < readAt.Timeout
BY BrowserConstants DEF Read!DurationsAssumption

LEMMA NoxDeadlines ==
    /\ Read!Limit \in Nat \ {0} /\ Read!Never \in Nat /\ Read!Limit + readAt.RequestTimeout < Read!Never
    /\ \A p \in {"idle", "client", "resolution", "read"} :
         (IF p = "read" THEN readAt.ReadTimeout ELSE readAt.Timeout) \in Nat \ {0}
BY NoxConst DEF Read!Limit, Read!Never

\* A wait begins.
LEMMA NoxEnter ==
    ASSUME NoxInv, NEW p \in {"client", "resolution", "read"}, Read!Enter(p),
           p = "read" => resolved = readAt.Handles,
           UNCHANGED <<resolved, caughtUp, down, outcome>>, client' \in {"none", "ready"}
    PROVE  NoxInv'
<1>1. /\ phase' = p /\ loopAt' = "check" /\ elapsed' = 0 /\ clock' = 0 /\ pause' = 0 /\ readAsked' = 0 /\ well' = FALSE
      /\ since' = IF Read!Well(p) THEN 0 ELSE Read!Never
  BY DEF Read!Enter
<1>2. Read!Well(phase)' <=> Read!Well(p)
  BY <1>1 DEF Read!Well
<1>3. Read!Never' = Read!Never /\ Read!Limit' \in Nat /\ Read!Never > 0
  BY <1>1, NoxConst DEF Read!Never, Read!Limit
<1>4. NoxTypes'
  BY <1>1, <1>3, NoxDeadlines DEF NoxInv, NoxTypes
<1>5. NoxTimes'
  BY <1>1, <1>3, NoxConst DEF NoxTimes
<1>6. NoxWell'
  BY <1>1, <1>2, <1>3 DEF NoxWell, Read!Waiting
<1> QED BY <1>4, <1>5, <1>6 DEF NoxInv

\* A wait ends.
LEMMA NoxEnd ==
    ASSUME NoxInv, NEW result \in {"shown", "timeout", "refused", "aborted", "client"}, Read!End(result),
           UNCHANGED <<resolved, caughtUp, down>>, client' \in {"none", "ready"}
    PROVE  NoxInv'
<1>1. /\ phase' = "idle" /\ loopAt' = "check" /\ elapsed' = 0 /\ clock' = 0 /\ pause' = 0 /\ readAsked' = 0
      /\ well' = FALSE /\ since' = Read!Never /\ outcome' = result
  BY DEF Read!End
<1>2. Read!Never' = Read!Never /\ Read!Limit' \in Nat
  BY <1>1, NoxConst DEF Read!Never, Read!Limit
<1>3. NoxTypes'
  BY <1>1, <1>2, NoxDeadlines DEF NoxInv, NoxTypes
<1>4. NoxTimes'
  BY <1>1, <1>2, NoxConst DEF NoxTimes, Read!Waiting
<1>5. NoxWell'
  BY <1>1, <1>2 DEF NoxWell, Read!Waiting
<1> QED BY <1>3, <1>4, <1>5 DEF NoxInv

LEMMA NoxFailed ==
    ASSUME NoxInv, loopAt = "asking", Read!Failed, UNCHANGED <<resolved, caughtUp, down, client>>
    PROVE  NoxInv'
<1>1. CASE Read!Expired
  BY <1>1, NoxEnd DEF Read!Failed, NoxInv, NoxTypes
<1>2. CASE ~Read!Expired
  <2>1. /\ loopAt' = "asleep" /\ clock' = 0 /\ pause' = Read!Pause
        /\ UNCHANGED <<phase, elapsed, readAsked, well, since, outcome>>
    BY <1>2 DEF Read!Failed
  <2>2. elapsed < Read!Limit /\ Read!Limit \in Nat /\ elapsed \in Nat
    BY <1>2, NoxDeadlines DEF Read!Expired, NoxInv, NoxTypes
  <2>3. Read!Pause \in Nat /\ Read!Pause <= readAt.Interval /\ elapsed + Read!Pause <= Read!Limit
    BY <2>2, NoxConst DEF Read!Pause, Read!Least
  <2>4. Read!Limit' = Read!Limit /\ Read!Never' = Read!Never /\ (Read!Waiting' <=> Read!Waiting)
        /\ (Read!Well(phase)' <=> Read!Well(phase))
    BY <2>1 DEF Read!Limit, Read!Never, Read!Waiting, Read!Well
  <2>5. NoxTypes'
    BY <2>1, <2>3 DEF NoxInv, NoxTypes
  <2>6. NoxTimes'
    BY <2>1, <2>2, <2>3, <2>4 DEF NoxInv, NoxTimes
  <2>7. NoxWell'
    BY <2>1, <2>4 DEF NoxInv, NoxWell
  <2> QED BY <2>5, <2>6, <2>7 DEF NoxInv
<1> QED BY <1>1, <1>2

LEMMA NoxLoop == ASSUME NoxInv, Read!Attempt \/ Read!Wake \/ Read!Tick PROVE NoxInv'
<1>1. UNCHANGED <<resolved, caughtUp, down, client>>
  BY DEF Read!Attempt, Read!Wake, Read!Tick, Read!network
<1>2. CASE Read!Attempt /\ aborted
  BY <1>1, <1>2, NoxEnd DEF Read!Attempt, NoxInv, NoxTypes
<1>3. CASE Read!Attempt /\ ~aborted
  <2>1. /\ Read!Waiting /\ loopAt = "check" /\ loopAt' = "asking" /\ clock' = 0 /\ readAsked' = elapsed /\ well' = Read!Well(phase)
        /\ UNCHANGED <<phase, elapsed, pause, since, outcome>>
    BY <1>3 DEF Read!Attempt, Read!Waiting
  <2>2. Read!Limit' = Read!Limit /\ Read!Never' = Read!Never /\ (Read!Waiting' <=> Read!Waiting)
        /\ (Read!Well(phase)' <=> Read!Well(phase))
    BY <1>1, <2>1 DEF Read!Limit, Read!Never, Read!Waiting, Read!Well
  <2>3. NoxTypes'
    BY <1>1, <2>1 DEF NoxInv, NoxTypes, Read!Well
  <2>4. NoxTimes'
    BY <2>1, <2>2, NoxConst DEF NoxInv, NoxTypes, NoxTimes
  <2>5. NoxWell'
    BY <1>1, <2>1, <2>2, NoxConst DEF NoxInv, NoxTypes, NoxWell
  <2> QED BY <2>3, <2>4, <2>5 DEF NoxInv
<1>4. CASE Read!Wake
  <2>1. /\ loopAt = "asleep" /\ clock = pause /\ loopAt' = "check"
        /\ UNCHANGED <<phase, elapsed, clock, pause, readAsked, well, since, outcome>>
    BY <1>4 DEF Read!Wake
  <2>2. Read!Limit' = Read!Limit /\ Read!Never' = Read!Never /\ (Read!Waiting' <=> Read!Waiting)
        /\ (Read!Well(phase)' <=> Read!Well(phase))
    BY <1>1, <2>1 DEF Read!Limit, Read!Never, Read!Waiting, Read!Well
  <2>3. NoxTypes'
    BY <1>1, <2>1 DEF NoxInv, NoxTypes
  <2>4. NoxTimes'
    BY <2>1, <2>2, NoxDeadlines DEF NoxInv, NoxTypes, NoxTimes
  <2>5. NoxWell'
    BY <1>1, <2>1, <2>2 DEF NoxInv, NoxWell
  <2> QED BY <2>3, <2>4, <2>5 DEF NoxInv
<1>5. CASE Read!Tick
  <2>1. /\ \/ loopAt = "asleep" /\ clock < pause
           \/ loopAt = "asking" /\ clock < (IF well THEN readAt.Latency ELSE readAt.RequestTimeout)
        /\ clock' = clock + 1 /\ elapsed' = elapsed + 1
        /\ UNCHANGED <<phase, loopAt, pause, readAsked, well, since, outcome>>
    BY <1>5 DEF Read!Tick
  <2>2. Read!Limit' = Read!Limit /\ Read!Never' = Read!Never /\ (Read!Waiting' <=> Read!Waiting)
        /\ (Read!Well(phase)' <=> Read!Well(phase))
    BY <1>1, <2>1 DEF Read!Limit, Read!Never, Read!Waiting, Read!Well
  <2>3. NoxTypes'
    BY <1>1, <2>1 DEF NoxInv, NoxTypes
  <2>4. NoxTimes'
    BY <2>1, <2>2, NoxConst, NoxDeadlines DEF NoxInv, NoxTypes, NoxTimes
  <2>5. NoxWell'
    BY <1>1, <2>1, <2>2, NoxConst, NoxDeadlines DEF NoxInv, NoxTypes, NoxWell
  <2> QED BY <2>3, <2>4, <2>5 DEF NoxInv
<1> QED BY <1>2, <1>3, <1>4, <1>5

LEMMA NoxAnswers ==
    ASSUME NoxInv, Read!Answers \/ Read!AskFails \/ Read!Decrypts \/ Read!DecryptFails \/ Read!Refuses PROVE NoxInv'
<1>1. UNCHANGED <<resolved, caughtUp, down, client>> /\ client' \in {"none", "ready"}
  BY DEF Read!Answers, Read!AskFails, Read!Decrypts, Read!DecryptFails, Read!Refuses, Read!network, NoxInv, NoxTypes
<1>2. loopAt = "asking"
  BY DEF Read!Answers, Read!AskFails, Read!Decrypts, Read!DecryptFails, Read!Refuses, Read!Asking
<1>3. \/ Read!Failed \/ (\E result \in {"shown", "refused"} : Read!End(result))
      \/ Read!Enter("read") /\ outcome' = outcome /\ resolved = readAt.Handles
  BY DEF Read!Answers, Read!AskFails, Read!Decrypts, Read!DecryptFails, Read!Refuses, NoxInv, NoxTypes
<1> QED BY <1>1, <1>2, <1>3, NoxFailed, NoxEnd, NoxEnter

LEMMA NoxClick ==
    ASSUME NoxInv, Read!Click \/ (\E ok \in BOOLEAN : Read!ClientEnds(ok)) \/ Read!Abort PROVE NoxInv'
<1>1. CASE Read!Click
  BY <1>1, NoxEnter DEF Read!Click, Read!network, NoxInv, NoxTypes
<1>2. ASSUME NEW ok \in BOOLEAN, Read!ClientEnds(ok) PROVE NoxInv'
  <2>1. /\ client' \in {"none", "ready"} /\ UNCHANGED <<resolved, caughtUp, down>>
        /\ (Read!Enter("resolution") /\ outcome' = outcome) \/ Read!End("client")
    BY <1>2 DEF Read!ClientEnds, Read!network
  <2> QED BY <1>2, <2>1, NoxEnter, NoxEnd DEF Read!ClientEnds, Read!network
<1>3. CASE Read!Abort
  BY <1>3 DEF Read!Abort, Read!network, Read!loop, NoxInv, NoxTypes, NoxTimes, NoxWell, Read!Limit, Read!Waiting, Read!Well, Read!Never
<1> QED BY <1>1, <1>2, <1>3

\* The network changes; what the wait knows of it does not.
LEMMA NoxNetwork ==
    ASSUME NoxInv, NEW now \in BOOLEAN,
           UNCHANGED <<client, phase, loopAt, elapsed, clock, pause, readAsked, outcome>>,
           Read!GotWell(now), now <=> Read!Waiting /\ Read!Well(phase)',
           resolved' \subseteq readAt.Handles, resolved = readAt.Handles => resolved' = resolved,
           caughtUp' \in BOOLEAN, caughtUp' => resolved' = readAt.Handles, down' \in BOOLEAN,
           \/ well' = FALSE /\ ~now
           \/ well' = well /\ (Read!Well(phase) => Read!Well(phase)')
    PROVE  NoxInv'
<1>1. Read!Limit' = Read!Limit /\ Read!Never' = Read!Never /\ (Read!Waiting' <=> Read!Waiting)
  BY DEF Read!Limit, Read!Never, Read!Waiting
<1>2. since' = IF now THEN (IF since = Read!Never THEN elapsed ELSE since) ELSE Read!Never
  BY DEF Read!GotWell
<1>3. NoxTypes'
  BY <1>2, NoxDeadlines DEF NoxInv, NoxTypes
<1>4. NoxTimes'
  BY <1>1 DEF NoxInv, NoxTimes
<1>5. elapsed < Read!Never /\ elapsed \in Nat /\ readAsked \in Nat /\ clock \in Nat /\ since \in Nat
  BY NoxDeadlines, NoxConst DEF NoxInv, NoxTypes, NoxTimes
<1>6. /\ phase' = "read" => resolved' = readAt.Handles
      /\ well' => Read!Waiting' /\ Read!Well(phase)' /\ (loopAt' = "asking" => clock' <= readAt.Latency)
      /\ Read!Waiting' => (since' # Read!Never <=> Read!Well(phase)')
      /\ since' # Read!Never => since' <= elapsed'
  BY <1>1, <1>2, <1>5 DEF NoxInv, NoxWell
<1>7. loopAt' = "asking" /\ ~well' /\ since' # Read!Never => readAsked' <= since'
  <2> SUFFICES ASSUME loopAt = "asking", ~well', since' # Read!Never PROVE readAsked <= since'
    OBVIOUS
  <2>1. readAsked <= elapsed
    BY <1>5 DEF NoxInv, NoxTimes
  <2> QED BY <1>1, <1>2, <1>5, <2>1 DEF NoxInv, NoxWell
<1> QED BY <1>1, <1>3, <1>4, <1>6, <1>7 DEF NoxInv, NoxWell

LEMMA NoxWorld ==
    ASSUME NoxInv, (\E h \in readAt.Handles : Read!Resolve(h)) \/ Read!CatchUp \/ Read!Outage \/ Read!Recover
    PROVE  NoxInv'
<1>1. ASSUME NEW h \in readAt.Handles, Read!Resolve(h) PROVE NoxInv'
  <2>1. PICK now : now \in BOOLEAN /\ now = (Read!Waiting /\ Read!Well(phase)') /\ Read!GotWell(now)
    BY <1>1 DEF Read!Resolve
  <2> QED BY <1>1, <2>1, NoxNetwork DEF Read!Resolve, Read!loop, NoxInv, NoxTypes, Read!Well
<1>2. CASE Read!CatchUp
  <2>1. PICK now : now \in BOOLEAN /\ now = (Read!Waiting /\ Read!Well(phase)') /\ Read!GotWell(now)
    BY <1>2 DEF Read!CatchUp
  <2> QED BY <1>2, <2>1, NoxNetwork DEF Read!CatchUp, Read!loop, NoxInv, NoxTypes, Read!Well
<1>3. CASE Read!Recover
  <2>1. PICK now : now \in BOOLEAN /\ now = (Read!Waiting /\ Read!Well(phase)') /\ Read!GotWell(now)
    BY <1>3 DEF Read!Recover
  <2> QED BY <1>3, <2>1, NoxNetwork DEF Read!Recover, Read!loop, NoxInv, NoxTypes, Read!Well
<1>4. CASE Read!Outage
  <2>1. ~Read!Well(phase)' /\ Read!GotWell(FALSE) /\ well' = FALSE
    BY <1>4 DEF Read!Outage, Read!Well
  <2> QED BY <1>4, <2>1, NoxNetwork DEF Read!Outage, NoxInv, NoxTypes
<1> QED BY <1>1, <1>2, <1>3, <1>4

LEMMA NoxInitial == Read!Init => NoxInv
<1> SUFFICES ASSUME Read!Init PROVE NoxInv
  OBVIOUS
<1>1. NoxTypes
  BY NoxDeadlines DEF Read!Init, NoxTypes
<1>2. NoxTimes
  BY NoxConst, NoxDeadlines DEF Read!Init, NoxTimes, Read!Waiting
<1>3. NoxWell
  BY DEF Read!Init, NoxWell, Read!Waiting
<1> QED BY <1>1, <1>2, <1>3 DEF NoxInv

LEMMA NoxStep == NoxInv /\ Read!Next => NoxInv'
BY NoxLoop, NoxAnswers, NoxClick, NoxWorld DEF Read!Next

LEMMA NoxIsSafe == NoxInv => Read!ReadSafe
<1> SUFFICES ASSUME NoxInv PROVE Read!ReadSafe
  OBVIOUS
<1>1. elapsed \in 0..(Read!Limit + readAt.RequestTimeout) /\ clock \in 0..elapsed /\ pause \in 0..readAt.Interval
  BY NoxConst, NoxDeadlines DEF NoxInv, NoxTypes, NoxTimes
<1>2. Read!NoxTypeOK
  BY <1>1 DEF NoxInv, NoxTypes, Read!NoxTypeOK
<1> QED BY <1>2 DEF NoxInv, NoxTimes, NoxWell, Read!ReadSafe, Read!AsksByTheDeadline, Read!ReadsWhatIsResolved

LEMMA NoxReason == NoxInv /\ Read!Next => Read!GivesUpWithReason
<1> SUFFICES ASSUME NoxInv, Read!Next, outcome' = "timeout", phase = "resolution", phase' = "idle", ~aborted
             PROVE  since + readAt.RequestTimeout >= readAt.Timeout
  BY DEF Read!GivesUpWithReason
<1>1. Read!Failed /\ Read!Expired /\ loopAt = "asking" /\ (Read!Answers \/ Read!AskFails)
  <2>1. CASE Read!Answers
    BY <2>1 DEF Read!Answers, Read!Asking, Read!Failed, Read!Enter
  <2>2. CASE Read!AskFails
    BY <2>2 DEF Read!AskFails, Read!Asking, Read!Failed
  <2>3. CASE Read!Attempt \/ Read!Wake \/ Read!Abort \/ Read!Click \/ Read!Tick \/ \E ok \in BOOLEAN : Read!ClientEnds(ok)
    BY <2>3 DEF Read!Attempt, Read!Wake, Read!Abort, Read!Click, Read!Tick, Read!ClientEnds, Read!loop
  <2>4. CASE Read!Decrypts \/ Read!DecryptFails \/ Read!Refuses
    BY <2>4 DEF Read!Decrypts, Read!DecryptFails, Read!Refuses, Read!Asking
  <2>5. CASE (\E h \in readAt.Handles : Read!Resolve(h)) \/ Read!CatchUp \/ Read!Outage \/ Read!Recover
    BY <2>5 DEF Read!Resolve, Read!CatchUp, Read!Outage, Read!Recover, Read!loop
  <2> QED BY <2>1, <2>2, <2>3, <2>4, <2>5 DEF Read!Next
<1>2. since = Read!Never => since + readAt.RequestTimeout >= readAt.Timeout
  BY NoxConst DEF Read!Never
<1>3. CASE since # Read!Never
  <2>1. Read!Well("resolution")
    BY <1>3 DEF NoxInv, NoxWell, Read!Waiting
  <2>2. ~well
    <3> SUFFICES ASSUME well PROVE FALSE
      OBVIOUS
    <3>1. clock <= readAt.Latency
      BY <1>1 DEF NoxInv, NoxWell
    <3>2. CASE Read!AskFails
      BY <2>1, <3>1, <3>2, NoxConst DEF Read!AskFails, Read!Well, NoxInv, NoxTypes
    <3>3. CASE Read!Answers
      BY <2>1, <3>3 DEF Read!Answers, Read!Well, Read!Enter
    <3> QED BY <1>1, <3>2, <3>3
  <2>3. readAsked <= since
    BY <1>1, <1>3, <2>2 DEF NoxInv, NoxWell
  <2>4. elapsed >= readAt.Timeout /\ elapsed = readAsked + clock /\ clock <= readAt.RequestTimeout
    BY <1>1 DEF Read!Expired, Read!Limit, NoxInv, NoxTimes
  <2> QED BY <2>3, <2>4, NoxConst DEF NoxInv, NoxTypes
<1> QED BY <1>2, <1>3

-----------------------------------------------------------------------------
(***************************************************************************)
(* The transaction log.                                                    *)
(***************************************************************************)

LEMMA MinimalSubset ==
    ASSUME NEW S, IsFiniteSet(S), NEW T \in SUBSET (SUBSET S), T # {}
    PROVE  \E s \in T : \A t \in T : t \subseteq s => t = s
  <1>1. IsWellFoundedOn(StrictSubsetOrdering(S), FiniteSubsetsOf(S)) /\ FiniteSubsetsOf(S) = SUBSET S
    BY FS_StrictSubsetOrderingWellFounded, FS_FiniteSubsetsOfFinite
  <1>2. \E s \in T : \A t \in T : ~ (<<t, s>> \in StrictSubsetOrdering(S))
    BY <1>1, WFMin
  <1> QED BY <1>2 DEF StrictSubsetOrdering

LEMMA LeastNatural ==
    ASSUME NEW T \in SUBSET Nat, T # {}
    PROVE  \E n \in T : \A k \in T : n <= k
  <1>1. PICK m \in T : TRUE
    OBVIOUS
  <1> DEFINE U == {0 .. k : k \in {j \in T : j <= m}}
             F == 0 .. m
  <1>2. IsFiniteSet(F)
    BY FS_Interval
  <1>3. U \in SUBSET (SUBSET F) /\ U # {}
    OBVIOUS
  <1>4. PICK s \in U : \A t \in U : t \subseteq s => t = s
    <2> HIDE DEF U, F
    <2> QED BY <1>2, <1>3, MinimalSubset
  <1>5. PICK n \in T : n <= m /\ s = 0 .. n
    BY <1>4
  <1>6. ASSUME NEW k \in T, k < n PROVE FALSE
    <2>1. 0 .. k \in U /\ 0 .. k \subseteq s /\ n \in s /\ n \notin 0 .. k
      BY <1>5, <1>6
    <2> QED BY <2>1, <1>4
  <1> QED BY <1>6

\* A set of blocks has a last one.
LEMMA LastBlock ==
    ASSUME NEW n \in Nat, NEW S \in SUBSET (1..n), S # {}
    PROVE  Log!Max(S) \in S /\ \A b \in S : b <= Log!Max(S)
<1>1. \A b \in S : b \in Nat /\ b <= n /\ n - b \in Nat
  OBVIOUS
<1>2. PICK T : T = {n - b : b \in S}
  OBVIOUS
<1>3. T \in SUBSET Nat /\ T # {}
  BY <1>1, <1>2
<1>4. PICK m \in T : \A k \in T : m <= k
  BY <1>3, LeastNatural
<1>5. PICK b \in S : m = n - b
  BY <1>2, <1>4
<1>6. \A c \in S : b >= c
  <2> TAKE c \in S
  <2>1. n - b <= n - c
    BY <1>2, <1>4, <1>5
  <2> QED BY <1>1, <2>1
<1>7. Log!Max(S) \in S /\ \A c \in S : Log!Max(S) >= c
  BY <1>6 DEF Log!Max
<1> QED BY <1>1, <1>7

Kinds == {"requested", "executed", "blocked", "ready", "approved", "cancelled"}
Block == Nat
\* A map of the transactions of the first blocks.
Whole(m) == m.upto \in 0..Len(log) /\ m.map = Log!Read(Log!Empty, 1, m.upto)
LogTypes ==
    /\ log \in Seq([id : logAt.Ids, kind : Kinds]) /\ Len(log) <= logAt.MaxBlocks
    /\ page \in {"none", "auditor", "acting"} /\ asking \in BOOLEAN /\ packet \subseteq logAt.Ids
    /\ owed \in 0..Len(log)
    /\ {scans, forces, mounts, logFaults} \subseteq Nat
\* A scan s beside cache c, the map m that is shown and whether the page waits for it.
ScanIs(s, c, waits, m) ==
    /\ s = [on |-> s.on, from |-> s.from, latest |-> s.latest, map |-> s.map]
    /\ s.on \in BOOLEAN /\ c.ok \in BOOLEAN
    /\ s.from \in 1..(logAt.MaxBlocks + logAt.Chunk) /\ s.latest \in 0..Len(log)
    /\ s.on => ~c.ok
    /\ waits => s.on
    /\ ~s.on => s.latest = 0
    /\ s.latest = 0 => s.from = 1
    /\ s.map = Log!Read(Log!Empty, 1, Log!Least(s.from - 1, s.latest))
    /\ s.latest > 0 => m.upto <= s.latest
ScanOK == ScanIs(scan, cache, asking, seen)
ScansCounted == scans + (IF ~scan.on /\ ~cache.ok THEN 1 ELSE 0) <= 1 + forces + logFaults
LogInv == LogTypes /\ ScanOK /\ ScansCounted /\ Whole(seen) /\ Whole(cache)

LEMMA LogConst == logAt.Chunk \in Nat \ {0} /\ logAt.MaxBlocks \in Nat \ {0}
BY BrowserConstants DEF Log!ChunkAssumption

\* What one range gives and then the next is what both give together.
LEMMA InSplits ==
    ASSUME NEW i, NEW kinds, NEW k \in Nat, NEW n \in Nat, k <= n
    PROVE  /\ Log!In(i, kinds, 1, n) = Log!In(i, kinds, 1, k) \cup Log!In(i, kinds, k + 1, n)
           /\ Log!In(i, kinds, 1, n) \subseteq 1..n
           /\ Log!In(i, kinds, 1, k) \subseteq 1..k
           /\ Log!In(i, kinds, k + 1, n) \subseteq (k + 1)..n
BY DEF Log!In

LEMMA LastSplits ==
    ASSUME NEW i, NEW kinds, NEW k \in Nat, NEW n \in Nat, k <= n, Log!In(i, kinds, k + 1, n) # {}
    PROVE  Log!In(i, kinds, 1, n) # {} /\ Log!Max(Log!In(i, kinds, 1, n)) = Log!Max(Log!In(i, kinds, k + 1, n))
<1>1. PICK A, B, C : A = Log!In(i, kinds, 1, k) /\ B = Log!In(i, kinds, k + 1, n) /\ C = Log!In(i, kinds, 1, n)
  OBVIOUS
<1>2. C = A \cup B /\ A \in SUBSET (1..k) /\ B \in SUBSET ((k + 1)..n) /\ B \in SUBSET (1..n) /\ C \in SUBSET (1..n)
      /\ B # {} /\ C # {}
  BY <1>1, InSplits
<1>3. Log!Max(B) \in B /\ \A b \in B : b <= Log!Max(B)
  BY <1>2, LastBlock
<1>4. Log!Max(C) \in C /\ \A b \in C : b <= Log!Max(C)
  BY <1>2, LastBlock
<1>5. \A a \in A : a \in Nat /\ a <= k
  BY <1>2
<1>6. \A b \in B : b \in Nat /\ b > k
  BY <1>2
<1>7. PICK x, y : x = Log!Max(B) /\ y = Log!Max(C)
  OBVIOUS
<1>8. x \in Nat /\ y \in Nat /\ x > k /\ x <= y /\ (y \in A \/ y <= x)
  BY <1>2, <1>3, <1>4, <1>5, <1>6, <1>7
<1>9. x = y
  BY <1>5, <1>8
<1> QED BY <1>1, <1>2, <1>7, <1>9

LEMMA NotedSplits ==
    ASSUME NEW k \in Nat, NEW n \in Nat, k <= n, NEW i, NEW tx
    PROVE  Log!Noted(Log!Noted(tx, i, 1, k), i, k + 1, n) = Log!Noted(tx, i, 1, n)
<1>1. ASSUME NEW kinds, NEW old
      PROVE  Log!Upsert(Log!Upsert(old, Log!In(i, kinds, 1, k)), Log!In(i, kinds, k + 1, n))
               = Log!Upsert(old, Log!In(i, kinds, 1, n))
  <2>1. PICK A, B, C : A = Log!In(i, kinds, 1, k) /\ B = Log!In(i, kinds, k + 1, n) /\ C = Log!In(i, kinds, 1, n)
    OBVIOUS
  <2>2. C = A \cup B /\ A \in SUBSET (1..k) /\ B \in SUBSET ((k + 1)..n)
    BY <2>1, InSplits
  <2>3. B # {} => C # {} /\ Log!Max(C) = Log!Max(B)
    BY <2>1, LastSplits
  <2>4. B = {} => C = A
    BY <2>2
  <2>5. Log!Upsert(Log!Upsert(old, A), B) = Log!Upsert(old, C)
    BY <2>3, <2>4 DEF Log!Upsert
  <2> QED BY <2>1, <2>5
<1>2. ASSUME NEW kinds, NEW old, NEW patch
      PROVE  Log!Annotate(Log!Annotate(old, Log!In(i, kinds, 1, k), patch), Log!In(i, kinds, k + 1, n), patch)
               = Log!Annotate(old, Log!In(i, kinds, 1, n), patch)
  <2>1. PICK A, B, C : A = Log!In(i, kinds, 1, k) /\ B = Log!In(i, kinds, k + 1, n) /\ C = Log!In(i, kinds, 1, n)
    OBVIOUS
  <2>2. C = A \cup B /\ A \in SUBSET (1..k) /\ B \in SUBSET ((k + 1)..n)
    BY <2>1, InSplits
  <2>3. B # {} => C # {} /\ Log!Max(C) = Log!Max(B)
    BY <2>1, LastSplits
  <2>4. B = {} => C = A
    BY <2>2
  <2>5. Log!Annotate(Log!Annotate(old, A, patch), B, patch) = Log!Annotate(old, C, patch)
    BY <2>3, <2>4 DEF Log!Annotate
  <2> QED BY <2>1, <2>5
<1> QED BY <1>1, <1>2 DEF Log!Noted

LEMMA ReadSplits ==
    ASSUME NEW k \in Nat, NEW n \in Nat, k <= n, NEW map
    PROVE  Log!Read(Log!Read(map, 1, k), k + 1, n) = Log!Read(map, 1, n)
BY NotedSplits DEF Log!Read

LEMMA ReadNothing == Log!Read(Log!Empty, 1, 0) = Log!Empty
<1>1. \A i, kinds : Log!In(i, kinds, 1, 0) = {}
  BY DEF Log!In
<1>2. \A i : Log!Noted(Log!Nothing, i, 1, 0) = Log!Nothing
  BY <1>1 DEF Log!Noted, Log!Upsert, Log!Annotate, Log!Nothing
<1> QED BY <1>2 DEF Log!Read, Log!Empty

\* A longer log has the same first blocks.
LEMMA ReadStays ==
    ASSUME NEW n \in Nat, \A b \in 1..n : log'[b] = log[b]
    PROVE  Log!Read(Log!Empty, 1, n)' = Log!Read(Log!Empty, 1, n)
<1>1. ASSUME NEW i, NEW kinds PROVE Log!In(i, kinds, 1, n)' = Log!In(i, kinds, 1, n)
  BY DEF Log!In
<1>2. ASSUME NEW i, NEW kinds, NEW old, NEW patch
      PROVE  Log!Annotate(old, Log!In(i, kinds, 1, n), patch)' = Log!Annotate(old, Log!In(i, kinds, 1, n), patch)
  <2>1. PICK S : S = Log!In(i, kinds, 1, n) /\ S \in SUBSET (1..n)
    BY DEF Log!In
  <2>2. S # {} => log'[Log!Max(S)] = log[Log!Max(S)]
    BY <2>1, LastBlock
  <2>3. Log!In(i, kinds, 1, n)' = S
    BY <1>1, <2>1
  <2>4. PICK m : m = Log!Max(S)
    OBVIOUS
  <2>5. Log!Annotate(old, S, patch) = IF S = {} THEN old ELSE patch[log[m].kind]
    BY <2>4 DEF Log!Annotate
  <2>6. Log!Annotate(old, Log!In(i, kinds, 1, n), patch)' = IF S = {} THEN old ELSE patch[log'[m].kind]
    BY <2>3, <2>4 DEF Log!Annotate
  <2> QED BY <2>1, <2>2, <2>4, <2>5, <2>6
<1>3. ASSUME NEW i, NEW tx PROVE Log!Noted(tx, i, 1, n)' = Log!Noted(tx, i, 1, n)
  BY <1>1, <1>2 DEF Log!Noted, Log!Upsert
<1> QED BY <1>3 DEF Log!Read, Log!Empty, Log!Nothing

\* The log stays.
LEMMA WholeStays ==
    ASSUME NEW n \in 0..Len(log), log' = log PROVE Log!Read(Log!Empty, 1, n)' = Log!Read(Log!Empty, 1, n)
BY ReadStays

LEMMA EmptyStays == Log!Empty' = Log!Empty
BY DEF Log!Empty, Log!Nothing

LEMMA LogEmit == ASSUME LogInv, NEW i \in logAt.Ids, Log!Emit(i) PROVE LogInv'
<1>1. PICK kind \in Log!NextKinds(i) : log' = Append(log, [id |-> i, kind |-> kind])
  BY DEF Log!Emit
<1>2. kind \in Kinds
  BY DEF Log!NextKinds, Kinds
<1>3. log \in Seq([id : logAt.Ids, kind : Kinds]) /\ Len(log) < logAt.MaxBlocks /\ Len(log) \in Nat
  BY DEF LogInv, LogTypes, Log!Emit
<1>4. [id |-> i, kind |-> kind] \in [id : logAt.Ids, kind : Kinds]
  BY <1>2
<1>5. log' \in Seq([id : logAt.Ids, kind : Kinds]) /\ Len(log') = Len(log) + 1 /\ \A b \in 1..Len(log) : log'[b] = log[b]
  BY <1>1, <1>3, <1>4
<1>6. UNCHANGED <<cache, scan, page, asking, seen, base, reconciled, packet, owed, scans, forces, mounts, logFaults>>
  BY DEF Log!Emit, Log!shown, Log!counts
<1>7. LogTypes'
  BY <1>3, <1>5, <1>6, LogConst DEF LogInv, LogTypes
<1>8. ASSUME NEW n \in 0..Len(log) PROVE Log!Read(Log!Empty, 1, n)' = Log!Read(Log!Empty, 1, n)
  BY <1>3, <1>5, ReadStays
<1>9. Log!Least(scan.from - 1, scan.latest) \in 0..Len(log)
  BY <1>3, LogConst DEF LogInv, ScanOK, ScanIs, Log!Least
<1>10. ScanOK'
  <2>1. PICK n : n = Log!Least(scan.from - 1, scan.latest)
    OBVIOUS
  <2>2. Log!Least(scan.from - 1, scan.latest)' = n
    BY <1>6, <2>1 DEF Log!Least
  <2>3. scan.map = Log!Read(Log!Empty, 1, n)'
    BY <1>8, <1>9, <2>1 DEF LogInv, ScanOK, ScanIs
  <2>4. scan'.map = Log!Read(Log!Empty, 1, Log!Least(scan.from - 1, scan.latest))'
    BY <1>6, <2>2, <2>3
  <2>5. scan'.latest \in 0..Len(log')
    BY <1>3, <1>5, <1>6 DEF LogInv, ScanOK, ScanIs
  <2> QED BY <1>6, <2>4, <2>5 DEF LogInv, ScanOK, ScanIs
<1>11. Whole(seen)' /\ Whole(cache)'
  BY <1>3, <1>5, <1>6, <1>8 DEF LogInv, Whole
<1> QED BY <1>6, <1>7, <1>10, <1>11 DEF LogInv, ScansCounted

\* The rest of a step that leaves the log alone.
LEMMA LogKept ==
    ASSUME LogInv, log' = log,
           page' \in {"none", "auditor", "acting"}, asking' \in BOOLEAN, packet' \subseteq logAt.Ids,
           owed' \in 0..Len(log), {scans', forces', mounts', logFaults'} \subseteq Nat,
           ScanIs(scan', cache', asking', seen'), ScansCounted', Whole(seen'), Whole(cache')
    PROVE  LogInv'
<1>1. Len(log) \in Nat
  BY DEF LogInv, LogTypes
<1>2. LogTypes'
  BY DEF LogInv, LogTypes
<1>3. \A n \in 0..Len(log) : Log!Read(Log!Empty, 1, n)' = Log!Read(Log!Empty, 1, n)
  BY <1>1, ReadStays
<1>4. PICK s, c, waits, m : s = scan' /\ c = cache' /\ waits = asking' /\ m = seen'
  OBVIOUS
<1>5. ScanIs(s, c, waits, m) /\ Whole(m) /\ Whole(c)
  BY <1>4
<1>6. Log!Least(s.from - 1, s.latest) \in 0..Len(log)
  <2>1. s.from \in Nat \ {0} /\ s.latest \in 0..Len(log)
    BY <1>5, LogConst DEF ScanIs
  <2> QED BY <1>1, <2>1 DEF Log!Least
<1>7. ScanIs(s, c, waits, m)' /\ Whole(m)' /\ Whole(c)'
  BY <1>3, <1>5, <1>6 DEF ScanIs, Whole, Log!Least
<1> QED BY <1>2, <1>4, <1>7 DEF LogInv, ScanOK, Whole

\* A scan that has read nothing.
Unread(s) ==
    /\ s = [on |-> s.on, from |-> s.from, latest |-> s.latest, map |-> s.map]
    /\ s.from = 1 /\ s.latest = 0 /\ s.map = Log!Empty
LEMMA NoScanIs ==
    /\ Unread(Log!NoScan) /\ Log!NoScan.on = FALSE
    /\ \A s : s = [Log!NoScan EXCEPT !.on = TRUE] => Unread(s) /\ s.on = TRUE
<1>1. Unread(Log!NoScan) /\ Log!NoScan.on = FALSE
  BY DEF Log!NoScan, Unread
<1>2. ASSUME NEW s, s = [Log!NoScan EXCEPT !.on = TRUE] PROVE Unread(s) /\ s.on = TRUE
  <2>1. s = [on |-> TRUE, from |-> 1, latest |-> 0, map |-> Log!Empty]
    BY <1>2 DEF Log!NoScan
  <2>2. s.on = TRUE /\ s.from = 1 /\ s.latest = 0 /\ s.map = Log!Empty
    BY <2>1
  <2> QED BY <2>1, <2>2 DEF Unread
<1> QED BY <1>1, <1>2

LEMMA UnreadFacts ==
    ASSUME log \in Seq([id : logAt.Ids, kind : Kinds]), NEW s, Unread(s)
    PROVE  /\ s = [on |-> s.on, from |-> s.from, latest |-> s.latest, map |-> s.map] /\ s.latest = 0
           /\ s.from = 1 /\ s.from \in 1..(logAt.MaxBlocks + logAt.Chunk) /\ s.latest \in 0..Len(log)
           /\ s.map = Log!Read(Log!Empty, 1, Log!Least(s.from - 1, s.latest))
<1>1. Log!Least(s.from - 1, s.latest) = 0 /\ Len(log) \in Nat
  BY DEF Log!Least, Unread
<1>2. s.map = Log!Read(Log!Empty, 1, Log!Least(s.from - 1, s.latest))
  BY <1>1, ReadNothing DEF Unread
<1>3. 1 \in 1..(logAt.MaxBlocks + logAt.Chunk) /\ 0 \in 0..Len(log)
  BY <1>1, LogConst
<1> QED BY <1>2, <1>3 DEF Unread

LEMMA NoMapIs ==
    ASSUME log \in Seq([id : logAt.Ids, kind : Kinds])
    PROVE  Log!NoMap.ok = FALSE /\ Whole(Log!NoMap) /\ Whole(Log!Blank) /\ Log!Blank.upto = 0
<1>1. Log!NoMap.upto = 0 /\ Log!NoMap.map = Log!Empty /\ Log!NoMap.ok = FALSE /\ Log!Blank.upto = 0 /\ Log!Blank.map = Log!Empty
  BY DEF Log!NoMap, Log!Blank
<1>2. 0 \in 0..Len(log)
  OBVIOUS
<1> QED BY <1>1, <1>2, ReadNothing DEF Whole

LEMMA LogFacts ==
    ASSUME LogInv
    PROVE  /\ log \in Seq([id : logAt.Ids, kind : Kinds]) /\ Len(log) \in Nat /\ Len(log) <= logAt.MaxBlocks
           /\ page \in {"none", "auditor", "acting"} /\ asking \in BOOLEAN /\ packet \subseteq logAt.Ids
           /\ owed \in 0..Len(log) /\ 0 \in 0..Len(log) /\ Len(log) \in 0..Len(log)
           /\ {scans, forces, mounts, logFaults} \subseteq Nat
           /\ 1 \in 1..(logAt.MaxBlocks + logAt.Chunk)
           /\ ScanIs(scan, cache, asking, seen) /\ ScansCounted /\ Whole(seen) /\ Whole(cache)
BY LogConst DEF LogInv, LogTypes, ScanOK

\* A scan that starts knows nothing.
LEMMA StartIs ==
    ASSUME LogInv, Log!Start, cache'.ok = FALSE, asking' \in BOOLEAN,
           scan.latest > 0 => seen'.upto <= scan.latest
    PROVE  /\ scan'.on /\ ScanIs(scan', cache', asking', seen')
           /\ scans' \in Nat /\ scans' = IF scan.on THEN scans ELSE scans + 1
<1>1. CASE scan.on
  <2>1. UNCHANGED <<scan, scans>>
    BY <1>1 DEF Log!Start
  <2> QED BY <1>1, <2>1, LogFacts DEF ScanIs
<1>2. CASE ~scan.on
  <2>1. scan' = [Log!NoScan EXCEPT !.on = TRUE] /\ scans' = scans + 1
    BY <1>2 DEF Log!Start
  <2>2. scan'.on = TRUE /\ Unread(scan')
    BY <2>1, NoScanIs
  <2>3. /\ scan' = [on |-> scan'.on, from |-> scan'.from, latest |-> scan'.latest, map |-> scan'.map]
        /\ scan'.latest = 0 /\ scan'.from = 1
        /\ scan'.from \in 1..(logAt.MaxBlocks + logAt.Chunk) /\ scan'.latest \in 0..Len(log)
        /\ scan'.map = Log!Read(Log!Empty, 1, Log!Least(scan'.from - 1, scan'.latest))
    BY <2>2, LogFacts, UnreadFacts
  <2>4. ScanIs(scan', cache', asking', seen')
    <3>1. scan'.on \in BOOLEAN /\ cache'.ok \in BOOLEAN
      BY <2>2
    <3>2. scan'.on => ~cache'.ok
      BY <2>2
    <3>3. asking' => scan'.on
      BY <2>2
    <3>4. ~scan'.on => scan'.latest = 0
      BY <2>3
    <3>5. scan'.latest = 0 => scan'.from = 1
      BY <2>3
    <3>6. scan'.latest > 0 => seen'.upto <= scan'.latest
      BY <2>3
    <3> QED BY <2>3, <3>1, <3>2, <3>3, <3>4, <3>5, <3>6, Zenon DEF ScanIs
  <2> QED BY <1>2, <2>1, <2>2, <2>4, LogFacts
<1> QED BY <1>1, <1>2

\* A scan starts, or is joined, once the cache is dropped.
LEMMA LogForces ==
    ASSUME LogInv, Log!Reconcile \/ \E mine \in BOOLEAN : Log!Force(mine) PROVE LogInv'
<1>1. /\ cache' = Log!NoMap /\ Log!Start /\ forces' = forces + 1
      /\ asking' \in BOOLEAN /\ owed' \in 0..Len(log)
      /\ UNCHANGED <<log, page, seen, packet, mounts, logFaults>>
  BY LogFacts DEF Log!Reconcile, Log!Force, Log!Drop
<1>2. cache'.ok = FALSE /\ Whole(cache') /\ Whole(seen')
  BY <1>1, LogFacts, NoMapIs
<1>3. scan.latest > 0 => seen'.upto <= scan.latest
  BY <1>1, LogFacts DEF ScanIs
<1>4. /\ scan'.on /\ ScanIs(scan', cache', asking', seen')
      /\ scans' \in Nat /\ scans' = IF scan.on THEN scans ELSE scans + 1
  BY <1>1, <1>2, <1>3, StartIs
<1>5. ScansCounted'
  BY <1>1, <1>4, LogFacts DEF ScansCounted
<1>6. page' \in {"none", "auditor", "acting"} /\ packet' \subseteq logAt.Ids /\ {scans', forces', mounts', logFaults'} \subseteq Nat
  BY <1>1, <1>4, LogFacts
<1> QED BY <1>1, <1>2, <1>4, <1>5, <1>6, LogKept

LEMMA LogMount == ASSUME LogInv, NEW p \in {"auditor", "acting"}, Log!Mount(p) PROVE LogInv'
<1>1. /\ mounts' = mounts + 1 /\ page' = p /\ packet' = {} /\ owed' = 0
      /\ UNCHANGED <<log, cache, forces, logFaults>>
  BY DEF Log!Mount
<1>2. page' \in {"none", "auditor", "acting"} /\ packet' \subseteq logAt.Ids /\ owed' \in 0..Len(log)
      /\ {forces', mounts', logFaults'} \subseteq Nat
  BY <1>1, LogFacts
<1>3. CASE cache.ok
  <2>1. seen' = [map |-> cache.map, upto |-> cache.upto] /\ asking' = FALSE /\ UNCHANGED <<scan, scans>>
    BY <1>3 DEF Log!Mount
  <2>2. ScanIs(scan', cache', asking', seen')
    BY <1>1, <1>3, <2>1, LogFacts DEF ScanIs
  <2>3. ScansCounted'
    BY <1>1, <2>1, LogFacts DEF ScansCounted
  <2>4. Whole(seen') /\ Whole(cache')
    BY <1>1, <2>1, LogFacts DEF Whole
  <2> QED BY <1>1, <1>2, <2>1, <2>2, <2>3, <2>4, LogFacts, LogKept
<1>4. CASE ~cache.ok
  <2>1. seen' = Log!Blank /\ asking' = TRUE /\ Log!Start
    BY <1>4 DEF Log!Mount
  <2>2. Whole(seen') /\ Whole(cache') /\ seen'.upto = 0 /\ cache'.ok = FALSE
    BY <1>1, <1>4, <2>1, LogFacts, NoMapIs DEF ScanIs
  <2>3. scan.latest > 0 => seen'.upto <= scan.latest
    BY <2>2, LogFacts DEF ScanIs
  <2>4. /\ scan'.on /\ ScanIs(scan', cache', asking', seen')
        /\ scans' \in Nat /\ scans' = IF scan.on THEN scans ELSE scans + 1
    BY <2>1, <2>2, <2>3, StartIs
  <2>5. ScansCounted'
    BY <1>1, <1>4, <2>4, LogFacts DEF ScansCounted
  <2> QED BY <1>1, <1>2, <2>1, <2>2, <2>4, <2>5, LogFacts, LogKept
<1> QED BY <1>3, <1>4 DEF ScanIs

LEMMA LogHead == ASSUME LogInv, Log!ReadHead PROVE LogInv'
<1>1. /\ scan.on /\ scan.latest = 0 /\ scan.from = 1 /\ log # <<>>
      /\ scan' = [scan EXCEPT !.latest = Len(log)]
      /\ UNCHANGED <<log, cache, page, asking, seen, packet, owed, scans, forces, mounts, logFaults>>
  BY LogFacts DEF Log!ReadHead, Log!shown, Log!counts, ScanIs
<1>2. /\ scan'.on = scan.on /\ scan'.from = scan.from /\ scan'.map = scan.map /\ scan'.latest = Len(log)
      /\ scan' = [on |-> scan'.on, from |-> scan'.from, latest |-> scan'.latest, map |-> scan'.map]
  BY <1>1, LogFacts DEF ScanIs
<1>3. Log!Least(scan'.from - 1, scan'.latest) = 0 /\ Log!Least(scan.from - 1, scan.latest) = 0
  BY <1>1, <1>2, LogFacts DEF Log!Least
<1>4. seen'.upto <= Len(log)
  BY <1>1, LogFacts DEF Whole
<1>5. scan'.map = Log!Read(Log!Empty, 1, Log!Least(scan'.from - 1, scan'.latest))
  BY <1>2, <1>3, LogFacts DEF ScanIs
<1>6. /\ scan'.from \in 1..(logAt.MaxBlocks + logAt.Chunk) /\ scan'.latest \in 0..Len(log')
      /\ scan'.on \in BOOLEAN /\ cache'.ok \in BOOLEAN /\ (scan'.on => ~cache'.ok) /\ (asking' => scan'.on)
      /\ (~scan'.on => scan'.latest = 0) /\ (scan'.latest = 0 => scan'.from = 1)
      /\ (scan'.latest > 0 => seen'.upto <= scan'.latest)
  BY <1>1, <1>2, <1>4, LogFacts DEF ScanIs
<1>7. ScanIs(scan', cache', asking', seen')
  BY <1>1, <1>2, <1>5, <1>6 DEF ScanIs
<1>8. ScansCounted'
  BY <1>1, <1>2, LogFacts DEF ScansCounted
<1> QED BY <1>1, <1>7, <1>8, LogFacts, LogKept

\* Maps of adjoining ranges are joined.
LEMMA LogQuery == ASSUME LogInv, Log!Query PROVE LogInv'
<1>1. /\ scan.latest > 0 /\ scan.from <= scan.latest
      /\ scan' = [scan EXCEPT !.map = Log!Read(scan.map, scan.from, Log!LastOf(scan.from, scan.latest)), !.from = scan.from + logAt.Chunk]
      /\ UNCHANGED <<log, cache, page, asking, seen, packet, owed, scans, forces, mounts, logFaults>>
  BY DEF Log!Query, Log!shown, Log!counts
<1>2. /\ scan'.on = scan.on /\ scan'.latest = scan.latest /\ scan'.from = scan.from + logAt.Chunk
      /\ scan'.map = Log!Read(scan.map, scan.from, Log!LastOf(scan.from, scan.latest))
      /\ scan' = [on |-> scan'.on, from |-> scan'.from, latest |-> scan'.latest, map |-> scan'.map]
  BY <1>1, LogFacts DEF ScanIs
<1>3. PICK k, n : k = scan.from - 1 /\ n = Log!LastOf(scan.from, scan.latest)
  OBVIOUS
<1>4. /\ k \in Nat /\ n \in Nat /\ k <= n /\ scan.from = k + 1
      /\ Log!Least(scan.from - 1, scan.latest) = k /\ Log!Least(scan'.from - 1, scan'.latest) = n
  <2>1. scan.from \in Nat \ {0} /\ scan.latest \in Nat
    BY LogFacts, LogConst DEF ScanIs
  <2> QED BY <1>1, <1>2, <1>3, <2>1, LogConst DEF Log!Least, Log!LastOf
<1>5. scan'.map = Log!Read(Log!Read(Log!Empty, 1, k), k + 1, n)
  BY <1>2, <1>3, <1>4, LogFacts DEF ScanIs
<1>6. scan'.map = Log!Read(Log!Empty, 1, n)
  BY <1>4, <1>5, ReadSplits
<1>7. scan'.from \in 1..(logAt.MaxBlocks + logAt.Chunk)
  BY <1>1, <1>2, LogFacts, LogConst DEF ScanIs
<1>8. ScanIs(scan', cache', asking', seen')
  BY <1>1, <1>2, <1>4, <1>6, <1>7, LogFacts DEF ScanIs
<1>9. ScansCounted'
  BY <1>1, <1>2, LogFacts DEF ScansCounted
<1> QED BY <1>1, <1>8, <1>9, LogFacts, LogKept

LEMMA LogIdle ==
    ASSUME LogInv, scan' = Log!NoScan, asking' = FALSE, cache'.ok \in BOOLEAN
    PROVE  scan'.on = FALSE /\ ScanIs(scan', cache', asking', seen')
<1>1. Unread(scan') /\ scan'.on = FALSE
  BY NoScanIs
<1>2. /\ scan' = [on |-> scan'.on, from |-> scan'.from, latest |-> scan'.latest, map |-> scan'.map]
      /\ scan'.latest = 0 /\ scan'.from = 1
      /\ scan'.from \in 1..(logAt.MaxBlocks + logAt.Chunk) /\ scan'.latest \in 0..Len(log)
      /\ scan'.map = Log!Read(Log!Empty, 1, Log!Least(scan'.from - 1, scan'.latest))
  BY <1>1, LogFacts, UnreadFacts
<1>3. scan'.on \in BOOLEAN /\ cache'.ok \in BOOLEAN
  BY <1>1, <1>2
<1>4. scan'.on => ~cache'.ok
  BY <1>1, <1>2
<1>5. asking' => scan'.on
  BY <1>1, <1>2
<1>6. ~scan'.on => scan'.latest = 0
  BY <1>1, <1>2
<1>7. scan'.latest = 0 => scan'.from = 1
  BY <1>1, <1>2
<1>8. scan'.latest > 0 => seen'.upto <= scan'.latest
  BY <1>1, <1>2
<1> QED BY <1>1, <1>2, <1>3, <1>4, <1>5, <1>6, <1>7, <1>8, Zenon DEF ScanIs

LEMMA LogFails == ASSUME LogInv, Log!QueryFails PROVE LogInv'
<1>1. /\ scan.on /\ scan' = Log!NoScan /\ asking' = FALSE /\ owed' = 0 /\ logFaults' = logFaults + 1
      /\ UNCHANGED <<log, cache, page, seen, packet, scans, forces, mounts>>
  BY DEF Log!QueryFails
<1>2. scan'.on = FALSE /\ ScanIs(scan', cache', asking', seen')
  BY <1>1, LogIdle, LogFacts DEF ScanIs
<1>3. ScansCounted'
  <2>1. ~cache.ok /\ {scans, forces, logFaults} \subseteq Nat /\ scans <= 1 + forces + logFaults
    BY <1>1, LogFacts DEF ScansCounted, ScanIs
  <2> QED BY <1>1, <1>2, <2>1 DEF ScansCounted
<1>4. {scans', forces', mounts', logFaults'} \subseteq Nat
  BY <1>1, LogFacts
<1> QED BY <1>1, <1>2, <1>3, <1>4, LogFacts, LogKept

LEMMA LogEnds == ASSUME LogInv, Log!ScanEnds PROVE LogInv' /\ seen'.upto >= seen.upto
<1>1. /\ scan.latest > 0 /\ scan.from > scan.latest /\ scan' = Log!NoScan /\ asking' = FALSE /\ owed' = 0
      /\ cache' = [map |-> scan.map, upto |-> scan.latest, ok |-> TRUE]
      /\ UNCHANGED <<log, page, packet, scans, forces, mounts, logFaults>>
      /\ seen' = [map |-> scan.map, upto |-> scan.latest] \/ seen' = seen
  BY DEF Log!ScanEnds, Log!counts
<1>2. ScanIs(scan', cache', asking', seen')
  <2>1. cache'.ok = TRUE
    BY <1>1
  <2> QED BY <1>1, <2>1, LogIdle
<1>3. Log!Least(scan.from - 1, scan.latest) = scan.latest
  BY <1>1, LogFacts DEF ScanIs, Log!Least
<1>4. Whole(seen') /\ Whole(cache')
  BY <1>1, <1>3, LogFacts DEF Whole, ScanIs
<1>5. ScansCounted'
  BY <1>1, LogFacts DEF ScansCounted, ScanIs
<1>6. LogInv'
  BY <1>1, <1>2, <1>4, <1>5, LogFacts, LogKept
<1>7. seen'.upto >= seen.upto
  BY <1>1, LogFacts DEF ScanIs, Whole
<1> QED BY <1>6, <1>7

LEMMA LogPacket == ASSUME LogInv, NEW i \in logAt.Ids, Log!OpenPacket(i) PROVE LogInv'
<1>1. packet' = {i} /\ UNCHANGED <<log, cache, scan, page, asking, seen, owed, scans, forces, mounts, logFaults>>
  BY DEF Log!OpenPacket, Log!counts
<1>2. ScansCounted'
  BY <1>1, LogFacts DEF ScansCounted
<1> QED BY <1>1, <1>2, LogFacts, LogKept

LEMMA LogInitial == Log!Init => LogInv
<1> SUFFICES ASSUME Log!Init PROVE LogInv
  OBVIOUS
<1>1. log = <<>> /\ Len(log) = 0 /\ log \in Seq([id : logAt.Ids, kind : Kinds])
  BY DEF Log!Init
<1>2. LogTypes
  <2>1. 0 \in 0..Len(log) /\ Len(log) <= logAt.MaxBlocks /\ 0 \in Nat /\ {} \subseteq logAt.Ids
    BY <1>1, LogConst
  <2>2. page = "none" /\ asking = FALSE /\ packet = {} /\ owed = 0 /\ scans = 0 /\ forces = 0 /\ mounts = 0 /\ logFaults = 0
    BY DEF Log!Init
  <2> QED BY <1>1, <2>1, <2>2 DEF LogTypes
<1>3. cache = Log!NoMap /\ scan = Log!NoScan /\ seen = Log!Blank /\ asking = FALSE /\ scans = 0 /\ forces = 0 /\ logFaults = 0
  BY DEF Log!Init
<1>4. ScanIs(scan, cache, asking, seen)
  <2>1. cache.ok = FALSE
    BY <1>1, <1>3, NoMapIs
  <2>2. Unread(scan) /\ scan.on = FALSE
    BY <1>3, NoScanIs
  <2>3. /\ scan = [on |-> scan.on, from |-> scan.from, latest |-> scan.latest, map |-> scan.map]
        /\ scan.latest = 0 /\ scan.from = 1
        /\ scan.from \in 1..(logAt.MaxBlocks + logAt.Chunk) /\ scan.latest \in 0..Len(log)
        /\ scan.map = Log!Read(Log!Empty, 1, Log!Least(scan.from - 1, scan.latest))
    BY <1>1, <2>2, UnreadFacts
  <2>4. scan.on \in BOOLEAN /\ cache.ok \in BOOLEAN
    BY <1>3, <2>1, <2>2, <2>3
  <2>5. scan.on => ~cache.ok
    BY <1>3, <2>1, <2>2, <2>3
  <2>6. asking => scan.on
    BY <1>3, <2>1, <2>2, <2>3
  <2>7. ~scan.on => scan.latest = 0
    BY <1>3, <2>1, <2>2, <2>3
  <2>8. scan.latest = 0 => scan.from = 1
    BY <1>3, <2>1, <2>2, <2>3
  <2>9. scan.latest > 0 => seen.upto <= scan.latest
    BY <1>3, <2>1, <2>2, <2>3
  <2> QED BY <2>3, <2>4, <2>5, <2>6, <2>7, <2>8, <2>9, Zenon DEF ScanIs
<1>5. ScansCounted
  BY <1>3, NoScanIs DEF ScansCounted
<1>6. Whole(seen) /\ Whole(cache)
  BY <1>1, <1>3, NoMapIs
<1> QED BY <1>2, <1>4, <1>5, <1>6 DEF LogInv, ScanOK

LEMMA LogStep == LogInv /\ Log!Next => LogInv'
BY LogEmit, LogPacket, LogHead, LogQuery, LogFails, LogEnds, LogForces, LogMount DEF Log!Next

LEMMA LogIsSafe == LogInv => Log!LogSafe
<1> SUFFICES ASSUME LogInv PROVE Log!LogSafe
  OBVIOUS
<1>1. Log!LogTypeOK
  BY LogFacts DEF ScanIs, Log!LogTypeOK
<1>2. Log!ShownIsWhole
  BY LogFacts DEF Whole, Log!ShownIsWhole
<1>3. Log!ScansAreFew
  BY LogFacts DEF ScansCounted, Log!ScansAreFew
<1> QED BY <1>1, <1>2, <1>3 DEF Log!LogSafe

LEMMA LogLinks == LogInv /\ Log!Next => Log!LinksStay
<1> SUFFICES ASSUME LogInv, Log!Next, mounts' = mounts PROVE seen'.upto >= seen.upto
  BY DEF Log!LinksStay
<1>1. seen.upto \in Nat
  BY LogFacts DEF Whole
<1>2. CASE seen' = seen
  BY <1>1, <1>2
<1>3. CASE Log!ScanEnds
  BY <1>3, LogEnds
<1>4. ASSUME NEW p \in {"auditor", "acting"}, Log!Mount(p) PROVE FALSE
  BY <1>4, LogFacts DEF Log!Mount
<1> QED BY <1>2, <1>3, <1>4 DEF Log!Next, Log!Emit, Log!OpenPacket, Log!ReadHead, Log!Query, Log!QueryFails,
     Log!Reconcile, Log!Force, Log!shown

-----------------------------------------------------------------------------
(***************************************************************************)
(* What the actions of a demo session leave of its evidence.               *)
(***************************************************************************)

Demo == INSTANCE DemoSession
Keys == {"routine", "approval", "violation", "audit"}
ProgressShape(p) ==
    p = [status |-> p.status, request |-> p.request, outcome |-> p.outcome, decision |-> p.decision,
         confirmed |-> p.confirmed, reason |-> p.reason, packets |-> p.packets, included |-> p.included,
         reviewed |-> p.reviewed, flagged |-> p.flagged, unlocked |-> p.unlocked, verified |-> p.verified,
         compat |-> p.compat]
Shape(s) ==
    /\ s = [run |-> s.run, life |-> s.life, current |-> s.current, role |-> s.role, route |-> s.route,
            m |-> s.m, tour |-> s.tour, restart |-> s.restart]
    /\ s.m = [k \in Keys |-> s.m[k]]
    /\ \A k \in Keys : ProgressShape(s.m[k])
\* Progress p and q hold the same evidence.
SameProgress(p, q) ==
    /\ p.request = q.request /\ p.outcome = q.outcome /\ p.decision = q.decision
    /\ p.confirmed = q.confirmed /\ p.reason = q.reason /\ p.packets = q.packets
    /\ p.included = q.included /\ p.reviewed = q.reviewed /\ p.flagged = q.flagged
    /\ p.unlocked = q.unlocked /\ p.verified = q.verified
Kept(s, t) ==
    s.run = t.run /\ s.role = t.role /\ s.route = t.route /\ s.tour = t.tour /\ s.restart = t.restart
Same(s, t) ==
    /\ Kept(s, t)
    /\ \A k \in Keys : SameProgress(s.m[k], t.m[k])

LEMMA NormalizeKeeps ==
    ASSUME NEW s, Shape(s) PROVE Shape(Demo!Normalize(s)) /\ Same(Demo!Normalize(s), s)
<1>1. PICK st, life, current :
        /\ st = [k \in Keys |-> Demo!StatusOf(s, Demo!Ordinal(k))]
        /\ life = Demo!LifeOf(s) /\ current = Demo!CurrentOf(s)
  OBVIOUS
<1>2. PICK n : n = Demo!Normalize(s)
  OBVIOUS
<1>3. PICK m : m = [k \in Keys |-> [s.m[k] EXCEPT !.status = st[k]]]
  OBVIOUS
<1>4. n = [s EXCEPT !.m = m, !.life = life, !.current = current]
  BY <1>1, <1>2, <1>3 DEF Demo!Normalize, Demo!MissionKeys, Demo!PaymentMissions, Keys
<1>5. n = [run |-> s.run, life |-> life, current |-> current, role |-> s.role, route |-> s.route,
           m |-> m, tour |-> s.tour, restart |-> s.restart]
  BY <1>4 DEF Shape
<1>6. /\ n.run = s.run /\ n.life = life /\ n.current = current /\ n.role = s.role /\ n.route = s.route
      /\ n.m = m /\ n.tour = s.tour /\ n.restart = s.restart
  BY <1>5
<1>7. ASSUME NEW k \in Keys PROVE ProgressShape(m[k]) /\ SameProgress(m[k], s.m[k])
  <2>1. PICK p, q : p = s.m[k] /\ q = m[k]
    OBVIOUS
  <2>2. ProgressShape(p)
    BY <2>1 DEF Shape
  <2>3. q = [p EXCEPT !.status = st[k]]
    BY <1>3, <2>1
  <2>4. ProgressShape(q) /\ SameProgress(q, p)
    BY <2>2, <2>3 DEF ProgressShape, SameProgress
  <2> QED BY <2>1, <2>4
<1>8. m = [k \in Keys |-> m[k]]
  BY <1>3
<1> QED BY <1>2, <1>5, <1>6, <1>7, <1>8 DEF Shape, Same, Kept

\* t is s with evidence q for mission k.
Recorded(t, s, k, q) ==
    /\ Shape(t) /\ Kept(t, s) /\ SameProgress(t.m[k], q)
    /\ \A j \in Keys \ {k} : SameProgress(t.m[j], s.m[j])

Put(s, k, q) == [s EXCEPT !.m = [s.m EXCEPT ![k] = q]]
LEMMA WithMission ==
    ASSUME NEW s, Shape(s), NEW k \in Keys, NEW q, ProgressShape(q)
    PROVE  /\ Shape(Put(s, k, q)) /\ Kept(Put(s, k, q), s) /\ Put(s, k, q).m[k] = q
           /\ \A j \in Keys \ {k} : Put(s, k, q).m[j] = s.m[j]
<1>1. PICK t : t = Put(s, k, q)
  OBVIOUS
<1>2. PICK m : m = [s.m EXCEPT ![k] = q]
  OBVIOUS
<1>3. t = [run |-> s.run, life |-> s.life, current |-> s.current, role |-> s.role, route |-> s.route,
           m |-> m, tour |-> s.tour, restart |-> s.restart]
  BY <1>1, <1>2 DEF Shape, Put
<1>4. /\ t.run = s.run /\ t.life = s.life /\ t.current = s.current /\ t.role = s.role /\ t.route = s.route
      /\ t.m = m /\ t.tour = s.tour /\ t.restart = s.restart
  BY <1>3
<1>5. m = [j \in Keys |-> m[j]] /\ m[k] = q /\ \A j \in Keys \ {k} : m[j] = s.m[j]
  BY <1>2 DEF Shape
<1> QED BY <1>1, <1>3, <1>4, <1>5 DEF Shape, Kept

LEMMA Records ==
    ASSUME NEW s, Shape(s), NEW k \in Keys, NEW q, ProgressShape(q)
    PROVE  Recorded(Demo!Normalize(Put(s, k, q)), s, k, q)
<1>1. PICK t, n : t = Put(s, k, q) /\ n = Demo!Normalize(t)
  OBVIOUS
<1>2. /\ Shape(t) /\ Kept(t, s) /\ t.m[k] = q
      /\ \A j \in Keys \ {k} : t.m[j] = s.m[j]
  BY <1>1, WithMission
<1>3. Shape(n) /\ Same(n, t)
  BY <1>1, <1>2, NormalizeKeeps
<1> QED BY <1>1, <1>2, <1>3 DEF Recorded, Same, Kept

\* n is s but for the audit.
OnlyAudit(n, s) == Shape(n) /\ Kept(n, s) /\ \A j \in Keys \ {"audit"} : SameProgress(n.m[j], s.m[j])
LEMMA OnlyAuditJoins ==
    ASSUME NEW s, NEW t, NEW u, OnlyAudit(t, s), OnlyAudit(u, t) PROVE OnlyAudit(u, s)
BY DEF OnlyAudit, Kept, SameProgress
LEMMA RecordedAudit ==
    ASSUME NEW s, NEW n, NEW q, Recorded(n, s, "audit", q) PROVE OnlyAudit(n, s) /\ SameProgress(n.m["audit"], q)
BY DEF Recorded, OnlyAudit

CreatedAs(s, n, P, R) ==
    LET a == s.m["audit"]  b == n.m["audit"] IN
    /\ OnlyAudit(n, s)
    /\ b.packets = a.packets \cup P /\ b.included = a.included \cup R
    /\ b.reviewed = a.reviewed /\ b.flagged = a.flagged
    /\ IF P \subseteq a.packets /\ R \subseteq a.included
       THEN (b.verified <=> a.verified) /\ (b.unlocked <=> a.unlocked) /\ b.outcome = a.outcome
       ELSE ~b.verified /\ ~b.unlocked /\ b.outcome = "none"
LEMMA PacketsAre ==
    ASSUME NEW s, Shape(s), NEW P, NEW R
    PROVE  CreatedAs(s, Demo!PacketsCreated(s, P, R), P, R)
<1>1. PICK n, a, b : n = Demo!PacketsCreated(s, P, R) /\ a = s.m["audit"] /\ b = n.m["audit"]
  OBVIOUS
<1>2. PICK same : same = (P \subseteq a.packets /\ R \subseteq a.included)
  OBVIOUS
<1>3. PICK u, v, o : u = (same /\ a.unlocked) /\ v = (same /\ a.verified) /\ o = IF same THEN a.outcome ELSE "none"
  OBVIOUS
<1>4. PICK q : q = [a EXCEPT !.packets = a.packets \cup P, !.included = a.included \cup R, !.status = "active",
                     !.unlocked = u, !.verified = v, !.outcome = o]
  OBVIOUS
<1>5. ProgressShape(a) /\ "audit" \in Keys
  BY <1>1 DEF Shape, Keys
<1>6. /\ ProgressShape(q)
      /\ q.packets = a.packets \cup P /\ q.included = a.included \cup R /\ q.reviewed = a.reviewed /\ q.flagged = a.flagged
      /\ q.unlocked = u /\ q.verified = v /\ q.outcome = o
  BY <1>4, <1>5 DEF ProgressShape
<1>7. n = Demo!Normalize(Put(s, "audit", q))
  BY Zenon, <1>1, <1>2, <1>3, <1>4 DEF Demo!PacketsCreated, Put
<1>8. OnlyAudit(n, s) /\ SameProgress(b, q)
  BY <1>1, <1>5, <1>6, <1>7, Records, RecordedAudit
<1> QED BY <1>1, <1>2, <1>3, <1>6, <1>8 DEF SameProgress, CreatedAs

UnlockedAs(s, n, P) ==
    LET a == s.m["audit"]  b == n.m["audit"] IN
    /\ OnlyAudit(n, s)
    /\ b.packets = P /\ b.unlocked = TRUE
    /\ b.included = a.included /\ b.reviewed = a.reviewed /\ b.flagged = a.flagged
LEMMA UnlockedIs ==
    ASSUME NEW s, Shape(s), NEW P
    PROVE  UnlockedAs(s, Demo!AuditUnlocked(s, P), P)
<1>1. PICK n, a, b : n = Demo!AuditUnlocked(s, P) /\ a = s.m["audit"] /\ b = n.m["audit"]
  OBVIOUS
<1>2. PICK q : q = [a EXCEPT !.packets = P, !.unlocked = TRUE]
  OBVIOUS
<1>3. ProgressShape(a) /\ "audit" \in Keys
  BY <1>1 DEF Shape, Keys
<1>4. /\ ProgressShape(q) /\ q.packets = P /\ q.unlocked = TRUE
      /\ q.included = a.included /\ q.reviewed = a.reviewed /\ q.flagged = a.flagged
  BY <1>2, <1>3 DEF ProgressShape
<1>5. n = Demo!Normalize(Put(s, "audit", q))
  <2>1. Put(s, "audit", q) = [s EXCEPT !.m["audit"].packets = P, !.m["audit"].unlocked = TRUE]
    BY <1>1, <1>2, <1>3 DEF Put, Shape
  <2> QED BY <1>1, <2>1 DEF Demo!AuditUnlocked
<1>6. OnlyAudit(n, s) /\ SameProgress(b, q)
  BY <1>1, <1>3, <1>4, <1>5, Records, RecordedAudit
<1> QED BY <1>1, <1>4, <1>6 DEF SameProgress, UnlockedAs

VerifiedAs(s, n) ==
    LET a == s.m["audit"]  b == n.m["audit"] IN
    /\ OnlyAudit(n, s)
    /\ b.packets = a.packets /\ b.included = a.included
    /\ b.reviewed = a.reviewed /\ b.flagged = a.flagged
    /\ b.unlocked = a.unlocked /\ b.verified = TRUE /\ b.outcome = "audit-reviewed"
LEMMA VerifiedIs ==
    ASSUME NEW s, Shape(s)
    PROVE  VerifiedAs(s, Demo!IntegrityVerified(s, TRUE))
<1>1. PICK n, a, b : n = Demo!IntegrityVerified(s, TRUE) /\ a = s.m["audit"] /\ b = n.m["audit"]
  OBVIOUS
<1>2. PICK q : q = [a EXCEPT !.verified = TRUE, !.outcome = "audit-reviewed"]
  OBVIOUS
<1>3. ProgressShape(a) /\ "audit" \in Keys
  BY <1>1 DEF Shape, Keys
<1>4. /\ ProgressShape(q) /\ q.packets = a.packets /\ q.unlocked = a.unlocked /\ q.verified = TRUE
      /\ q.outcome = "audit-reviewed"
      /\ q.included = a.included /\ q.reviewed = a.reviewed /\ q.flagged = a.flagged
  BY <1>2, <1>3 DEF ProgressShape
<1>5. n = Demo!Normalize(Put(s, "audit", q))
  <2>1. Put(s, "audit", q) = [s EXCEPT !.m["audit"].verified = TRUE, !.m["audit"].outcome = "audit-reviewed"]
    BY <1>1, <1>2, <1>3 DEF Put, Shape
  <2> QED BY <1>1, <2>1 DEF Demo!IntegrityVerified
<1>6. OnlyAudit(n, s) /\ SameProgress(b, q)
  BY <1>1, <1>3, <1>4, <1>5, Records, RecordedAudit
<1> QED BY <1>1, <1>4, <1>6 DEF SameProgress, VerifiedAs

Said(verdict, v) == {r \in DOMAIN verdict : verdict[r] = v}

ReviewedAs(s, n, P, R, verdict) ==
    LET a == s.m["audit"]  b == n.m["audit"] IN
    /\ OnlyAudit(n, s)
    /\ b.packets = P /\ b.included = a.included \cup R
    /\ b.reviewed = (a.reviewed \cup Said(verdict, "reviewed")) \ Said(verdict, "flagged")
    /\ b.flagged = (a.flagged \cup Said(verdict, "flagged")) \ Said(verdict, "reviewed")
    /\ b.unlocked = TRUE /\ b.verified = TRUE /\ b.outcome = "audit-reviewed"
LEMMA ReviewedIs ==
    ASSUME NEW s, Shape(s), NEW P, NEW R, NEW verdict
    PROVE  ReviewedAs(s, Demo!AuditReviewed(s, P, R, verdict, TRUE), P, R, verdict)
<1>1. PICK n, a, b : n = Demo!AuditReviewed(s, P, R, verdict, TRUE) /\ a = s.m["audit"] /\ b = n.m["audit"]
  OBVIOUS
<1>2. PICK made, open_ : made = Demo!PacketsCreated(s, P, R) /\ open_ = Demo!AuditUnlocked(made, P)
  OBVIOUS
<1>3. /\ OnlyAudit(made, s)
      /\ made.m["audit"].included = a.included \cup R
      /\ made.m["audit"].reviewed = a.reviewed /\ made.m["audit"].flagged = a.flagged
  BY <1>1, <1>2, PacketsAre DEF CreatedAs
<1>4. /\ OnlyAudit(open_, made)
      /\ open_.m["audit"].packets = P /\ open_.m["audit"].unlocked = TRUE
      /\ open_.m["audit"].included = made.m["audit"].included
      /\ open_.m["audit"].reviewed = made.m["audit"].reviewed
      /\ open_.m["audit"].flagged = made.m["audit"].flagged
  <2>1. Shape(made)
    BY <1>3 DEF OnlyAudit
  <2>2. UnlockedAs(made, open_, P)
    BY <1>2, <2>1, UnlockedIs
  <2> QED BY <2>2 DEF UnlockedAs
<1>5. PICK c, q : /\ c = open_.m["audit"]
                  /\ q = [c EXCEPT !.reviewed = (c.reviewed \cup Said(verdict, "reviewed")) \ Said(verdict, "flagged"),
                                   !.flagged = (c.flagged \cup Said(verdict, "flagged")) \ Said(verdict, "reviewed")]
  BY Zenon
<1>6. ProgressShape(c) /\ "audit" \in Keys
  BY <1>4, <1>5 DEF OnlyAudit, Shape, Keys
<1>7. /\ ProgressShape(q) /\ q.packets = c.packets /\ q.included = c.included /\ q.unlocked = c.unlocked
      /\ q.reviewed = (c.reviewed \cup Said(verdict, "reviewed")) \ Said(verdict, "flagged")
      /\ q.flagged = (c.flagged \cup Said(verdict, "flagged")) \ Said(verdict, "reviewed")
  BY <1>5, <1>6 DEF ProgressShape
<1>8. PICK judged_ : judged_ = Demo!Normalize(Put(open_, "audit", q))
  OBVIOUS
<1>9. OnlyAudit(judged_, open_) /\ SameProgress(judged_.m["audit"], q)
  <2>1. Shape(open_)
    BY <1>4 DEF OnlyAudit
  <2> QED BY <1>6, <1>7, <1>8, <2>1, Records, RecordedAudit
<1>10. n = Demo!IntegrityVerified(judged_, TRUE)
  <2>1. Put(open_, "audit", q)
          = [open_ EXCEPT
               !.m["audit"].reviewed = (c.reviewed \cup Said(verdict, "reviewed")) \ Said(verdict, "flagged"),
               !.m["audit"].flagged = (c.flagged \cup Said(verdict, "flagged")) \ Said(verdict, "reviewed")]
    BY <1>4, <1>5, <1>6 DEF OnlyAudit, Put, Shape
  <2> QED BY <1>1, <1>2, <1>5, <1>8, <2>1 DEF Demo!AuditReviewed, Said
<1>11. /\ OnlyAudit(n, judged_)
       /\ b.packets = judged_.m["audit"].packets /\ b.included = judged_.m["audit"].included
       /\ b.reviewed = judged_.m["audit"].reviewed /\ b.flagged = judged_.m["audit"].flagged
       /\ b.unlocked = judged_.m["audit"].unlocked /\ b.verified = TRUE /\ b.outcome = "audit-reviewed"
  <2>1. Shape(judged_)
    BY <1>9 DEF OnlyAudit
  <2> QED BY <1>1, <1>10, <2>1, VerifiedIs DEF VerifiedAs
<1>12. OnlyAudit(n, s)
  BY <1>3, <1>4, <1>9, <1>11, OnlyAuditJoins
<1>13. b.included = a.included \cup R
  BY <1>3, <1>4, <1>5, <1>7, <1>9, <1>11 DEF SameProgress
<1>14. b.packets = P
  BY <1>4, <1>5, <1>7, <1>9, <1>11 DEF SameProgress
<1>15. b.unlocked = TRUE
  BY <1>4, <1>5, <1>7, <1>9, <1>11 DEF SameProgress
<1>16. b.reviewed = (a.reviewed \cup Said(verdict, "reviewed")) \ Said(verdict, "flagged")
  BY <1>3, <1>4, <1>5, <1>7, <1>9, <1>11 DEF SameProgress
<1>17. b.flagged = (a.flagged \cup Said(verdict, "flagged")) \ Said(verdict, "reviewed")
  BY <1>3, <1>4, <1>5, <1>7, <1>9, <1>11 DEF SameProgress
<1> QED BY <1>1, <1>11, <1>12, <1>13, <1>14, <1>15, <1>16, <1>17 DEF ReviewedAs

\* n is s but for mission k.
OnlyMission(n, s, k) == Shape(n) /\ Kept(n, s) /\ \A j \in Keys \ {k} : SameProgress(n.m[j], s.m[j])
LEMMA OnlyMissionJoins ==
    ASSUME NEW s, NEW t, NEW u, NEW k, OnlyMission(t, s, k), OnlyMission(u, t, k) PROVE OnlyMission(u, s, k)
BY DEF OnlyMission, Kept, SameProgress
LEMMA RecordedMission ==
    ASSUME NEW s, NEW n, NEW k, NEW q, Recorded(n, s, k, q) PROVE OnlyMission(n, s, k) /\ SameProgress(n.m[k], q)
BY DEF Recorded, OnlyMission

ExecutedAs(s, n, id) ==
    \/ n = s
    \/ /\ s.m["routine"].request \in {0, id} /\ OnlyMission(n, s, "routine")
       /\ n.m["routine"].request = id /\ n.m["routine"].outcome = "executed"
LEMMA ExecutedIs ==
    ASSUME NEW s, Shape(s), NEW id PROVE ExecutedAs(s, Demo!RoutineExecuted(s, id), id)
<1>1. PICK n, a, b : n = Demo!RoutineExecuted(s, id) /\ a = s.m["routine"] /\ b = n.m["routine"]
  OBVIOUS
<1>2. PICK q : q = [a EXCEPT !.request = id, !.outcome = "executed"]
  OBVIOUS
<1>3. ProgressShape(a) /\ "routine" \in Keys
  BY <1>1 DEF Shape, Keys
<1>4. ProgressShape(q) /\ q.request = id /\ q.outcome = "executed"
  BY <1>2, <1>3 DEF ProgressShape
<1>5. n = s \/ (a.request \in {0, id} /\ n = Demo!Normalize(Put(s, "routine", q)))
  <2>1. Put(s, "routine", q) = [s EXCEPT !.m["routine"].request = id, !.m["routine"].outcome = "executed"]
    BY <1>1, <1>2, <1>3 DEF Put, Shape
  <2> QED BY <1>1, <2>1 DEF Demo!RoutineExecuted, Demo!MayRecord
<1>6. n = s \/ (a.request \in {0, id} /\ OnlyMission(n, s, "routine") /\ SameProgress(b, q))
  BY <1>1, <1>3, <1>4, <1>5, Records, RecordedMission
<1> QED BY <1>1, <1>4, <1>6 DEF SameProgress, ExecutedAs

ConfirmedAs(s, n, id, decision) ==
    \/ n = s
    \/ /\ s.m["approval"].request \in {0, id} /\ OnlyMission(n, s, "approval")
       /\ n.m["approval"].request = id /\ n.m["approval"].decision = decision /\ n.m["approval"].confirmed = TRUE
       /\ n.m["approval"].outcome = s.m["approval"].outcome
LEMMA ConfirmedIs ==
    ASSUME NEW s, Shape(s), NEW id, NEW decision PROVE ConfirmedAs(s, Demo!DecisionConfirmed(s, id, decision), id, decision)
<1>1. PICK n, a, b : n = Demo!DecisionConfirmed(s, id, decision) /\ a = s.m["approval"] /\ b = n.m["approval"]
  OBVIOUS
<1>2. PICK q : q = [a EXCEPT !.request = id, !.decision = decision, !.confirmed = TRUE, !.status = "active"]
  OBVIOUS
<1>3. ProgressShape(a) /\ "approval" \in Keys
  BY <1>1 DEF Shape, Keys
<1>4. ProgressShape(q) /\ q.request = id /\ q.decision = decision /\ q.confirmed = TRUE /\ q.outcome = a.outcome
  BY <1>2, <1>3 DEF ProgressShape
<1>5. n = s \/ (a.request \in {0, id} /\ n = Demo!Normalize(Put(s, "approval", q)))
  BY <1>1, <1>2 DEF Demo!DecisionConfirmed, Demo!MayRecord, Put
<1>6. n = s \/ (a.request \in {0, id} /\ OnlyMission(n, s, "approval") /\ SameProgress(b, q))
  BY <1>1, <1>3, <1>4, <1>5, Records, RecordedMission
<1> QED BY <1>1, <1>4, <1>6 DEF SameProgress, ConfirmedAs

SettledAs(s, n, id, decision) ==
    \/ /\ n = s
       /\ s.m["approval"].request # id \/ ~s.m["approval"].confirmed \/ s.m["approval"].decision # decision
    \/ /\ OnlyMission(n, s, "approval")
       /\ s.m["approval"].request = id /\ s.m["approval"].confirmed /\ s.m["approval"].decision = decision
       /\ n.m["approval"].request = id /\ n.m["approval"].decision = decision
       /\ n.m["approval"].confirmed = s.m["approval"].confirmed
       /\ n.m["approval"].outcome = IF decision = "approve" THEN "safe-approved" ELSE "safe-rejected"
LEMMA SettledIs ==
    ASSUME NEW s, Shape(s), NEW id, NEW decision PROVE SettledAs(s, Demo!ApprovalSettled(s, id, decision), id, decision)
<1>1. PICK n, a, b, o : /\ n = Demo!ApprovalSettled(s, id, decision) /\ a = s.m["approval"] /\ b = n.m["approval"]
                        /\ o = IF decision = "approve" THEN "safe-approved" ELSE "safe-rejected"
  OBVIOUS
<1>2. PICK q : q = [a EXCEPT !.outcome = o]
  OBVIOUS
<1>3. ProgressShape(a) /\ "approval" \in Keys
  BY <1>1 DEF Shape, Keys
<1>4. ProgressShape(q) /\ q.request = a.request /\ q.decision = a.decision /\ q.confirmed = a.confirmed /\ q.outcome = o
  BY <1>2, <1>3 DEF ProgressShape
<1>5. \/ n = s /\ (a.request # id \/ ~a.confirmed \/ a.decision # decision)
      \/ a.request = id /\ a.confirmed /\ a.decision = decision /\ n = Demo!Normalize(Put(s, "approval", q))
  BY <1>1, <1>2 DEF Demo!ApprovalSettled, Put
<1>6. ASSUME n = Demo!Normalize(Put(s, "approval", q)) PROVE OnlyMission(n, s, "approval") /\ SameProgress(b, q)
  BY <1>1, <1>3, <1>4, <1>6, Records, RecordedMission
<1> QED BY <1>1, <1>4, <1>5, <1>6 DEF SameProgress, SettledAs

BlockedAs(s, n, id) ==
    \/ n = s
    \/ /\ s.m["violation"].request \in {0, id} /\ OnlyMission(n, s, "violation")
       /\ n.m["violation"].request = id /\ n.m["violation"].outcome = "blocked"
       /\ n.m["violation"].reason = s.m["violation"].reason
LEMMA BlockedIs ==
    ASSUME NEW s, Shape(s), NEW id PROVE BlockedAs(s, Demo!ViolationBlocked(s, id), id)
<1>1. PICK n, a, b : n = Demo!ViolationBlocked(s, id) /\ a = s.m["violation"] /\ b = n.m["violation"]
  OBVIOUS
<1>2. PICK q : q = [a EXCEPT !.request = id, !.outcome = "blocked"]
  OBVIOUS
<1>3. ProgressShape(a) /\ "violation" \in Keys
  BY <1>1 DEF Shape, Keys
<1>4. ProgressShape(q) /\ q.request = id /\ q.outcome = "blocked" /\ q.reason = a.reason
  BY <1>2, <1>3 DEF ProgressShape
<1>5. n = s \/ (a.request \in {0, id} /\ n = Demo!Normalize(Put(s, "violation", q)))
  <2>1. Put(s, "violation", q) = [s EXCEPT !.m["violation"].request = id, !.m["violation"].outcome = "blocked"]
    BY <1>1, <1>2, <1>3 DEF Put, Shape
  <2> QED BY <1>1, <2>1 DEF Demo!ViolationBlocked, Demo!MayRecord
<1>6. n = s \/ (a.request \in {0, id} /\ OnlyMission(n, s, "violation") /\ SameProgress(b, q))
  BY <1>1, <1>3, <1>4, <1>5, Records, RecordedMission
<1> QED BY <1>1, <1>4, <1>6 DEF SameProgress, BlockedAs

DecryptedAs(s, n, id) ==
    \/ n = s
    \/ /\ s.m["violation"].request \in {0, id} /\ OnlyMission(n, s, "violation")
       /\ n.m["violation"].request = id /\ n.m["violation"].reason = TRUE
       /\ n.m["violation"].outcome = s.m["violation"].outcome
LEMMA DecryptedIs ==
    ASSUME NEW s, Shape(s), NEW id PROVE DecryptedAs(s, Demo!ReasonDecrypted(s, id), id)
<1>1. PICK n, a, b : n = Demo!ReasonDecrypted(s, id) /\ a = s.m["violation"] /\ b = n.m["violation"]
  OBVIOUS
<1>2. PICK q : q = [a EXCEPT !.request = id, !.reason = TRUE]
  OBVIOUS
<1>3. ProgressShape(a) /\ "violation" \in Keys
  BY <1>1 DEF Shape, Keys
<1>4. ProgressShape(q) /\ q.request = id /\ q.outcome = a.outcome /\ q.reason = TRUE
  BY <1>2, <1>3 DEF ProgressShape
<1>5. n = s \/ (a.request \in {0, id} /\ n = Demo!Normalize(Put(s, "violation", q)))
  <2>1. Put(s, "violation", q) = [s EXCEPT !.m["violation"].request = id, !.m["violation"].reason = TRUE]
    BY <1>1, <1>2, <1>3 DEF Put, Shape
  <2> QED BY <1>1, <2>1 DEF Demo!ReasonDecrypted, Demo!MayRecord
<1>6. n = s \/ (a.request \in {0, id} /\ OnlyMission(n, s, "violation") /\ SameProgress(b, q))
  BY <1>1, <1>3, <1>4, <1>5, Records, RecordedMission
<1> QED BY <1>1, <1>4, <1>6 DEF SameProgress, DecryptedAs

BoundAs(s, n, k, id, replace) ==
    \/ n = s
    \/ /\ OnlyMission(n, s, k) /\ ~Demo!Complete(s, k)
       /\ s.m[k].request = 0 \/ (s.m[k].request # id /\ replace)
       /\ n.m[k].request = id
LEMMA BoundIs ==
    ASSUME NEW s, Shape(s), NEW k \in Keys, NEW id, NEW replace
    PROVE  BoundAs(s, Demo!BindRequest(s, k, id, replace), k, id, replace)
<1>1. PICK n, a, b : n = Demo!BindRequest(s, k, id, replace) /\ a = s.m[k] /\ b = n.m[k]
  OBVIOUS
<1>2. PICK q : q = [a EXCEPT !.request = id, !.status = "active", !.outcome = "none",
                    !.decision = "none", !.confirmed = FALSE, !.reason = FALSE, !.compat = FALSE]
  OBVIOUS
<1>3. ProgressShape(a)
  BY <1>1 DEF Shape
<1>4. ProgressShape(q) /\ q.request = id
  BY <1>2, <1>3 DEF ProgressShape
<1>5. \/ n = s
      \/ /\ n = Demo!Normalize(Put(s, k, q)) /\ ~Demo!Complete(s, k)
         /\ a.request = 0 \/ (a.request # id /\ replace)
  BY <1>1, <1>2 DEF Demo!BindRequest, Put
<1>6. ASSUME n = Demo!Normalize(Put(s, k, q)) PROVE OnlyMission(n, s, k) /\ SameProgress(b, q)
  BY <1>1, <1>3, <1>4, <1>6, Records, RecordedMission
<1> QED BY <1>1, <1>4, <1>5, <1>6 DEF SameProgress, BoundAs

\* A new session.
FreshAs(run, n) ==
    /\ Shape(n) /\ n.run = run /\ n.role = "delegate" /\ n.route = Demo!Inbox
    /\ n.tour = [active |-> TRUE, step |-> 0, paused |-> FALSE, route |-> Demo!NoRoute, role |-> "none"]
    /\ \A k \in Keys : /\ n.m[k].request = 0 /\ n.m[k].packets = {} /\ n.m[k].included = {}
                       /\ n.m[k].reviewed = {} /\ n.m[k].flagged = {} /\ n.m[k].verified = FALSE
LEMMA CreatedIs ==
    ASSUME NEW run PROVE FreshAs(run, Demo!CreateSession(run, TRUE))
<1>1. PICK m, tour, restart :
        /\ m = [k \in Keys |-> Demo!EmptyProgress(IF k = "routine" THEN "ready" ELSE "locked")]
        /\ tour = [active |-> TRUE, step |-> 0, paused |-> FALSE, route |-> Demo!NoRoute, role |-> "none"]
        /\ restart = [status |-> "idle", request |-> 0]
  OBVIOUS
<1>2. PICK n : n = [run |-> run, life |-> "active", current |-> "routine", role |-> "delegate", route |-> Demo!Inbox,
                    m |-> m, tour |-> tour, restart |-> restart]
  OBVIOUS
<1>3. n = Demo!CreateSession(run, TRUE)
  BY <1>1, <1>2 DEF Demo!CreateSession, Demo!MissionKeys, Demo!PaymentMissions, Keys
<1>4. n.run = run /\ n.role = "delegate" /\ n.route = Demo!Inbox /\ n.m = m /\ n.tour = tour /\ n.restart = restart
      /\ n.life = "active" /\ n.current = "routine"
  BY <1>2
<1>5. ASSUME NEW k \in Keys
      PROVE  /\ ProgressShape(m[k]) /\ m[k].request = 0 /\ m[k].packets = {} /\ m[k].included = {}
             /\ m[k].reviewed = {} /\ m[k].flagged = {} /\ m[k].verified = FALSE
  <2>1. PICK st, p : p = Demo!EmptyProgress(st) /\ p = m[k]
    BY <1>1
  <2>2. /\ ProgressShape(p) /\ p.request = 0 /\ p.packets = {} /\ p.included = {}
        /\ p.reviewed = {} /\ p.flagged = {} /\ p.verified = FALSE
    BY <2>1 DEF Demo!EmptyProgress, ProgressShape
  <2> QED BY <2>1, <2>2
<1>6. m = [k \in Keys |-> m[k]]
  BY <1>1
<1>7. Shape(n)
  BY <1>2, <1>4, <1>5, <1>6 DEF Shape
<1>8. FreshAs(run, n)
  BY <1>1, <1>4, <1>5, <1>7 DEF FreshAs
<1> QED BY Zenon, <1>3, <1>8

-----------------------------------------------------------------------------
(***************************************************************************)
(* The auditor's page, in each of its cases.                               *)
(***************************************************************************)

Bundles(c) == Review(c)!Packets
Judgeable(c) == Review(c)!AllRequests
Verdicts == {"none", "reviewed", "flagged"}
\* A session whose audit is earned by the packets O that were opened and the requests J that were judged.
Earned(c, s, O, J) ==
    LET a == s.m["audit"] IN
    /\ Shape(s)
    /\ a.packets \subseteq Review(c)!RunPackets
    /\ a.included = UNION {reviewAt[c].Contents[p] : p \in a.packets}
    /\ a.verified => a.packets \subseteq O /\ a.included \subseteq J
    /\ a.reviewed \cup a.flagged \subseteq J \cap Review(c)!RunRequests
ReviewTypes(c) ==
    /\ packets \subseteq Bundles(c) /\ listed \subseteq packets /\ selected \in Bundles(c) \cup {0}
    /\ decrypted \in [Bundles(c) -> 0..reviewAt[c].Handles] /\ unlocking \in Bundles(c) \cup {0}
    /\ unlocking # 0 => decrypted[unlocking] < reviewAt[c].Handles
    /\ fresh \in BOOLEAN /\ reviewFaults \in 0..reviewAt[c].MaxFaults
    /\ reviews \in [Judgeable(c) -> Verdicts] /\ stored \in [Bundles(c) -> [Judgeable(c) -> Verdicts]]
\* What is on display, once loaded, is what is stored.
Displayed(c) == open /\ fresh => \A p \in Review(c)!Shown : reviews = stored[p]
Noted(c) ==
    /\ \A p \in Bundles(c) : decrypted[p] = reviewAt[c].Handles => p \in opened
    /\ \A r \in Judgeable(c) : reviews[r] # "none" => r \in judged
    /\ \A p \in Bundles(c) : \A r \in Judgeable(c) :
          stored[p][r] # "none" => r \in judged /\ r \in reviewAt[c].Contents[p]
ReviewInv(c) == ReviewTypes(c) /\ Displayed(c) /\ Noted(c) /\ Earned(c, session, opened, judged)

LEMMA ReviewConst ==
    ASSUME NEW c \in Reviews
    PROVE  /\ Bundles(c) \subseteq Nat \ {0}
           /\ \A p \in Review(c)!RunPackets : p \in Bundles(c) /\ reviewAt[c].Contents[p] \subseteq Review(c)!RunRequests
           /\ reviewAt[c].Handles \in Nat \ {0} /\ reviewAt[c].MaxFaults \in Nat
BY BrowserConstants DEF Review!ReviewAssumption, Bundles, Review!RunPackets

LEMMA NormalBridge == ASSUME NEW c, NEW s PROVE Review(c)!Normalize(s) = Demo!Normalize(s)
<1>1. ASSUME NEW t, NEW k PROVE Review(c)!Complete(t, k) = Demo!Complete(t, k)
  BY DEF Review!Complete, Demo!Complete, Review!AuditCoverage, Demo!AuditCoverage, Review!RequestIds, Demo!RequestIds,
     Review!PaymentMissions, Demo!PaymentMissions
<1>2. Review(c)!MissionOrder = Demo!MissionOrder /\ Review(c)!MissionKeys = Demo!MissionKeys
  BY DEF Review!MissionOrder, Demo!MissionOrder, Review!MissionKeys, Demo!MissionKeys, Review!PaymentMissions, Demo!PaymentMissions
<1>3. ASSUME NEW t PROVE Review(c)!Unfinished(t) = Demo!Unfinished(t)
  BY <1>1, <1>2 DEF Review!Unfinished, Demo!Unfinished
<1>4. ASSUME NEW t, NEW i PROVE Review(c)!StatusOf(t, i) = Demo!StatusOf(t, i)
  BY <1>1, <1>2 DEF Review!StatusOf, Demo!StatusOf
<1>5. ASSUME NEW t PROVE Review(c)!LifeOf(t) = Demo!LifeOf(t)
  BY <1>3 DEF Review!LifeOf, Demo!LifeOf
<1>6. ASSUME NEW t PROVE Review(c)!CurrentOf(t) = Demo!CurrentOf(t)
  <2>1. ASSUME NEW S PROVE Review(c)!Earliest(S) = Demo!Earliest(S)
    BY DEF Review!Earliest, Demo!Earliest
  <2> QED BY <1>2, <1>3, <2>1 DEF Review!CurrentOf, Demo!CurrentOf
<1>7. ASSUME NEW k PROVE Review(c)!Ordinal(k) = Demo!Ordinal(k)
  BY <1>2 DEF Review!Ordinal, Demo!Ordinal
<1>8. ASSUME NEW t PROVE Review(c)!Normalize(t) = Demo!Normalize(t)
  BY Zenon, <1>2, <1>4, <1>5, <1>6, <1>7 DEF Review!Normalize, Demo!Normalize
<1> QED BY <1>8

LEMMA ReviewBridge ==
    ASSUME NEW c, NEW s, NEW P, NEW R, NEW verdict
    PROVE  /\ Review(c)!PacketsCreated(s, P, R) = Demo!PacketsCreated(s, P, R)
           /\ Review(c)!AuditReviewed(s, P, R, verdict, TRUE) = Demo!AuditReviewed(s, P, R, verdict, TRUE)
<1>1. ASSUME NEW t PROVE Review(c)!Normalize(t) = Demo!Normalize(t)
  BY NormalBridge
<1>2. ASSUME NEW t PROVE Review(c)!PacketsCreated(t, P, R) = Demo!PacketsCreated(t, P, R)
  BY <1>1 DEF Review!PacketsCreated, Demo!PacketsCreated
<1>3. ASSUME NEW t PROVE Review(c)!AuditUnlocked(t, P) = Demo!AuditUnlocked(t, P)
  BY <1>1 DEF Review!AuditUnlocked, Demo!AuditUnlocked
<1>4. ASSUME NEW t PROVE Review(c)!IntegrityVerified(t, TRUE) = Demo!IntegrityVerified(t, TRUE)
  BY <1>1 DEF Review!IntegrityVerified, Demo!IntegrityVerified
<1>5. Review(c)!AuditReviewed(s, P, R, verdict, TRUE) = Demo!AuditReviewed(s, P, R, verdict, TRUE)
  BY Zenon, <1>1, <1>2, <1>3, <1>4 DEF Review!AuditReviewed, Demo!AuditReviewed
<1> QED BY Zenon, <1>2, <1>5

\* A packet is recorded in the session.
LEMMA EarnedRecord ==
    ASSUME NEW c \in Reviews, NEW s, NEW O, NEW J, Earned(c, s, O, J), NEW p \in Review(c)!RunPackets, p \notin s.m["audit"].packets
    PROVE  Earned(c, Review(c)!PacketsCreated(s, {p}, reviewAt[c].Contents[p]), O, J)
<1>1. PICK n, a, b, C : n = Demo!PacketsCreated(s, {p}, C) /\ a = s.m["audit"] /\ b = n.m["audit"] /\ C = reviewAt[c].Contents[p]
  OBVIOUS
<1>2. CreatedAs(s, n, {p}, C)
  BY <1>1, PacketsAre DEF Earned
<1>3. /\ Shape(n) /\ b.packets = a.packets \cup {p} /\ b.included = a.included \cup C
      /\ b.reviewed = a.reviewed /\ b.flagged = a.flagged /\ ~b.verified
  BY Zenon, <1>1, <1>2 DEF CreatedAs, OnlyAudit
<1>4. /\ a.packets \subseteq Review(c)!RunPackets
      /\ a.included = UNION {reviewAt[c].Contents[q] : q \in a.packets}
      /\ a.reviewed \cup a.flagged \subseteq J \cap Review(c)!RunRequests
  BY <1>1 DEF Earned
<1>5. b.included = UNION {reviewAt[c].Contents[q] : q \in b.packets}
  <2>1. ASSUME NEW r PROVE r \in b.included <=> \E q \in b.packets : r \in reviewAt[c].Contents[q]
    <3>1. r \in a.included <=> \E q \in a.packets : r \in reviewAt[c].Contents[q]
      BY <1>4
    <3>2. r \in b.included <=> r \in a.included \/ r \in reviewAt[c].Contents[p]
      BY <1>1, <1>3
    <3>3. b.packets = a.packets \cup {p}
      BY <1>3
    <3> QED BY <3>1, <3>2, <3>3
  <2> QED BY <2>1
<1>6. Earned(c, n, O, J)
  BY Zenon, <1>1, <1>3, <1>4, <1>5 DEF Earned
<1> QED BY <1>1, <1>6, ReviewBridge

\* What holds of a bundle that is ready.
LEMMA ReadyIs ==
    ASSUME NEW c \in Reviews, NEW s, NEW O, NEW J, Earned(c, s, O, J), NEW list, NEW shows, NEW vals, NEW revs,
           Review(c)!GateReady(s, list, shows, vals, revs),
           shows \subseteq Bundles(c),
           \A p \in Bundles(c) : vals[p] = reviewAt[c].Handles => p \in O,
           \A r \in Judgeable(c) : revs[r] # "none" => r \in J,
           \A p \in Bundles(c) : \A r \in Judgeable(c) : stored[p][r] # "none" => r \in J
    PROVE  /\ Review(c)!Bundle(s, list, shows) = s.m["audit"].packets
           /\ s.m["audit"].packets \subseteq O /\ s.m["audit"].included \subseteq J
<1>1. PICK B : B = s.m["audit"].packets
  OBVIOUS
<1>2. Review(c)!Bundle(s, list, shows) = B
  BY <1>1 DEF Review!GateReady, Review!Bundle
<1>3. \A p \in B : Review(c)!Ready(p, vals, Review(c)!Verdicts(p, shows, revs))
  BY <1>2 DEF Review!GateReady
<1>4. B \subseteq Bundles(c)
  BY <1>1, ReviewConst DEF Earned
<1>5. ASSUME NEW p \in B PROVE p \in O /\ reviewAt[c].Contents[p] \subseteq J
  <2>1. vals[p] = reviewAt[c].Handles /\ \A r \in reviewAt[c].Contents[p] : Review(c)!Verdicts(p, shows, revs)[r] # "none"
    BY <1>3, <1>5 DEF Review!Ready
  <2>2. reviewAt[c].Contents[p] \subseteq Judgeable(c)
    BY <1>4, <1>5 DEF Judgeable, Bundles, Review!AllRequests
  <2>3. ASSUME NEW r \in reviewAt[c].Contents[p] PROVE r \in J
    BY <1>4, <1>5, <2>1, <2>2, <2>3 DEF Review!Verdicts
  <2> QED BY <1>4, <1>5, <2>1, <2>3
<1> QED BY <1>1, <1>2, <1>5 DEF Earned

\* The completion effect.
LEMMA EffectKeeps ==
    ASSUME NEW c \in Reviews, NEW s, NEW O, NEW J, Earned(c, s, O, J), NEW list, NEW sel, NEW vals, NEW revs, NEW done,
           Review(c)!Effect(s, list, sel, vals, revs, done),
           list \subseteq Bundles(c),
           \A p \in Bundles(c) : vals[p] = reviewAt[c].Handles => p \in O,
           \A r \in Judgeable(c) : revs[r] # "none" => r \in J,
           \A p \in Bundles(c) : \A r \in Judgeable(c) : stored[p][r] # "none" => r \in J
    PROVE  /\ Earned(c, session', O, J)
           /\ listed' = list /\ selected' = sel /\ decrypted' = vals /\ reviews' = revs
<1>1. PICK shows, bundle : shows = Review(c)!ShownFor(sel, list) /\ bundle = Review(c)!Bundle(s, list, shows)
  OBVIOUS
<1>2. shows \subseteq Bundles(c)
  BY <1>1 DEF Review!ShownFor
<1>3. listed' = list /\ selected' = sel /\ decrypted' = vals /\ reviews' = revs
  BY DEF Review!Effect
<1>4. CASE ~Review(c)!GateReady(s, list, shows, vals, revs)
  <2>1. session' = s
    BY <1>1, <1>4 DEF Review!Effect
  <2> QED BY <1>3, <2>1
<1>5. CASE Review(c)!GateReady(s, list, shows, vals, revs)
  <2>1. bundle = s.m["audit"].packets /\ s.m["audit"].packets \subseteq O /\ s.m["audit"].included \subseteq J
    BY <1>1, <1>2, <1>5, ReadyIs
  <2>2. PICK scope, verdict :
            /\ scope = (UNION {reviewAt[c].Contents[p] : p \in bundle}) \cap Review(c)!RequestIds(s)
            /\ verdict = Review(c)!Judgement(bundle, shows, revs)
    OBVIOUS
  <2>3. session' = s \/ session' = Demo!AuditReviewed(s, bundle, scope, verdict, TRUE)
    <3>1. session' = s \/ session' = Review(c)!AuditReviewed(s, bundle, scope, verdict, TRUE)
      BY <1>1, <2>2 DEF Review!Effect
    <3> QED BY <3>1, ReviewBridge
  <2>4. CASE session' = Demo!AuditReviewed(s, bundle, scope, verdict, TRUE)
    <3>1. PICK n, a, b : n = Demo!AuditReviewed(s, bundle, scope, verdict, TRUE) /\ a = s.m["audit"] /\ b = n.m["audit"]
      OBVIOUS
    <3>2. ReviewedAs(s, n, bundle, scope, verdict)
      BY <3>1, ReviewedIs DEF Earned
    <3>3. /\ Shape(n) /\ b.packets = bundle /\ b.included = a.included \cup scope
          /\ b.reviewed = (a.reviewed \cup Said(verdict, "reviewed")) \ Said(verdict, "flagged")
          /\ b.flagged = (a.flagged \cup Said(verdict, "flagged")) \ Said(verdict, "reviewed")
      BY <3>1, <3>2 DEF ReviewedAs, OnlyAudit
    <3>4. /\ a.packets \subseteq Review(c)!RunPackets
          /\ a.included = UNION {reviewAt[c].Contents[q] : q \in a.packets}
          /\ a.reviewed \cup a.flagged \subseteq J \cap Review(c)!RunRequests
      BY <3>1 DEF Earned
    <3>5. bundle = a.packets /\ scope \subseteq a.included /\ a.packets \subseteq O /\ a.included \subseteq J
      BY <2>1, <2>2, <3>1, <3>4
    <3>6. a.included \subseteq Review(c)!RunRequests
      BY <3>4, ReviewConst
    <3>7. DOMAIN verdict = a.included
      BY <2>2, <3>4, <3>5 DEF Review!Judgement
    <3>8. b.reviewed \cup b.flagged \subseteq J \cap Review(c)!RunRequests
      BY <3>3, <3>4, <3>5, <3>6, <3>7 DEF Said
    <3>9. b.included = a.included
      BY <3>3, <3>5
    <3>10. Earned(c, n, O, J)
      BY Zenon, <3>1, <3>3, <3>4, <3>5, <3>8, <3>9 DEF Earned
    <3> QED BY <1>3, <2>4, <3>1, <3>10
  <2> QED BY <1>3, <2>3, <2>4
<1> QED BY <1>4, <1>5

LEMMA EarnedGrows ==
    ASSUME NEW c, NEW s, NEW O, NEW J, NEW O2, NEW J2, Earned(c, s, O, J), O \subseteq O2, J \subseteq J2
    PROVE  Earned(c, s, O2, J2)
BY DEF Earned

\* One packet is on display.
LEMMA OneShown ==
    ASSUME NEW c \in Reviews, NEW sel, NEW list \in SUBSET Bundles(c),
           NEW p \in Review(c)!ShownFor(sel, list), NEW q \in Review(c)!ShownFor(sel, list)
    PROVE  p = q
<1>1. p \in Nat /\ q \in Nat
  BY ReviewConst DEF Review!ShownFor
<1>2. sel # 0 => p = sel /\ q = sel
  BY DEF Review!ShownFor
<1>3. sel = 0 => p <= q /\ q <= p
  BY DEF Review!ShownFor
<1> QED BY <1>1, <1>2, <1>3

LEMMA ReviewFacts ==
    ASSUME NEW c \in Reviews, ReviewInv(c)
    PROVE  /\ ReviewTypes(c) /\ Displayed(c) /\ Noted(c) /\ Earned(c, session, opened, judged)
           /\ listed \subseteq Bundles(c)
           /\ \A p \in Bundles(c) : \A r \in Judgeable(c) : stored[p][r] # "none" => r \in judged
BY DEF ReviewInv, ReviewTypes, Noted

\* A step that shows something else of the same packets, or fails.
LEMMA ReviewGrant == ASSUME NEW c \in Reviews, ReviewInv(c), NEW p \in Bundles(c), Review(c)!Grant(p) PROVE ReviewInv(c)'
<1>1. /\ packets' = packets \cup {p}
      /\ UNCHANGED <<session, open, listed, selected, decrypted, unlocking, reviews, fresh, stored, opened, judged, reviewFaults>>
  BY DEF Review!Grant, Review!ghosts
<1>2. ReviewTypes(c)'
  BY <1>1, ReviewFacts DEF ReviewTypes
<1>3. Displayed(c)' /\ Noted(c)'
  BY <1>1, ReviewFacts DEF Displayed, Noted, Review!Shown
<1>4. Earned(c, session, opened, judged)'
  BY <1>1, ReviewFacts DEF Earned
<1> QED BY <1>2, <1>3, <1>4 DEF ReviewInv

LEMMA ReviewRecord == ASSUME NEW c \in Reviews, ReviewInv(c), NEW p \in Review(c)!RunPackets, Review(c)!Record(p) PROVE ReviewInv(c)'
<1>1. PICK s, done : /\ s = Review(c)!PacketsCreated(session, {p}, reviewAt[c].Contents[p])
                     /\ p \notin session.m["audit"].packets
                     /\ Review(c)!Effect(s, listed, selected, decrypted, reviews, done)
  BY DEF Review!Record
<1>2. UNCHANGED <<packets, open, unlocking, fresh, stored, opened, judged, reviewFaults>>
  BY DEF Review!Record, Review!Unchanged, Review!ghosts
<1>3. Earned(c, s, opened, judged)
  BY <1>1, ReviewFacts, EarnedRecord
<1>4. /\ Earned(c, session', opened, judged)
      /\ listed' = listed /\ selected' = selected /\ decrypted' = decrypted /\ reviews' = reviews
  <2>1. /\ listed \subseteq Bundles(c)
        /\ \A q \in Bundles(c) : decrypted[q] = reviewAt[c].Handles => q \in opened
        /\ \A r \in Judgeable(c) : reviews[r] # "none" => r \in judged
        /\ \A q \in Bundles(c) : \A r \in Judgeable(c) : stored[q][r] # "none" => r \in judged
    BY ReviewFacts DEF Noted
  <2> QED BY <1>1, <1>3, <2>1, EffectKeeps
<1>5. ReviewTypes(c)'
  BY <1>2, <1>4, ReviewFacts DEF ReviewTypes
<1>6. Displayed(c)' /\ Noted(c)'
  BY <1>2, <1>4, ReviewFacts DEF Displayed, Noted, Review!Shown
<1>7. Earned(c, session, opened, judged)'
  BY <1>2, <1>4
<1> QED BY <1>5, <1>6, <1>7 DEF ReviewInv

\* A frame with the session as it is.
LEMMA ReviewFrame ==
    ASSUME NEW c \in Reviews, ReviewInv(c), opened \subseteq opened', judged \subseteq judged',
           NEW list \in SUBSET Bundles(c), NEW sel, NEW vals, NEW revs, NEW done,
           Review(c)!Effect(session, list, sel, vals, revs, done),
           \A p \in Bundles(c) : vals[p] = reviewAt[c].Handles => p \in opened',
           \A r \in Judgeable(c) : revs[r] # "none" => r \in judged'
    PROVE  /\ Earned(c, session, opened, judged)'
           /\ listed' = list /\ selected' = sel /\ decrypted' = vals /\ reviews' = revs
<1>1. PICK O, J : O = opened' /\ J = judged'
  OBVIOUS
<1>2. Earned(c, session, O, J)
  BY <1>1, ReviewFacts, EarnedGrows
<1>3. /\ list \subseteq Bundles(c)
      /\ \A p \in Bundles(c) : vals[p] = reviewAt[c].Handles => p \in O
      /\ \A r \in Judgeable(c) : revs[r] # "none" => r \in J
      /\ \A p \in Bundles(c) : \A r \in Judgeable(c) : stored[p][r] # "none" => r \in J
  BY <1>1, ReviewFacts
<1>4. /\ Earned(c, session', O, J)
      /\ listed' = list /\ selected' = sel /\ decrypted' = vals /\ reviews' = revs
  BY <1>2, <1>3, EffectKeeps
<1> QED BY <1>1, <1>4

LEMMA ReviewOpens == ASSUME NEW c \in Reviews, ReviewInv(c), NEW p \in Bundles(c) \cup {0}, Review(c)!Open(p) PROVE ReviewInv(c)'
<1>1. /\ fresh' = TRUE /\ unlocking' = 0
      /\ UNCHANGED <<packets, stored, opened, judged, reviewFaults>>
      /\ Review(c)!Effect(session, {}, p, Review(c)!NothingDecrypted, Review(c)!NoReviews, {})
  BY DEF Review!Open, Review!ghosts
<1>2. /\ Review(c)!NothingDecrypted \in [Bundles(c) -> 0..reviewAt[c].Handles]
      /\ \A q \in Bundles(c) : Review(c)!NothingDecrypted[q] # reviewAt[c].Handles
      /\ Review(c)!NoReviews \in [Judgeable(c) -> Verdicts]
      /\ \A r \in Judgeable(c) : Review(c)!NoReviews[r] = "none"
  BY ReviewConst DEF Review!NothingDecrypted, Review!NoReviews, Bundles, Judgeable, Verdicts
<1>3. /\ Earned(c, session, opened, judged)'
      /\ listed' = {} /\ selected' = p /\ decrypted' = Review(c)!NothingDecrypted /\ reviews' = Review(c)!NoReviews
  BY <1>1, <1>2, ReviewFrame
<1>4. ReviewTypes(c)'
  BY <1>1, <1>2, <1>3, ReviewFacts DEF ReviewTypes
<1>5. Displayed(c)'
  BY <1>3 DEF Displayed, Review!Shown, Review!ShownFor
<1>6. Noted(c)'
  BY <1>1, <1>2, <1>3, ReviewFacts DEF Noted
<1> QED BY <1>3, <1>4, <1>5, <1>6 DEF ReviewInv

\* The index, or another packet, is shown before its reviews.
LEMMA ReviewTurns ==
    ASSUME NEW c \in Reviews, ReviewInv(c),
           Review(c)!LoadIndex \/ \E p \in Bundles(c) : Review(c)!Select(p)
    PROVE  ReviewInv(c)'
<1>1. PICK list, sel :
        /\ list \subseteq packets /\ sel \in Bundles(c) \cup {0}
        /\ Review(c)!Effect(session, list, sel, decrypted, reviews, gate)
  BY ReviewFacts DEF Review!LoadIndex, Review!Select, ReviewTypes
<1>2. fresh' = FALSE /\ UNCHANGED <<packets, unlocking, stored, opened, judged, reviewFaults>>
  BY DEF Review!LoadIndex, Review!Select, Review!ghosts
<1>3. list \in SUBSET Bundles(c)
  BY <1>1, ReviewFacts DEF ReviewTypes
<1>4. /\ Earned(c, session, opened, judged)'
      /\ listed' = list /\ selected' = sel /\ decrypted' = decrypted /\ reviews' = reviews
  <2>1. /\ \A p \in Bundles(c) : decrypted[p] = reviewAt[c].Handles => p \in opened'
        /\ \A r \in Judgeable(c) : reviews[r] # "none" => r \in judged'
        /\ opened \subseteq opened' /\ judged \subseteq judged'
    BY <1>2, ReviewFacts DEF Noted
  <2> QED BY <1>1, <1>3, <2>1, ReviewFrame
<1>5. ReviewTypes(c)'
  BY <1>1, <1>2, <1>4, ReviewFacts DEF ReviewTypes
<1>6. Displayed(c)'
  BY <1>2 DEF Displayed
<1>7. Noted(c)'
  BY <1>2, <1>4, ReviewFacts DEF Noted
<1> QED BY <1>4, <1>5, <1>6, <1>7 DEF ReviewInv

LEMMA ReviewLoads == ASSUME NEW c \in Reviews, ReviewInv(c), Review(c)!LoadReviews PROVE ReviewInv(c)'
<1>1. PICK revs : /\ revs = IF Review(c)!Shown = {} THEN Review(c)!NoReviews ELSE stored[CHOOSE p \in Review(c)!Shown : TRUE]
                  /\ Review(c)!Effect(session, listed, selected, decrypted, revs, gate)
  BY DEF Review!LoadReviews
<1>2. fresh' = TRUE /\ UNCHANGED <<packets, open, unlocking, stored, opened, judged, reviewFaults>>
  BY DEF Review!LoadReviews, Review!ghosts
<1>3. listed \in SUBSET Bundles(c) /\ Review(c)!Shown \subseteq Bundles(c)
  BY ReviewFacts DEF Review!Shown, Review!ShownFor
<1>4. \A p \in Review(c)!Shown : revs = stored[p]
  <2> SUFFICES ASSUME NEW p \in Review(c)!Shown PROVE revs = stored[p]
    OBVIOUS
  <2>1. PICK q : q = CHOOSE s \in Review(c)!Shown : TRUE
    OBVIOUS
  <2>2. q \in Review(c)!Shown /\ revs = stored[q]
    BY <1>1, <2>1
  <2>3. p = q
    BY <1>3, <2>2, OneShown DEF Review!Shown
  <2> QED BY <2>2, <2>3
<1>5. revs \in [Judgeable(c) -> Verdicts] /\ \A r \in Judgeable(c) : revs[r] # "none" => r \in judged
  <2>1. CASE Review(c)!Shown = {}
    BY <1>1, <2>1 DEF Review!NoReviews, Judgeable, Verdicts
  <2>2. CASE Review(c)!Shown # {}
    <3>1. PICK p \in Review(c)!Shown : revs = stored[p]
      BY <1>4, <2>2
    <3> QED BY <1>3, <3>1, ReviewFacts DEF ReviewTypes
  <2> QED BY <2>1, <2>2
<1>6. /\ Earned(c, session, opened, judged)'
      /\ listed' = listed /\ selected' = selected /\ decrypted' = decrypted /\ reviews' = revs
  <2>1. /\ \A p \in Bundles(c) : decrypted[p] = reviewAt[c].Handles => p \in opened'
        /\ \A r \in Judgeable(c) : revs[r] # "none" => r \in judged'
        /\ opened \subseteq opened' /\ judged \subseteq judged'
    BY <1>2, <1>5, ReviewFacts DEF Noted
  <2> QED BY <1>1, <1>3, <2>1, ReviewFrame
<1>7. ReviewTypes(c)'
  BY <1>2, <1>5, <1>6, ReviewFacts DEF ReviewTypes
<1>8. Displayed(c)'
  BY <1>2, <1>4, <1>6 DEF Displayed, Review!Shown
<1>9. Noted(c)'
  BY <1>2, <1>5, <1>6, ReviewFacts DEF Noted
<1> QED BY <1>6, <1>7, <1>8, <1>9 DEF ReviewInv

\* What changes neither the session nor what is stored.
LEMMA ReviewWorks ==
    ASSUME NEW c \in Reviews, ReviewInv(c),
           Review(c)!LoadFails \/ Review(c)!StartUnlock \/ Review(c)!DecryptFails \/ Review(c)!Leave
    PROVE  ReviewInv(c)'
<1>1. UNCHANGED <<packets, session, stored, opened, judged>>
  BY DEF Review!LoadFails, Review!StartUnlock, Review!DecryptFails, Review!Leave, Review!ghosts
<1>2. CASE Review(c)!Leave
  <2>1. /\ open' = FALSE /\ unlocking' = 0 /\ fresh' = TRUE /\ listed' = {} /\ selected' = 0 /\ reviewFaults' = reviewFaults
        /\ decrypted' = Review(c)!NothingDecrypted /\ reviews' = Review(c)!NoReviews
    BY <1>2 DEF Review!Leave
  <2>2. /\ Review(c)!NothingDecrypted \in [Bundles(c) -> 0..reviewAt[c].Handles]
        /\ \A q \in Bundles(c) : Review(c)!NothingDecrypted[q] # reviewAt[c].Handles
        /\ Review(c)!NoReviews \in [Judgeable(c) -> Verdicts]
        /\ \A r \in Judgeable(c) : Review(c)!NoReviews[r] = "none"
    BY ReviewConst DEF Review!NothingDecrypted, Review!NoReviews, Bundles, Judgeable, Verdicts
  <2>3. ReviewTypes(c)'
    BY <1>1, <2>1, <2>2, ReviewFacts DEF ReviewTypes
  <2>4. Displayed(c)' /\ Noted(c)'
    BY <1>1, <2>1, <2>2, ReviewFacts DEF Displayed, Noted
  <2> QED BY <1>1, <2>3, <2>4, ReviewFacts DEF ReviewInv
<1>3. CASE Review(c)!LoadFails \/ Review(c)!StartUnlock \/ Review(c)!DecryptFails
  <2>1. UNCHANGED <<open, listed, selected, decrypted, reviews, fresh>>
    BY <1>3 DEF Review!LoadFails, Review!StartUnlock, Review!DecryptFails
  <2>2. reviewFaults' \in 0..reviewAt[c].MaxFaults
    BY <1>3, ReviewConst, ReviewFacts DEF Review!LoadFails, Review!StartUnlock, Review!DecryptFails, ReviewTypes
  <2>3. unlocking' \in Bundles(c) \cup {0} /\ (unlocking' # 0 => decrypted[unlocking'] < reviewAt[c].Handles)
    BY <1>3, ReviewFacts DEF Review!LoadFails, Review!StartUnlock, Review!DecryptFails, ReviewTypes, Review!Shown, Review!ShownFor
  <2>4. ReviewTypes(c)'
    BY <1>1, <2>1, <2>2, <2>3, ReviewFacts DEF ReviewTypes
  <2>5. Displayed(c)' /\ Noted(c)'
    BY <1>1, <2>1, ReviewFacts DEF Displayed, Noted, Review!Shown
  <2> QED BY <1>1, <2>4, <2>5, ReviewFacts DEF ReviewInv
<1> QED BY <1>2, <1>3

LEMMA ReviewDecrypts == ASSUME NEW c \in Reviews, ReviewInv(c), Review(c)!Decrypt PROVE ReviewInv(c)'
<1>1. PICK p, vals :
        /\ p = unlocking /\ vals = [decrypted EXCEPT ![p] = decrypted[p] + 1]
        /\ Review(c)!Effect(session, listed, selected, vals, reviews, gate)
        /\ opened' = IF vals[p] = reviewAt[c].Handles THEN opened \cup {p} ELSE opened
        /\ unlocking' = IF vals[p] = reviewAt[c].Handles THEN 0 ELSE p
  BY DEF Review!Decrypt
<1>2. p \in Bundles(c) /\ UNCHANGED <<packets, open, fresh, stored, judged, reviewFaults>>
  BY <1>1, ReviewFacts DEF Review!Decrypt, ReviewTypes
<1>3. decrypted[p] \in 0..reviewAt[c].Handles /\ decrypted[p] < reviewAt[c].Handles /\ reviewAt[c].Handles \in Nat
  <2>1. p # 0 /\ decrypted[p] \in 0..reviewAt[c].Handles
    BY <1>1, <1>2, ReviewFacts DEF ReviewTypes, Review!Decrypt
  <2> QED BY <1>1, <2>1, ReviewConst, ReviewFacts DEF ReviewTypes
<1>4. /\ vals \in [Bundles(c) -> 0..reviewAt[c].Handles] /\ vals[p] = decrypted[p] + 1
      /\ \A q \in Bundles(c) \ {p} : vals[q] = decrypted[q]
  <2>1. decrypted \in [Bundles(c) -> 0..reviewAt[c].Handles]
    BY ReviewFacts DEF ReviewTypes
  <2>2. decrypted[p] + 1 \in 0..reviewAt[c].Handles
    BY <1>3
  <2> QED BY <1>1, <1>2, <2>1, <2>2
<1>5. \A q \in Bundles(c) : vals[q] = reviewAt[c].Handles => q \in opened'
  BY <1>1, <1>4, ReviewFacts DEF Noted
<1>6. /\ Earned(c, session, opened, judged)'
      /\ listed' = listed /\ selected' = selected /\ decrypted' = vals /\ reviews' = reviews
  <2>1. /\ \A r \in Judgeable(c) : reviews[r] # "none" => r \in judged'
        /\ opened \subseteq opened' /\ judged \subseteq judged' /\ listed \in SUBSET Bundles(c)
    BY <1>1, <1>2, ReviewFacts DEF Noted
  <2> QED BY <1>1, <1>5, <2>1, ReviewFrame
<1>7. unlocking' \in Bundles(c) \cup {0} /\ (unlocking' # 0 => decrypted'[unlocking'] < reviewAt[c].Handles)
  BY <1>1, <1>2, <1>3, <1>4, <1>6
<1>8. ReviewTypes(c)'
  BY <1>2, <1>4, <1>6, <1>7, ReviewFacts DEF ReviewTypes
<1>9. Displayed(c)'
  BY <1>2, <1>6, ReviewFacts DEF Displayed, Review!Shown
<1>10. Noted(c)'
  BY <1>2, <1>5, <1>6, ReviewFacts DEF Noted
<1> QED BY <1>6, <1>8, <1>9, <1>10 DEF ReviewInv

LEMMA ReviewJudges ==
    ASSUME NEW c \in Reviews, ReviewInv(c), NEW p \in Bundles(c), NEW r \in reviewAt[c].Contents[p], Review(c)!Judge(p, r)
    PROVE  ReviewInv(c)'
<1>1. PICK verdict, revs :
        /\ verdict \in Verdicts /\ revs = [reviews EXCEPT ![r] = verdict]
        /\ Review(c)!Effect(session, listed, selected, decrypted, revs, gate)
        /\ stored' = [stored EXCEPT ![p] = revs]
  BY DEF Review!Judge, Verdicts
<1>2. /\ judged' = judged \cup {r} /\ open /\ fresh /\ p \in Review(c)!Shown
      /\ UNCHANGED <<packets, open, unlocking, fresh, opened, reviewFaults>>
  BY DEF Review!Judge
<1>3. r \in Judgeable(c) /\ reviews = stored[p]
  BY <1>2, ReviewFacts DEF Judgeable, Bundles, Review!AllRequests, Displayed
<1>4. /\ revs \in [Judgeable(c) -> Verdicts]
      /\ \A q \in Judgeable(c) : q # r => revs[q] = reviews[q]
  <2>1. reviews \in [Judgeable(c) -> Verdicts]
    BY ReviewFacts DEF ReviewTypes
  <2> QED BY <1>1, <1>3, <2>1
<1>5. \A q \in Judgeable(c) : revs[q] # "none" => q \in judged' /\ q \in reviewAt[c].Contents[p]
  BY <1>2, <1>3, <1>4, ReviewFacts DEF Noted
<1>6. /\ Earned(c, session, opened, judged)'
      /\ listed' = listed /\ selected' = selected /\ decrypted' = decrypted /\ reviews' = revs
  <2>1. /\ \A q \in Bundles(c) : decrypted[q] = reviewAt[c].Handles => q \in opened'
        /\ \A q \in Judgeable(c) : revs[q] # "none" => q \in judged'
        /\ opened \subseteq opened' /\ judged \subseteq judged' /\ listed \in SUBSET Bundles(c)
    BY <1>2, <1>5, ReviewFacts DEF Noted
  <2> QED BY <1>1, <2>1, ReviewFrame
<1>7. /\ stored' \in [Bundles(c) -> [Judgeable(c) -> Verdicts]] /\ stored'[p] = revs
      /\ \A q \in Bundles(c) : q # p => stored'[q] = stored[q]
  <2>1. stored \in [Bundles(c) -> [Judgeable(c) -> Verdicts]]
    BY ReviewFacts DEF ReviewTypes
  <2> QED BY <1>1, <1>4, <2>1
<1>8. ReviewTypes(c)'
  BY <1>2, <1>4, <1>6, <1>7, ReviewFacts DEF ReviewTypes
<1>9. Displayed(c)'
  <2>1. ASSUME NEW q \in Review(c)!Shown PROVE q = p
    BY <1>2, <2>1, OneShown, ReviewFacts DEF Review!Shown
  <2>2. Review(c)!Shown' = Review(c)!Shown
    BY <1>6 DEF Review!Shown
  <2> QED BY <1>6, <1>7, <2>1, <2>2 DEF Displayed
<1>10. Noted(c)'
  <2>1. \A q \in Bundles(c) : decrypted'[q] = reviewAt[c].Handles => q \in opened'
    BY <1>2, <1>6, ReviewFacts DEF Noted
  <2>2. \A q \in Judgeable(c) : reviews'[q] # "none" => q \in judged'
    BY <1>5, <1>6
  <2>3. ASSUME NEW x \in Bundles(c), NEW q \in Judgeable(c), stored'[x][q] # "none"
        PROVE  q \in judged' /\ q \in reviewAt[c].Contents[x]
    <3>1. CASE x = p
      BY <1>5, <1>7, <2>3, <3>1
    <3>2. CASE x # p
      <4>1. stored[x][q] # "none"
        BY <1>7, <2>3, <3>2
      <4>2. q \in judged /\ q \in reviewAt[c].Contents[x]
        BY <4>1, ReviewFacts DEF Noted
      <4> QED BY <1>2, <4>2
    <3> QED BY <3>1, <3>2
  <2> QED BY <2>1, <2>2, <2>3 DEF Noted
<1> QED BY <1>6, <1>8, <1>9, <1>10 DEF ReviewInv

\* The session of the page: the payments are settled, the audit has not begun.
AuditAhead(s) ==
    /\ Shape(s)
    /\ s.m["audit"].packets = {} /\ s.m["audit"].included = {} /\ s.m["audit"].reviewed = {}
    /\ s.m["audit"].flagged = {} /\ s.m["audit"].verified = FALSE
LEMMA StillAhead ==
    ASSUME NEW s, NEW n, NEW k \in Keys \ {"audit"}, AuditAhead(s), n = s \/ OnlyMission(n, s, k)
    PROVE  AuditAhead(n)
<1>1. CASE n = s
  BY <1>1
<1>2. CASE OnlyMission(n, s, k)
  <2>1. Shape(n) /\ SameProgress(n.m["audit"], s.m["audit"])
    BY <1>2 DEF OnlyMission, Keys
  <2> QED BY <2>1 DEF AuditAhead, SameProgress
<1> QED BY <1>1, <1>2

LEMMA SettledBridge ==
    ASSUME NEW c
    PROVE  Review(c)!Settled =
             LET s == Demo!CreateSession(1, TRUE)
             IN  Demo!ReasonDecrypted(Demo!ViolationBlocked(Demo!ApprovalSettled(Demo!DecisionConfirmed(
                     Demo!RoutineExecuted(s, 1), 2, "approve"), 2, "approve"), 3), 3)
<1>1. ASSUME NEW t PROVE Review(c)!Normalize(t) = Demo!Normalize(t)
  BY NormalBridge
<1>2. ASSUME NEW t, NEW k, NEW id PROVE Review(c)!MayRecord(t, k, id) = Demo!MayRecord(t, k, id)
  BY DEF Review!MayRecord, Demo!MayRecord
<1>3. ASSUME NEW t, NEW id PROVE Review(c)!RoutineExecuted(t, id) = Demo!RoutineExecuted(t, id)
  BY <1>1, <1>2 DEF Review!RoutineExecuted, Demo!RoutineExecuted
<1>4. ASSUME NEW t, NEW id, NEW d PROVE Review(c)!DecisionConfirmed(t, id, d) = Demo!DecisionConfirmed(t, id, d)
  BY <1>1, <1>2 DEF Review!DecisionConfirmed, Demo!DecisionConfirmed
<1>5. ASSUME NEW t, NEW id, NEW d PROVE Review(c)!ApprovalSettled(t, id, d) = Demo!ApprovalSettled(t, id, d)
  BY <1>1 DEF Review!ApprovalSettled, Demo!ApprovalSettled
<1>6. ASSUME NEW t, NEW id PROVE Review(c)!ViolationBlocked(t, id) = Demo!ViolationBlocked(t, id)
  BY <1>1, <1>2 DEF Review!ViolationBlocked, Demo!ViolationBlocked
<1>7. ASSUME NEW t, NEW id PROVE Review(c)!ReasonDecrypted(t, id) = Demo!ReasonDecrypted(t, id)
  BY <1>1, <1>2 DEF Review!ReasonDecrypted, Demo!ReasonDecrypted
<1>8. Review(c)!CreateSession(1, TRUE) = Demo!CreateSession(1, TRUE)
  <2>1. ASSUME NEW st PROVE Review(c)!EmptyProgress(st) = Demo!EmptyProgress(st)
    BY DEF Review!EmptyProgress, Demo!EmptyProgress
  <2>2. Review(c)!MissionKeys = Demo!MissionKeys /\ Review(c)!Inbox = Demo!Inbox /\ Review(c)!NoRoute = Demo!NoRoute
    BY DEF Review!MissionKeys, Demo!MissionKeys, Review!PaymentMissions, Demo!PaymentMissions,
       Review!Inbox, Demo!Inbox, Review!NoRoute, Demo!NoRoute
  <2>3. PICK m, tour, restart :
          /\ m = [k \in Demo!MissionKeys |-> Demo!EmptyProgress(IF k = "routine" THEN "ready" ELSE "locked")]
          /\ tour = [active |-> TRUE, step |-> 0, paused |-> FALSE, route |-> Demo!NoRoute, role |-> "none"]
          /\ restart = [status |-> "idle", request |-> 0]
    OBVIOUS
  <2>4. m = [k \in Review(c)!MissionKeys |-> Review(c)!EmptyProgress(IF k = "routine" THEN "ready" ELSE "locked")]
    BY <2>1, <2>2, <2>3
  <2>5. PICK n : n = [run |-> 1, life |-> "active", current |-> "routine", role |-> "delegate", route |-> Demo!Inbox,
                      m |-> m, tour |-> tour, restart |-> restart]
    OBVIOUS
  <2>6. n = Demo!CreateSession(1, TRUE)
    BY <2>3, <2>5 DEF Demo!CreateSession
  <2>7. n = Review(c)!CreateSession(1, TRUE)
    BY <2>2, <2>3, <2>4, <2>5 DEF Review!CreateSession
  <2> QED BY <2>6, <2>7
<1> QED BY <1>3, <1>4, <1>5, <1>6, <1>7, <1>8 DEF Review!Settled

LEMMA SettledAhead == ASSUME NEW c PROVE AuditAhead(Review(c)!Settled)
<1>1. PICK s0, s1, s2, s3, s4, s5 :
        /\ s0 = Demo!CreateSession(1, TRUE) /\ s1 = Demo!RoutineExecuted(s0, 1)
        /\ s2 = Demo!DecisionConfirmed(s1, 2, "approve") /\ s3 = Demo!ApprovalSettled(s2, 2, "approve")
        /\ s4 = Demo!ViolationBlocked(s3, 3) /\ s5 = Demo!ReasonDecrypted(s4, 3)
  OBVIOUS
<1>2. Review(c)!Settled = s5
  BY <1>1, SettledBridge
<1>3. {"routine", "approval", "violation"} \subseteq Keys \ {"audit"}
  BY DEF Keys
<1>4. AuditAhead(s0)
  <2>1. FreshAs(1, s0)
    BY <1>1, CreatedIs
  <2> QED BY <2>1 DEF FreshAs, AuditAhead, Keys
<1>5. AuditAhead(s1)
  <2>1. s1 = s0 \/ OnlyMission(s1, s0, "routine")
    BY <1>1, <1>4, ExecutedIs DEF AuditAhead, ExecutedAs
  <2> QED BY <1>3, <1>4, <2>1, StillAhead
<1>6. AuditAhead(s2)
  <2>1. s2 = s1 \/ OnlyMission(s2, s1, "approval")
    BY <1>1, <1>5, ConfirmedIs DEF AuditAhead, ConfirmedAs
  <2> QED BY <1>3, <1>5, <2>1, StillAhead
<1>7. AuditAhead(s3)
  <2>1. s3 = s2 \/ OnlyMission(s3, s2, "approval")
    BY <1>1, <1>6, SettledIs DEF AuditAhead, SettledAs
  <2> QED BY <1>3, <1>6, <2>1, StillAhead
<1>8. AuditAhead(s4)
  <2>1. s4 = s3 \/ OnlyMission(s4, s3, "violation")
    BY <1>1, <1>7, BlockedIs DEF AuditAhead, BlockedAs
  <2> QED BY <1>3, <1>7, <2>1, StillAhead
<1>9. AuditAhead(s5)
  <2>1. s5 = s4 \/ OnlyMission(s5, s4, "violation")
    BY <1>1, <1>8, DecryptedIs DEF AuditAhead, DecryptedAs
  <2> QED BY <1>3, <1>8, <2>1, StillAhead
<1> QED BY <1>2, <1>9

LEMMA ReviewInitial == ASSUME NEW c \in Reviews, Review(c)!Init PROVE ReviewInv(c)
<1>1. /\ packets = reviewAt[c].Foreign /\ session = Review(c)!Settled
      /\ open = FALSE /\ listed = {} /\ selected = 0
      /\ decrypted = Review(c)!NothingDecrypted /\ unlocking = 0 /\ reviews = Review(c)!NoReviews /\ fresh = TRUE
      /\ stored = [p \in Bundles(c) |-> Review(c)!NoReviews] /\ opened = {} /\ judged = {} /\ reviewFaults = 0
  BY DEF Review!Init, Bundles
<1>2. /\ Review(c)!NothingDecrypted \in [Bundles(c) -> 0..reviewAt[c].Handles]
      /\ \A q \in Bundles(c) : Review(c)!NothingDecrypted[q] # reviewAt[c].Handles
      /\ Review(c)!NoReviews \in [Judgeable(c) -> Verdicts]
      /\ \A r \in Judgeable(c) : Review(c)!NoReviews[r] = "none"
  BY ReviewConst DEF Review!NothingDecrypted, Review!NoReviews, Bundles, Judgeable, Verdicts
<1>3. packets \subseteq Bundles(c) /\ reviewAt[c].MaxFaults \in Nat
  BY <1>1, BrowserConstants DEF Review!ReviewAssumption, Bundles
<1>4. ReviewTypes(c)
  BY <1>1, <1>2, <1>3 DEF ReviewTypes
<1>5. Displayed(c) /\ Noted(c)
  BY <1>1, <1>2 DEF Displayed, Noted
<1>6. Earned(c, session, opened, judged)
  BY <1>1, SettledAhead DEF Earned, AuditAhead
<1> QED BY <1>4, <1>5, <1>6 DEF ReviewInv

LEMMA ReviewStep == ASSUME NEW c \in Reviews, ReviewInv(c), Review(c)!Next PROVE ReviewInv(c)'
<1>1. CASE Review(c)!Disclose
  <2>1. PICK p \in Review(c)!RunPackets : Review(c)!Grant(p) \/ Review(c)!Record(p)
    BY <1>1 DEF Review!Disclose
  <2>2. p \in Bundles(c)
    BY ReviewConst
  <2> QED BY <2>1, <2>2, ReviewGrant, ReviewRecord
<1>2. CASE Review(c)!ToOpen
  <2>1. PICK p \in Bundles(c) \cup {0} : Review(c)!Open(p)
    BY <1>2 DEF Review!ToOpen, Bundles
  <2> QED BY <2>1, ReviewOpens
<1>3. CASE Review(c)!ToSelect \/ Review(c)!LoadIndex
  BY <1>3, ReviewTurns DEF Review!ToSelect, Bundles
<1>4. CASE Review(c)!ToJudge
  <2>1. PICK p \in Bundles(c) : \E r \in reviewAt[c].Contents[p] : Review(c)!Judge(p, r)
    BY <1>4 DEF Review!ToJudge, Bundles
  <2> QED BY <2>1, ReviewJudges
<1>5. CASE Review(c)!LoadReviews
  BY <1>5, ReviewLoads
<1>6. CASE Review(c)!Decrypt
  BY <1>6, ReviewDecrypts
<1>7. CASE Review(c)!LoadFails \/ Review(c)!StartUnlock \/ Review(c)!DecryptFails \/ Review(c)!Leave
  BY <1>7, ReviewWorks
<1> QED BY <1>1, <1>2, <1>3, <1>4, <1>5, <1>6, <1>7 DEF Review!Next

LEMMA ReviewStutter == ASSUME NEW c \in Reviews, ReviewInv(c), UNCHANGED reviewVars PROVE ReviewInv(c)'
<1>1. UNCHANGED <<packets, session, open, listed, selected, decrypted, unlocking, reviews, fresh, stored, opened, judged, reviewFaults>>
  BY DEF reviewVars
<1>2. ReviewTypes(c)'
  BY <1>1, ReviewFacts DEF ReviewTypes
<1>3. Displayed(c)' /\ Noted(c)'
  BY <1>1, ReviewFacts DEF Displayed, Noted, Review!Shown
<1> QED BY <1>1, <1>2, <1>3, ReviewFacts DEF ReviewInv

LEMMA ReviewIsSafe == ASSUME NEW c \in Reviews, ReviewInv(c) PROVE Review(c)!ReviewSafe
<1>1. PICK a : a = session.m["audit"]
  OBVIOUS
<1>2. Review(c)!ReviewTypeOK
  <2>1. \A p \in Bundles(c) : \A r \in Judgeable(c) \ reviewAt[c].Contents[p] : stored[p][r] = "none"
    BY ReviewFacts DEF Noted
  <2> QED BY <2>1, ReviewFacts DEF Review!ReviewTypeOK, ReviewTypes, Bundles, Judgeable
<1>3. Review(c)!AuditEarned
  <2> SUFFICES ASSUME Review(c)!Complete(session, "audit")
               PROVE  a.packets \subseteq opened /\ a.included \subseteq judged
                      /\ a.included = UNION {reviewAt[c].Contents[p] : p \in a.packets}
    BY <1>1 DEF Review!AuditEarned
  <2>1. a.verified
    BY <1>1 DEF Review!Complete
  <2> QED BY <1>1, <2>1, ReviewFacts DEF Earned
<1>4. Review(c)!NoForeignVerdict
  BY <1>1, ReviewFacts DEF Earned, Review!NoForeignVerdict
<1> QED BY <1>2, <1>3, <1>4 DEF Review!ReviewSafe

-----------------------------------------------------------------------------
(***************************************************************************)
(* The mission drawer, in each of its cases.  First what its actions do to *)
(* a session, and the evidence that only grows.                            *)
(***************************************************************************)

TourShape(t) ==
    t = [active |-> t.active, step |-> t.step, paused |-> t.paused, route |-> t.route, role |-> t.role]
\* n has the evidence of s.
Evid(n, s) == Shape(n) /\ n.run = s.run /\ \A k \in Keys : SameProgress(n.m[k], s.m[k])
Moved(s, life, r, u, tour, restart) ==
    [run |-> s.run, life |-> life, current |-> s.current, role |-> r, route |-> u, m |-> s.m,
     tour |-> tour, restart |-> restart]
MovedAs(s, n, r, u, tour) == Evid(n, s) /\ n.role = r /\ n.route = u /\ n.tour = tour
LEMMA Moves ==
    ASSUME NEW s, Shape(s), NEW life, NEW r, NEW u, NEW tour, NEW restart
    PROVE  MovedAs(s, Demo!Normalize(Moved(s, life, r, u, tour, restart)), r, u, tour)
<1>1. PICK t, n : t = Moved(s, life, r, u, tour, restart) /\ n = Demo!Normalize(t)
  OBVIOUS
<1>2. t = [run |-> s.run, life |-> life, current |-> s.current, role |-> r, route |-> u, m |-> s.m,
           tour |-> tour, restart |-> restart]
  BY <1>1 DEF Moved
<1>3. t.run = s.run /\ t.life = life /\ t.current = s.current /\ t.role = r /\ t.route = u /\ t.m = s.m
      /\ t.tour = tour /\ t.restart = restart
  BY <1>2
<1>4. Shape(t)
  BY <1>2, <1>3 DEF Shape
<1>5. Shape(n) /\ Same(n, t)
  BY <1>1, <1>4, NormalizeKeeps
<1>6. Evid(n, s)
  BY <1>3, <1>5 DEF Evid, Same, Kept
<1> QED BY <1>1, <1>3, <1>5, <1>6 DEF MovedAs, Same, Kept

LEMMA NavigatedIs ==
    ASSUME NEW s, Shape(s), NEW u PROVE MovedAs(s, Demo!Navigate(s, u), s.role, u, s.tour)
<1>1. Moved(s, s.life, s.role, u, s.tour, s.restart) = [s EXCEPT !.route = u]
  BY DEF Moved, Shape
<1> QED BY <1>1, Moves DEF Demo!Navigate
LEMMA RoledIs ==
    ASSUME NEW s, Shape(s), NEW r PROVE MovedAs(s, Demo!SetRole(s, r), r, s.route, s.tour)
<1>1. Moved(s, s.life, r, s.route, s.tour, s.restart) = [s EXCEPT !.role = r]
  BY DEF Moved, Shape
<1> QED BY <1>1, Moves DEF Demo!SetRole
StepTour(step, u, r) == [active |-> TRUE, step |-> step, paused |-> FALSE, route |-> u, role |-> r]
LEMMA SteppedIs ==
    ASSUME NEW s, Shape(s), NEW step, NEW u, NEW r
    PROVE  MovedAs(s, Demo!TourStep(s, step, u, r), IF r = "none" THEN s.role ELSE r, u, StepTour(step, u, r))
<1>1. PICK as, tour : as = (IF r = "none" THEN s.role ELSE r) /\ tour = StepTour(step, u, r)
  OBVIOUS
<1>2. PICK t : t = [s EXCEPT !.route = u, !.role = as, !.tour = tour]
  OBVIOUS
<1>3. Moved(s, s.life, as, u, tour, s.restart) = t
  BY <1>2 DEF Moved, Shape
<1>4. Demo!TourStep(s, step, u, r) = Demo!Normalize(t)
  BY <1>1, <1>2 DEF Demo!TourStep, StepTour
<1> QED BY <1>1, <1>3, <1>4, Moves
WithPaused(t, b) == [t EXCEPT !.paused = b]
LEMMA PausedIs ==
    ASSUME NEW s, Shape(s) PROVE MovedAs(s, Demo!PauseTour(s), s.role, s.route, WithPaused(s.tour, TRUE))
<1>1. PICK tour, life : tour = WithPaused(s.tour, TRUE) /\ life = "paused"
  OBVIOUS
<1>2. PICK t : t = [s EXCEPT !.life = life, !.tour = tour]
  OBVIOUS
<1>3. Moved(s, life, s.role, s.route, tour, s.restart) = t
  BY <1>2 DEF Moved, Shape
<1>4. Demo!PauseTour(s) = Demo!Normalize(t)
  <2>1. t = [s EXCEPT !.life = "paused", !.tour.paused = TRUE]
    BY <1>1, <1>2 DEF Shape, WithPaused
  <2> QED BY <2>1 DEF Demo!PauseTour
<1>5. MovedAs(s, Demo!Normalize(t), s.role, s.route, tour)
  BY <1>3, Moves
<1> QED BY <1>1, <1>4, <1>5
ReturnRole(s) == IF s.tour.role = "none" THEN s.role ELSE s.tour.role
ReturnRoute(s) == IF s.tour.route = Demo!NoRoute THEN s.route ELSE s.tour.route
LEMMA ReturnedIs ==
    ASSUME NEW s, Shape(s)
    PROVE  MovedAs(s, Demo!ReturnToMission(s), ReturnRole(s), ReturnRoute(s), WithPaused(s.tour, FALSE))
<1>1. PICK tour, as, u, restart :
        /\ tour = WithPaused(s.tour, FALSE) /\ as = ReturnRole(s) /\ u = ReturnRoute(s)
        /\ restart = IF s.restart.status = "failed" THEN [status |-> "idle", request |-> 0] ELSE s.restart
  OBVIOUS
<1>2. PICK t : t = [s EXCEPT !.life = "active", !.tour = tour, !.route = u, !.role = as, !.restart = restart]
  OBVIOUS
<1>3. Moved(s, "active", as, u, tour, restart) = t
  BY <1>2 DEF Moved, Shape
<1>4. Demo!ReturnToMission(s) = Demo!Normalize(t)
  <2>1. t = [s EXCEPT !.life = "active", !.tour.paused = FALSE,
        !.route = IF s.tour.route = Demo!NoRoute THEN s.route ELSE s.tour.route,
        !.role = IF s.tour.role = "none" THEN s.role ELSE s.tour.role,
        !.restart = IF s.restart.status = "failed" THEN [status |-> "idle", request |-> 0] ELSE s.restart]
    BY <1>1, <1>2 DEF Shape, WithPaused, ReturnRole, ReturnRoute
  <2> QED BY <2>1 DEF Demo!ReturnToMission
<1> QED BY <1>1, <1>3, <1>4, Moves
LEMMA ClosedIs ==
    ASSUME NEW s, Shape(s)
    PROVE  MovedAs(s, Demo!CloseTour(s), s.role, s.route, [s.tour EXCEPT !.active = FALSE, !.paused = FALSE])
<1>1. PICK tour : tour = [s.tour EXCEPT !.active = FALSE, !.paused = FALSE]
  OBVIOUS
<1>2. Moved(s, s.life, s.role, s.route, tour, s.restart) = [s EXCEPT !.tour = tour]
  BY DEF Moved, Shape
<1>3. Demo!CloseTour(s) = Demo!Normalize([s EXCEPT !.tour = tour])
  <2>1. [s EXCEPT !.tour.active = FALSE, !.tour.paused = FALSE] = [s EXCEPT !.tour = tour]
    BY <1>1 DEF Shape
  <2> QED BY <2>1 DEF Demo!CloseTour
<1> QED BY <1>1, <1>2, <1>3, Moves
LEMMA ResumedIs ==
    ASSUME NEW s, Shape(s)
    PROVE  MovedAs(s, Demo!ResumeSession(s), s.role, s.route, WithPaused(s.tour, FALSE))
<1>1. PICK tour, life, restart :
        /\ tour = WithPaused(s.tour, FALSE) /\ life = (IF Demo!DemoCompleted(s) THEN "completed" ELSE "active")
        /\ restart = [status |-> "idle", request |-> 0]
  OBVIOUS
<1>2. PICK t : t = [s EXCEPT !.life = life, !.restart = restart, !.tour = tour]
  OBVIOUS
<1>3. Moved(s, life, s.role, s.route, tour, restart) = t
  BY <1>2 DEF Moved, Shape
<1>4. Demo!ResumeSession(s) = Demo!Normalize(t)
  <2>1. t = [s EXCEPT !.life = life, !.restart = restart, !.tour.paused = FALSE]
    BY <1>1, <1>2 DEF Shape, WithPaused
  <2> QED BY <1>1, <2>1 DEF Demo!ResumeSession
<1> QED BY <1>1, <1>3, <1>4, Moves

LEMMA CompleteBridge ==
    ASSUME NEW c, NEW s, NEW k
    PROVE  /\ Tour(c)!Complete(s, k) = Demo!Complete(s, k) /\ Tour(c)!AuditCoverage(s) = Demo!AuditCoverage(s)
           /\ Tour(c)!RequestIds(s) = Demo!RequestIds(s) /\ Tour(c)!DemoCompleted(s) = Demo!DemoCompleted(s)
<1>1. ASSUME NEW t PROVE Tour(c)!RequestIds(t) = Demo!RequestIds(t)
  BY DEF Tour!RequestIds, Demo!RequestIds, Tour!PaymentMissions, Demo!PaymentMissions
<1>2. ASSUME NEW t PROVE Tour(c)!AuditCoverage(t) = Demo!AuditCoverage(t)
  BY <1>1 DEF Tour!AuditCoverage, Demo!AuditCoverage
<1>3. ASSUME NEW t, NEW j PROVE Tour(c)!Complete(t, j) = Demo!Complete(t, j)
  BY <1>2 DEF Tour!Complete, Demo!Complete
<1>4. Tour(c)!MissionKeys = Demo!MissionKeys
  BY DEF Tour!MissionKeys, Demo!MissionKeys, Tour!PaymentMissions, Demo!PaymentMissions
<1>5. Tour(c)!DemoCompleted(s) = Demo!DemoCompleted(s)
  BY <1>3, <1>4 DEF Tour!DemoCompleted, Demo!DemoCompleted
<1> QED BY <1>1, <1>2, <1>3, <1>5

LEMMA NormalTour == ASSUME NEW c, NEW s PROVE Tour(c)!Normalize(s) = Demo!Normalize(s)
<1>1. ASSUME NEW t, NEW k PROVE Tour(c)!Complete(t, k) = Demo!Complete(t, k)
  BY CompleteBridge
<1>2. Tour(c)!MissionOrder = Demo!MissionOrder /\ Tour(c)!MissionKeys = Demo!MissionKeys
  BY DEF Tour!MissionOrder, Demo!MissionOrder, Tour!MissionKeys, Demo!MissionKeys, Tour!PaymentMissions, Demo!PaymentMissions
<1>3. ASSUME NEW t PROVE Tour(c)!Unfinished(t) = Demo!Unfinished(t)
  BY <1>1, <1>2 DEF Tour!Unfinished, Demo!Unfinished
<1>4. ASSUME NEW t, NEW i PROVE Tour(c)!StatusOf(t, i) = Demo!StatusOf(t, i)
  BY <1>1, <1>2 DEF Tour!StatusOf, Demo!StatusOf
<1>5. ASSUME NEW t PROVE Tour(c)!LifeOf(t) = Demo!LifeOf(t)
  BY <1>3 DEF Tour!LifeOf, Demo!LifeOf
<1>6. ASSUME NEW t PROVE Tour(c)!CurrentOf(t) = Demo!CurrentOf(t)
  <2>1. ASSUME NEW S PROVE Tour(c)!Earliest(S) = Demo!Earliest(S)
    BY DEF Tour!Earliest, Demo!Earliest
  <2> QED BY <1>2, <1>3, <2>1 DEF Tour!CurrentOf, Demo!CurrentOf
<1>7. ASSUME NEW k PROVE Tour(c)!Ordinal(k) = Demo!Ordinal(k)
  BY <1>2 DEF Tour!Ordinal, Demo!Ordinal
<1> QED BY Zenon, <1>2, <1>4, <1>5, <1>6, <1>7 DEF Tour!Normalize, Demo!Normalize

LEMMA EvidenceBridge ==
    ASSUME NEW c, NEW s, NEW k, NEW id, NEW v
    PROVE  /\ Tour(c)!BindRequest(s, k, id, v) = Demo!BindRequest(s, k, id, v)
           /\ Tour(c)!RoutineExecuted(s, id) = Demo!RoutineExecuted(s, id)
           /\ Tour(c)!DecisionConfirmed(s, id, v) = Demo!DecisionConfirmed(s, id, v)
           /\ Tour(c)!ApprovalSettled(s, id, v) = Demo!ApprovalSettled(s, id, v)
           /\ Tour(c)!ViolationBlocked(s, id) = Demo!ViolationBlocked(s, id)
           /\ Tour(c)!ReasonDecrypted(s, id) = Demo!ReasonDecrypted(s, id)
<1>1. ASSUME NEW t PROVE Tour(c)!Normalize(t) = Demo!Normalize(t)
  BY NormalTour
<1>2. Tour(c)!MayRecord(s, "routine", id) = Demo!MayRecord(s, "routine", id)
      /\ Tour(c)!MayRecord(s, "approval", id) = Demo!MayRecord(s, "approval", id)
      /\ Tour(c)!MayRecord(s, "violation", id) = Demo!MayRecord(s, "violation", id)
  BY DEF Tour!MayRecord, Demo!MayRecord
<1>3. Tour(c)!BindRequest(s, k, id, v) = Demo!BindRequest(s, k, id, v)
  BY <1>1, CompleteBridge DEF Tour!BindRequest, Demo!BindRequest
<1>4. Tour(c)!RoutineExecuted(s, id) = Demo!RoutineExecuted(s, id)
  BY <1>1, <1>2 DEF Tour!RoutineExecuted, Demo!RoutineExecuted
<1>5. Tour(c)!DecisionConfirmed(s, id, v) = Demo!DecisionConfirmed(s, id, v)
  BY <1>1, <1>2 DEF Tour!DecisionConfirmed, Demo!DecisionConfirmed
<1>6. Tour(c)!ApprovalSettled(s, id, v) = Demo!ApprovalSettled(s, id, v)
  BY <1>1 DEF Tour!ApprovalSettled, Demo!ApprovalSettled
<1>7. Tour(c)!ViolationBlocked(s, id) = Demo!ViolationBlocked(s, id)
  BY <1>1, <1>2 DEF Tour!ViolationBlocked, Demo!ViolationBlocked
<1>8. Tour(c)!ReasonDecrypted(s, id) = Demo!ReasonDecrypted(s, id)
  BY <1>1, <1>2 DEF Tour!ReasonDecrypted, Demo!ReasonDecrypted
<1> QED BY <1>3, <1>4, <1>5, <1>6, <1>7, <1>8

LEMMA AuditBridge ==
    ASSUME NEW c, NEW s, NEW P, NEW R, NEW verdict
    PROVE  /\ Tour(c)!PacketsCreated(s, P, R) = Demo!PacketsCreated(s, P, R)
           /\ Tour(c)!AuditReviewed(s, P, R, verdict, TRUE) = Demo!AuditReviewed(s, P, R, verdict, TRUE)
<1>1. ASSUME NEW t PROVE Tour(c)!Normalize(t) = Demo!Normalize(t)
  BY NormalTour
<1>2. ASSUME NEW t PROVE Tour(c)!PacketsCreated(t, P, R) = Demo!PacketsCreated(t, P, R)
  BY <1>1 DEF Tour!PacketsCreated, Demo!PacketsCreated
<1>3. ASSUME NEW t PROVE Tour(c)!AuditUnlocked(t, P) = Demo!AuditUnlocked(t, P)
  BY <1>1 DEF Tour!AuditUnlocked, Demo!AuditUnlocked
<1>4. ASSUME NEW t PROVE Tour(c)!IntegrityVerified(t, TRUE) = Demo!IntegrityVerified(t, TRUE)
  BY <1>1 DEF Tour!IntegrityVerified, Demo!IntegrityVerified
<1>5. Tour(c)!AuditReviewed(s, P, R, verdict, TRUE) = Demo!AuditReviewed(s, P, R, verdict, TRUE)
  BY Zenon, <1>1, <1>2, <1>3, <1>4 DEF Tour!AuditReviewed, Demo!AuditReviewed
<1> QED BY Zenon, <1>2, <1>5

LEMMA MoveBridge ==
    ASSUME NEW c, NEW s, NEW u, NEW r, NEW step
    PROVE  /\ Tour(c)!Navigate(s, u) = Demo!Navigate(s, u)
           /\ Tour(c)!SetRole(s, r) = Demo!SetRole(s, r)
           /\ Tour(c)!TourStep(s, step, u, r) = Demo!TourStep(s, step, u, r)
           /\ Tour(c)!PauseTour(s) = Demo!PauseTour(s)
           /\ Tour(c)!ReturnToMission(s) = Demo!ReturnToMission(s)
           /\ Tour(c)!CloseTour(s) = Demo!CloseTour(s)
           /\ Tour(c)!ResumeSession(s) = Demo!ResumeSession(s)
<1>1. ASSUME NEW t PROVE Tour(c)!Normalize(t) = Demo!Normalize(t)
  BY NormalTour
<1>2. Tour(c)!NoRoute = Demo!NoRoute
  BY DEF Tour!NoRoute, Demo!NoRoute
<1>3. Tour(c)!Navigate(s, u) = Demo!Navigate(s, u)
  BY <1>1 DEF Tour!Navigate, Demo!Navigate
<1>4. Tour(c)!SetRole(s, r) = Demo!SetRole(s, r)
  BY <1>1 DEF Tour!SetRole, Demo!SetRole
<1>5. Tour(c)!TourStep(s, step, u, r) = Demo!TourStep(s, step, u, r)
  BY <1>1 DEF Tour!TourStep, Demo!TourStep
<1>6. Tour(c)!PauseTour(s) = Demo!PauseTour(s)
  BY <1>1 DEF Tour!PauseTour, Demo!PauseTour
<1>7. Tour(c)!ReturnToMission(s) = Demo!ReturnToMission(s)
  BY <1>1, <1>2 DEF Tour!ReturnToMission, Demo!ReturnToMission
<1>8. Tour(c)!CloseTour(s) = Demo!CloseTour(s)
  BY <1>1 DEF Tour!CloseTour, Demo!CloseTour
<1>9. Tour(c)!ResumeSession(s) = Demo!ResumeSession(s)
  BY <1>1, CompleteBridge DEF Tour!ResumeSession, Demo!ResumeSession
<1> QED BY <1>3, <1>4, <1>5, <1>6, <1>7, <1>8, <1>9

Payments == {"routine", "approval", "violation"}
AuditLater(s) == s.m["audit"].packets # {} => \A k \in Payments : Demo!Complete(s, k)
Grown(s, n) ==
    /\ \A k \in Keys : Demo!Complete(s, k) => Demo!Complete(n, k)
    /\ Demo!AuditCoverage(s) => Demo!AuditCoverage(n)
Advances(s, n) ==
    /\ Shape(n) /\ Kept(n, s) /\ Grown(s, n) /\ AuditLater(n)
    /\ \A k \in Payments : n.m[k].request \in 0..6
    /\ s.m["audit"].packets \subseteq n.m["audit"].packets
Loyal(s, n) == \A k \in Payments : s.m[k].request # 0 => n.m[k].request = s.m[k].request
Ready0(s) == Shape(s) /\ AuditLater(s) /\ \A k \in Payments : s.m[k].request \in 0..6

LEMMA CompleteIs ==
    ASSUME NEW s
    PROVE  /\ Demo!Complete(s, "routine") <=> s.m["routine"].request # 0 /\ s.m["routine"].outcome = "executed"
           /\ Demo!Complete(s, "approval") <=>
                /\ s.m["approval"].request # 0 /\ s.m["approval"].confirmed
                /\ \/ s.m["approval"].decision = "approve" /\ s.m["approval"].outcome = "safe-approved"
                   \/ s.m["approval"].decision = "reject" /\ s.m["approval"].outcome = "safe-rejected"
           /\ Demo!Complete(s, "violation") <=>
                s.m["violation"].request # 0 /\ s.m["violation"].outcome = "blocked" /\ s.m["violation"].reason
BY DEF Demo!Complete

LEMMA CoverageIs ==
    ASSUME NEW s
    PROVE  /\ Demo!AuditCoverage(s) <=>
                /\ s.m["audit"].packets # {}
                /\ \A k \in Payments : s.m[k].request # 0 /\ s.m[k].request \in s.m["audit"].included
           /\ Demo!Complete(s, "audit") <=>
                /\ Demo!AuditCoverage(s) /\ s.m["audit"].included \subseteq s.m["audit"].reviewed \cup s.m["audit"].flagged
                /\ s.m["audit"].unlocked /\ s.m["audit"].verified /\ s.m["audit"].outcome = "audit-reviewed"
<1>1. Demo!RequestIds(s) = {s.m[k].request : k \in Payments}
  BY DEF Demo!RequestIds, Demo!PaymentMissions, Payments
<1>2. Demo!AuditCoverage(s) <=>
                /\ s.m["audit"].packets # {}
                /\ \A k \in Payments : s.m[k].request # 0 /\ s.m[k].request \in s.m["audit"].included
  BY <1>1 DEF Demo!AuditCoverage
<1>3. Demo!Complete(s, "audit") <=>
                /\ Demo!AuditCoverage(s) /\ s.m["audit"].included \subseteq s.m["audit"].reviewed \cup s.m["audit"].flagged
                /\ s.m["audit"].unlocked /\ s.m["audit"].verified /\ s.m["audit"].outcome = "audit-reviewed"
  BY DEF Demo!Complete
<1> QED BY <1>2, <1>3

LEMMA CompleteSame ==
    ASSUME NEW s, NEW n, NEW k \in Payments, SameProgress(n.m[k], s.m[k])
    PROVE  Demo!Complete(n, k) <=> Demo!Complete(s, k)
<1>1. CASE k = "routine"
  BY <1>1, CompleteIs DEF SameProgress
<1>2. CASE k = "approval"
  BY <1>2, CompleteIs DEF SameProgress
<1>3. CASE k = "violation"
  BY <1>3, CompleteIs DEF SameProgress
<1> QED BY <1>1, <1>2, <1>3 DEF Payments

LEMMA AuditSame ==
    ASSUME NEW s, NEW n, SameProgress(n.m["audit"], s.m["audit"]),
           \A k \in Payments : n.m[k].request = s.m[k].request
    PROVE  /\ Demo!AuditCoverage(n) <=> Demo!AuditCoverage(s)
           /\ Demo!Complete(n, "audit") <=> Demo!Complete(s, "audit")
<1>1. PICK a, b : a = s.m["audit"] /\ b = n.m["audit"]
  OBVIOUS
<1>2. b.packets = a.packets /\ b.included = a.included /\ b.reviewed = a.reviewed /\ b.flagged = a.flagged
      /\ b.unlocked = a.unlocked /\ b.verified = a.verified /\ b.outcome = a.outcome
  BY <1>1 DEF SameProgress
<1>3. Demo!AuditCoverage(n) <=> Demo!AuditCoverage(s)
  BY <1>1, <1>2, CoverageIs
<1>4. Demo!Complete(n, "audit") <=> Demo!Complete(s, "audit")
  BY <1>1, <1>2, <1>3, CoverageIs
<1> QED BY <1>3, <1>4

LEMMA EvidSame ==
    ASSUME NEW s, NEW n, Evid(n, s)
    PROVE  /\ Grown(s, n) /\ (AuditLater(s) => AuditLater(n)) /\ Loyal(s, n)
           /\ n.m["audit"].packets = s.m["audit"].packets
           /\ \A k \in Payments : n.m[k].request = s.m[k].request
<1>1. \A k \in Keys : SameProgress(n.m[k], s.m[k])
  BY DEF Evid
<1>2. Payments \subseteq Keys /\ "audit" \in Keys /\ Keys = Payments \cup {"audit"}
  BY DEF Payments, Keys
<1>3. \A k \in Payments : n.m[k].request = s.m[k].request
  BY <1>1, <1>2 DEF SameProgress
<1>4. n.m["audit"].packets = s.m["audit"].packets
  BY <1>1, <1>2 DEF SameProgress
<1>5. \A k \in Payments : Demo!Complete(n, k) <=> Demo!Complete(s, k)
  BY <1>1, <1>2, CompleteSame
<1>6. /\ Demo!AuditCoverage(n) <=> Demo!AuditCoverage(s)
      /\ Demo!Complete(n, "audit") <=> Demo!Complete(s, "audit")
  BY <1>1, <1>2, <1>3, AuditSame
<1> QED BY <1>2, <1>3, <1>4, <1>5, <1>6 DEF Grown, AuditLater, Loyal

LEMMA GrownTrans == ASSUME NEW s, NEW t, NEW u, Grown(s, t), Grown(t, u) PROVE Grown(s, u)
BY DEF Grown

\* Evidence of a payment.
LEMMA PaymentAdvances ==
    ASSUME NEW s, Ready0(s), NEW k \in Payments, NEW n, n = s \/ OnlyMission(n, s, k),
           Demo!Complete(s, k) => Demo!Complete(n, k) /\ n.m[k].request = s.m[k].request,
           n.m[k].request \in 0..6
    PROVE  Advances(s, n) /\ (Loyal(s, n) <=> (s.m[k].request # 0 => n.m[k].request = s.m[k].request))
<1>1. Shape(s) /\ AuditLater(s) /\ \A j \in Payments : s.m[j].request \in 0..6
  BY DEF Ready0
<1>2. CASE n = s
  BY <1>1, <1>2 DEF Advances, Loyal, Grown, Kept
<1>3. CASE OnlyMission(n, s, k)
  <2>1. Shape(n) /\ Kept(n, s) /\ \A j \in Keys \ {k} : SameProgress(n.m[j], s.m[j])
    BY <1>3 DEF OnlyMission
  <2>2. Payments \subseteq Keys /\ "audit" \in Keys \ {k} /\ Keys = Payments \cup {"audit"}
    BY DEF Payments, Keys
  <2>3. \A j \in Payments \ {k} : n.m[j].request = s.m[j].request
    BY <2>1, <2>2 DEF SameProgress
  <2>4. SameProgress(n.m["audit"], s.m["audit"]) /\ n.m["audit"].packets = s.m["audit"].packets
    BY <2>1, <2>2 DEF SameProgress
  <2>5. \A j \in Payments \ {k} : Demo!Complete(n, j) <=> Demo!Complete(s, j)
    BY <2>1, <2>2, CompleteSame
  <2>6. \A j \in Payments : Demo!Complete(s, j) => Demo!Complete(n, j)
    BY <2>5
  <2>7. AuditLater(n)
    BY <1>1, <2>4, <2>6 DEF AuditLater
  <2>8. Demo!AuditCoverage(s) => Demo!AuditCoverage(n) /\ (Demo!Complete(s, "audit") => Demo!Complete(n, "audit"))
    <3> SUFFICES ASSUME Demo!AuditCoverage(s)
                 PROVE Demo!AuditCoverage(n) /\ (Demo!Complete(s, "audit") => Demo!Complete(n, "audit"))
      OBVIOUS
    <3>1. s.m["audit"].packets # {}
      BY CoverageIs
    <3>2. \A j \in Payments : n.m[j].request = s.m[j].request
      BY <1>1, <2>3, <3>1 DEF AuditLater
    <3> QED BY <2>4, <3>2, AuditSame
  <2>9. Grown(s, n)
    BY <2>2, <2>6, <2>8, CoverageIs DEF Grown
  <2>10. \A j \in Payments : n.m[j].request \in 0..6
    BY <1>1, <2>3
  <2>11. Loyal(s, n) <=> (s.m[k].request # 0 => n.m[k].request = s.m[k].request)
    BY <2>3 DEF Loyal
  <2> QED BY <2>1, <2>4, <2>7, <2>9, <2>10, <2>11 DEF Advances
<1> QED BY <1>2, <1>3

LEMMA BindAdvances ==
    ASSUME NEW s, Ready0(s), NEW k \in Payments, NEW id \in 1..6, NEW again
    PROVE  Advances(s, Demo!BindRequest(s, k, id, again)) /\ (~again => Loyal(s, Demo!BindRequest(s, k, id, again)))
<1>1. PICK n : n = Demo!BindRequest(s, k, id, again)
  OBVIOUS
<1>2. BoundAs(s, n, k, id, again)
  BY <1>1, BoundIs DEF Ready0, Keys, Payments
<1>3. n = s \/ OnlyMission(n, s, k)
  BY <1>2 DEF BoundAs
<1>4. Demo!Complete(s, k) => n = s
  BY <1>2 DEF BoundAs
<1>5. n.m[k].request \in 0..6
  BY <1>2 DEF BoundAs, Ready0
<1>6. ~again /\ s.m[k].request # 0 => n.m[k].request = s.m[k].request
  BY <1>2 DEF BoundAs
<1> QED BY <1>1, <1>3, <1>4, <1>5, <1>6, PaymentAdvances

LEMMA ExecuteAdvances ==
    ASSUME NEW s, Ready0(s), NEW id \in 1..6, id = s.m["routine"].request
    PROVE  Advances(s, Demo!RoutineExecuted(s, id)) /\ Loyal(s, Demo!RoutineExecuted(s, id))
<1>1. PICK n, k : n = Demo!RoutineExecuted(s, id) /\ k = "routine"
  OBVIOUS
<1>2. ExecutedAs(s, n, id)
  BY <1>1, ExecutedIs DEF Ready0
<1>3. (n = s \/ OnlyMission(n, s, k)) /\ n.m[k].request = s.m[k].request /\ k \in Payments
  BY <1>1, <1>2 DEF ExecutedAs, Payments
<1>4. Demo!Complete(s, k) => Demo!Complete(n, k)
  BY <1>1, <1>2, <1>3, CompleteIs DEF ExecutedAs
<1>5. n.m[k].request \in 0..6
  BY <1>1, <1>3
<1> QED BY <1>1, <1>3, <1>4, <1>5, PaymentAdvances

LEMMA BlockAdvances ==
    ASSUME NEW s, Ready0(s), NEW id \in 1..6, id = s.m["violation"].request
    PROVE  /\ Advances(s, Demo!ViolationBlocked(s, id)) /\ Loyal(s, Demo!ViolationBlocked(s, id))
           /\ Demo!ViolationBlocked(s, id).m["violation"].request = id
<1>1. PICK n, k : n = Demo!ViolationBlocked(s, id) /\ k = "violation"
  OBVIOUS
<1>2. BlockedAs(s, n, id)
  BY <1>1, BlockedIs DEF Ready0
<1>3. (n = s \/ OnlyMission(n, s, k)) /\ n.m[k].request = s.m[k].request /\ k \in Payments
  BY <1>1, <1>2 DEF BlockedAs, Payments
<1>4. Demo!Complete(s, k) => Demo!Complete(n, k)
  BY <1>1, <1>2, <1>3, CompleteIs DEF BlockedAs
<1>5. n.m[k].request \in 0..6
  BY <1>1, <1>3
<1> QED BY <1>1, <1>3, <1>4, <1>5, PaymentAdvances

LEMMA AdvancesReady == ASSUME NEW s, NEW n, Advances(s, n) PROVE Ready0(n)
BY DEF Advances, Ready0
LEMMA AdvancesTrans ==
    ASSUME NEW s, NEW t, NEW u, Advances(s, t), Loyal(s, t), Advances(t, u), Loyal(t, u)
    PROVE  Advances(s, u) /\ Loyal(s, u)
<1>1. Grown(s, u)
  BY GrownTrans DEF Advances
<1>2. Kept(u, s)
  BY DEF Advances, Kept
<1>3. Loyal(s, u)
  BY DEF Loyal
<1> QED BY <1>1, <1>2, <1>3 DEF Advances

LEMMA DecryptAdvances ==
    ASSUME NEW s, Ready0(s), NEW id \in 1..6, id = s.m["violation"].request
    PROVE  /\ Advances(s, Demo!ReasonDecrypted(Demo!ViolationBlocked(s, id), id))
           /\ Loyal(s, Demo!ReasonDecrypted(Demo!ViolationBlocked(s, id), id))
<1>1. PICK t, n, k : t = Demo!ViolationBlocked(s, id) /\ n = Demo!ReasonDecrypted(t, id) /\ k = "violation"
  OBVIOUS
<1>2. Advances(s, t) /\ Loyal(s, t) /\ t.m[k].request = id
  BY <1>1, BlockAdvances
<1>3. Ready0(t)
  BY <1>2, AdvancesReady
<1>4. DecryptedAs(t, n, id)
  BY <1>1, <1>3, DecryptedIs DEF Ready0
<1>5. (n = t \/ OnlyMission(n, t, k)) /\ n.m[k].request = t.m[k].request /\ k \in Payments
  BY <1>1, <1>2, <1>4 DEF DecryptedAs, Payments
<1>6. Demo!Complete(t, k) => Demo!Complete(n, k)
  <2> SUFFICES ASSUME Demo!Complete(t, k), n # t PROVE Demo!Complete(n, k)
    OBVIOUS
  <2>1. n.m[k].request = id /\ n.m[k].reason = TRUE /\ n.m[k].outcome = t.m[k].outcome
    BY <1>1, <1>4 DEF DecryptedAs
  <2>2. t.m[k].outcome = "blocked"
    BY <1>1, CompleteIs
  <2> QED BY <1>1, <2>1, <2>2, CompleteIs
<1>7. n.m[k].request \in 0..6
  BY <1>2, <1>5
<1>8. Advances(t, n) /\ Loyal(t, n)
  BY <1>3, <1>5, <1>6, <1>7, PaymentAdvances
<1> QED BY <1>1, <1>2, <1>8, AdvancesTrans

Decisions == {"approve", "reject"}
LEMMA DecideAdvances ==
    ASSUME NEW s, Ready0(s), NEW id \in 1..6, id = s.m["approval"].request, NEW d \in Decisions
    PROVE  /\ Advances(s, Demo!ApprovalSettled(Demo!DecisionConfirmed(s, id, d), id, d))
           /\ Loyal(s, Demo!ApprovalSettled(Demo!DecisionConfirmed(s, id, d), id, d))
<1>1. PICK t, n, k : t = Demo!DecisionConfirmed(s, id, d) /\ n = Demo!ApprovalSettled(t, id, d) /\ k = "approval"
  OBVIOUS
<1>2. OnlyMission(t, s, k) /\ t.m[k].request = id /\ t.m[k].decision = d /\ t.m[k].confirmed = TRUE
  <2>1. PICK a, q : a = s.m[k] /\ q = [a EXCEPT !.request = id, !.decision = d, !.confirmed = TRUE, !.status = "active"]
    BY Zenon
  <2>2. ProgressShape(a) /\ k \in Keys /\ Shape(s)
    BY <1>1, <2>1 DEF Ready0, Shape, Keys
  <2>3. ProgressShape(q) /\ q.request = id /\ q.decision = d /\ q.confirmed = TRUE
    BY <2>1, <2>2 DEF ProgressShape
  <2>4. t = Demo!Normalize(Put(s, k, q))
    BY <1>1, <2>1 DEF Demo!DecisionConfirmed, Demo!MayRecord, Put
  <2>5. OnlyMission(t, s, k) /\ SameProgress(t.m[k], q)
    BY <2>2, <2>3, <2>4, Records, RecordedMission
  <2> QED BY <2>3, <2>5 DEF SameProgress
<1>3. SettledAs(t, n, id, d)
  <2>1. Shape(t)
    BY <1>2 DEF OnlyMission
  <2> QED BY <1>1, <2>1, SettledIs
<1>4. /\ OnlyMission(n, t, k) /\ n.m[k].request = id /\ n.m[k].decision = d /\ n.m[k].confirmed = TRUE
      /\ n.m[k].outcome = IF d = "approve" THEN "safe-approved" ELSE "safe-rejected"
  BY <1>1, <1>2, <1>3 DEF SettledAs
<1>5. OnlyMission(n, s, k) /\ k \in Payments
  BY <1>1, <1>2, <1>4, OnlyMissionJoins DEF Payments
<1>6. Demo!Complete(n, k)
  BY <1>1, <1>4, CompleteIs DEF Decisions
<1>7. n.m[k].request = s.m[k].request /\ n.m[k].request \in 0..6
  BY <1>1, <1>4
<1> QED BY <1>1, <1>5, <1>6, <1>7, PaymentAdvances

LEMMA CreateAdvances ==
    ASSUME NEW s, Ready0(s), \A k \in Payments : Demo!Complete(s, k), NEW P, NEW R,
           \E r \in R : r \notin s.m["audit"].included /\ \E k \in Payments : r = s.m[k].request
    PROVE  Advances(s, Demo!PacketsCreated(s, P, R)) /\ Loyal(s, Demo!PacketsCreated(s, P, R))
<1>1. PICK n : n = Demo!PacketsCreated(s, P, R)
  OBVIOUS
<1>2. CreatedAs(s, n, P, R)
  BY <1>1, PacketsAre DEF Ready0
<1>3. /\ Shape(n) /\ Kept(n, s) /\ \A k \in Keys \ {"audit"} : SameProgress(n.m[k], s.m[k])
      /\ n.m["audit"].packets = s.m["audit"].packets \cup P
  BY <1>2 DEF CreatedAs, OnlyAudit
<1>4. Payments \subseteq Keys \ {"audit"} /\ Keys = Payments \cup {"audit"}
  BY DEF Payments, Keys
<1>5. \A k \in Payments : Demo!Complete(n, k) /\ n.m[k].request = s.m[k].request
  <2> SUFFICES ASSUME NEW k \in Payments PROVE Demo!Complete(n, k) /\ n.m[k].request = s.m[k].request
    OBVIOUS
  <2>1. SameProgress(n.m[k], s.m[k])
    BY <1>3, <1>4
  <2> QED BY <2>1, CompleteSame DEF SameProgress
<1>6. ~Demo!AuditCoverage(s) /\ ~Demo!Complete(s, "audit")
  BY CoverageIs
<1>7. Grown(s, n)
  BY <1>4, <1>5, <1>6 DEF Grown
<1> QED BY <1>1, <1>3, <1>5, <1>7 DEF Advances, Loyal, AuditLater, Ready0

LEMMA ReviewAdvances ==
    ASSUME NEW s, Ready0(s), Demo!AuditCoverage(s), ~Demo!Complete(s, "audit"), NEW P, P = s.m["audit"].packets, NEW R, NEW verdict
    PROVE  Advances(s, Demo!AuditReviewed(s, P, R, verdict, TRUE)) /\ Loyal(s, Demo!AuditReviewed(s, P, R, verdict, TRUE))
<1>1. PICK n : n = Demo!AuditReviewed(s, P, R, verdict, TRUE)
  OBVIOUS
<1>2. ReviewedAs(s, n, P, R, verdict)
  BY <1>1, ReviewedIs DEF Ready0
<1>3. /\ Shape(n) /\ Kept(n, s) /\ \A k \in Keys \ {"audit"} : SameProgress(n.m[k], s.m[k])
      /\ n.m["audit"].packets = P /\ n.m["audit"].included = s.m["audit"].included \cup R
  BY <1>2 DEF ReviewedAs, OnlyAudit
<1>4. Payments \subseteq Keys \ {"audit"} /\ Keys = Payments \cup {"audit"}
  BY DEF Payments, Keys
<1>5. \A k \in Payments : n.m[k].request = s.m[k].request
  BY <1>3, <1>4 DEF SameProgress
<1>6. \A k \in Payments : Demo!Complete(n, k) <=> Demo!Complete(s, k)
  BY <1>3, <1>4, CompleteSame
<1>7. Demo!AuditCoverage(n)
  <2>1. s.m["audit"].packets # {} /\ \A k \in Payments : s.m[k].request # 0 /\ s.m[k].request \in s.m["audit"].included
    BY CoverageIs
  <2>2. n.m["audit"].packets # {} /\ \A k \in Payments : n.m[k].request # 0 /\ n.m[k].request \in n.m["audit"].included
    BY <1>3, <1>5, <2>1
  <2> QED BY <2>2, CoverageIs
<1>8. Grown(s, n)
  BY <1>4, <1>6, <1>7 DEF Grown
<1>9. AuditLater(n)
  BY <1>3, <1>6 DEF AuditLater, Ready0
<1> QED BY Zenon, <1>1, <1>3, <1>5, <1>8, <1>9 DEF Advances, Loyal, Ready0

-----------------------------------------------------------------------------
(***************************************************************************)
(* The invariant of the drawer: what it stands on, and, where no attempt is *)
(* replaced, where the visitor is between the parts of a click.            *)
(***************************************************************************)

Roles == {"delegate", "auditor", "signer"}
GoingShape(g) == g = [parts |-> g.parts, kind |-> g.kind, step |-> g.step, route |-> g.route, role |-> g.role]

\* A session between two frames.
SessionOK(s) ==
    /\ Shape(s) /\ TourShape(s.tour) /\ s.run = 1 /\ s.role \in Roles
    /\ s.tour.step \in 0..6 /\ s.tour.role \in Roles \cup {"none"}
    /\ s.tour.active \in BOOLEAN /\ s.tour.paused \in BOOLEAN /\ (s.tour.paused => s.tour.active)
    /\ \A k \in Payments : s.m[k].request \in 0..6
    /\ AuditLater(s)
Behind(c, s, step) == \A i \in 0..(step - 1) : Tour(c)!StepDone(s, i)
PlaceOK(c) ==
    /\ role \in Roles /\ arrived \in BOOLEAN /\ arrivedAt = ses.tour.step /\ dialog \in BOOLEAN
    /\ tourMoves \in 0..tourAt[c].MaxMoves
GoingTypes ==
    /\ GoingShape(going) /\ going.parts \subseteq {"step", "role", "route"}
    /\ going.step \in 0..6 /\ going.role \in Roles \cup {"none"}
    /\ "role" \in going.parts => going.role # "none"
TourChainOK ==
    /\ bound \in 0..6 /\ tourChain \in [1..6 -> 0..6] /\ origin = [r \in 1..6 |-> origin[r]]
    /\ \A r \in 1..6 : tourChain[r] = 6 \/ origin[r] = "timeout" => r <= 3
TourBase(c) ==
    /\ SessionOK(ses) /\ PlaceOK(c) /\ GoingTypes /\ TourChainOK
    /\ Behind(c, ses, ses.tour.step)
    /\ "step" \in going.parts => Behind(c, ses, going.step)

\* With one attempt per mission.
Proper(u) == u # Demo!NoRoute /\ ~(u[1] = "payment-detail" /\ u[2] = 0)
Station(s, u) ==
    \/ u \in {<<"inbox", 0>>, <<"disclosure-builder", 0>>, <<"audit-packets", 0>>, <<"verify", 0>>}
    \/ u[1] = "payment-detail" /\ u[2] # 0 /\ \E k \in Payments : u[2] = s.m[k].request
    \/ u[1] = "audit-detail" /\ u[2] \in s.m["audit"].packets
Transit(s, u) == Station(s, u) \/ u = s.tour.route
GoingOK(c, s, u, r, g, P) ==
    /\ g.kind \in {"step", "return", "resume", "returnOnly"} /\ Proper(g.route)
    /\ "route" \notin P => u = g.route
    /\ "role" \notin P /\ g.role # "none" => r = g.role
    /\ "route" \in P => Transit(s, g.route)
    /\ "step" \in P /\ g.kind = "returnOnly" =>
          s.tour.active /\ s.tour.step \notin 1..5 /\ Station(s, g.route)
    /\ "step" \in P /\ g.kind # "returnOnly" =>
          /\ g.step \in 1..5 => Station(s, g.route) /\ g.role = Tour(c)!StepRole(g.step)
          /\ g.step \notin 1..5 /\ g.step = s.tour.step => g.route = s.tour.route \/ s.tour.route = Demo!NoRoute
    /\ "step" \notin P =>
          /\ s.tour.active /\ ~s.tour.paused
          /\ s.tour.step \in 1..5 => s.tour.route = g.route /\ g.role = Tour(c)!StepRole(s.tour.step)
RoutesOK ==
    /\ Proper(url) /\ Proper(ses.route) /\ (ses.tour.route = Demo!NoRoute \/ Proper(ses.tour.route))
    /\ ses.tour.route = Demo!NoRoute => ses.route = url
    /\ ses.tour.step \in 1..5 => Station(ses, ses.tour.route)
OneAttempt == bound <= 3 /\ \A r \in 1..6 : tourChain[r] # 6 /\ origin[r] # "timeout"
Watched ==
    /\ ses.tour.paused => strayed
    /\ arrived /\ ses.tour.active /\ ~ses.tour.paused => Transit(ses, url) \/ strayed
    /\ (going.parts # {} \/ dialog) /\ arrived => Transit(ses, url)
TourTransit(c) ==
    /\ RoutesOK /\ OneAttempt /\ Watched
    /\ going.parts # {} => GoingOK(c, ses, url, role, going, going.parts)
TourInv(c) == TourBase(c) /\ (tourAt[c].Retries = {} => TourTransit(c))

\* What a frame makes of session s at page u in role r.
Framed(c, s, u, r, reached) ==
    /\ Evid(ses', s) /\ ses'.role = s.role /\ ses'.route = (IF u = url THEN s.route ELSE u)
    /\ TourShape(ses'.tour) /\ ses'.tour.active = s.tour.active /\ ses'.tour.step = s.tour.step
    /\ ses'.tour.route = s.tour.route /\ ses'.tour.role = s.tour.role
    /\ \/ ses'.tour.paused = s.tour.paused
       \/ /\ ses'.tour.paused = TRUE /\ s.tour.active /\ ~s.tour.paused
          /\ reached /\ arrivedAt = s.tour.step /\ ~Tour(c)!InTransit(s, u)
    /\ url' = u /\ role' = r /\ arrivedAt' = s.tour.step /\ arrived' \in BOOLEAN
    /\ arrived' => /\ s.tour.active
                   /\ \/ reached /\ arrivedAt = s.tour.step
                      \/ ~s.tour.paused /\ Tour(c)!OnTarget(s, u, r)
LEMMA FrameIs ==
    ASSUME NEW c, NEW s, Shape(s), TourShape(s.tour), NEW u, NEW r, NEW reached, Tour(c)!Frame(s, u, r, reached)
    PROVE  Framed(c, s, u, r, reached)
<1>1. PICK v : v = IF u = url THEN s ELSE Demo!Navigate(s, u)
  OBVIOUS
<1>2. PICK leaves \in BOOLEAN :
        leaves <=> /\ s.tour.active /\ ~s.tour.paused /\ reached /\ arrivedAt = s.tour.step
                   /\ ~Tour(c)!OnTarget(s, u, r) /\ ~Tour(c)!InTransit(s, u)
  OBVIOUS
<1>3. /\ ses' = (IF leaves THEN Demo!PauseTour(v) ELSE v)
      /\ url' = u /\ role' = r /\ arrivedAt' = s.tour.step
      /\ arrived' \in BOOLEAN
      /\ arrived' => /\ s.tour.active
                     /\ \/ reached /\ arrivedAt = s.tour.step
                        \/ ~s.tour.paused /\ Tour(c)!OnTarget(s, u, r)
  BY <1>1, <1>2, MoveBridge DEF Tour!Frame
<1>4. /\ Shape(v) /\ Evid(v, s) /\ v.role = s.role /\ v.route = (IF u = url THEN s.route ELSE u) /\ v.tour = s.tour
  <2>1. CASE u = url
    <3>1. v = s
      BY <1>1, <2>1
    <3>2. Evid(s, s)
      BY DEF Evid, SameProgress
    <3> QED BY <2>1, <3>1, <3>2
  <2>2. CASE u # url
    <3>1. MovedAs(s, v, s.role, u, s.tour)
      BY <1>1, <2>2, NavigatedIs
    <3> QED BY <2>2, <3>1 DEF MovedAs, Evid
  <2> QED BY <2>1, <2>2
<1>5. CASE ~leaves
  BY <1>3, <1>4, <1>5 DEF Framed
<1>6. CASE leaves
  <2>1. MovedAs(v, ses', v.role, v.route, WithPaused(v.tour, TRUE))
    BY <1>3, <1>4, <1>6, PausedIs
  <2>2. Evid(ses', s)
    BY <1>4, <2>1 DEF MovedAs, Evid, SameProgress
  <2>3. PICK t, w : t = s.tour /\ w = WithPaused(t, TRUE)
    OBVIOUS
  <2>4. TourShape(w) /\ w.active = t.active /\ w.step = t.step /\ w.route = t.route /\ w.role = t.role /\ w.paused = TRUE
    BY <2>3 DEF TourShape, WithPaused
  <2>5. ses'.tour = w /\ ses'.role = s.role /\ ses'.route = (IF u = url THEN s.route ELSE u)
    BY <1>4, <2>1, <2>3 DEF MovedAs
  <2>6. /\ s.tour.active /\ ~s.tour.paused /\ reached /\ arrivedAt = s.tour.step /\ ~Tour(c)!InTransit(s, u)
    BY <1>2, <1>6
  <2> QED BY <1>3, <2>2, <2>3, <2>4, <2>5, <2>6 DEF Framed
<1> QED BY <1>5, <1>6

LEMMA DoneGrows ==
    ASSUME NEW c, NEW s, NEW n, Grown(s, n), NEW i, Tour(c)!StepDone(s, i)
    PROVE  Tour(c)!StepDone(n, i)
<1>1. CASE i \in 1..3 \cup {5}
  <2>1. Tour(c)!StepMission(i) \in Keys
    BY <1>1 DEF Tour!StepMission, Tour!MissionOrder, Keys
  <2>2. Demo!Complete(s, Tour(c)!StepMission(i))
    BY <1>1, CompleteBridge DEF Tour!StepDone
  <2>3. Demo!Complete(n, Tour(c)!StepMission(i))
    BY <2>1, <2>2 DEF Grown
  <2> QED BY <1>1, <2>3, CompleteBridge DEF Tour!StepDone
<1>2. CASE i = 4
  BY <1>2, CompleteBridge DEF Tour!StepDone, Grown
<1>3. CASE i \notin 1..5
  BY <1>3 DEF Tour!StepDone
<1> QED BY <1>1, <1>2, <1>3

LEMMA BehindGrows ==
    ASSUME NEW c, NEW s, NEW n, Grown(s, n), NEW step, Behind(c, s, step) PROVE Behind(c, n, step)
BY DoneGrows DEF Behind

LEMMA FrameBase ==
    ASSUME NEW c, NEW s, SessionOK(s), NEW u, NEW r \in Roles, NEW reached, Tour(c)!Frame(s, u, r, reached),
           Behind(c, s, s.tour.step), Grown(ses, s)
    PROVE  /\ SessionOK(ses') /\ role' \in Roles /\ arrived' \in BOOLEAN /\ arrivedAt' = ses'.tour.step
           /\ Behind(c, ses', ses'.tour.step)
           /\ \A step : Behind(c, ses, step) => Behind(c, ses', step)
<1>1. Framed(c, s, u, r, reached)
  BY FrameIs DEF SessionOK
<1>2. Evid(ses', s)
  BY <1>1 DEF Framed
<1>3. SessionOK(ses')
  <2>1. Shape(ses') /\ ses'.run = 1
    BY <1>2 DEF Evid, SessionOK
  <2>2. AuditLater(ses') /\ \A k \in Payments : ses'.m[k].request \in 0..6
    BY <1>2, EvidSame DEF SessionOK
  <2>3. /\ TourShape(ses'.tour) /\ ses'.role \in Roles
        /\ ses'.tour.step \in 0..6 /\ ses'.tour.role \in Roles \cup {"none"}
        /\ ses'.tour.active \in BOOLEAN /\ ses'.tour.paused \in BOOLEAN /\ (ses'.tour.paused => ses'.tour.active)
    BY <1>1 DEF Framed, SessionOK
  <2> QED BY <2>1, <2>2, <2>3 DEF SessionOK
<1>4. Grown(s, ses') /\ Grown(ses, ses')
  BY <1>2, EvidSame, GrownTrans
<1>5. ses'.tour.step = s.tour.step
  BY <1>1 DEF Framed
<1>6. Behind(c, ses', ses'.tour.step)
  BY <1>4, <1>5, BehindGrows
<1>7. \A step : Behind(c, ses, step) => Behind(c, ses', step)
  BY <1>4, BehindGrows
<1> QED BY <1>1, <1>3, <1>5, <1>6, <1>7 DEF Framed

LEMMA TransitIs ==
    ASSUME NEW c, NEW s, NEW u, Proper(u)
    PROVE  Tour(c)!InTransit(s, u) <=> Transit(s, u)
<1>1. /\ Tour(c)!StepMission(1) = "routine" /\ Tour(c)!StepMission(2) = "approval" /\ Tour(c)!StepMission(3) = "violation"
  BY DEF Tour!StepMission, Tour!MissionOrder
<1>2. ASSUME Tour(c)!InTransit(s, u) PROVE Transit(s, u)
  <2>1. PICK i \in 0..6 : Tour(c)!Compatible(s, i, u)
    BY <1>2 DEF Tour!InTransit, Tour!Steps
  <2>2. Tour(c)!StepRoute(i) \in {<<"inbox", 0>>, <<"disclosure-builder", 0>>, <<"audit-packets", 0>>, <<"verify", 0>>}
    BY DEF Tour!StepRoute, Tour!Inbox, Tour!Builder, Tour!PacketIndex, Tour!Verify
  <2>3. CASE u = IF s.tour.route = Tour(c)!NoRoute THEN Tour(c)!StepRoute(i) ELSE s.tour.route
    BY <2>2, <2>3 DEF Transit, Station
  <2>4. CASE i \in 1..3 /\ u = Tour(c)!Inbox
    BY <2>4 DEF Transit, Station, Tour!Inbox
  <2>5. CASE i \in 1..3 /\ u[1] = "payment-detail" /\ u[2] = s.m[Tour(c)!StepMission(i)].request
    <3>1. Tour(c)!StepMission(i) \in Payments
      BY <1>1, <2>5 DEF Payments
    <3>2. u[2] # 0
      BY <2>5 DEF Proper
    <3> QED BY <2>5, <3>1, <3>2 DEF Transit, Station
  <2>6. CASE i = 4 /\ u = Tour(c)!Builder
    BY <2>6 DEF Transit, Station, Tour!Builder
  <2>7. CASE i = 5 /\ (u = Tour(c)!PacketIndex \/ (u[1] = "audit-detail" /\ u[2] \in s.m["audit"].packets))
    BY <2>7 DEF Transit, Station, Tour!PacketIndex
  <2>8. CASE i \in {0, 6} /\ u = Tour(c)!StepRoute(i)
    BY <2>2, <2>8 DEF Transit, Station
  <2> QED BY <2>1, <2>3, <2>4, <2>5, <2>6, <2>7, <2>8 DEF Tour!Compatible
<1>3. ASSUME Transit(s, u) PROVE Tour(c)!InTransit(s, u)
  <2>1. SUFFICES \E i \in 0..6 : Tour(c)!Compatible(s, i, u)
    BY DEF Tour!InTransit, Tour!Steps
  <2>2. CASE u = <<"inbox", 0>>
    <3>1. Tour(c)!Compatible(s, 1, u)
      BY <2>2 DEF Tour!Compatible, Tour!Inbox
    <3> QED BY <3>1
  <2>3. CASE u = <<"disclosure-builder", 0>>
    <3>1. Tour(c)!Compatible(s, 4, u)
      BY <2>3 DEF Tour!Compatible, Tour!Builder
    <3> QED BY <3>1
  <2>4. CASE u = <<"audit-packets", 0>> \/ (u[1] = "audit-detail" /\ u[2] \in s.m["audit"].packets)
    <3>1. Tour(c)!Compatible(s, 5, u)
      BY <2>4 DEF Tour!Compatible, Tour!PacketIndex
    <3> QED BY <3>1
  <2>5. CASE u = <<"verify", 0>>
    <3>1. Tour(c)!Compatible(s, 6, u)
      BY <2>5 DEF Tour!Compatible, Tour!StepRoute, Tour!Verify
    <3> QED BY <3>1
  <2>6. CASE u[1] = "payment-detail" /\ \E k \in Payments : u[2] = s.m[k].request
    <3>1. PICK i \in 1..3 : u[2] = s.m[Tour(c)!StepMission(i)].request
      BY <1>1, <2>6 DEF Payments
    <3>2. Tour(c)!Compatible(s, i, u)
      BY <2>6, <3>1 DEF Tour!Compatible
    <3> QED BY <3>2
  <2>7. CASE u = s.tour.route
    <3>1. s.tour.route # Tour(c)!NoRoute
      BY <2>7 DEF Proper, Demo!NoRoute, Tour!NoRoute
    <3>2. Tour(c)!Compatible(s, 0, u)
      BY <2>7, <3>1 DEF Tour!Compatible
    <3> QED BY <3>2
  <2> QED BY <1>3, <2>2, <2>3, <2>4, <2>5, <2>6, <2>7 DEF Transit, Station
<1> QED BY <1>2, <1>3

LEMMA TargetIs ==
    ASSUME NEW c, NEW s, s.tour.step \in 0..6, NEW u, NEW r, Proper(u), Tour(c)!OnTarget(s, u, r) PROVE Transit(s, u)
<1>1. Tour(c)!InTransit(s, u)
  BY DEF Tour!OnTarget, Tour!InTransit, Tour!Steps
<1> QED BY <1>1, TransitIs

LEMMA PreparedIs ==
    ASSUME NEW c, SessionOK(ses), NEW i \in 0..6, NEW t, t \in Tour(c)!Prepared(ses, i)
    PROVE  /\ Station(ses, t[1]) /\ Proper(t[1]) /\ t[2] \in Roles \cup {"none"}
           /\ i \in 1..5 => t[2] = Tour(c)!StepRole(i)
<1>1. Tour(c)!StepMission(1) = "routine" /\ Tour(c)!StepMission(2) = "approval" /\ Tour(c)!StepMission(3) = "violation"
  BY DEF Tour!StepMission, Tour!MissionOrder
<1>2. CASE i \in 1..3
  <2>1. PICK k \in Payments : k = Tour(c)!StepMission(i)
    BY <1>1, <1>2 DEF Payments
  <2>2. t = <<Tour(c)!PaymentRoute(ses, k), "delegate">>
    BY <1>2, <2>1 DEF Tour!Prepared
  <2>3. t[1] = Tour(c)!PaymentRoute(ses, k) /\ t[2] = "delegate"
    BY <2>2
  <2>4. \/ t[1] = <<"inbox", 0>>
        \/ ses.m[k].request # 0 /\ t[1] = <<"payment-detail", ses.m[k].request>>
    BY <2>3 DEF Tour!PaymentRoute, Tour!Inbox, Tour!Detail
  <2>5. Station(ses, t[1]) /\ Proper(t[1])
    BY <2>4 DEF Station, Proper, Demo!NoRoute
  <2>6. Tour(c)!StepRole(i) = "delegate"
    BY <1>2 DEF Tour!StepRole
  <2> QED BY <2>3, <2>5, <2>6 DEF Roles
<1>3. CASE i = 5 /\ ses.m["audit"].packets # {}
  <2>1. PICK p \in ses.m["audit"].packets : t = <<<<"audit-detail", p>>, "auditor">>
    BY <1>3 DEF Tour!Prepared, Tour!PacketDetail
  <2>2. t[1] = <<"audit-detail", p>> /\ t[2] = "auditor"
    BY <2>1
  <2>3. Station(ses, t[1]) /\ Proper(t[1])
    BY <2>2 DEF Station, Proper, Demo!NoRoute
  <2>4. Tour(c)!StepRole(i) = "auditor"
    BY <1>3 DEF Tour!StepRole
  <2> QED BY <2>2, <2>3, <2>4 DEF Roles
<1>4. CASE i \notin 1..3 /\ ~(i = 5 /\ ses.m["audit"].packets # {})
  <2>1. t = <<Tour(c)!StepRoute(i), Tour(c)!StepRole(i)>>
    BY <1>4 DEF Tour!Prepared
  <2>2. t[1] = Tour(c)!StepRoute(i) /\ t[2] = Tour(c)!StepRole(i)
    BY <2>1
  <2>3. t[1] \in {<<"inbox", 0>>, <<"disclosure-builder", 0>>, <<"audit-packets", 0>>, <<"verify", 0>>}
    BY <2>2 DEF Tour!StepRoute, Tour!Inbox, Tour!Builder, Tour!PacketIndex, Tour!Verify
  <2>4. Station(ses, t[1]) /\ Proper(t[1])
    BY <2>3 DEF Station, Proper, Demo!NoRoute
  <2>5. t[2] \in Roles \cup {"none"}
    BY <2>2 DEF Tour!StepRole, Roles
  <2> QED BY <2>2, <2>4, <2>5
<1> QED BY <1>2, <1>3, <1>4

\* A frame with more evidence.
DeedDone(c) ==
    /\ \E n : Advances(ses, n) /\ Tour(c)!Frame(n, url, role, arrived) /\ (OneAttempt => Loyal(ses, n))
    /\ TourChainOK' /\ (OneAttempt => OneAttempt')
    /\ going' = going /\ dialog' = dialog /\ strayed' = strayed /\ tourMoves' = tourMoves

LEMMA OwnerIs == ASSUME NEW c, NEW r \in 1..6 PROVE Tour(c)!Owner(r) \in Payments
<1>1. (r - 1) % 3 \in 0..2
  OBVIOUS
<1>2. PICK i \in 1..3 : i = ((r - 1) % 3) + 1
  BY <1>1
<1>3. Tour(c)!Owner(r) = Tour(c)!MissionOrder[i]
  BY <1>2 DEF Tour!Owner
<1> QED BY <1>3 DEF Tour!MissionOrder, Payments

LEMMA BaseFacts ==
    ASSUME NEW c \in Tours, TourBase(c)
    PROVE  /\ SessionOK(ses) /\ PlaceOK(c) /\ GoingTypes /\ TourChainOK /\ Ready0(ses) /\ Shape(ses)
           /\ Behind(c, ses, ses.tour.step)
           /\ "step" \in going.parts => Behind(c, ses, going.step)
           /\ \A k \in Payments : ses.m[k].request \in 0..6
BY DEF TourBase, SessionOK, Ready0

LEMMA StandsStill == ASSUME NEW s, Ready0(s) PROVE Advances(s, s) /\ Loyal(s, s)
BY DEF Ready0, Advances, Loyal, Grown, Kept

LEMMA DeedBind == ASSUME NEW c \in Tours, TourBase(c), Tour(c)!Bind PROVE DeedDone(c)
<1>1. PICK k, id : k = Tour(c)!Owner(bound) /\ id = bound
  OBVIOUS
<1>2. id \in 1..6
  BY <1>1, BaseFacts DEF TourChainOK, Tour!Bind
<1>3. k \in Payments
  BY <1>1, <1>2, OwnerIs
<1>4. PICK again \in BOOLEAN : again <=> id > 3
  OBVIOUS
<1>5. PICK n : n = Demo!BindRequest(ses, k, id, again)
  OBVIOUS
<1>6. Advances(ses, n) /\ (~again => Loyal(ses, n))
  BY <1>2, <1>3, <1>5, BaseFacts, BindAdvances
<1>7. Tour(c)!Frame(n, url, role, arrived)
  <2>1. (bound > 3) = again
    BY <1>1, <1>4
  <2>2. Tour(c)!BindRequest(ses, k, id, again) = n
    BY <1>5, EvidenceBridge
  <2>3. Tour(c)!Evidence(Tour(c)!BindRequest(ses, k, id, again))
    BY <1>1, <2>1 DEF Tour!Bind
  <2> QED BY <2>2, <2>3 DEF Tour!Evidence
<1>8. /\ bound' = 0 /\ tourChain' = tourChain /\ origin' = origin
      /\ going' = going /\ dialog' = dialog /\ strayed' = strayed /\ tourMoves' = tourMoves
  BY DEF Tour!Bind, Tour!Calm
<1>9. TourChainOK' /\ (OneAttempt => OneAttempt')
  BY <1>8, BaseFacts DEF TourChainOK, OneAttempt
<1>10. OneAttempt => Loyal(ses, n)
  BY <1>1, <1>2, <1>4, <1>6 DEF OneAttempt
<1> QED BY <1>6, <1>7, <1>8, <1>9, <1>10 DEF DeedDone

LEMMA TourChainStays ==
    ASSUME TourChainOK, UNCHANGED <<bound, tourChain, origin>> PROVE TourChainOK' /\ (OneAttempt => OneAttempt')
BY DEF TourChainOK, OneAttempt

LEMMA DeedDecide == ASSUME NEW c \in Tours, TourBase(c), Tour(c)!Decide PROVE DeedDone(c)
<1>1. PICK id : id = ses.m["approval"].request
  OBVIOUS
<1>2. id \in 1..6
  BY <1>1, BaseFacts DEF Tour!Decide, Payments
<1>3. PICK d \in {"approve", "reject"}, answered \in BOOLEAN :
        /\ tourChain' = [tourChain EXCEPT ![id] = IF d = "approve" THEN 2 ELSE 5]
        /\ origin' = [origin EXCEPT ![id] = d]
        /\ Tour(c)!Evidence(IF answered THEN Tour(c)!Decided(ses, id, d) ELSE ses)
  BY <1>1 DEF Tour!Decide
<1>4. PICK n : n = IF answered THEN Demo!ApprovalSettled(Demo!DecisionConfirmed(ses, id, d), id, d) ELSE ses
  OBVIOUS
<1>5. Advances(ses, n) /\ Loyal(ses, n)
  BY <1>1, <1>2, <1>4, BaseFacts, DecideAdvances, StandsStill DEF Decisions
<1>6. Tour(c)!Frame(n, url, role, arrived)
  <2>1. Tour(c)!Decided(ses, id, d) = Demo!ApprovalSettled(Demo!DecisionConfirmed(ses, id, d), id, d)
    BY EvidenceBridge DEF Tour!Decided
  <2> QED BY <1>3, <1>4, <2>1 DEF Tour!Evidence
<1>7. /\ bound' = bound
      /\ going' = going /\ dialog' = dialog /\ strayed' = strayed /\ tourMoves' = tourMoves
  BY DEF Tour!Decide, Tour!Calm
<1>8. /\ tourChain' \in [1..6 -> 0..6] /\ origin' = [r \in 1..6 |-> origin'[r]]
      /\ tourChain'[id] # 6 /\ origin'[id] # "timeout"
      /\ \A r \in 1..6 : r # id => tourChain'[r] = tourChain[r] /\ origin'[r] = origin[r]
  <2>1. tourChain \in [1..6 -> 0..6] /\ origin = [r \in 1..6 |-> origin[r]]
    BY BaseFacts DEF TourChainOK
  <2>2. tourChain'[id] \in {2, 5} /\ tourChain' \in [1..6 -> 0..6] /\ \A r \in 1..6 : r # id => tourChain'[r] = tourChain[r]
    BY <1>2, <1>3, <2>1
  <2>3. origin'[id] = d /\ origin' = [r \in 1..6 |-> origin'[r]] /\ \A r \in 1..6 : r # id => origin'[r] = origin[r]
    BY <1>2, <1>3, <2>1
  <2> QED BY <2>2, <2>3
<1>9. TourChainOK' /\ (OneAttempt => OneAttempt')
  BY <1>7, <1>8, BaseFacts DEF TourChainOK, OneAttempt
<1> QED BY <1>5, <1>6, <1>7, <1>9 DEF DeedDone

LEMMA DeedRecover == ASSUME NEW c \in Tours, TourBase(c), Tour(c)!Recover PROVE DeedDone(c)
<1>1. PICK id, d : id = ses.m["approval"].request /\ d = origin[id]
  OBVIOUS
<1>2. id \in 1..6 /\ d \in Decisions
  BY <1>1, BaseFacts DEF Tour!Recover, Payments, Decisions
<1>3. PICK n : n = Demo!ApprovalSettled(Demo!DecisionConfirmed(ses, id, d), id, d)
  OBVIOUS
<1>4. Advances(ses, n) /\ Loyal(ses, n)
  BY <1>1, <1>2, <1>3, BaseFacts, DecideAdvances
<1>5. Tour(c)!Frame(n, url, role, arrived)
  <2>1. Tour(c)!Decided(ses, id, d) = n
    BY <1>3, EvidenceBridge DEF Tour!Decided
  <2>2. Tour(c)!Evidence(Tour(c)!Decided(ses, id, d))
    BY <1>1 DEF Tour!Recover
  <2> QED BY <2>1, <2>2 DEF Tour!Evidence
<1>6. /\ UNCHANGED <<bound, tourChain, origin>>
      /\ going' = going /\ dialog' = dialog /\ strayed' = strayed /\ tourMoves' = tourMoves
  BY DEF Tour!Recover, Tour!Calm
<1> QED BY <1>4, <1>5, <1>6, BaseFacts, TourChainStays DEF DeedDone

LEMMA DeedObserve == ASSUME NEW c \in Tours, TourBase(c), Tour(c)!Observe PROVE DeedDone(c)
<1>1. PICK a, v : a = ses.m["routine"].request /\ v = ses.m["violation"].request
  OBVIOUS
<1>2. a \in 0..6 /\ v \in 0..6
  BY <1>1, BaseFacts DEF Payments
<1>3. /\ UNCHANGED <<bound, tourChain, origin>>
      /\ going' = going /\ dialog' = dialog /\ strayed' = strayed /\ tourMoves' = tourMoves
  BY DEF Tour!Observe, Tour!Calm
<1>4. CASE a # 0 /\ Tour(c)!Evidence(Tour(c)!RoutineExecuted(ses, a))
  <2>1. PICK n : n = Demo!RoutineExecuted(ses, a)
    OBVIOUS
  <2>2. Advances(ses, n) /\ Loyal(ses, n)
    BY <1>1, <1>2, <1>4, <2>1, BaseFacts, ExecuteAdvances
  <2>3. Tour(c)!Frame(n, url, role, arrived)
    BY <1>4, <2>1, EvidenceBridge DEF Tour!Evidence
  <2> QED BY <1>3, <2>2, <2>3, BaseFacts, TourChainStays DEF DeedDone
<1>5. CASE v # 0 /\ Tour(c)!Evidence(Tour(c)!ViolationBlocked(ses, v))
  <2>1. PICK n : n = Demo!ViolationBlocked(ses, v)
    OBVIOUS
  <2>2. Advances(ses, n) /\ Loyal(ses, n)
    BY <1>1, <1>2, <1>5, <2>1, BaseFacts, BlockAdvances
  <2>3. Tour(c)!Frame(n, url, role, arrived)
    BY <1>5, <2>1, EvidenceBridge DEF Tour!Evidence
  <2> QED BY <1>3, <2>2, <2>3, BaseFacts, TourChainStays DEF DeedDone
<1> QED BY <1>1, <1>4, <1>5 DEF Tour!Observe

LEMMA DeedReason == ASSUME NEW c \in Tours, TourBase(c), Tour(c)!DecryptReason PROVE DeedDone(c)
<1>1. PICK v : v = ses.m["violation"].request
  OBVIOUS
<1>2. v \in 1..6
  BY <1>1, BaseFacts DEF Payments, Tour!DecryptReason
<1>3. /\ UNCHANGED <<bound, tourChain, origin>>
      /\ going' = going /\ dialog' = dialog /\ strayed' = strayed /\ tourMoves' = tourMoves
      /\ Tour(c)!Evidence(Tour(c)!ReasonDecrypted(Tour(c)!ViolationBlocked(ses, v), v))
  BY <1>1 DEF Tour!DecryptReason, Tour!Calm
<1>4. PICK n : n = Demo!ReasonDecrypted(Demo!ViolationBlocked(ses, v), v)
  OBVIOUS
<1>5. Advances(ses, n) /\ Loyal(ses, n)
  BY <1>1, <1>2, <1>4, BaseFacts, DecryptAdvances
<1>6. Tour(c)!ReasonDecrypted(Tour(c)!ViolationBlocked(ses, v), v) = n
  BY <1>4, EvidenceBridge
<1>7. Tour(c)!Frame(n, url, role, arrived)
  BY <1>3, <1>6 DEF Tour!Evidence
<1> QED BY <1>3, <1>5, <1>7, BaseFacts, TourChainStays DEF DeedDone

LEMMA TodoIs ==
    ASSUME NEW c
    PROVE  /\ Tour(c)!Todo \subseteq 1..3
           /\ Tour(c)!Todo = {} <=> \A k \in Payments : Demo!Complete(ses, k)
           /\ \A i \in 1..3 : i \notin Tour(c)!Todo => Tour(c)!StepDone(ses, i)
<1>1. /\ Tour(c)!MissionOrder[1] = "routine" /\ Tour(c)!MissionOrder[2] = "approval" /\ Tour(c)!MissionOrder[3] = "violation"
  BY DEF Tour!MissionOrder
<1>2. \A i \in 1..3 : i \in Tour(c)!Todo <=> ~Demo!Complete(ses, Tour(c)!MissionOrder[i])
  BY CompleteBridge DEF Tour!Todo
<1>3. ASSUME NEW i \in 1..3, i \notin Tour(c)!Todo PROVE Tour(c)!StepDone(ses, i)
  BY <1>2, <1>3, CompleteBridge DEF Tour!StepDone, Tour!StepMission
<1>4. Tour(c)!Todo \subseteq 1..3
  BY DEF Tour!Todo
<1>5. Tour(c)!Todo = {} <=> \A k \in Payments : Demo!Complete(ses, k)
  BY <1>1, <1>2, <1>4 DEF Payments
<1> QED BY <1>3, <1>4, <1>5

LEMMA DeedCreate == ASSUME NEW c \in Tours, TourBase(c), Tour(c)!CreatePackets PROVE DeedDone(c)
<1>1. PICK left : left = {r \in Demo!RequestIds(ses) : r \notin ses.m["audit"].included}
  OBVIOUS
<1>2. PICK scope \in (SUBSET left) \ {{}} : Tour(c)!Evidence(Tour(c)!PacketsCreated(ses, {10 + r : r \in scope}, scope))
  BY <1>1, CompleteBridge DEF Tour!CreatePackets
<1>3. PICK P, n : P = {10 + r : r \in scope} /\ n = Demo!PacketsCreated(ses, P, scope)
  OBVIOUS
<1>4. n = Tour(c)!PacketsCreated(ses, P, scope)
  <2>1. Tour(c)!PacketsCreated(ses, P, scope) = Demo!PacketsCreated(ses, P, scope)
    BY AuditBridge
  <2> QED BY <1>3, <2>1
<1>5. Tour(c)!Evidence(n)
  BY Zenon, <1>2, <1>3, <1>4
<1>6. \E r \in scope : r \notin ses.m["audit"].included /\ \E k \in Payments : r = ses.m[k].request
  <2>1. PICK r \in scope : r \in left
    BY <1>2
  <2>2. r \notin ses.m["audit"].included /\ r \in Demo!RequestIds(ses)
    BY <1>1, <2>1
  <2>3. \E k \in Payments : r = ses.m[k].request
    BY <2>2 DEF Demo!RequestIds, Demo!PaymentMissions, Payments
  <2> QED BY <2>2, <2>3
<1>7. \A k \in Payments : Demo!Complete(ses, k)
  BY TodoIs DEF Tour!CreatePackets
<1>8. Advances(ses, n) /\ Loyal(ses, n)
  BY <1>3, <1>6, <1>7, BaseFacts, CreateAdvances
<1>9. Tour(c)!Frame(n, url, role, arrived)
  BY Zenon, <1>5 DEF Tour!Evidence
<1>10. /\ UNCHANGED <<bound, tourChain, origin>>
      /\ going' = going /\ dialog' = dialog /\ strayed' = strayed /\ tourMoves' = tourMoves
  BY DEF Tour!CreatePackets, Tour!Calm
<1> QED BY <1>8, <1>9, <1>10, BaseFacts, TourChainStays DEF DeedDone

LEMMA DeedReview == ASSUME NEW c \in Tours, TourBase(c), Tour(c)!Review PROVE DeedDone(c)
<1>1. PICK P, R, verdict : P = ses.m["audit"].packets /\ R = ses.m["audit"].included /\ verdict = [r \in R |-> "reviewed"]
  OBVIOUS
<1>2. PICK n : n = Demo!AuditReviewed(ses, P, R, verdict, TRUE)
  OBVIOUS
<1>3. Tour(c)!Evidence(Tour(c)!AuditReviewed(ses, P, R, verdict, TRUE))
  BY <1>1 DEF Tour!Review
<1>4. Demo!AuditCoverage(ses) /\ ~Demo!Complete(ses, "audit")
  BY CompleteBridge DEF Tour!Review
<1>5. Advances(ses, n) /\ Loyal(ses, n)
  BY <1>1, <1>2, <1>4, BaseFacts, ReviewAdvances
<1>6. Tour(c)!Frame(n, url, role, arrived)
  BY <1>2, <1>3, AuditBridge DEF Tour!Evidence
<1>7. /\ UNCHANGED <<bound, tourChain, origin>>
      /\ going' = going /\ dialog' = dialog /\ strayed' = strayed /\ tourMoves' = tourMoves
  BY DEF Tour!Review, Tour!Calm
<1> QED BY <1>5, <1>6, <1>7, BaseFacts, TourChainStays DEF DeedDone

LEMMA StationSame ==
    ASSUME NEW s, NEW n, Evid(n, s), NEW u
    PROVE  /\ Station(n, u) <=> Station(s, u)
           /\ n.tour.route = s.tour.route => (Transit(n, u) <=> Transit(s, u))
<1>1. n.m["audit"].packets = s.m["audit"].packets /\ \A k \in Payments : n.m[k].request = s.m[k].request
  BY EvidSame
<1> QED BY <1>1 DEF Station, Transit

LEMMA StationGrows ==
    ASSUME NEW s, NEW n, Advances(s, n), Loyal(s, n), NEW u
    PROVE  /\ Station(s, u) => Station(n, u)
           /\ Transit(s, u) => Transit(n, u)
<1>1. /\ s.m["audit"].packets \subseteq n.m["audit"].packets /\ n.tour = s.tour
      /\ \A k \in Payments : s.m[k].request # 0 => n.m[k].request = s.m[k].request
  BY DEF Advances, Loyal, Kept
<1>2. Station(s, u) => Station(n, u)
  BY <1>1 DEF Station
<1> QED BY <1>1, <1>2 DEF Transit

\* What is left of the mission by a frame.
LEMMA FrameWatched ==
    ASSUME NEW c, NEW s, SessionOK(s), NEW u, Proper(u), NEW r, NEW reached, Framed(c, s, u, r, reached), NEW away
    PROVE  /\ (reached /\ arrivedAt = s.tour.step /\ s.tour.active => Transit(s, u)) =>
                ses'.tour.paused = s.tour.paused /\ (arrived' => Transit(ses', u))
           /\ (reached /\ arrivedAt = s.tour.step /\ s.tour.active /\ ~s.tour.paused => Transit(s, u) \/ away) =>
                /\ ses'.tour.paused => s.tour.paused \/ away
                /\ arrived' /\ ses'.tour.active /\ ~ses'.tour.paused => Transit(ses', u) \/ away
<1>1. Tour(c)!InTransit(s, u) <=> Transit(s, u)
  BY TransitIs
<1>2. Transit(ses', u) <=> Transit(s, u)
  BY StationSame DEF Framed
<1>3. Tour(c)!OnTarget(s, u, r) => Transit(s, u)
  BY TargetIs DEF SessionOK
<1>4. /\ ses'.tour.active = s.tour.active
      /\ \/ ses'.tour.paused = s.tour.paused
         \/ /\ ses'.tour.paused = TRUE /\ s.tour.active /\ ~s.tour.paused
            /\ reached /\ arrivedAt = s.tour.step /\ ~Transit(s, u)
      /\ arrived' => /\ s.tour.active
                     /\ \/ reached /\ arrivedAt = s.tour.step
                        \/ ~s.tour.paused /\ Transit(s, u)
  BY <1>1, <1>3 DEF Framed
<1>5. ASSUME reached /\ arrivedAt = s.tour.step /\ s.tour.active => Transit(s, u)
      PROVE  ses'.tour.paused = s.tour.paused /\ (arrived' => Transit(ses', u))
  BY <1>2, <1>4, <1>5
<1>6. ASSUME reached /\ arrivedAt = s.tour.step /\ s.tour.active /\ ~s.tour.paused => Transit(s, u) \/ away
      PROVE  /\ ses'.tour.paused => s.tour.paused \/ away
             /\ arrived' /\ ses'.tour.active /\ ~ses'.tour.paused => Transit(ses', u) \/ away
  BY <1>2, <1>4, <1>6
<1> QED BY <1>5, <1>6

LEMMA AdvancesSession == ASSUME NEW s, NEW n, SessionOK(s), Advances(s, n) PROVE SessionOK(n) /\ n.tour = s.tour /\ n.route = s.route
BY DEF SessionOK, Advances, Kept

LEMMA DeedBase == ASSUME NEW c \in Tours, TourBase(c), DeedDone(c) PROVE TourBase(c)'
<1>1. PICK n : Advances(ses, n) /\ Tour(c)!Frame(n, url, role, arrived)
  BY DEF DeedDone
<1>2. going' = going /\ dialog' = dialog /\ tourMoves' = tourMoves /\ TourChainOK'
  BY DEF DeedDone
<1>3. SessionOK(n) /\ n.tour = ses.tour
  BY <1>1, BaseFacts, AdvancesSession
<1>4. Grown(ses, n) /\ role \in Roles
  BY <1>1, BaseFacts DEF Advances, PlaceOK
<1>5. Behind(c, n, n.tour.step)
  BY <1>3, <1>4, BaseFacts, BehindGrows
<1>6. /\ SessionOK(ses') /\ role' \in Roles /\ arrived' \in BOOLEAN /\ arrivedAt' = ses'.tour.step
      /\ Behind(c, ses', ses'.tour.step)
      /\ \A step : Behind(c, ses, step) => Behind(c, ses', step)
  BY <1>1, <1>3, <1>4, <1>5, FrameBase
<1>7. PlaceOK(c)' /\ GoingTypes'
  BY <1>2, <1>6, BaseFacts DEF PlaceOK, GoingTypes
<1>8. "step" \in going.parts => Behind(c, ses', going.step)
  BY <1>6, BaseFacts
<1> QED BY <1>2, <1>6, <1>7, <1>8 DEF TourBase, SessionOK, Behind, AuditLater

LEMMA TransitFacts ==
    ASSUME NEW c, TourTransit(c)
    PROVE  /\ RoutesOK /\ OneAttempt /\ Watched
           /\ Proper(url) /\ Proper(ses.route) /\ (ses.tour.route = Demo!NoRoute \/ Proper(ses.tour.route))
           /\ ses.tour.route = Demo!NoRoute => ses.route = url
           /\ ses.tour.step \in 1..5 => Station(ses, ses.tour.route)
           /\ ses.tour.paused => strayed
           /\ arrived /\ ses.tour.active /\ ~ses.tour.paused => Transit(ses, url) \/ strayed
           /\ (going.parts # {} \/ dialog) /\ arrived => Transit(ses, url)
           /\ going.parts # {} => GoingOK(c, ses, url, role, going, going.parts)
BY DEF TourTransit, RoutesOK, Watched

\* The intent holds of a session with more evidence.
LEMMA GoingGrows ==
    ASSUME NEW c, NEW s, NEW n, NEW u, NEW r, NEW g, NEW P, GoingOK(c, s, u, r, g, P),
           Station(s, g.route) => Station(n, g.route), n.tour.route = s.tour.route, n.tour.step = s.tour.step,
           n.tour.active = s.tour.active, "step" \notin P => n.tour.paused = s.tour.paused
    PROVE  GoingOK(c, n, u, r, g, P)
BY DEF GoingOK, Transit

LEMMA DeedTransit == ASSUME NEW c \in Tours, TourBase(c), TourTransit(c), DeedDone(c) PROVE TourTransit(c)'
<1>1. PICK n : Advances(ses, n) /\ Tour(c)!Frame(n, url, role, arrived) /\ Loyal(ses, n)
  BY TransitFacts DEF DeedDone
<1>2. going' = going /\ dialog' = dialog /\ strayed' = strayed /\ OneAttempt'
  BY TransitFacts DEF DeedDone
<1>3. SessionOK(n) /\ n.tour = ses.tour /\ n.route = ses.route
  BY <1>1, BaseFacts, AdvancesSession
<1>4. Framed(c, n, url, role, arrived)
  BY <1>1, <1>3, FrameIs DEF SessionOK
<1>5. /\ ses'.route = ses.route /\ ses'.tour.route = ses.tour.route /\ ses'.tour.step = ses.tour.step
      /\ ses'.tour.active = ses.tour.active /\ url' = url /\ role' = role
  BY <1>3, <1>4 DEF Framed
<1>6. ASSUME NEW u PROVE (Station(ses, u) => Station(ses', u)) /\ (Transit(ses, u) => Transit(ses', u))
  BY <1>1, <1>3, <1>4, <1>5, StationGrows, StationSame DEF Framed
<1>7. RoutesOK'
  BY <1>5, <1>6, TransitFacts DEF RoutesOK, Station
<1>8. /\ (going.parts # {} \/ dialog) => ses'.tour.paused = ses.tour.paused /\ (arrived' => Transit(ses', url))
      /\ ses'.tour.paused => strayed
      /\ arrived' /\ ses'.tour.active /\ ~ses'.tour.paused => Transit(ses', url) \/ strayed
  <2>1. Transit(ses, url) => Transit(n, url)
    BY <1>1, StationGrows
  <2>2. Proper(url)
    BY TransitFacts
  <2>3. (going.parts # {} \/ dialog) => (arrived /\ arrivedAt = n.tour.step /\ n.tour.active => Transit(n, url))
    BY <2>1, TransitFacts
  <2>4. arrived /\ arrivedAt = n.tour.step /\ n.tour.active /\ ~n.tour.paused => Transit(n, url) \/ strayed
    BY <1>3, <2>1, TransitFacts
  <2>5. (going.parts # {} \/ dialog) => ses'.tour.paused = n.tour.paused /\ (arrived' => Transit(ses', url))
    BY <1>3, <1>4, <2>2, <2>3, FrameWatched
  <2>6. /\ ses'.tour.paused => n.tour.paused \/ strayed
        /\ arrived' /\ ses'.tour.active /\ ~ses'.tour.paused => Transit(ses', url) \/ strayed
    BY <1>3, <1>4, <2>2, <2>4, FrameWatched
  <2> QED BY <1>3, <2>5, <2>6, TransitFacts
<1>9. Watched'
  BY <1>2, <1>5, <1>8 DEF Watched, Transit, Station
<1>10. going.parts # {} => GoingOK(c, ses', url, role, going, going.parts)
  <2> SUFFICES ASSUME going.parts # {} PROVE GoingOK(c, ses', url, role, going, going.parts)
    OBVIOUS
  <2>1. GoingOK(c, ses, url, role, going, going.parts)
    BY TransitFacts
  <2>2. ses'.tour.paused = ses.tour.paused
    BY <1>8
  <2> QED BY <1>5, <1>6, <2>1, <2>2, GoingGrows
<1>11. (going.parts # {})' => GoingOK(c, ses, url, role, going, going.parts)'
  BY <1>2, <1>5, <1>10 DEF GoingOK, Transit, Station
<1> QED BY <1>2, <1>7, <1>9, <1>11 DEF TourTransit

\* Steps that the page does not see, and stuttering.
tourFrame == <<ses, url, role, arrived, arrivedAt, going, dialog, strayed, tourMoves>>
LEMMA UnseenBase == ASSUME NEW c \in Tours, TourBase(c), UNCHANGED tourFrame, TourChainOK' PROVE TourBase(c)'
<1>1. /\ ses' = ses /\ url' = url /\ role' = role /\ arrived' = arrived /\ arrivedAt' = arrivedAt /\ going' = going
      /\ dialog' = dialog /\ strayed' = strayed /\ tourMoves' = tourMoves
  BY DEF tourFrame
<1>2. SessionOK(ses)' /\ Behind(c, ses, ses.tour.step)' /\ ("step" \in going.parts => Behind(c, ses, going.step))'
  BY <1>1, BaseFacts DEF SessionOK, Behind, AuditLater
<1>3. PlaceOK(c)' /\ GoingTypes'
  BY <1>1, BaseFacts DEF PlaceOK, GoingTypes
<1> QED BY <1>2, <1>3 DEF TourBase
LEMMA UnseenTransit == ASSUME NEW c \in Tours, TourTransit(c), UNCHANGED tourFrame, OneAttempt' PROVE TourTransit(c)'
<1>1. /\ ses' = ses /\ url' = url /\ role' = role /\ arrived' = arrived /\ going' = going
      /\ dialog' = dialog /\ strayed' = strayed
  BY DEF tourFrame
<1>2. RoutesOK' /\ Watched'
  BY <1>1, TransitFacts DEF RoutesOK, Watched, Station, Transit
<1>3. (going.parts # {})' => GoingOK(c, ses, url, role, going, going.parts)'
  BY <1>1, TransitFacts DEF GoingOK, Transit, Station
<1> QED BY <1>2, <1>3 DEF TourTransit

LEMMA SubmitIs == ASSUME NEW c \in Tours, TourBase(c), Tour(c)!Submit
                  PROVE  UNCHANGED tourFrame /\ TourChainOK' /\ (OneAttempt => OneAttempt')
<1>1. UNCHANGED tourFrame /\ origin' = origin
  BY DEF Tour!Submit, Tour!latch, Tour!Calm, tourFrame
<1>2. PICK k, q, new :
        /\ k \in Payments /\ q = ses.m[k].request /\ new = (IF q = 0 THEN Tour(c)!Number(k) ELSE q + 3)
        /\ (q # 0 => Tour(c)!Retryable(k, q))
        /\ bound' = new /\ tourChain' = [tourChain EXCEPT ![new] = 1]
  <2>1. PICK k \in Payments : \E q \in {ses.m[k].request} : \E new \in {IF q = 0 THEN Tour(c)!Number(k) ELSE q + 3} :
          /\ (q # 0 => Tour(c)!Retryable(k, q))
          /\ bound' = new /\ tourChain' = [tourChain EXCEPT ![new] = 1]
    BY DEF Tour!Submit, Tour!PaymentMissions, Payments
  <2> QED BY <2>1
<1>3. Tour(c)!Number(k) \in 1..3
  <2>1. \E i \in 1..3 : Tour(c)!MissionOrder[i] = k
    <3>1. /\ Tour(c)!MissionOrder[1] = "routine" /\ Tour(c)!MissionOrder[2] = "approval" /\ Tour(c)!MissionOrder[3] = "violation"
      BY DEF Tour!MissionOrder
    <3> QED BY <1>2, <3>1 DEF Payments
  <2> QED BY <2>1 DEF Tour!Number
<1>4. q \in 0..6
  BY <1>2, BaseFacts
<1>5. q # 0 => q \in 1..3 /\ ~OneAttempt
  BY <1>2, <1>4, BaseFacts DEF Tour!Retryable, TourChainOK, OneAttempt
<1>6. new \in 1..6 /\ (OneAttempt => new \in 1..3)
  BY <1>2, <1>3, <1>5
<1>7. /\ tourChain' \in [1..6 -> 0..6] /\ tourChain'[new] = 1
      /\ \A r \in 1..6 : r # new => tourChain'[r] = tourChain[r]
  BY <1>2, <1>6, BaseFacts DEF TourChainOK
<1>8. TourChainOK'
  <2>1. origin' = [r \in 1..6 |-> origin'[r]] /\ bound' \in 0..6
    BY <1>1, <1>2, <1>6, BaseFacts DEF TourChainOK
  <2>2. ASSUME NEW r \in 1..6, tourChain'[r] = 6 \/ origin'[r] = "timeout" PROVE r <= 3
    BY <1>1, <1>7, <2>2, BaseFacts DEF TourChainOK
  <2> QED BY <1>7, <2>1, <2>2 DEF TourChainOK
<1>9. OneAttempt => OneAttempt'
  BY <1>1, <1>2, <1>6, <1>7 DEF OneAttempt
<1> QED BY <1>1, <1>8, <1>9

LEMMA SettleIs == ASSUME NEW c \in Tours, TourBase(c), NEW r \in 1..6, Tour(c)!Settle(r)
                  PROVE  UNCHANGED tourFrame /\ TourChainOK' /\ (tourAt[c].Retries = {} /\ OneAttempt => OneAttempt')
<1>1. UNCHANGED tourFrame /\ bound' = bound
  BY DEF Tour!Settle, Tour!latch, Tour!Calm, tourFrame
<1>2. PICK v \in 2..6 :
        /\ tourChain' = [tourChain EXCEPT ![r] = v]
        /\ v = 6 => r <= 3 /\ tourAt[c].Retries # {}
        /\ origin' = origin \/ (origin' = [origin EXCEPT ![r] = "timeout"] /\ r <= 3 /\ tourAt[c].Retries # {})
  BY DEF Tour!Settle
<1>3. /\ tourChain' \in [1..6 -> 0..6] /\ tourChain'[r] = v
      /\ \A q \in 1..6 : q # r => tourChain'[q] = tourChain[q]
  BY <1>2, BaseFacts DEF TourChainOK
<1>4. /\ origin' = [q \in 1..6 |-> origin'[q]]
      /\ \A q \in 1..6 : q # r => origin'[q] = origin[q]
      /\ origin'[r] = "timeout" => origin[r] = "timeout" \/ (r <= 3 /\ tourAt[c].Retries # {})
  BY <1>2, BaseFacts DEF TourChainOK
<1>5. TourChainOK'
  <2>1. bound' \in 0..6
    BY <1>1, BaseFacts DEF TourChainOK
  <2>2. ASSUME NEW q \in 1..6, tourChain'[q] = 6 \/ origin'[q] = "timeout" PROVE q <= 3
    BY <1>2, <1>3, <1>4, <2>2, BaseFacts DEF TourChainOK
  <2> QED BY <1>3, <1>4, <2>1, <2>2 DEF TourChainOK
<1>6. tourAt[c].Retries = {} /\ OneAttempt => OneAttempt'
  BY <1>1, <1>2, <1>3, <1>4 DEF OneAttempt
<1> QED BY <1>1, <1>5, <1>6

-----------------------------------------------------------------------------
(***************************************************************************)
(* What each click aims at, and how its parts land.                        *)
(***************************************************************************)

\* A click.
Pressing(kind, step, u, r) ==
    [parts |-> {"step"} \cup (IF r \in {"none", role} THEN {} ELSE {"role"}) \cup (IF u = url THEN {} ELSE {"route"}),
     kind |-> kind, step |-> step, route |-> u, role |-> r]
AimsBase(c, step, r) == step \in 0..6 /\ r \in Roles \cup {"none"} /\ Behind(c, ses, step)
AimsAt(c, kind, step, u, r) ==
    /\ kind \in {"step", "return", "resume", "returnOnly"} /\ Proper(u) /\ (u = url \/ Transit(ses, u))
    /\ kind = "returnOnly" => ses.tour.active /\ ses.tour.step \notin 1..5 /\ Station(ses, u)
    /\ kind # "returnOnly" =>
          /\ step \in 1..5 => Station(ses, u) /\ r = Tour(c)!StepRole(step)
          /\ step \notin 1..5 /\ step = ses.tour.step => u = ses.tour.route \/ ses.tour.route = Demo!NoRoute
Aimed(c, kind, step, u, r) ==
    going' = Pressing(kind, step, u, r) /\ AimsBase(c, step, r) /\ (TourTransit(c) => AimsAt(c, kind, step, u, r))
PressDone(c) ==
    /\ \E kind, step, u, r : Aimed(c, kind, step, u, r)
    /\ ses' = ses /\ url' = url /\ role' = role /\ arrivedAt' = arrivedAt /\ strayed' = strayed
    /\ UNCHANGED <<bound, tourChain, origin>>
    /\ arrived' \in BOOLEAN /\ (arrived' => arrived) /\ dialog' \in BOOLEAN
    /\ tourMoves' \in 0..tourAt[c].MaxMoves
    /\ TourTransit(c) /\ arrived' => Transit(ses, url)

LEMMA PressIs ==
    ASSUME NEW c, NEW kind, NEW step, NEW t, Tour(c)!Press(kind, step, t)
    PROVE  going' = Pressing(kind, step, t[1], t[2])
BY DEF Tour!Press, Pressing

LEMMA AimDrawer ==
    ASSUME NEW c, SessionOK(ses), NEW kind \in {"step", "return"}, NEW step \in 0..6, NEW t, t \in Tour(c)!Prepared(ses, step),
           Behind(c, ses, step), step \in 1..5 \/ step # ses.tour.step
    PROVE  AimsBase(c, step, t[2]) /\ AimsAt(c, kind, step, t[1], t[2])
<1>1. /\ Station(ses, t[1]) /\ Proper(t[1]) /\ t[2] \in Roles \cup {"none"}
      /\ step \in 1..5 => t[2] = Tour(c)!StepRole(step)
  BY PreparedIs
<1> QED BY <1>1 DEF AimsBase, AimsAt, Transit

LEMMA DrawerFrame ==
    ASSUME NEW c \in Tours, TourBase(c), Tour(c)!FromDrawer
    PROVE  /\ ses' = ses /\ url' = url /\ role' = role /\ arrivedAt' = arrivedAt /\ strayed' = strayed
           /\ UNCHANGED <<bound, tourChain, origin>> /\ arrived' = FALSE /\ dialog' \in BOOLEAN
           /\ tourMoves' \in 0..tourAt[c].MaxMoves
BY BaseFacts DEF PlaceOK, Tour!FromDrawer

LEMMA PressNext == ASSUME NEW c \in Tours, TourBase(c), Tour(c)!DrawerNext PROVE PressDone(c)
<1>1. PICK step, t : /\ step = ses.tour.step + 1 /\ t \in Tour(c)!Prepared(ses, step) /\ Tour(c)!Press("step", step, t)
  BY DEF Tour!DrawerNext
<1>2. step \in 0..6 /\ step # ses.tour.step /\ ses.tour.step \in 0..6
  BY <1>1, BaseFacts DEF Tour!DrawerNext, SessionOK
<1>3. Behind(c, ses, step)
  BY <1>1, <1>2, BaseFacts DEF Behind, Tour!DrawerNext, Tour!Gated
<1>4. Aimed(c, "step", step, t[1], t[2])
  BY <1>1, <1>2, <1>3, PressIs, AimDrawer, BaseFacts DEF Aimed
<1>5. Tour(c)!FromDrawer
  BY DEF Tour!DrawerNext
<1> QED BY <1>4, <1>5, DrawerFrame DEF PressDone

LEMMA PressPrepare == ASSUME NEW c \in Tours, TourBase(c), Tour(c)!Prepare PROVE PressDone(c)
<1>1. PICK step, t : /\ step = ses.tour.step /\ t \in Tour(c)!Prepared(ses, step) /\ Tour(c)!Press("step", step, t)
  BY DEF Tour!Prepare
<1>2. step \in 1..5
  BY <1>1, BaseFacts DEF Tour!Prepare, Tour!Gated, Tour!StepDone, SessionOK
<1>3. Behind(c, ses, step)
  BY <1>1, BaseFacts
<1>4. Aimed(c, "step", step, t[1], t[2])
  BY <1>1, <1>2, <1>3, PressIs, AimDrawer, BaseFacts DEF Aimed
<1>5. Tour(c)!FromDrawer
  BY DEF Tour!Prepare
<1> QED BY <1>4, <1>5, DrawerFrame DEF PressDone

LEMMA PressReturn == ASSUME NEW c \in Tours, TourBase(c), Tour(c)!Return PROVE PressDone(c)
<1>1. PICK step, t, kind :
        /\ step = ses.tour.step /\ t \in Tour(c)!Prepared(ses, step) /\ Tour(c)!Press(kind, step, t)
        /\ kind = IF step \in 1..5 THEN "return" ELSE "returnOnly"
  BY DEF Tour!Return
<1>2. step \in 0..6 /\ Behind(c, ses, step) /\ ses.tour.active
  BY <1>1, BaseFacts DEF SessionOK, Tour!Return
<1>3. Aimed(c, kind, step, t[1], t[2])
  <2>1. CASE step \in 1..5
    BY <1>1, <1>2, <2>1, PressIs, AimDrawer, BaseFacts DEF Aimed
  <2>2. CASE step \notin 1..5
    <3>1. Station(ses, t[1]) /\ Proper(t[1]) /\ t[2] \in Roles \cup {"none"}
      BY <1>1, <1>2, PreparedIs, BaseFacts
    <3>2. kind = "returnOnly"
      BY <1>1, <2>2
    <3>3. AimsBase(c, step, t[2]) /\ AimsAt(c, kind, step, t[1], t[2])
      BY <1>1, <1>2, <2>2, <3>1, <3>2 DEF AimsBase, AimsAt, Transit
    <3> QED BY <1>1, <3>3, PressIs DEF Aimed
  <2> QED BY <2>1, <2>2
<1>4. Tour(c)!FromDrawer
  BY DEF Tour!Return
<1> QED BY <1>3, <1>4, DrawerFrame DEF PressDone

LEMMA PressBack == ASSUME NEW c \in Tours, TourBase(c), Tour(c)!Back PROVE PressDone(c)
<1>1. PICK step, t : /\ step = ses.tour.step - 1 /\ t \in Tour(c)!Prepared(ses, step) /\ Tour(c)!Press("step", step, t)
  BY DEF Tour!Back
<1>2. step \in 0..6 /\ step # ses.tour.step /\ ses.tour.step \in 0..6
  BY <1>1, BaseFacts DEF Tour!Back, SessionOK
<1>3. Behind(c, ses, step)
  BY <1>1, <1>2, BaseFacts DEF Behind
<1>4. Aimed(c, "step", step, t[1], t[2])
  BY <1>1, <1>2, <1>3, PressIs, AimDrawer, BaseFacts DEF Aimed
<1>5. /\ ses' = ses /\ url' = url /\ role' = role /\ arrivedAt' = arrivedAt /\ strayed' = strayed
      /\ UNCHANGED <<bound, tourChain, origin>> /\ arrived' = FALSE /\ dialog' = dialog
      /\ tourMoves' = tourMoves + 1 /\ tourMoves < tourAt[c].MaxMoves
  BY DEF Tour!Back, Tour!Move
<1>6. tourMoves' \in 0..tourAt[c].MaxMoves /\ dialog' \in BOOLEAN
  BY <1>5, BaseFacts, BrowserConstants DEF PlaceOK, Tour!TourAssumption
<1> QED BY <1>4, <1>5, <1>6 DEF PressDone

LEMMA PageFrame ==
    ASSUME NEW c \in Tours, TourBase(c), Tour(c)!FromPage, Station(ses, url)
    PROVE  /\ ses' = ses /\ url' = url /\ role' = role /\ arrivedAt' = arrivedAt /\ strayed' = strayed
           /\ UNCHANGED <<bound, tourChain, origin>>
           /\ arrived' \in BOOLEAN /\ (arrived' => arrived) /\ dialog' \in BOOLEAN
           /\ tourMoves' \in 0..tourAt[c].MaxMoves
           /\ TourTransit(c) /\ arrived' => Transit(ses, url)
BY BaseFacts DEF PlaceOK, Tour!FromPage, Tour!latch, Transit

LEMMA PressContinue == ASSUME NEW c \in Tours, TourBase(c), Tour(c)!Continue PROVE PressDone(c)
<1>1. PICK i : i = Tour(c)!NextStep
  OBVIOUS
<1>2. i = Tour(c)!NextStep /\ Tour(c)!Press("step", i, <<Tour(c)!StepRoute(i), "delegate">>)
  BY <1>1 DEF Tour!Continue
<1>3. i \in 1..4 /\ \A j \in 1..3 : j < i => j \notin Tour(c)!Todo
  <2>1. CASE Tour(c)!Todo = {}
    BY <1>2, <2>1 DEF Tour!NextStep
  <2>2. CASE Tour(c)!Todo # {}
    <3>1. \E m \in Tour(c)!Todo : \A j \in Tour(c)!Todo : m <= j
      <4>1. CASE 1 \in Tour(c)!Todo
        BY <4>1, TodoIs
      <4>2. CASE 1 \notin Tour(c)!Todo /\ 2 \in Tour(c)!Todo
        BY <4>2, TodoIs
      <4>3. CASE 1 \notin Tour(c)!Todo /\ 2 \notin Tour(c)!Todo
        BY <2>2, <4>3, TodoIs
      <4> QED BY <4>1, <4>2, <4>3
    <3>2. i \in Tour(c)!Todo /\ \A j \in Tour(c)!Todo : i <= j
      BY <1>2, <2>2, <3>1 DEF Tour!NextStep
    <3> QED BY <3>2, TodoIs
  <2> QED BY <2>1, <2>2
<1>4. Behind(c, ses, i)
  <2>1. Tour(c)!StepDone(ses, 0)
    BY DEF Tour!StepDone
  <2>2. \A j \in 1..3 : j < i => Tour(c)!StepDone(ses, j)
    BY <1>3, TodoIs
  <2> QED BY <1>3, <2>1, <2>2 DEF Behind
<1>5. PICK t : t = <<Tour(c)!StepRoute(i), "delegate">>
  OBVIOUS
<1>6. t[1] = Tour(c)!StepRoute(i) /\ t[2] = "delegate" /\ Tour(c)!Press("step", i, t)
  BY <1>2, <1>5
<1>7. t[1] \in {<<"inbox", 0>>, <<"disclosure-builder", 0>>} /\ Tour(c)!StepRole(i) = "delegate"
  BY <1>3, <1>6 DEF Tour!StepRoute, Tour!StepRole, Tour!Inbox, Tour!Builder
<1>8. Station(ses, t[1]) /\ Proper(t[1])
  BY <1>7 DEF Station, Proper, Demo!NoRoute
<1>9. AimsBase(c, i, t[2]) /\ AimsAt(c, "step", i, t[1], t[2])
  BY <1>3, <1>4, <1>6, <1>7, <1>8 DEF AimsBase, AimsAt, Transit, Roles
<1>10. Aimed(c, "step", i, t[1], t[2])
  BY <1>6, <1>9, PressIs DEF Aimed
<1>11. Tour(c)!FromPage /\ Station(ses, url)
  BY DEF Tour!Continue, Station, Tour!Inbox
<1> QED BY <1>10, <1>11, PageFrame DEF PressDone

LEMMA PressAudit == ASSUME NEW c \in Tours, TourBase(c), Tour(c)!OpenAudit PROVE PressDone(c)
<1>1. PICK p \in ses.m["audit"].packets : Tour(c)!Press("step", 5, <<<<"audit-detail", p>>, "auditor">>)
  BY DEF Tour!OpenAudit, Tour!PacketDetail
<1>2. PICK t : t = <<<<"audit-detail", p>>, "auditor">>
  OBVIOUS
<1>3. t[1] = <<"audit-detail", p>> /\ t[2] = "auditor" /\ Tour(c)!Press("step", 5, t)
  BY <1>1, <1>2
<1>4. Behind(c, ses, 5)
  <2>1. Demo!AuditCoverage(ses) /\ Tour(c)!StepDone(ses, 4)
    BY CompleteBridge DEF Tour!OpenAudit, Tour!StepDone
  <2>2. \A k \in Payments : Demo!Complete(ses, k)
    BY <1>1, BaseFacts DEF SessionOK, AuditLater
  <2>3. \A i \in 1..3 : Tour(c)!StepDone(ses, i)
    BY <2>2, TodoIs
  <2>4. Tour(c)!StepDone(ses, 0)
    BY DEF Tour!StepDone
  <2> QED BY <2>1, <2>3, <2>4 DEF Behind
<1>5. Station(ses, t[1]) /\ Proper(t[1]) /\ Tour(c)!StepRole(5) = "auditor"
  BY <1>3 DEF Station, Proper, Demo!NoRoute, Tour!StepRole
<1>6. AimsBase(c, 5, t[2]) /\ AimsAt(c, "step", 5, t[1], t[2])
  BY <1>3, <1>4, <1>5 DEF AimsBase, AimsAt, Transit, Roles
<1>7. Aimed(c, "step", 5, t[1], t[2])
  BY <1>3, <1>6, PressIs DEF Aimed
<1>8. Tour(c)!FromPage /\ Station(ses, url)
  BY DEF Tour!OpenAudit, Station, Tour!Builder
<1> QED BY <1>7, <1>8, PageFrame DEF PressDone

LEMMA PressResume == ASSUME NEW c \in Tours, TourBase(c), Tour(c)!Resume PROVE PressDone(c)
<1>1. PICK step, t, u, r :
        /\ step = ses.tour.step /\ t \in Tour(c)!Prepared(ses, step)
        /\ u = (CASE step \in 1..5 -> t[1]
                  [] ~(step \in 1..5) /\ ses.tour.route # Tour(c)!NoRoute -> ses.tour.route
                  [] OTHER -> ses.route)
        /\ r = (IF step \in 1..5 THEN t[2] ELSE IF ses.tour.role = "none" THEN ses.role ELSE ses.tour.role)
        /\ Tour(c)!Press("resume", step, <<u, r>>)
  BY DEF Tour!Resume
<1>2. step \in 0..6 /\ Behind(c, ses, step)
  BY <1>1, BaseFacts DEF SessionOK
<1>3. /\ Station(ses, t[1]) /\ Proper(t[1]) /\ t[2] \in Roles \cup {"none"}
      /\ step \in 1..5 => t[2] = Tour(c)!StepRole(step)
  BY <1>1, <1>2, PreparedIs, BaseFacts
<1>4. r \in Roles \cup {"none"}
  BY <1>1, <1>3, BaseFacts DEF SessionOK
<1>5. TourTransit(c) => AimsAt(c, "resume", step, u, r)
  <2> SUFFICES ASSUME TourTransit(c) PROVE AimsAt(c, "resume", step, u, r)
    OBVIOUS
  <2>1. CASE step \in 1..5
    <3>1. u = t[1] /\ r = t[2]
      BY <1>1, <2>1
    <3> QED BY <1>3, <2>1, <3>1 DEF AimsAt, Transit
  <2>2. CASE step \notin 1..5 /\ ses.tour.route # Demo!NoRoute
    <3>1. u = ses.tour.route
      BY <1>1, <2>2 DEF Tour!NoRoute, Demo!NoRoute
    <3> QED BY <2>2, <3>1, TransitFacts DEF AimsAt, Transit
  <2>3. CASE step \notin 1..5 /\ ses.tour.route = Demo!NoRoute
    <3>1. u = ses.route
      BY <1>1, <2>3 DEF Tour!NoRoute, Demo!NoRoute
    <3> QED BY <2>3, <3>1, TransitFacts DEF AimsAt
  <2> QED BY <2>1, <2>2, <2>3
<1>6. PICK a : a = <<u, r>>
  OBVIOUS
<1>7. a[1] = u /\ a[2] = r /\ Tour(c)!Press("resume", step, a)
  BY <1>1, <1>6
<1>8. Aimed(c, "resume", step, u, r)
  BY <1>2, <1>4, <1>5, <1>7, PressIs DEF Aimed, AimsBase
<1>9. /\ dialog /\ dialog' = FALSE
      /\ ses' = ses /\ url' = url /\ role' = role /\ arrivedAt' = arrivedAt /\ arrived' = arrived /\ strayed' = strayed
      /\ UNCHANGED <<bound, tourChain, origin>> /\ tourMoves' = tourMoves
  BY DEF Tour!Resume, Tour!latch
<1>10. TourTransit(c) /\ arrived' => Transit(ses, url)
  BY <1>9, TransitFacts
<1> QED BY <1>8, <1>9, <1>10, BaseFacts DEF PressDone, PlaceOK

LEMMA PressBase == ASSUME NEW c \in Tours, TourBase(c), PressDone(c) PROVE TourBase(c)'
<1>1. PICK kind, step, u, r : Aimed(c, kind, step, u, r)
  BY DEF PressDone
<1>2. /\ ses' = ses /\ url' = url /\ role' = role /\ arrivedAt' = arrivedAt
      /\ UNCHANGED <<bound, tourChain, origin>>
      /\ arrived' \in BOOLEAN /\ dialog' \in BOOLEAN
      /\ tourMoves' \in 0..tourAt[c].MaxMoves
  BY DEF PressDone
<1>3. step \in 0..6 /\ r \in Roles \cup {"none"} /\ Behind(c, ses, step)
  BY <1>1 DEF Aimed, AimsBase
<1>4. /\ GoingShape(going') /\ going'.parts \subseteq {"step", "role", "route"} /\ going'.step = step /\ going'.role = r
      /\ "role" \in going'.parts => r # "none"
  <2>1. PICK g, P : g = Pressing(kind, step, u, r) /\ g = going'
                    /\ P = {"step"} \cup (IF r \in {"none", role} THEN {} ELSE {"role"}) \cup (IF u = url THEN {} ELSE {"route"})
    BY <1>1 DEF Aimed
  <2>2. g = [parts |-> P, kind |-> kind, step |-> step, route |-> u, role |-> r]
    BY <2>1 DEF Pressing
  <2>3. GoingShape(g) /\ g.parts = P /\ g.step = step /\ g.role = r
    BY <2>2 DEF GoingShape
  <2>4. P \subseteq {"step", "role", "route"} /\ ("role" \in P => r # "none")
    BY <2>1
  <2> QED BY <2>1, <2>3, <2>4
<1>5. GoingTypes'
  BY <1>3, <1>4 DEF GoingTypes
<1>6. TourChainOK'
  BY <1>2, BaseFacts, TourChainStays
<1>7. PlaceOK(c)'
  BY <1>2, BaseFacts DEF PlaceOK
<1>8. SessionOK(ses)' /\ Behind(c, ses, ses.tour.step)'
  BY <1>2, BaseFacts DEF SessionOK, Behind, AuditLater
<1>9. Behind(c, ses, going.step)'
  BY <1>2, <1>3, <1>4 DEF Behind
<1> QED BY <1>5, <1>6, <1>7, <1>8, <1>9 DEF TourBase

LEMMA PressTransit == ASSUME NEW c \in Tours, TourBase(c), TourTransit(c), PressDone(c) PROVE TourTransit(c)'
<1>1. PICK kind, step, u, r : going' = Pressing(kind, step, u, r) /\ AimsAt(c, kind, step, u, r)
  BY DEF PressDone, Aimed
<1>2. /\ ses' = ses /\ url' = url /\ role' = role /\ strayed' = strayed
      /\ UNCHANGED <<bound, tourChain, origin>>
      /\ arrived' => arrived /\ Transit(ses, url)
  BY DEF PressDone
<1>3. RoutesOK' /\ OneAttempt' /\ Watched'
  <2>1. RoutesOK'
    BY <1>2, TransitFacts DEF RoutesOK, Station
  <2>2. OneAttempt'
    BY <1>2, TransitFacts DEF OneAttempt
  <2>3. Watched'
    BY <1>2, TransitFacts DEF Watched, Transit, Station
  <2> QED BY <2>1, <2>2, <2>3
<1>4. PICK g, P : /\ g = going' /\ P = {"step"} \cup (IF r \in {"none", role} THEN {} ELSE {"role"}) \cup (IF u = url THEN {} ELSE {"route"})
                  /\ g = [parts |-> P, kind |-> kind, step |-> step, route |-> u, role |-> r]
  BY <1>1 DEF Pressing
<1>5. g.parts = P /\ g.kind = kind /\ g.step = step /\ g.route = u /\ g.role = r
  BY <1>4
<1>6. /\ "step" \in P /\ ("route" \notin P => u = url) /\ ("role" \notin P /\ r # "none" => r = role)
      /\ ("route" \in P => u # url)
  BY <1>4
<1>7. GoingOK(c, ses, url, role, g, P)
  BY <1>1, <1>5, <1>6 DEF GoingOK, AimsAt
<1>8. GoingOK(c, ses, url, role, going, going.parts)'
  BY <1>2, <1>4, <1>5, <1>7 DEF GoingOK, Transit, Station
<1> QED BY <1>3, <1>8 DEF TourTransit

\* A session whose tour, role or route moved.
TourFine(tour) ==
    /\ TourShape(tour) /\ tour.step \in 0..6 /\ tour.role \in Roles \cup {"none"}
    /\ tour.active \in BOOLEAN /\ tour.paused \in BOOLEAN /\ (tour.paused => tour.active)
LEMMA MovedOK ==
    ASSUME NEW s, NEW n, NEW r, NEW u, NEW tour, MovedAs(s, n, r, u, tour), SessionOK(s), r \in Roles, TourFine(tour)
    PROVE  SessionOK(n) /\ Evid(n, s) /\ n.role = r /\ n.route = u /\ n.tour = tour
<1>1. Evid(n, s) /\ n.role = r /\ n.route = u /\ n.tour = tour
  BY DEF MovedAs
<1>2. AuditLater(n) /\ \A k \in Payments : n.m[k].request \in 0..6
  BY <1>1, EvidSame DEF SessionOK
<1>3. Shape(n) /\ n.run = 1
  BY <1>1 DEF Evid, SessionOK
<1> QED BY <1>1, <1>2, <1>3 DEF SessionOK, TourFine

LEMMA EvidTrans == ASSUME NEW a, NEW b, NEW d, Evid(b, a), Evid(d, b) PROVE Evid(d, a)
BY DEF Evid, SameProgress

LEMMA EvidSelf == ASSUME NEW s, SessionOK(s) PROVE Evid(s, s)
BY DEF Evid, SameProgress, SessionOK

LEMMA MoveBase ==
    ASSUME NEW c \in Tours, TourBase(c), NEW s, SessionOK(s), Evid(s, ses), Behind(c, ses, s.tour.step),
           NEW u, NEW r \in Roles, NEW reached, Tour(c)!Frame(s, u, r, reached),
           GoingTypes', dialog' \in BOOLEAN, tourMoves' \in 0..tourAt[c].MaxMoves, UNCHANGED <<bound, tourChain, origin>>,
           "step" \in going'.parts => Behind(c, ses, going'.step)
    PROVE  TourBase(c)'
<1>1. Grown(ses, s)
  BY EvidSame
<1>2. Behind(c, s, s.tour.step)
  BY <1>1, BehindGrows
<1>3. /\ SessionOK(ses') /\ role' \in Roles /\ arrived' \in BOOLEAN /\ arrivedAt' = ses'.tour.step
      /\ Behind(c, ses', ses'.tour.step)
      /\ \A step : Behind(c, ses, step) => Behind(c, ses', step)
  BY <1>1, <1>2, FrameBase
<1>4. TourChainOK'
  BY BaseFacts, TourChainStays
<1>5. PlaceOK(c)'
  BY <1>3 DEF PlaceOK
<1>6. SessionOK(ses)' /\ Behind(c, ses, ses.tour.step)' /\ ("step" \in going.parts => Behind(c, ses, going.step))'
  BY <1>3 DEF SessionOK, Behind, AuditLater
<1> QED BY <1>4, <1>5, <1>6 DEF TourBase

LEMMA MoveTransit ==
    ASSUME NEW c, TourTransit(c), NEW s, SessionOK(s), NEW u, Proper(u), NEW r, NEW reached,
           Framed(c, s, u, r, reached), Proper(s.route), s.tour.route = Demo!NoRoute \/ Proper(s.tour.route),
           s.tour.route = Demo!NoRoute /\ u = url => s.route = u,
           s.tour.step \in 1..5 => Station(s, s.tour.route),
           UNCHANGED <<bound, tourChain, origin>>, s.tour.paused => strayed',
           reached /\ arrivedAt = s.tour.step /\ s.tour.active /\ ~s.tour.paused => Transit(s, u) \/ strayed',
           going'.parts # {} \/ dialog' => (reached /\ arrivedAt = s.tour.step /\ s.tour.active => Transit(s, u)),
           going'.parts # {} => GoingOK(c, ses', url', role', going', going'.parts)
    PROVE  TourTransit(c)'
<1>1. PICK away : away = strayed'
  OBVIOUS
<1>2. /\ ses'.tour.paused => s.tour.paused \/ away
      /\ arrived' /\ ses'.tour.active /\ ~ses'.tour.paused => Transit(ses', u) \/ away
  BY <1>1, FrameWatched
<1>3. going'.parts # {} \/ dialog' => (arrived' => Transit(ses', u))
  BY FrameWatched
<1>4. /\ url' = u /\ ses'.tour.route = s.tour.route /\ ses'.tour.step = s.tour.step
      /\ ses'.route = IF u = url THEN s.route ELSE u
  BY DEF Framed
<1>5. \A v : Station(s, v) => Station(ses', v)
  BY StationSame DEF Framed
<1>6. RoutesOK'
  BY <1>4, <1>5 DEF RoutesOK, Station
<1>7. OneAttempt'
  BY TransitFacts DEF OneAttempt
<1>8. Watched'
  BY <1>1, <1>2, <1>3, <1>4 DEF Watched, Transit, Station
<1>9. (going.parts # {})' => GoingOK(c, ses, url, role, going, going.parts)'
  BY DEF GoingOK, Transit, Station
<1> QED BY <1>6, <1>7, <1>8, <1>9 DEF TourTransit

----
\* The visitor's own moves, and the launch of the drawer.
LEMMA BaseSession ==
    ASSUME NEW c \in Tours, TourBase(c)
    PROVE  /\ SessionOK(ses) /\ Shape(ses) /\ TourShape(ses.tour) /\ ses.role \in Roles /\ ses.tour.step \in 0..6
           /\ ses.tour.role \in Roles \cup {"none"} /\ ses.tour.active \in BOOLEAN /\ ses.tour.paused \in BOOLEAN
           /\ (ses.tour.paused => ses.tour.active) /\ Evid(ses, ses)
           /\ role \in Roles /\ arrivedAt = ses.tour.step /\ GoingTypes /\ dialog \in BOOLEAN
           /\ tourMoves \in 0..tourAt[c].MaxMoves /\ tourAt[c].MaxMoves \in Nat
           /\ Behind(c, ses, ses.tour.step) /\ ("step" \in going.parts => Behind(c, ses, going.step))
BY BaseFacts, EvidSelf, BrowserConstants DEF SessionOK, PlaceOK, Tour!TourAssumption

LEMMA MoveCounts ==
    ASSUME NEW c \in Tours, TourBase(c), Tour(c)!Move PROVE tourMoves' \in 0..tourAt[c].MaxMoves
BY BaseSession DEF Tour!Move

LEMMA GoingStill == ASSUME GoingTypes, going' = going PROVE GoingTypes'
BY DEF GoingTypes
LEMMA GoingIdle == ASSUME NEW c, going' = Tour(c)!Idle PROVE GoingTypes' /\ going'.parts = {}
<1>1. PICK g : g = Tour(c)!Idle
  OBVIOUS
<1>2. GoingShape(g) /\ g.parts = {} /\ g.step = 0 /\ g.role = "none"
  BY <1>1 DEF Tour!Idle, GoingShape
<1> QED BY <1>1, <1>2 DEF GoingTypes

LEMMA GoToKeeps ==
    ASSUME NEW c \in Tours, TourBase(c), Tour(c)!GoTo PROVE TourBase(c)' /\ (TourTransit(c) => TourTransit(c)')
<1>1. PICK u : /\ u \in {<<"inbox", 0>>, <<"disclosure-builder", 0>>, <<"audit-packets", 0>>, <<"verify", 0>>, <<"policies", 0>>}
                        \cup Tour(c)!Details
               /\ u # url /\ Tour(c)!Frame(ses, u, role, arrived)
               /\ strayed' = (strayed \/ ~Tour(c)!InTransit(ses, u))
  BY DEF Tour!GoTo, Tour!Inbox, Tour!Builder, Tour!PacketIndex, Tour!Verify, Tour!Outside
<1>2. going.parts = {} /\ ~dialog /\ going' = going /\ dialog' = dialog /\ UNCHANGED <<bound, tourChain, origin>> /\ Tour(c)!Move
  BY DEF Tour!GoTo, Tour!Quiet
<1>3. Proper(u)
  <2>1. CASE u \in {<<"inbox", 0>>, <<"disclosure-builder", 0>>, <<"audit-packets", 0>>, <<"verify", 0>>, <<"policies", 0>>}
    BY <2>1 DEF Proper, Demo!NoRoute
  <2>2. CASE u \in Tour(c)!Details
    <3>1. PICK id : id # 0 /\ u = <<"payment-detail", id>>
      BY <2>2 DEF Tour!Details, Tour!Detail
    <3> QED BY <3>1 DEF Proper, Demo!NoRoute
  <2> QED BY <1>1, <2>1, <2>2
<1>4. TourBase(c)'
  BY <1>1, <1>2, BaseSession, MoveBase, MoveCounts, GoingStill
<1>5. ASSUME TourTransit(c) PROVE TourTransit(c)'
  <2>1. Framed(c, ses, u, role, arrived)
    BY <1>1, BaseSession, FrameIs
  <2>2. strayed' <=> strayed \/ ~Transit(ses, u)
    BY <1>1, <1>3, TransitIs
  <2> QED BY <1>1, <1>2, <1>3, <1>5, <2>1, <2>2, BaseSession, TransitFacts, MoveTransit
<1> QED BY <1>4, <1>5

LEMMA SwitchKeeps ==
    ASSUME NEW c \in Tours, TourBase(c), Tour(c)!SwitchRole PROVE TourBase(c)' /\ (TourTransit(c) => TourTransit(c)')
<1>1. PICK r \in Roles : Tour(c)!Frame(Tour(c)!SetRole(ses, r), url, r, arrived)
  BY DEF Tour!SwitchRole, Tour!Roles, Roles
<1>2. /\ going.parts = {} /\ ~dialog /\ going' = going /\ dialog' = dialog /\ strayed' = strayed
      /\ UNCHANGED <<bound, tourChain, origin>> /\ Tour(c)!Move
  BY DEF Tour!SwitchRole, Tour!Quiet
<1>3. PICK s : s = Demo!SetRole(ses, r)
  OBVIOUS
<1>4. Tour(c)!Frame(s, url, r, arrived)
  BY <1>1, <1>3, MoveBridge
<1>5. MovedAs(ses, s, r, ses.route, ses.tour)
  BY <1>3, BaseSession, RoledIs
<1>6. SessionOK(s) /\ Evid(s, ses) /\ s.route = ses.route /\ s.tour = ses.tour
  <2>1. TourFine(ses.tour)
    BY BaseSession DEF TourFine
  <2>2. SessionOK(ses)
    BY BaseSession
  <2> QED BY <1>5, <2>1, <2>2, MovedOK
<1>7. TourBase(c)'
  BY <1>2, <1>4, <1>6, BaseSession, MoveBase, MoveCounts, GoingStill
<1>8. ASSUME TourTransit(c) PROVE TourTransit(c)'
  <2>1. Framed(c, s, url, r, arrived)
    BY <1>4, <1>6, FrameIs DEF SessionOK
  <2>2. \A v : (Station(s, v) <=> Station(ses, v)) /\ (Transit(s, v) <=> Transit(ses, v))
    BY <1>6, StationSame
  <2> QED BY <1>2, <1>6, <1>8, <2>1, <2>2, BaseSession, TransitFacts, MoveTransit
<1> QED BY <1>7, <1>8

LEMMA DrawerCloses ==
    ASSUME NEW c \in Tours, TourBase(c), Tour(c)!Close PROVE TourBase(c)' /\ (TourTransit(c) => TourTransit(c)')
<1>1. /\ Tour(c)!Frame(Tour(c)!CloseTour(ses), url, role, FALSE)
      /\ going.parts = {} /\ ~dialog /\ going' = going /\ dialog' = dialog /\ strayed' = strayed
      /\ UNCHANGED <<bound, tourChain, origin>> /\ Tour(c)!Move
  BY DEF Tour!Close, Tour!Quiet
<1>2. PICK s, tour : s = Demo!CloseTour(ses) /\ tour = [ses.tour EXCEPT !.active = FALSE, !.paused = FALSE]
  OBVIOUS
<1>3. Tour(c)!Frame(s, url, role, FALSE)
  BY <1>1, <1>2, MoveBridge
<1>4. MovedAs(ses, s, ses.role, ses.route, tour)
  BY Zenon, <1>2, BaseSession, ClosedIs
<1>5. /\ TourShape(tour) /\ tour.active = FALSE /\ tour.paused = FALSE /\ tour.step = ses.tour.step
      /\ tour.route = ses.tour.route /\ tour.role = ses.tour.role
  BY <1>2, BaseSession DEF TourShape
<1>6. SessionOK(s) /\ Evid(s, ses) /\ s.route = ses.route /\ s.tour = tour
  <2>1. TourFine(tour)
    BY <1>5, BaseSession DEF TourFine
  <2>2. SessionOK(ses) /\ ses.role \in Roles
    BY BaseSession
  <2> QED BY <1>4, <2>1, <2>2, MovedOK
<1>7. TourBase(c)'
  BY <1>1, <1>3, <1>5, <1>6, BaseSession, MoveBase, MoveCounts, GoingStill
<1>8. ASSUME TourTransit(c) PROVE TourTransit(c)'
  <2>1. Framed(c, s, url, role, FALSE)
    BY <1>3, <1>6, FrameIs DEF SessionOK
  <2>2. \A v : Station(s, v) <=> Station(ses, v)
    BY <1>6, StationSame
  <2> QED BY <1>1, <1>5, <1>6, <1>8, <2>1, <2>2, BaseSession, TransitFacts, MoveTransit
<1> QED BY <1>7, <1>8

LEMMA ReloadKeeps ==
    ASSUME NEW c \in Tours, TourBase(c), Tour(c)!Reload PROVE TourBase(c)' /\ (TourTransit(c) => TourTransit(c)')
<1>1. /\ Tour(c)!Frame(ses, url, role, FALSE) /\ going' = Tour(c)!Idle /\ dialog' = ~Tour(c)!DemoCompleted(ses)
      /\ strayed' = strayed /\ UNCHANGED <<bound, tourChain, origin>> /\ Tour(c)!Move
  BY DEF Tour!Reload
<1>2. dialog' \in BOOLEAN
  BY <1>1
<1>3. GoingTypes' /\ going'.parts = {}
  BY <1>1, GoingIdle
<1>4. TourBase(c)'
  BY <1>1, <1>2, <1>3, BaseSession, MoveBase, MoveCounts
<1>5. ASSUME TourTransit(c) PROVE TourTransit(c)'
  <2>1. Framed(c, ses, url, role, FALSE)
    BY <1>1, BaseSession, FrameIs
  <2> QED BY <1>1, <1>3, <1>5, <2>1, BaseSession, TransitFacts, MoveTransit
<1> QED BY <1>4, <1>5

LEMMA LaunchKeeps ==
    ASSUME NEW c \in Tours, TourBase(c), Tour(c)!Launch PROVE TourBase(c)' /\ (TourTransit(c) => TourTransit(c)')
<1>1. /\ Tour(c)!Frame(ses, ses.route, role, FALSE) /\ ~ses.tour.active /\ going.parts = {} /\ going' = going
      /\ dialog' = TRUE /\ strayed' = strayed /\ UNCHANGED <<bound, tourChain, origin>> /\ tourMoves' = tourMoves
  BY DEF Tour!Launch, Tour!Quiet
<1>2. TourBase(c)'
  BY <1>1, BaseSession, MoveBase, GoingStill
<1>3. ASSUME TourTransit(c) PROVE TourTransit(c)'
  <2>1. Framed(c, ses, ses.route, role, FALSE)
    BY <1>1, BaseSession, FrameIs
  <2> QED BY <1>1, <1>3, <2>1, BaseSession, TransitFacts, MoveTransit
<1> QED BY <1>2, <1>3

LEMMA DismissKeeps ==
    ASSUME NEW c \in Tours, TourBase(c), Tour(c)!Dismiss PROVE TourBase(c)' /\ (TourTransit(c) => TourTransit(c)')
<1>1. /\ ses' = ses /\ url' = url /\ role' = role /\ arrived' = arrived /\ arrivedAt' = arrivedAt /\ going' = going
      /\ dialog' = FALSE /\ strayed' = strayed /\ UNCHANGED <<bound, tourChain, origin>> /\ Tour(c)!Move
  BY DEF Tour!Dismiss, Tour!latch
<1>2. TourBase(c)'
  <2>1. SessionOK(ses)' /\ Behind(c, ses, ses.tour.step)' /\ ("step" \in going.parts => Behind(c, ses, going.step))'
    BY <1>1, BaseFacts DEF SessionOK, Behind, AuditLater
  <2>2. PlaceOK(c)'
    BY <1>1, BaseFacts, MoveCounts DEF PlaceOK
  <2>3. GoingTypes' /\ TourChainOK'
    BY <1>1, BaseFacts, GoingStill, TourChainStays
  <2> QED BY <2>1, <2>2, <2>3 DEF TourBase
<1>3. ASSUME TourTransit(c) PROVE TourTransit(c)'
  <2>1. RoutesOK' /\ Watched' /\ OneAttempt'
    BY <1>1, <1>3, TransitFacts DEF RoutesOK, Watched, OneAttempt, Station, Transit
  <2>2. (going.parts # {})' => GoingOK(c, ses, url, role, going, going.parts)'
    BY <1>1, <1>3, TransitFacts DEF GoingOK, Transit, Station
  <2> QED BY <2>1, <2>2 DEF TourTransit
<1> QED BY <1>2, <1>3

\* What a click does to the session.
Walks(kind) == kind \in {"step", "return", "resume"}
Walked(s) == SessionOK(s) /\ Evid(s, ses) /\ s.tour = StepTour(going.step, going.route, going.role) /\ s.route = going.route
CameBack(s) == SessionOK(s) /\ Evid(s, ses) /\ s.tour = WithPaused(ses.tour, FALSE) /\ s.route = ReturnRoute(ses)

LEMMA PausedFine ==
    ASSUME NEW s, SessionOK(s), NEW tour, tour = WithPaused(s.tour, FALSE)
    PROVE  /\ TourFine(tour) /\ tour.active = s.tour.active /\ tour.step = s.tour.step /\ tour.route = s.tour.route
           /\ tour.role = s.tour.role /\ tour.paused = FALSE /\ ReturnRole(s) \in Roles
<1>1. PICK t : t = s.tour /\ tour = [t EXCEPT !.paused = FALSE]
  BY DEF WithPaused
<1>2. TourShape(tour) /\ tour.active = t.active /\ tour.step = t.step /\ tour.route = t.route /\ tour.role = t.role /\ tour.paused = FALSE
  BY <1>1 DEF TourShape, SessionOK
<1> QED BY <1>1, <1>2 DEF TourFine, SessionOK, ReturnRole

LEMMA WalkIs ==
    ASSUME NEW p, SessionOK(p), Evid(p, ses), GoingTypes, NEW s,
           s = Demo!TourStep(p, going.step, going.route, going.role)
    PROVE  Walked(s)
<1>1. PICK tour, r : tour = StepTour(going.step, going.route, going.role) /\ r = (IF going.role = "none" THEN p.role ELSE going.role)
  OBVIOUS
<1>2. MovedAs(p, s, r, going.route, tour)
  BY <1>1, SteppedIs DEF SessionOK
<1>3. TourFine(tour) /\ r \in Roles
  BY <1>1 DEF TourFine, StepTour, TourShape, GoingTypes, SessionOK
<1>4. SessionOK(s) /\ Evid(s, p) /\ s.route = going.route /\ s.tour = tour
  BY <1>2, <1>3, MovedOK
<1>5. Evid(s, ses)
  BY <1>4, EvidTrans
<1> QED BY <1>1, <1>4, <1>5 DEF Walked

LEMMA SteppedLands ==
    ASSUME NEW c \in Tours, TourBase(c), NEW s, s = Tour(c)!Stepped(ses)
    PROVE  (Walks(going.kind) /\ Walked(s)) \/ (~Walks(going.kind) /\ CameBack(s))
<1>1. SessionOK(ses) /\ Evid(ses, ses) /\ GoingTypes
  BY BaseSession
<1>2. CASE going.kind = "step"
  <2>1. s = Demo!TourStep(ses, going.step, going.route, going.role)
    BY <1>2, MoveBridge DEF Tour!Stepped
  <2> QED BY <1>1, <1>2, <2>1, WalkIs DEF Walks
<1>3. CASE going.kind = "return"
  <2>1. PICK p, tour : p = Demo!ReturnToMission(ses) /\ tour = WithPaused(ses.tour, FALSE)
    OBVIOUS
  <2>2. Tour(c)!ReturnToMission(ses) = p
    BY <2>1, MoveBridge
  <2>3. s = Tour(c)!TourStep(p, going.step, going.route, going.role)
    BY <1>3, <2>2 DEF Tour!Stepped
  <2>4. s = Demo!TourStep(p, going.step, going.route, going.role)
    BY <2>3, MoveBridge
  <2>5. MovedAs(ses, p, ReturnRole(ses), ReturnRoute(ses), tour)
    BY <1>1, <2>1, ReturnedIs DEF SessionOK
  <2>6. SessionOK(p) /\ Evid(p, ses)
    <3>1. TourFine(tour) /\ ReturnRole(ses) \in Roles
      BY <1>1, <2>1, PausedFine
    <3>2. SessionOK(ses)
      BY <1>1
    <3> QED BY <2>5, <3>1, <3>2, MovedOK
  <2> QED BY <1>1, <1>3, <2>4, <2>6, WalkIs DEF Walks
<1>4. CASE going.kind = "resume"
  <2>1. PICK p, tour : p = Demo!ResumeSession(ses) /\ tour = WithPaused(ses.tour, FALSE)
    OBVIOUS
  <2>2. Tour(c)!ResumeSession(ses) = p
    BY <2>1, MoveBridge
  <2>3. s = Tour(c)!TourStep(p, going.step, going.route, going.role)
    BY <1>4, <2>2 DEF Tour!Stepped
  <2>4. s = Demo!TourStep(p, going.step, going.route, going.role)
    BY <2>3, MoveBridge
  <2>5. MovedAs(ses, p, ses.role, ses.route, tour) /\ ses.role \in Roles
    BY <1>1, <2>1, ResumedIs DEF SessionOK
  <2>6. SessionOK(p) /\ Evid(p, ses)
    <3>1. TourFine(tour) /\ ReturnRole(ses) \in Roles
      BY <1>1, <2>1, PausedFine
    <3>2. SessionOK(ses)
      BY <1>1
    <3> QED BY <2>5, <3>1, <3>2, MovedOK
  <2> QED BY <1>1, <1>4, <2>4, <2>6, WalkIs DEF Walks
<1>5. CASE ~Walks(going.kind)
  <2>1. s = Demo!ReturnToMission(ses)
    BY <1>5, MoveBridge DEF Tour!Stepped, Walks
  <2>2. PICK tour : tour = WithPaused(ses.tour, FALSE)
    OBVIOUS
  <2>3. MovedAs(ses, s, ReturnRole(ses), ReturnRoute(ses), tour)
    BY <1>1, <2>1, <2>2, ReturnedIs DEF SessionOK
  <2>4. SessionOK(s) /\ Evid(s, ses) /\ s.route = ReturnRoute(ses) /\ s.tour = tour
    <3>1. TourFine(tour) /\ ReturnRole(ses) \in Roles
      BY <1>1, <2>2, PausedFine
    <3>2. SessionOK(ses)
      BY <1>1
    <3> QED BY <2>3, <3>1, <3>2, MovedOK
  <2> QED BY <1>5, <2>2, <2>4 DEF CameBack
<1> QED BY <1>2, <1>3, <1>4, <1>5 DEF Walks

\* What is left of a click.
LandKept(piece) ==
    /\ GoingTypes' /\ going'.parts = going.parts \ {piece}
    /\ going'.parts # {} => going'.kind = going.kind /\ going'.step = going.step /\ going'.route = going.route /\ going'.role = going.role
LEMMA LandLeaves ==
    ASSUME NEW c, GoingTypes, NEW piece \in going.parts,
           going' = IF going.parts = {piece} THEN Tour(c)!Idle ELSE [going EXCEPT !.parts = @ \ {piece}]
    PROVE  LandKept(piece)
<1>1. CASE going.parts = {piece}
  <2>1. GoingTypes' /\ going'.parts = {}
    BY <1>1, GoingIdle
  <2> QED BY <1>1, <2>1 DEF LandKept
<1>2. CASE going.parts # {piece}
  <2>1. PICK g, h : g = going /\ h = [g EXCEPT !.parts = @ \ {piece}] /\ h = going'
    BY <1>2
  <2>2. GoingShape(g)
    BY <2>1 DEF GoingTypes
  <2>3. /\ h.parts = g.parts \ {piece} /\ h.kind = g.kind /\ h.step = g.step /\ h.route = g.route /\ h.role = g.role
        /\ GoingShape(h)
    BY <2>1, <2>2 DEF GoingShape
  <2>4. GoingTypes'
    BY <2>1, <2>3 DEF GoingTypes
  <2> QED BY <2>1, <2>3, <2>4 DEF LandKept
<1> QED BY <1>1, <1>2

LEMMA GoingFields ==
    ASSUME NEW c, NEW s, NEW u, NEW r, NEW g, NEW h, NEW P, GoingOK(c, s, u, r, g, P),
           h.kind = g.kind, h.step = g.step, h.route = g.route, h.role = g.role
    PROVE  GoingOK(c, s, u, r, h, P)
BY DEF GoingOK

\* A part of a click that landed, and what is left.
LandDone(c, piece) ==
    /\ TourBase(c)' /\ going'.parts = going.parts \ {piece} /\ tourMoves' = tourMoves
    /\ TourTransit(c) => TourTransit(c)' /\ GoingOK(c, ses', url', role', going, going.parts \ {piece})
LEMMA LandFacts ==
    ASSUME NEW c \in Tours, TourBase(c), NEW piece, Tour(c)!Land(piece)
    PROVE  /\ piece \in going.parts /\ piece \in {"step", "role", "route"} /\ LandKept(piece) /\ GoingTypes'
           /\ (strayed' <=> (strayed /\ piece # "step"))
           /\ dialog' = dialog /\ tourMoves' = tourMoves /\ UNCHANGED <<bound, tourChain, origin>>
           /\ "step" \in going'.parts => "step" \in going.parts /\ Behind(c, ses, going'.step)
           /\ piece = "step" => Tour(c)!Frame(Tour(c)!Stepped(ses), url, role, arrived) /\ Behind(c, ses, going.step)
           /\ piece = "role" => Tour(c)!Frame(Tour(c)!SetRole(ses, going.role), url, going.role, arrived)
           /\ piece = "route" => Tour(c)!Frame(ses, going.route, role, arrived)
<1>1. piece \in going.parts /\ GoingTypes /\ ("step" \in going.parts => Behind(c, ses, going.step))
  BY BaseSession DEF Tour!Land
<1>2. piece \in {"step", "role", "route"}
  BY <1>1 DEF GoingTypes
<1>3. LandKept(piece)
  BY <1>1, LandLeaves DEF Tour!Land
<1>4. "step" \in going'.parts => "step" \in going.parts /\ Behind(c, ses, going'.step)
  BY <1>1, <1>3 DEF LandKept
<1>5. strayed' = (strayed /\ piece # "step")
  BY DEF Tour!Land
<1>6. strayed' <=> (strayed /\ piece # "step")
  BY <1>5, Zenon
<1>7. dialog' = dialog /\ tourMoves' = tourMoves /\ UNCHANGED <<bound, tourChain, origin>>
  BY DEF Tour!Land
<1>8. /\ piece = "step" => Tour(c)!Frame(Tour(c)!Stepped(ses), url, role, arrived)
      /\ piece = "role" => Tour(c)!Frame(Tour(c)!SetRole(ses, going.role), url, going.role, arrived)
      /\ piece = "route" => Tour(c)!Frame(ses, going.route, role, arrived)
  BY <1>2 DEF Tour!Land
<1> QED BY <1>1, <1>2, <1>3, <1>4, <1>6, <1>7, <1>8 DEF LandKept

\* How the drawer's frame after a landed part keeps the mission.
LEMMA LandTransit ==
    ASSUME NEW c \in Tours, TourTransit(c), NEW piece, LandKept(piece), NEW s, SessionOK(s), NEW u, Proper(u), NEW r,
           Framed(c, s, u, r, arrived), Proper(s.route), s.tour.route = Demo!NoRoute \/ Proper(s.tour.route),
           s.tour.route = Demo!NoRoute /\ u = url => s.route = u,
           s.tour.step \in 1..5 => Station(s, s.tour.route),
           UNCHANGED <<bound, tourChain, origin>>, s.tour.paused => strayed',
           arrived /\ arrivedAt = s.tour.step => Transit(s, u),
           GoingOK(c, s, u, r, going, going.parts \ {piece})
    PROVE  TourTransit(c)' /\ GoingOK(c, ses', url', role', going, going.parts \ {piece})
<1>1. PICK P : P = going.parts \ {piece}
  OBVIOUS
<1>2. ses'.tour.paused = s.tour.paused
  BY FrameWatched
<1>3. /\ url' = u /\ role' = r /\ ses'.tour.route = s.tour.route /\ ses'.tour.step = s.tour.step
      /\ ses'.tour.active = s.tour.active
  BY DEF Framed
<1>4. \A v : Station(s, v) => Station(ses', v)
  BY StationSame DEF Framed
<1>5. GoingOK(c, ses', u, r, going, P)
  BY <1>1, <1>2, <1>3, <1>4, GoingGrows
<1>6. going'.parts # {} => GoingOK(c, ses', url', role', going', going'.parts)
  BY <1>1, <1>3, <1>5, GoingFields DEF LandKept
<1>7. TourTransit(c)'
  BY <1>6, MoveTransit
<1> QED BY <1>1, <1>3, <1>5, <1>7

LEMMA LandRole ==
    ASSUME NEW c \in Tours, TourBase(c), Tour(c)!Land("role") PROVE LandDone(c, "role")
<1>1. /\ "role" \in going.parts /\ LandKept("role") /\ GoingTypes' /\ (strayed' <=> strayed)
      /\ dialog' = dialog /\ tourMoves' = tourMoves /\ UNCHANGED <<bound, tourChain, origin>>
      /\ "step" \in going'.parts => "step" \in going.parts /\ Behind(c, ses, going'.step)
      /\ Tour(c)!Frame(Tour(c)!SetRole(ses, going.role), url, going.role, arrived)
  BY LandFacts
<1>2. PICK s, r : s = Demo!SetRole(ses, r) /\ r = going.role
  OBVIOUS
<1>3. Tour(c)!Frame(s, url, r, arrived) /\ r \in Roles /\ r # "none"
  BY <1>1, <1>2, MoveBridge, BaseSession DEF GoingTypes, Roles
<1>4. MovedAs(ses, s, r, ses.route, ses.tour)
  BY <1>2, BaseSession, RoledIs
<1>5. SessionOK(s) /\ Evid(s, ses) /\ s.route = ses.route /\ s.tour = ses.tour
  <2>1. TourFine(ses.tour)
    BY BaseSession DEF TourFine
  <2>2. SessionOK(ses)
    BY BaseSession
  <2> QED BY <1>3, <1>4, <2>1, <2>2, MovedOK
<1>6. TourBase(c)'
  BY <1>1, <1>3, <1>5, BaseSession, MoveBase
<1>7. ASSUME TourTransit(c)
      PROVE  TourTransit(c)' /\ GoingOK(c, ses', url', role', going, going.parts \ {"role"})
  <2>1. Framed(c, s, url, r, arrived)
    BY <1>3, <1>5, FrameIs DEF SessionOK
  <2>2. \A v : (Station(s, v) <=> Station(ses, v)) /\ (Transit(s, v) <=> Transit(ses, v))
    BY <1>5, StationSame
  <2>3. GoingOK(c, ses, url, role, going, going.parts) /\ (arrived => Transit(ses, url))
    BY <1>1, <1>7, TransitFacts
  <2>4. GoingOK(c, s, url, r, going, going.parts \ {"role"})
    BY <1>2, <1>5, <2>2, <2>3 DEF GoingOK
  <2> QED BY <1>1, <1>5, <1>7, <2>1, <2>2, <2>3, <2>4, TransitFacts, LandTransit
<1> QED BY <1>1, <1>6, <1>7 DEF LandDone, LandKept

LEMMA LandRoute ==
    ASSUME NEW c \in Tours, TourBase(c), Tour(c)!Land("route") PROVE LandDone(c, "route")
<1>1. /\ "route" \in going.parts /\ LandKept("route") /\ GoingTypes' /\ (strayed' <=> strayed)
      /\ dialog' = dialog /\ tourMoves' = tourMoves /\ UNCHANGED <<bound, tourChain, origin>>
      /\ "step" \in going'.parts => "step" \in going.parts /\ Behind(c, ses, going'.step)
      /\ Tour(c)!Frame(ses, going.route, role, arrived)
  BY LandFacts
<1>2. TourBase(c)'
  BY <1>1, BaseSession, MoveBase
<1>3. ASSUME TourTransit(c)
      PROVE  TourTransit(c)' /\ GoingOK(c, ses', url', role', going, going.parts \ {"route"})
  <2>1. Framed(c, ses, going.route, role, arrived)
    BY <1>1, BaseSession, FrameIs
  <2>2. GoingOK(c, ses, url, role, going, going.parts)
    BY <1>1, <1>3, TransitFacts
  <2>3. Transit(ses, going.route) /\ Proper(going.route)
    BY <1>1, <2>2 DEF GoingOK
  <2>4. GoingOK(c, ses, going.route, role, going, going.parts \ {"route"})
    BY <2>2 DEF GoingOK
  <2> QED BY <1>1, <1>3, <2>1, <2>3, <2>4, BaseSession, TransitFacts, LandTransit
<1> QED BY <1>1, <1>2, <1>3 DEF LandDone, LandKept

\* The step that a click brings has the click's own page as its page.
LEMMA StepTransit ==
    ASSUME NEW c \in Tours, TourBase(c), TourTransit(c), "step" \in going.parts, NEW s,
           (Walks(going.kind) /\ Walked(s)) \/ (~Walks(going.kind) /\ CameBack(s))
    PROVE  /\ Proper(s.route) /\ (s.tour.route = Demo!NoRoute \/ Proper(s.tour.route))
           /\ s.tour.route = Demo!NoRoute => s.route = url
           /\ s.tour.step \in 1..5 => Station(s, s.tour.route)
           /\ ~s.tour.paused
           /\ arrived /\ arrivedAt = s.tour.step => Transit(s, url)
           /\ GoingOK(c, s, url, role, going, going.parts \ {"step"})
<1>1. GoingOK(c, ses, url, role, going, going.parts) /\ (arrived => Transit(ses, url)) /\ Proper(url)
  BY TransitFacts
<1>2. /\ going.kind \in {"step", "return", "resume", "returnOnly"} /\ Proper(going.route)
      /\ going.kind = "returnOnly" => ses.tour.active /\ ses.tour.step \notin 1..5 /\ Station(ses, going.route)
      /\ going.kind # "returnOnly" =>
            /\ going.step \in 1..5 => Station(ses, going.route) /\ going.role = Tour(c)!StepRole(going.step)
            /\ going.step \notin 1..5 /\ going.step = ses.tour.step => going.route = ses.tour.route \/ ses.tour.route = Demo!NoRoute
      /\ "route" \notin going.parts => url = going.route
      /\ "role" \notin going.parts /\ going.role # "none" => role = going.role
  BY <1>1 DEF GoingOK
<1>3. arrivedAt = ses.tour.step
  BY BaseSession
<1>4. CASE Walks(going.kind) /\ Walked(s)
  <2>1. /\ s.route = going.route /\ s.tour.route = going.route /\ s.tour.step = going.step /\ s.tour.role = going.role
        /\ s.tour.active = TRUE /\ s.tour.paused = FALSE
    BY <1>4 DEF Walked, StepTour
  <2>2. \A v : Station(s, v) <=> Station(ses, v)
    BY <1>4, StationSame DEF Walked
  <2>3. going.kind # "returnOnly"
    BY <1>4 DEF Walks
  <2>4. Proper(s.tour.route) /\ s.tour.route # Demo!NoRoute
    BY <1>2, <2>1 DEF Proper
  <2>5. s.tour.step \in 1..5 => Station(s, s.tour.route)
    BY <1>2, <2>1, <2>2, <2>3
  <2>6. arrived /\ arrivedAt = s.tour.step => Transit(s, url)
    <3> SUFFICES ASSUME arrived, arrivedAt = s.tour.step, url = ses.tour.route, ~Station(ses, url) PROVE Transit(s, url)
      BY <1>1, <2>2 DEF Transit
    <3>1. going.step = ses.tour.step /\ ses.tour.step \notin 1..5
      BY <1>3, <2>1, TransitFacts
    <3>2. going.route = ses.tour.route
      BY <1>1, <1>2, <2>3, <3>1 DEF Proper
    <3> QED BY <2>1, <3>2 DEF Transit
  <2>7. GoingOK(c, s, url, role, going, going.parts \ {"step"})
    BY <1>2, <2>1, <2>2, <2>3 DEF GoingOK, Transit
  <2> QED BY <1>2, <2>1, <2>4, <2>5, <2>6, <2>7
<1>5. CASE ~Walks(going.kind) /\ CameBack(s)
  <2>1. /\ s.tour.route = ses.tour.route /\ s.tour.step = ses.tour.step /\ s.tour.active = ses.tour.active /\ s.tour.paused = FALSE
    BY <1>5, BaseSession, PausedFine DEF CameBack
  <2>2. \A v : Station(s, v) <=> Station(ses, v)
    BY <1>5, StationSame DEF CameBack
  <2>3. going.kind = "returnOnly"
    BY <1>2, <1>5 DEF Walks
  <2>4. s.route = IF ses.tour.route = Demo!NoRoute THEN ses.route ELSE ses.tour.route
    BY <1>5 DEF CameBack, ReturnRoute
  <2>5. Proper(s.route) /\ (s.tour.route = Demo!NoRoute => s.route = url)
    BY <2>1, <2>4, TransitFacts
  <2>6. arrived => Transit(s, url)
    BY <1>1, <2>1, <2>2 DEF Transit
  <2>7. GoingOK(c, s, url, role, going, going.parts \ {"step"})
    BY <1>2, <2>1, <2>2, <2>3 DEF GoingOK, Transit
  <2> QED BY <1>2, <2>1, <2>3, <2>5, <2>6, <2>7, TransitFacts
<1> QED BY <1>4, <1>5

LEMMA LandStep ==
    ASSUME NEW c \in Tours, TourBase(c), Tour(c)!Land("step") PROVE LandDone(c, "step")
<1>1. /\ "step" \in going.parts /\ LandKept("step") /\ GoingTypes'
      /\ dialog' = dialog /\ tourMoves' = tourMoves /\ UNCHANGED <<bound, tourChain, origin>>
      /\ "step" \in going'.parts => "step" \in going.parts /\ Behind(c, ses, going'.step)
      /\ Tour(c)!Frame(Tour(c)!Stepped(ses), url, role, arrived) /\ Behind(c, ses, going.step)
  BY LandFacts
<1>2. PICK s : s = Tour(c)!Stepped(ses)
  OBVIOUS
<1>3. (Walks(going.kind) /\ Walked(s)) \/ (~Walks(going.kind) /\ CameBack(s))
  BY <1>2, SteppedLands
<1>4. SessionOK(s) /\ Evid(s, ses)
  BY <1>3 DEF Walked, CameBack
<1>5. Behind(c, ses, s.tour.step)
  <2>1. CASE Walked(s)
    BY <1>1, <2>1 DEF Walked, StepTour
  <2>2. CASE CameBack(s)
    BY <2>2, BaseSession, PausedFine DEF CameBack
  <2> QED BY <1>3, <2>1, <2>2
<1>6. TourBase(c)'
  BY <1>1, <1>2, <1>4, <1>5, BaseSession, MoveBase
<1>7. ASSUME TourTransit(c)
      PROVE  TourTransit(c)' /\ GoingOK(c, ses', url', role', going, going.parts \ {"step"})
  <2>1. Framed(c, s, url, role, arrived)
    BY <1>1, <1>2, <1>4, FrameIs DEF SessionOK
  <2>2. /\ Proper(s.route) /\ (s.tour.route = Demo!NoRoute \/ Proper(s.tour.route))
        /\ s.tour.route = Demo!NoRoute => s.route = url
        /\ s.tour.step \in 1..5 => Station(s, s.tour.route)
        /\ ~s.tour.paused
        /\ arrived /\ arrivedAt = s.tour.step => Transit(s, url)
        /\ GoingOK(c, s, url, role, going, going.parts \ {"step"})
    BY <1>1, <1>3, <1>7, StepTransit
  <2>3. Proper(url)
    BY <1>7, TransitFacts
  <2> QED BY <1>1, <1>4, <1>7, <2>1, <2>2, <2>3, LandTransit
<1> QED BY <1>1, <1>6, <1>7 DEF LandDone, LandKept

LEMMA LandIs == ASSUME NEW c \in Tours, TourBase(c), NEW piece, Tour(c)!Land(piece) PROVE LandDone(c, piece)
BY LandFacts, LandStep, LandRole, LandRoute

LEMMA TourCreated == ASSUME NEW c PROVE FreshAs(1, Tour(c)!CreateSession(1, TRUE))
<1>1. ASSUME NEW st PROVE Tour(c)!EmptyProgress(st) = Demo!EmptyProgress(st)
  BY DEF Tour!EmptyProgress, Demo!EmptyProgress
<1>2. Tour(c)!MissionKeys = Demo!MissionKeys /\ Tour(c)!Inbox = Demo!Inbox /\ Tour(c)!NoRoute = Demo!NoRoute
  BY DEF Tour!MissionKeys, Demo!MissionKeys, Tour!PaymentMissions, Demo!PaymentMissions,
     Tour!Inbox, Demo!Inbox, Tour!NoRoute, Demo!NoRoute
<1>3. PICK m, tour, restart :
        /\ m = [k \in Demo!MissionKeys |-> Demo!EmptyProgress(IF k = "routine" THEN "ready" ELSE "locked")]
        /\ tour = [active |-> TRUE, step |-> 0, paused |-> FALSE, route |-> Demo!NoRoute, role |-> "none"]
        /\ restart = [status |-> "idle", request |-> 0]
  OBVIOUS
<1>4. m = [k \in Tour(c)!MissionKeys |-> Tour(c)!EmptyProgress(IF k = "routine" THEN "ready" ELSE "locked")]
  BY <1>1, <1>2, <1>3
<1>5. PICK n : n = [run |-> 1, life |-> "active", current |-> "routine", role |-> "delegate", route |-> Demo!Inbox,
                    m |-> m, tour |-> tour, restart |-> restart]
  OBVIOUS
<1>6. n = Demo!CreateSession(1, TRUE)
  BY <1>3, <1>5 DEF Demo!CreateSession
<1>7. n = Tour(c)!CreateSession(1, TRUE)
  BY <1>2, <1>3, <1>4, <1>5 DEF Tour!CreateSession
<1> QED BY <1>6, <1>7, CreatedIs

LEMMA TourInitial == ASSUME NEW c \in Tours, Tour(c)!Init PROVE TourInv(c)
<1>1. /\ FreshAs(1, ses) /\ url = <<"inbox", 0>> /\ role = "delegate" /\ arrived = TRUE /\ arrivedAt = 0
      /\ going = Tour(c)!Idle /\ dialog = FALSE /\ bound = 0
      /\ tourChain = [r \in 1..6 |-> 0] /\ origin = [r \in 1..6 |-> "none"] /\ strayed = FALSE /\ tourMoves = 0
  BY TourCreated DEF Tour!Init, Tour!Requests, Tour!Inbox
<1>2. PICK tour : /\ tour = [active |-> TRUE, step |-> 0, paused |-> FALSE, route |-> Demo!NoRoute, role |-> "none"]
                  /\ tour = ses.tour
  BY <1>1 DEF FreshAs
<1>3. /\ TourShape(tour) /\ tour.active = TRUE /\ tour.paused = FALSE /\ tour.step = 0 /\ tour.route = Demo!NoRoute /\ tour.role = "none"
  BY <1>2 DEF TourShape
<1>4. SessionOK(ses)
  <2>1. Shape(ses) /\ ses.run = 1 /\ ses.role \in Roles
    BY <1>1 DEF FreshAs, Roles
  <2>2. \A k \in Payments : ses.m[k].request = 0
    BY <1>1 DEF FreshAs, Payments, Keys
  <2>3. AuditLater(ses)
    BY <1>1, <2>2 DEF FreshAs, AuditLater, Keys
  <2>4. TourFine(ses.tour)
    <3>1. TourFine(tour)
      <4>1. tour.active \in BOOLEAN /\ tour.paused \in BOOLEAN
        BY <1>3
      <4>2. tour.paused => tour.active
        BY <1>3
      <4>3. TourShape(tour) /\ tour.step \in 0..6 /\ tour.role \in Roles \cup {"none"}
        BY <1>3 DEF Roles
      <4> QED BY <4>1, <4>2, <4>3 DEF TourFine
    <3> QED BY <1>2, <3>1
  <2>5. \A k \in Payments : ses.m[k].request \in 0..6
    BY <2>2
  <2> QED BY <2>1, <2>3, <2>4, <2>5 DEF SessionOK, TourFine
<1>5. Behind(c, ses, ses.tour.step)
  BY <1>2, <1>3 DEF Behind
<1>6. PICK g : g = Tour(c)!Idle /\ g = going
  BY <1>1
<1>7. GoingShape(g) /\ g.parts = {} /\ g.step = 0 /\ g.role = "none"
  BY <1>6 DEF Tour!Idle, GoingShape
<1>8. GoingTypes /\ going.parts = {}
  BY <1>6, <1>7 DEF GoingTypes
<1>9. TourChainOK /\ OneAttempt
  BY <1>1 DEF TourChainOK, OneAttempt
<1>10. PlaceOK(c)
  <2>1. tourMoves \in 0..tourAt[c].MaxMoves
    BY <1>1, BrowserConstants DEF Tour!TourAssumption
  <2>2. arrivedAt = ses.tour.step
    BY <1>1, <1>2, <1>3
  <2>3. role \in Roles /\ arrived \in BOOLEAN /\ dialog \in BOOLEAN
    BY <1>1 DEF Roles
  <2> QED BY <2>1, <2>2, <2>3 DEF PlaceOK
<1>11. RoutesOK /\ Watched
  <2>1. ses.route = url
    BY <1>1 DEF FreshAs, Demo!Inbox
  <2>2. Proper(url) /\ Transit(ses, url)
    BY <1>1 DEF Proper, Demo!NoRoute, Transit, Station
  <2> QED BY <1>1, <1>2, <1>3, <2>1, <2>2 DEF RoutesOK, Watched
<1> QED BY <1>4, <1>5, <1>8, <1>9, <1>10, <1>11 DEF TourInv, TourBase, TourTransit

\* What a step does to each half of the invariant.
TourKept(c) == TourBase(c)' /\ (tourAt[c].Retries = {} /\ TourTransit(c) => TourTransit(c)')
LEMMA PressKeeps == ASSUME NEW c \in Tours, TourBase(c), PressDone(c) PROVE TourKept(c)
BY PressBase, PressTransit DEF TourKept
LEMMA DeedKeeps == ASSUME NEW c \in Tours, TourBase(c), DeedDone(c) PROVE TourKept(c)
BY DeedBase, DeedTransit DEF TourKept

LEMMA TourMoves == ASSUME NEW c \in Tours, TourBase(c), Tour(c)!Next PROVE TourKept(c)
<1>1. CASE Tour(c)!Lands
  <2>1. PICK piece : Tour(c)!Land(piece)
    BY <1>1 DEF Tour!Lands
  <2> QED BY <2>1, LandIs DEF LandDone, TourKept
<1>2. CASE Tour(c)!Lead
  BY <1>2, PressNext, PressPrepare, PressReturn, PressResume, PressKeeps, LaunchKeeps DEF Tour!Lead, TourKept
<1>3. CASE Tour(c)!Continue \/ Tour(c)!OpenAudit \/ Tour(c)!Back
  BY <1>3, PressContinue, PressAudit, PressBack, PressKeeps
<1>4. CASE Tour(c)!GoTo \/ Tour(c)!SwitchRole \/ Tour(c)!Close \/ Tour(c)!Reload \/ Tour(c)!Dismiss
  BY <1>4, GoToKeeps, SwitchKeeps, DrawerCloses, ReloadKeeps, DismissKeeps DEF TourKept
<1>5. CASE Tour(c)!Bind \/ Tour(c)!Decide \/ Tour(c)!Recover \/ Tour(c)!DecryptReason \/ Tour(c)!CreatePackets
           \/ Tour(c)!Review \/ Tour(c)!Observe
  BY <1>5, DeedBind, DeedDecide, DeedRecover, DeedReason, DeedCreate, DeedReview, DeedObserve, DeedKeeps
<1>6. CASE Tour(c)!Submit
  BY <1>6, SubmitIs, UnseenBase, UnseenTransit, TransitFacts DEF TourKept
<1>7. CASE Tour(c)!Settles
  <2>1. PICK r \in 1..6 : Tour(c)!Settle(r)
    BY <1>7 DEF Tour!Settles, Tour!Requests
  <2> QED BY <2>1, SettleIs, UnseenBase, UnseenTransit, TransitFacts DEF TourKept
<1> QED BY <1>1, <1>2, <1>3, <1>4, <1>5, <1>6, <1>7 DEF Tour!Next, Tour!Deed

LEMMA TourStep == ASSUME NEW c \in Tours, TourInv(c), Tour(c)!Next PROVE TourInv(c)'
BY TourMoves DEF TourInv, TourKept

LEMMA TourStutter == ASSUME NEW c \in Tours, TourInv(c), UNCHANGED tourVars PROVE TourInv(c)'
<1>1. UNCHANGED tourFrame /\ UNCHANGED <<bound, tourChain, origin>>
  BY DEF tourVars, tourFrame
<1>2. TourChainOK' /\ (OneAttempt => OneAttempt')
  BY <1>1, BaseFacts, TourChainStays DEF TourInv
<1> QED BY <1>1, <1>2, UnseenBase, UnseenTransit, TransitFacts DEF TourInv

LEMMA TourIsSafe ==
    ASSUME NEW c \in Tours, TourInv(c)
    PROVE  /\ Tour(c)!TourTypeOK /\ Tour(c)!EvidenceBehind
           /\ tourAt[c].Retries = {} => Tour(c)!NoPauseInTransit
<1>1. Tour(c)!TourTypeOK
  BY BaseFacts DEF TourInv, SessionOK, PlaceOK, GoingTypes, TourChainOK, Tour!TourTypeOK, Tour!Steps, Tour!Roles, Roles, Tour!Requests
<1>2. Tour(c)!EvidenceBehind
  BY BaseFacts DEF TourInv, Behind, Tour!EvidenceBehind
<1>3. tourAt[c].Retries = {} => Tour(c)!NoPauseInTransit
  BY TransitFacts DEF TourInv, Tour!NoPauseInTransit
<1> QED BY <1>1, <1>2, <1>3

\* Only the last part of a click ends it, unless the page is loaded again.
LEMMA StillGoing ==
    ASSUME NEW c \in Tours, TourBase(c), Tour(c)!Next, going.parts # {}, going'.parts = {}, tourMoves' = tourMoves
    PROVE  \E piece : Tour(c)!Land(piece)
<1>1. ASSUME PressDone(c) PROVE FALSE
  <2>1. PICK kind, step, u, r : going' = Pressing(kind, step, u, r)
    BY <1>1 DEF PressDone, Aimed
  <2>2. PICK P : P = {"step"} \cup (IF r \in {"none", role} THEN {} ELSE {"role"}) \cup (IF u = url THEN {} ELSE {"route"})
    OBVIOUS
  <2>3. going' = [parts |-> P, kind |-> kind, step |-> step, route |-> u, role |-> r]
    BY <2>1, <2>2 DEF Pressing
  <2> QED BY <2>2, <2>3
<1>2. ASSUME going' = going PROVE FALSE
  BY <1>2
<1>3. ASSUME Tour(c)!Move PROVE FALSE
  BY <1>3, BaseSession DEF Tour!Move
<1>4. CASE Tour(c)!Lands
  BY <1>4 DEF Tour!Lands
<1>5. CASE Tour(c)!Lead
  BY <1>1, <1>2, <1>5, PressNext, PressPrepare, PressReturn, PressResume DEF Tour!Lead, Tour!Launch
<1>6. CASE Tour(c)!Continue \/ Tour(c)!OpenAudit
  BY <1>1, <1>6, PressContinue, PressAudit
<1>7. CASE Tour(c)!GoTo \/ Tour(c)!SwitchRole \/ Tour(c)!Back \/ Tour(c)!Close \/ Tour(c)!Reload \/ Tour(c)!Dismiss
  BY <1>3, <1>7 DEF Tour!GoTo, Tour!SwitchRole, Tour!Back, Tour!Close, Tour!Reload, Tour!Dismiss
<1>8. CASE Tour(c)!Bind \/ Tour(c)!Decide \/ Tour(c)!Recover \/ Tour(c)!DecryptReason \/ Tour(c)!CreatePackets
           \/ Tour(c)!Review \/ Tour(c)!Observe
  BY <1>2, <1>8, DeedBind, DeedDecide, DeedRecover, DeedReason, DeedCreate, DeedReview, DeedObserve DEF DeedDone
<1>9. CASE Tour(c)!Submit
  BY <1>2, <1>9, SubmitIs DEF tourFrame
<1>10. CASE Tour(c)!Settles
  <2>1. PICK r \in 1..6 : Tour(c)!Settle(r)
    BY <1>10 DEF Tour!Settles, Tour!Requests
  <2> QED BY <1>2, <2>1, SettleIs DEF tourFrame
<1> QED BY <1>4, <1>5, <1>6, <1>7, <1>8, <1>9, <1>10 DEF Tour!Next, Tour!Deed

LEMMA TourLands ==
    ASSUME NEW c \in Tours, TourInv(c), tourAt[c].Retries = {}, Tour(c)!Next \/ UNCHANGED tourVars
    PROVE  Tour(c)!LandsOnTarget
<1> SUFFICES ASSUME going.parts # {}, going'.parts = {}, tourMoves' = tourMoves
             PROVE  /\ ses'.tour.active /\ ~ses'.tour.paused
                    /\ ses'.tour.step \in 1..5 => Tour(c)!OnTarget(ses', url', role')
  BY DEF Tour!LandsOnTarget
<1>1. Tour(c)!Next
  BY DEF tourVars
<1>2. PICK piece : Tour(c)!Land(piece)
  BY <1>1, StillGoing DEF TourInv
<1>3. LandDone(c, piece) /\ piece \in {"step", "role", "route"}
  BY <1>2, LandIs, LandFacts DEF TourInv
<1>4. GoingOK(c, ses', url', role', going, {})
  BY <1>3 DEF TourInv, LandDone
<1>5. /\ ses'.tour.active /\ ~ses'.tour.paused
      /\ ses'.tour.step \in 1..5 => ses'.tour.route = going.route /\ going.role = Tour(c)!StepRole(ses'.tour.step)
      /\ url' = going.route /\ (going.role # "none" => role' = going.role)
  BY <1>4 DEF GoingOK
<1>6. ASSUME ses'.tour.step \in 1..5 PROVE Tour(c)!OnTarget(ses', url', role')
  <2>1. Proper(going.route)
    BY <1>4 DEF GoingOK
  <2>2. Tour(c)!Compatible(ses', ses'.tour.step, url')
    BY <1>5, <1>6, <2>1 DEF Tour!Compatible, Tour!NoRoute, Proper, Demo!NoRoute
  <2>3. Tour(c)!StepRole(ses'.tour.step) \in {"none", role'}
    BY <1>5, <1>6
  <2> QED BY <2>2, <2>3 DEF Tour!OnTarget
<1> QED BY <1>5, <1>6

-----------------------------------------------------------------------------
(***************************************************************************)
(* The browser.                                                            *)
(***************************************************************************)

LEMMA NetIdleInitial == Net!Init => IdleFlights
BY DEF Net!Init, Net!NoFlight, IdleFlights

LEMMA IdleStutter == ASSUME IdleFlights, UNCHANGED netFrame PROVE IdleFlights'
BY DEF netFrame, IdleFlights

readFrame ==
    <<resolved, caughtUp, down, client, phase, loopAt, elapsed, clock, pause, readAsked, well, since, outcome>>
LEMMA NoxStutter == ASSUME NoxInv, UNCHANGED readFrame PROVE NoxInv'
BY DEF readFrame, NoxInv, NoxTypes, NoxTimes, NoxWell, Read!Waiting, Read!Limit, Read!Well, Read!Never

LEMMA LogStutter == ASSUME LogInv, UNCHANGED logVars PROVE LogInv'
<1>1. UNCHANGED <<log, cache, scan, page, asking, seen, packet, owed, scans, forces, mounts, logFaults>>
  BY DEF logVars
<1>2. ScansCounted'
  BY <1>1, LogFacts DEF ScansCounted
<1> QED BY <1>1, <1>2, LogFacts, LogKept

\* What a step of the browser does to a component: one of its own steps, or none.
LEMMA BrowserMoves ==
    ASSUME [BrowserNext]_browserVars
    PROVE  /\ part' = part
           /\ (part = "net" /\ Net!Next) \/ UNCHANGED netVars
           /\ (part = "ops" /\ Ops!Next) \/ UNCHANGED opsVars
           /\ (part = "read" /\ Read!Next) \/ UNCHANGED readVars
           /\ (part = "log" /\ Log!Next) \/ UNCHANGED logVars
           /\ (\E c \in Tours : part = c /\ Tour(c)!Next) \/ UNCHANGED tourVars
           /\ (\E c \in Reviews : part = c /\ Review(c)!Next) \/ UNCHANGED reviewVars
<1>1. CASE BrowserNext
  BY <1>1 DEF BrowserNext
<1>2. CASE UNCHANGED browserVars
  BY <1>2 DEF browserVars
<1> QED BY <1>1, <1>2

BrowserInv ==
    /\ part = "net" => NetInv /\ IdleFlights
    /\ part = "ops" => OpsInv
    /\ part = "read" => NoxInv
    /\ part = "log" => LogInv
    /\ \A c \in Tours : part = c => TourInv(c)
    /\ \A c \in Reviews : part = c => ReviewInv(c)

LEMMA BrowserInitial == BrowserInit => BrowserInv
<1> SUFFICES ASSUME BrowserInit PROVE BrowserInv
  OBVIOUS
<1>1. /\ part = "net" => NetInv /\ IdleFlights
      /\ part = "ops" => OpsInv
      /\ part = "read" => NoxInv
      /\ part = "log" => LogInv
  BY NetInitial, NetIdleInitial, OpsInitial, NoxInitial, LogInitial DEF BrowserInit
<1>2. ASSUME NEW c \in Tours, part = c PROVE TourInv(c)
  <2>1. CaseOf(Tours) = c
    BY <1>2 DEF CaseOf
  <2> QED BY <2>1, TourInitial DEF BrowserInit
<1>3. ASSUME NEW c \in Reviews, part = c PROVE ReviewInv(c)
  <2>1. CaseOf(Reviews) = c
    BY <1>3 DEF CaseOf
  <2> QED BY <2>1, ReviewInitial DEF BrowserInit
<1> QED BY <1>1, <1>2, <1>3 DEF BrowserInv

LEMMA BrowserStep == BrowserInv /\ [BrowserNext]_browserVars => BrowserInv'
<1> SUFFICES ASSUME BrowserInv, [BrowserNext]_browserVars PROVE BrowserInv'
  OBVIOUS
<1>1. part = "net" => (NetInv /\ IdleFlights)'
  <2> SUFFICES ASSUME part = "net" PROVE (NetInv /\ IdleFlights)'
    OBVIOUS
  <2>1. CASE Net!Next
    BY <2>1, NetStep, NetIdle DEF BrowserInv
  <2>2. CASE UNCHANGED netVars
    BY <2>2, NetStutter, IdleStutter DEF BrowserInv, netVars, netFrame
  <2> QED BY <2>1, <2>2, BrowserMoves
<1>2. part = "ops" => OpsInv'
  <2> SUFFICES ASSUME part = "ops" PROVE OpsInv'
    OBVIOUS
  <2>1. CASE Ops!Next
    BY <2>1, OpsStep DEF BrowserInv
  <2>2. CASE UNCHANGED opsVars
    BY <2>2, OpsStutter DEF BrowserInv, opsVars, opsFrame
  <2> QED BY <2>1, <2>2, BrowserMoves
<1>3. part = "read" => NoxInv'
  <2> SUFFICES ASSUME part = "read" PROVE NoxInv'
    OBVIOUS
  <2>1. CASE Read!Next
    BY <2>1, NoxStep DEF BrowserInv
  <2>2. CASE UNCHANGED readVars
    BY <2>2, NoxStutter DEF BrowserInv, readVars, readFrame
  <2> QED BY <2>1, <2>2, BrowserMoves
<1>4. part = "log" => LogInv'
  <2> SUFFICES ASSUME part = "log" PROVE LogInv'
    OBVIOUS
  <2>1. CASE Log!Next
    BY <2>1, LogStep DEF BrowserInv
  <2>2. CASE UNCHANGED logVars
    BY <2>2, LogStutter DEF BrowserInv
  <2> QED BY <2>1, <2>2, BrowserMoves
<1>5. ASSUME NEW c \in Tours, part = c PROVE TourInv(c)'
  <2>1. TourInv(c)
    BY <1>5 DEF BrowserInv
  <2>2. Tour(c)!Next \/ UNCHANGED tourVars
    BY <1>5, BrowserMoves
  <2> QED BY <2>1, <2>2, TourStep, TourStutter
<1>6. ASSUME NEW c \in Reviews, part = c PROVE ReviewInv(c)'
  <2>1. ReviewInv(c)
    BY <1>6 DEF BrowserInv
  <2>2. Review(c)!Next \/ UNCHANGED reviewVars
    BY <1>6, BrowserMoves
  <2> QED BY <2>1, <2>2, ReviewStep, ReviewStutter
<1>7. part' = part
  BY BrowserMoves
<1> QED BY <1>1, <1>2, <1>3, <1>4, <1>5, <1>6, <1>7 DEF BrowserInv

\* Whatever part of the browser moves, and in whatever case, that part stays in its
\* inductive invariant: the checks and handlers of the wallets, the operations, the read,
\* the log, the drawer and the auditor's page.
THEOREM BrowserInvariant == BrowserSpec => []BrowserInv
BY BrowserInitial, BrowserStep, PTL DEF BrowserSpec

\* One check at a time prompts a wallet, and a cached handle client signs with the provider
\* in use (WalletSafe), for any wallets, flights, handlers, faults and moves, in whatever
\* order the checks are answered and the handlers that wait for them go on.
THEOREM WalletIsSafe == BrowserSpec => []WalletSafe
<1>1. BrowserInv => WalletSafe
  BY NetIsSafe DEF BrowserInv, WalletSafe
<1> QED BY <1>1, BrowserInvariant, PTL

\* An operation holds what it needs until it ends and nothing after; a wait asks by its
\* deadline, and a decrypt is tried on resolved handles only; the pages show whole maps of
\* transactions, from few scans (PagesSafe): whatever fails, for any durations and chunks.
THEOREM PagesAreSafe == BrowserSpec => []PagesSafe
<1>1. BrowserInv => PagesSafe
  BY OpsIsSafe, NoxIsSafe, LogIsSafe DEF BrowserInv, PagesSafe
<1> QED BY <1>1, BrowserInvariant, PTL

\* The tour stands at a step only with the evidence of the steps before it and, where no
\* attempt is replaced, pauses only because the visitor left the mission's pages
\* (TourSafe), whatever the order the parts of a click land in, for any number of moves.
THEOREM TourIsLoyal == BrowserSpec => []TourSafe
<1>1. BrowserInv => TourSafe
  BY TourIsSafe DEF BrowserInv, TourSafe
<1> QED BY <1>1, BrowserInvariant, PTL

\* An audit is complete only with every packet of it opened and every disclosed request
\* judged, and no verdict is on a request of another run (ReviewSafe), for any packets and
\* contents of them, packets of other runs, handles and faults.
THEOREM AuditIsEarned == BrowserSpec => []ReviewSafe
<1>1. BrowserInv => ReviewSafe
  BY ReviewIsSafe DEF BrowserInv, ReviewSafe
<1> QED BY <1>1, BrowserInvariant, PTL

\* A step that changes nothing of a component is one its action properties allow.
LEMMA NetStill == ASSUME NetInv, UNCHANGED netVars PROVE Net!WalletSteps
<1>1. UNCHANGED <<account, shown, source, flight>>
  BY DEF netVars
<1>2. Net!LatestIntentWins /\ ~Net!Written
  BY <1>1 DEF Net!LatestIntentWins, Net!Written
<1>3. Net!LateAnswersIgnored
  BY <1>2 DEF Net!LateAnswersIgnored
<1>4. Net!SepoliaWasObserved
  BY <1>1 DEF Net!SepoliaWasObserved, Net!Stage
<1> QED BY <1>2, <1>3, <1>4 DEF Net!WalletSteps

\* What no step of the browser does (BrowserSteps): show an account that is not the one
\* asked for last, or a chain its wallet was not on; give up a wait without a reason; take
\* a link to a transaction away; land the last part of a click anywhere but on its target.
THEOREM BrowserStepsHold == BrowserSpec => BrowserSteps
<1>1. ASSUME BrowserInv, [BrowserNext]_browserVars
      PROVE  /\ part = "net" => Net!WalletSteps
             /\ part = "read" => Read!GivesUpWithReason
             /\ part = "log" => Log!LinksStay
             /\ \A c \in Tours : part = c /\ tourAt[c].Retries = {} => Tour(c)!LandsOnTarget
  <2>1. part = "net" => Net!WalletSteps
    BY <1>1, BrowserMoves, NetSteps, NetStill DEF BrowserInv
  <2>2. part = "read" => Read!GivesUpWithReason
    <3>1. UNCHANGED readVars => Read!GivesUpWithReason
      BY DEF readVars, Read!GivesUpWithReason
    <3> QED BY <1>1, <3>1, BrowserMoves, NoxReason DEF BrowserInv
  <2>3. part = "log" => Log!LinksStay
    <3>1. UNCHANGED logVars /\ LogInv => Log!LinksStay
      BY LogFacts DEF logVars, Log!LinksStay, Whole
    <3> QED BY <1>1, <3>1, BrowserMoves, LogLinks DEF BrowserInv
  <2>4. ASSUME NEW c \in Tours, part = c, tourAt[c].Retries = {} PROVE Tour(c)!LandsOnTarget
    <3>1. TourInv(c)
      BY <1>1, <2>4 DEF BrowserInv
    <3>2. Tour(c)!Next \/ UNCHANGED tourVars
      BY <1>1, <2>4, BrowserMoves
    <3> QED BY <2>4, <3>1, <3>2, TourLands
  <2> QED BY <2>1, <2>2, <2>3, <2>4
<1> QED BY <1>1, BrowserInvariant, PTL DEF BrowserSpec, BrowserSteps
=============================================================================
