------------------------- MODULE DisclosureCheckpoint -------------------------
(***************************************************************************)
(* Audit packets made with the Finance Admin's own wallet (DisclosureView  *)
(* and disclosure-checkpoint.ts): a checkpoint in the browser's storage    *)
(* has a marker before a wallet prompt opens and the hash after it, so     *)
(* that no reload, second tab or lost answer leads to a second signature.  *)
(***************************************************************************)
EXTENDS Naturals, Sequences, FiniteSets, Functions

CONSTANTS
    Tabs,
    Scopes,             \* selections, each a sequence of mandate groups, disjoint
    MaxPrompts,         \* bound on wallet prompts
    MaxFaults           \* bound on failed storage writes, failed calls and closed tabs

DisclosureBounds ==
    /\ Scopes # {} /\ <<>> \notin Scopes /\ MaxPrompts \in Nat /\ MaxFaults \in Nat
    /\ \A s \in Scopes : s \in Seq(Range(s))
    /\ \A s, u \in Scopes : s # u => Range(s) \cap Range(u) = {}

Groups == UNION {Range(s) : s \in Scopes}
Prompts == 1..MaxPrompts

VARIABLES
    durable,            \* the checkpoint in localStorage
    volatile,           \* volatileCheckpoints of each tab
    newer,              \* the tabs whose volatile checkpoint is newer than the durable one
    screen,             \* adminCheckpoint, the copy the mounted view shows
    mounted,            \* the tabs whose mounted view is the one that runs the operation
    pc, ck, at,         \* the operation of each tab: its checkpoint, its group
    lock,               \* the tabs that hold the Web Lock (at most one)
    prompt,             \* the wallet's requests, in the order they opened
    archived,           \* scopes reported as created
    forgotten,          \* groups whose locked pointer was discarded
    faults

stores == <<durable, volatile, newer>>
vars == <<stores, screen, mounted, pc, ck, at, lock, prompt, archived, forgotten, faults>>

NoCheckpoint == [scope |-> <<>>, group |-> [g \in {} |-> 0]]
Blank == [pending |-> FALSE, hash |-> 0]
createAdminDisclosureCheckpoint(s) == [scope |-> s, group |-> [g \in Range(s) |-> Blank]]

Exists(c) == c.scope # <<>>
LockedGroups(c) == {g \in DOMAIN c.group : c.group[g].pending \/ c.group[g].hash # 0}
HasLockedPointers(c) == LockedGroups(c) # {}

\* loadAdminDisclosureCheckpoint: the newer of the two copies.
Load(t) ==
    IF Exists(volatile[t]) /\ (~Exists(durable) \/ t \in newer) THEN volatile[t] ELSE durable

Init ==
    /\ durable = NoCheckpoint /\ volatile = [t \in Tabs |-> NoCheckpoint] /\ newer = {}
    /\ screen = [t \in Tabs |-> NoCheckpoint] /\ mounted = {}
    /\ pc = [t \in Tabs |-> "page"] /\ ck = [t \in Tabs |-> NoCheckpoint] /\ at = [t \in Tabs |-> 1]
    /\ lock = {} /\ prompt = <<>> /\ archived = {} /\ forgotten = {} /\ faults = 0

Fault == faults < MaxFaults /\ faults' = faults + 1
group(t) == ck[t].scope[at[t]]
entry(t) == ck[t].group[group(t)]
Patched(t, e) == [ck[t] EXCEPT !.group[group(t)] = e]

\* The operation goes on with checkpoint c and group i.
Continue(t, c, i, where) ==
    /\ pc' = [pc EXCEPT ![t] = where] /\ ck' = [ck EXCEPT ![t] = c] /\ at' = [at EXCEPT ![t] = i]
    /\ UNCHANGED lock
Goto(t, where) == Continue(t, ck[t], at[t], where)

\* The operation throws, and the lock is released.
Throw(t) ==
    /\ pc' = [pc EXCEPT ![t] = "page"] /\ ck' = [ck EXCEPT ![t] = NoCheckpoint] /\ at' = [at EXCEPT ![t] = 1]
    /\ lock' = lock \ {t}

\* setAdminCheckpoint reaches the view that is mounted.
Show(t, c) == screen' = IF t \in mounted THEN [screen EXCEPT ![t] = c] ELSE screen

\* saveAdminDisclosureCheckpoint; the storage refuses a write when ok is false.
Save(t, c, ok) ==
    /\ volatile' = [volatile EXCEPT ![t] = c]
    /\ IF ok THEN durable' = c /\ newer' = {} /\ UNCHANGED faults
       ELSE newer' = newer \cup {t} /\ Fault /\ UNCHANGED durable
Update(t, c, ok) == Show(t, c) /\ Save(t, c, ok)

\* Recorded, the operation goes on; otherwise it throws.
Record(t, c, ok, where) ==
    Update(t, c, ok) /\ (IF ok THEN Continue(t, c, at[t], where) ELSE Throw(t))

-----------------------------------------------------------------------------
(* The page                                                                *)

\* The view mounts, again if the user left it, and restores a checkpoint.
Mount(t) ==
    /\ pc[t] # "closed"
    /\ screen' = [screen EXCEPT ![t] = Load(t)] /\ mounted' = mounted \ {t}
    /\ UNCHANGED <<stores, pc, ck, at, lock, prompt, archived, forgotten, faults>>

MayDiscard(t) ==
    /\ Exists(screen[t]) /\ ~HasLockedPointers(screen[t])
    /\ pc[t] = "page" \/ (pc[t] # "closed" /\ t \notin mounted)

\* discardAdminRecovery
Discard(t) ==
    /\ MayDiscard(t)
    /\ screen' = [screen EXCEPT ![t] = NoCheckpoint]
    /\ \/ /\ durable' = NoCheckpoint /\ volatile' = [volatile EXCEPT ![t] = NoCheckpoint]
          /\ newer' = newer \ {t}
          /\ forgotten' = forgotten \cup LockedGroups(durable) /\ UNCHANGED faults
       \/ Fault /\ UNCHANGED <<stores, forgotten>>
    /\ UNCHANGED <<mounted, pc, ck, at, lock, prompt, archived>>

\* mutant: a prompt whose outcome is unknown does not lock the scope
OnlyHashes(c, s) == c.scope = s \/ \A g \in DOMAIN c.group : c.group[g].hash = 0
MayStart(c, s) == c.scope = s \/ ~HasLockedPointers(c)

Begin(t, c) ==
    /\ pc' = [pc EXCEPT ![t] = "group"] /\ ck' = [ck EXCEPT ![t] = c] /\ lock' = {t} /\ UNCHANGED at

\* create takes the Web Lock; a checkpoint of another scope gives way unless it is locked.
Create(t, s) ==
    /\ pc[t] = "page" /\ lock = {} /\ s \notin archived
    /\ mounted' = mounted \cup {t}
    /\ MayStart(Load(t), s)
    /\ \/ /\ Load(t).scope = s /\ Begin(t, Load(t))
          /\ UNCHANGED <<stores, screen, faults>>
       \/ \E ok \in BOOLEAN :
            LET fresh == createAdminDisclosureCheckpoint(s) IN
            /\ Load(t).scope # s
            /\ screen' = [screen EXCEPT ![t] = fresh] /\ Save(t, fresh, ok)
            /\ IF ok THEN Begin(t, fresh) ELSE UNCHANGED <<pc, ck, at, lock>>
    /\ UNCHANGED <<prompt, archived, forgotten>>

\* The tab is closed or reloaded; the wallet keeps its prompt.
Close(t) ==
    /\ pc[t] # "closed" /\ Fault
    /\ pc' = [pc EXCEPT ![t] = "closed"] /\ lock' = lock \ {t}
    /\ volatile' = [volatile EXCEPT ![t] = NoCheckpoint] /\ newer' = newer \ {t}
    /\ screen' = [screen EXCEPT ![t] = NoCheckpoint] /\ mounted' = mounted \ {t}
    /\ ck' = [ck EXCEPT ![t] = NoCheckpoint] /\ at' = [at EXCEPT ![t] = 1]
    /\ UNCHANGED <<durable, prompt, archived, forgotten>>

Open(t) ==
    /\ pc[t] = "closed" /\ pc' = [pc EXCEPT ![t] = "page"]
    /\ screen' = [screen EXCEPT ![t] = durable]
    /\ UNCHANGED <<stores, mounted, ck, at, lock, prompt, archived, forgotten, faults>>

-----------------------------------------------------------------------------
(* One group of the operation                                              *)

\* recoverUnknownAdminSignature: the packets on the chain that match the group.
Matches(g) == {p \in DOMAIN prompt : prompt[p].group = g /\ prompt[p].status = "success"}

Recover(t) ==
    /\ pc[t] = "group" /\ entry(t).hash = 0 /\ entry(t).pending
    /\ \/ /\ Cardinality(Matches(group(t))) = 1
          /\ \E p \in Matches(group(t)), ok \in BOOLEAN :
                Record(t, Patched(t, [Blank EXCEPT !.hash = p]), ok, "receipt")
       \/ /\ Cardinality(Matches(group(t))) # 1
          /\ Throw(t) /\ UNCHANGED <<stores, screen, faults>>
    /\ UNCHANGED <<mounted, prompt, archived, forgotten>>

Marked(t, ok) == ok

\* onRequestStarted: the marker is durable, or it is taken back and no prompt opens.
Sign(t) ==
    /\ pc[t] = "group" /\ entry(t).hash = 0 /\ ~entry(t).pending /\ Len(prompt) < MaxPrompts
    /\ \E ok \in BOOLEAN :
        LET kept == IF Marked(t, ok) THEN Patched(t, [Blank EXCEPT !.pending = TRUE]) ELSE ck[t] IN
        /\ Update(t, kept, ok)
        /\ IF Marked(t, ok)
           THEN /\ prompt' = Append(prompt, [group |-> group(t), by |-> t, status |-> "open"])
                /\ Continue(t, kept, at[t], "prompt")
           ELSE Throw(t) /\ UNCHANGED prompt
    /\ UNCHANGED <<mounted, archived, forgotten>>

\* The gas preflight fails before the prompt.
PreflightFails(t) ==
    /\ pc[t] = "group" /\ entry(t).hash = 0 /\ ~entry(t).pending /\ Fault
    /\ Throw(t) /\ UNCHANGED <<stores, screen, mounted, prompt, archived, forgotten>>

\* A stored hash is followed.
Follow(t) ==
    /\ pc[t] = "group" /\ entry(t).hash # 0 /\ Goto(t, "receipt")
    /\ UNCHANGED <<stores, screen, mounted, prompt, archived, forgotten, faults>>

\* mutant: an error of the wallet is taken for a rejection
AnyError(t, p) == TRUE
Rejected(t, p) == prompt[p].status = "rejected"

\* The wallet answers: a hash, a rejection, or an error that says nothing.
Answer(t, p) ==
    /\ pc[t] = "prompt" /\ p = Len(prompt)
    /\ \/ /\ prompt[p].status \notin {"open", "rejected"}
          /\ \E ok \in BOOLEAN : Record(t, Patched(t, [Blank EXCEPT !.hash = p]), ok, "receipt")
       \/ /\ Rejected(t, p)
          /\ \E ok \in BOOLEAN : Update(t, Patched(t, Blank), ok)
          /\ Throw(t)
       \/ /\ ~Rejected(t, p) /\ Fault
          /\ Throw(t) /\ UNCHANGED <<stores, screen>>
    /\ UNCHANGED <<mounted, prompt, archived, forgotten>>

Succeeded(p) == prompt[p].status = "success"

\* A verified group is recorded with its packet (nothing reads that copy unverified); a reverted one is cleared and the operation ends.
Receipt(t) ==
    /\ pc[t] = "receipt"
    /\ LET p == entry(t).hash IN
       \/ /\ Succeeded(p)
          /\ \E ok \in BOOLEAN :
                /\ Update(t, ck[t], ok)
                /\ IF ~ok THEN Throw(t)
                   ELSE IF at[t] = Len(ck[t].scope) THEN Goto(t, "archive")
                   ELSE Continue(t, ck[t], at[t] + 1, "group")
       \/ /\ prompt[p].status = "reverted" /\ ~Succeeded(p)
          /\ \E ok \in BOOLEAN : Update(t, Patched(t, Blank), ok)
          /\ Throw(t)
       \/ Fault /\ Throw(t) /\ UNCHANGED <<stores, screen>>
    /\ UNCHANGED <<mounted, prompt, archived, forgotten>>

\* removeAdminDisclosureCheckpoint, then the result is shown.
Archive(t) ==
    /\ pc[t] = "archive"
    /\ \/ /\ durable' = NoCheckpoint /\ volatile' = [volatile EXCEPT ![t] = NoCheckpoint]
          /\ newer' = newer \ {t} /\ Show(t, NoCheckpoint)
          /\ archived' = archived \cup {ck[t].scope} /\ UNCHANGED faults
       \/ Fault /\ UNCHANGED <<stores, screen, archived>>
    /\ Throw(t) /\ UNCHANGED <<mounted, prompt, forgotten>>

-----------------------------------------------------------------------------
(* The wallet and the chain                                                *)

Becomes(p, from, to) == prompt[p].status = from /\ prompt' = [prompt EXCEPT ![p].status = to]

WalletAndChain(p) ==
    /\ \/ Becomes(p, "open", "sent") \/ Becomes(p, "open", "rejected")
       \/ Becomes(p, "sent", "success") \/ Becomes(p, "sent", "reverted")
    /\ UNCHANGED <<stores, screen, mounted, pc, ck, at, lock, archived, forgotten, faults>>

Operation(t) ==
    \/ Recover(t) \/ Sign(t) \/ PreflightFails(t) \/ Follow(t)
    \/ \E p \in DOMAIN prompt : Answer(t, p)
    \/ Receipt(t) \/ Archive(t)

Next ==
    \/ \E t \in Tabs : Mount(t) \/ Discard(t) \/ Close(t) \/ Open(t) \/ Operation(t)
    \/ \E t \in Tabs, s \in Scopes : Create(t, s)
    \/ \E p \in DOMAIN prompt : WalletAndChain(p)

Spec == Init /\ [][Next]_vars

-----------------------------------------------------------------------------
(* Properties                                                              *)

CheckpointOK(c) ==
    /\ c.scope \in Scopes \cup {<<>>} /\ DOMAIN c.group = Range(c.scope)
    /\ \A g \in DOMAIN c.group :
        /\ c.group[g].pending \in BOOLEAN
        /\ c.group[g].hash \in 0..Len(prompt)

\* The stores hold checkpoints of a scope; one tab at most has the lock.
DisclosureTypeOK ==
    /\ CheckpointOK(durable) /\ \A t \in Tabs : CheckpointOK(volatile[t]) /\ CheckpointOK(screen[t])
    /\ newer \subseteq Tabs /\ mounted \subseteq Tabs /\ lock \subseteq Tabs /\ Cardinality(lock) <= 1
    /\ \A t \in Tabs : pc[t] \in {"page", "closed"} <=> t \notin lock
    /\ \A p \in DOMAIN prompt : prompt[p].status \in {"open", "sent", "rejected", "success", "reverted"}

\* What may be, or already is, a packet of group g.
Live(g) == {p \in DOMAIN prompt : prompt[p].group = g /\ prompt[p].status \in {"open", "sent", "success"}}

\* A group is never signed a second time while its first signature may count, through
\* reloads, lost answers, refused writes and a second tab.
OneSignature == \A g \in Groups \ forgotten : Cardinality(Live(g)) <= 1

\* Every such signature has its pointer in the durable storage until the scope is reported:
\* whatever happens to the tab, the next one finds it.
PointerSurvives ==
    \A s \in Scopes \ archived : \A g \in Range(s) \ forgotten :
        Live(g) # {} => durable.scope = s /\ g \in LockedGroups(durable)

\* A scope is reported as created only with a packet on the chain for each of its groups.
ReportIsTrue == \A s \in archived : \A g \in Range(s) : Matches(g) # {}

\* The safety of a disclosure.
DisclosureSafe == DisclosureTypeOK /\ OneSignature /\ ReportIsTrue

\* "Pending wallet requests and broadcast recovery pointers cannot be discarded."
\* (DisclosureView.tsx 720). Refuted: see README.
NothingForgotten == forgotten = {}
=============================================================================
