---- MODULE RequestLog ----
(* The transactions of the requests, as the pages show them: a scan of the         *)
(* module's events in chunks of blocks, shared by the pages of a session and        *)
(* cached (app/src/txlog.ts), and the page that asks for it.  A block holds one     *)
(* event; the log endpoints know every block up to the head the scan reads.         *)
EXTENDS Naturals, Sequences, FiniteSetsExt

CONSTANTS
    Ids,         \* requests
    Chunk,       \* blocks of one query
    MaxBlocks,   \* bound on the chain
    MaxForces,   \* rescans asked for after a transaction
    MaxFaults,   \* queries that fail on every endpoint
    MaxMounts    \* pages opened one after the other

ChunkAssumption == {Chunk, MaxBlocks} \subseteq Nat \ {0}

VARIABLES
    log,                  \* the chain's events
    cache, scan,          \* the cached map and the scan in flight
    page,                 \* the mounted page: "none", "auditor", "acting"
    asking, seen,         \* whether it waits for the scan in flight; the map it shows
    base, reconciled,     \* txBaseLoaded and txForcedScan of the auditor
    packet,               \* requests of the auditor's packet
    owed,                 \* blocks on the chain when the page last forced a rescan it waits for
    scans, forces, mounts, faults

shown == <<page, asking, seen, base, reconciled, packet, owed>>
counts == <<scans, forces, mounts, faults>>
vars == <<log, cache, scan, shown, counts>>

Nothing == [request |-> 0, finalize |-> 0, approval |-> 0, cancellation |-> 0, path |-> "none", action |-> "none"]
Empty == [i \in Ids |-> Nothing]
Blank == [map |-> Empty, upto |-> 0]
NoMap == [map |-> Empty, upto |-> 0, ok |-> FALSE]
NoScan == [on |-> FALSE, from |-> 1, latest |-> 0, map |-> Empty]
Least(a, b) == IF a < b THEN a ELSE b

(***************************************************************************)
(* The contract's events, in the order a request emits them.               *)
(***************************************************************************)
Kinds(i) == {log[b].kind : b \in {c \in DOMAIN log : log[c].id = i}}
NextKinds(i) ==
    CASE Kinds(i) = {} -> {"requested"}
      [] Kinds(i) = {"requested"} -> {"executed", "blocked", "ready"}
      [] Kinds(i) = {"requested", "ready"} -> {"approved", "cancelled"}
      [] OTHER -> {}
Emit(i) ==
    /\ Len(log) < MaxBlocks
    /\ \E kind \in NextKinds(i) : log' = Append(log, [id |-> i, kind |-> kind])
    /\ UNCHANGED <<cache, scan, shown, counts>>

(***************************************************************************)
(* The map of a range of blocks.                                           *)
(***************************************************************************)
In(i, kinds, from, to) == {b \in from..to : log[b].id = i /\ log[b].kind \in kinds}
\* upsert and annotate, of every event of a request: the last one of its kinds stands.
Upsert(old, blocks) == IF blocks = {} THEN old ELSE Max(blocks)
Annotate(old, blocks, patch) == IF blocks = {} THEN old ELSE patch[log[Max(blocks)].kind]
Paths == [executed |-> "direct", blocked |-> "blocked", ready |-> "approval",
          approved |-> "approval", cancelled |-> "approval"]
Actions == [approved |-> "approve"]
Noted(tx, i, from, to) ==
    [request      |-> Upsert(tx.request, In(i, {"requested"}, from, to)),
     finalize     |-> Upsert(tx.finalize, In(i, {"executed", "blocked", "ready"}, from, to)),
     approval     |-> Upsert(tx.approval, In(i, {"approved"}, from, to)),
     cancellation |-> Upsert(tx.cancellation, In(i, {"cancelled"}, from, to)),
     path         |-> Annotate(tx.path, In(i, DOMAIN Paths, from, to), Paths),
     action       |-> Annotate(tx.action, In(i, DOMAIN Actions, from, to), Actions)]
Read(map, from, to) == [i \in Ids |-> Noted(map[i], i, from, to)]
LastOf(from, latest) == Least(from + Chunk - 1, latest)

(***************************************************************************)
(* fetchRequestTxs: a forced call drops the cache, yet joins the scan in   *)
(* flight.                                                                 *)
(***************************************************************************)
Drop(force) == IF force THEN NoMap ELSE cache
Start == IF scan.on THEN UNCHANGED <<scan, scans>> ELSE scan' = [NoScan EXCEPT !.on = TRUE] /\ scans' = scans + 1
\* The head is read first and bounds the whole scan.
ReadHead ==
    /\ scan.on /\ scan.latest = 0 /\ log # <<>>
    /\ scan' = [scan EXCEPT !.latest = Len(log)]
    /\ UNCHANGED <<log, cache, shown, counts>>
Query ==
    /\ scan.latest > 0 /\ scan.from <= scan.latest
    /\ scan' = [scan EXCEPT !.map = Read(@, scan.from, LastOf(scan.from, scan.latest)), !.from = scan.from + Chunk]
    /\ UNCHANGED <<log, cache, shown, counts>>
\* Every endpoint failed: who waits keeps what it shows.
QueryFails ==
    /\ scan.on /\ faults < MaxFaults
    /\ faults' = faults + 1 /\ scan' = NoScan
    /\ asking' = FALSE /\ owed' = 0
    /\ UNCHANGED <<log, cache, page, seen, base, reconciled, packet, scans, forces, mounts>>
ScanEnds ==
    /\ scan.latest > 0 /\ scan.from > scan.latest
    /\ scan' = NoScan
    /\ cache' = [map |-> scan.map, upto |-> scan.latest, ok |-> TRUE]
    /\ IF asking THEN seen' = [map |-> scan.map, upto |-> scan.latest] /\ base' = TRUE ELSE UNCHANGED <<seen, base>>
    /\ asking' = FALSE /\ owed' = 0
    /\ UNCHANGED <<log, page, reconciled, packet, counts>>

(***************************************************************************)
(* The pages.  One is mounted; a handler of one that is gone runs on.      *)
(***************************************************************************)
Mount(p) ==
    /\ mounts < MaxMounts /\ mounts' = mounts + 1
    /\ page' = p /\ reconciled' = FALSE /\ packet' = {} /\ owed' = 0
    /\ IF cache.ok
       THEN seen' = [map |-> cache.map, upto |-> cache.upto] /\ base' = TRUE /\ asking' = FALSE /\ UNCHANGED <<scan, scans>>
       ELSE seen' = Blank /\ base' = FALSE /\ asking' = TRUE /\ Start
    /\ UNCHANGED <<log, cache, forces, faults>>
\* The auditor's packets are read from the chain: they name requests it knows.
OpenPacket(i) ==
    /\ page = "auditor" /\ packet = {} /\ Kinds(i) # {}
    /\ packet' = {i}
    /\ UNCHANGED <<log, cache, scan, page, asking, seen, base, reconciled, owed, counts>>
\* mutant: the rescan does not wait for the first map
ReconcileAtOnce ==
    /\ page = "auditor" /\ packet # {} /\ ~reconciled
    /\ \E i \in packet : seen.map[i].request = 0
    /\ reconciled' = TRUE /\ asking' = TRUE /\ owed' = Len(log)
    /\ cache' = Drop(TRUE) /\ Start
    /\ forces' = forces + 1
    /\ UNCHANGED <<log, page, seen, base, packet, mounts, faults>>
\* One forced rescan per mount for a packet whose transactions are not all known.
Reconcile ==
    /\ page = "auditor" /\ packet # {} /\ base /\ ~reconciled
    /\ \E i \in packet : seen.map[i].request = 0
    /\ reconciled' = TRUE /\ asking' = TRUE /\ owed' = Len(log)
    /\ cache' = Drop(TRUE) /\ Start
    /\ forces' = forces + 1
    /\ UNCHANGED <<log, page, seen, base, packet, mounts, faults>>
\* After a transaction of the page, or of a page that is gone.
Force(mine) ==
    /\ forces < MaxForces /\ forces' = forces + 1
    /\ IF mine THEN page = "acting" /\ asking' = TRUE /\ owed' = Len(log) ELSE UNCHANGED <<asking, owed>>
    /\ cache' = Drop(TRUE) /\ Start
    /\ UNCHANGED <<log, page, seen, base, reconciled, packet, mounts, faults>>

Init ==
    /\ log = <<>> /\ cache = NoMap /\ scan = NoScan
    /\ page = "none" /\ asking = FALSE /\ seen = Blank /\ base = FALSE /\ reconciled = FALSE /\ packet = {} /\ owed = 0
    /\ scans = 0 /\ forces = 0 /\ mounts = 0 /\ faults = 0

Next ==
    \/ \E i \in Ids : Emit(i) \/ OpenPacket(i)
    \/ ReadHead \/ Query \/ QueryFails \/ ScanEnds \/ Reconcile
    \/ \E p \in {"auditor", "acting"} : Mount(p)
    \/ \E mine \in BOOLEAN : Force(mine)

Spec == Init /\ [][Next]_vars
\* A scan's calls are answered and the effect runs.
FairSpec == Spec /\ WF_vars(ReadHead) /\ WF_vars(Query) /\ WF_vars(ScanEnds) /\ WF_vars(Reconcile)

(***************************************************************************)
(* Properties.                                                             *)
(***************************************************************************)
LogTypeOK ==
    /\ page \in {"none", "auditor", "acting"} /\ asking \in BOOLEAN /\ (asking => scan.on)
    /\ scan.from \in 1..(MaxBlocks + Chunk) /\ scan.latest \in 0..Len(log) /\ (scan.on => ~cache.ok)
    /\ packet \subseteq Ids /\ owed \in 0..Len(log)

\* What a page shows and what the cache keeps are the transactions of all blocks up to some
\* head: no event between two queries is missed, and each request's hashes and outcome are
\* those of its events (txlog.ts 70-108).
ShownIsWhole ==
    /\ seen.map = Read(Empty, 1, seen.upto)
    /\ cache.map = Read(Empty, 1, cache.upto)

\* A page never shows less than it showed before: a failed, a late or a shared scan does not
\* take a transaction link away (txlog.ts 59-63, SignerView.tsx 72).
LinksStay == mounts' = mounts => seen'.upto >= seen.upto

\* The whole log is scanned once for a session, and again only for a forced call or after a
\* failure, whoever asks: the public endpoints are not asked again by each page.
ScansAreFew == scans <= 1 + forces + faults

\* The safety of the log.
LogSafe == LogTypeOK /\ ShownIsWhole /\ ScansAreFew

\* The auditor's page shows a packet without the transactions of its request
\* (AuditorView.tsx 184-192).
Unindexed == \E i \in Ids : page = "auditor" /\ packet = {i} /\ seen.map[i].request = 0

\* "Pass force=true to re-scan (e.g. right after a new finalize/approval landed)"
\* (txlog.ts 56-57): the answer to a forced call knows every block there was at the call.
\* Refuted: see README.
ForcedIsFresh == owed > 0 /\ owed' = 0 /\ mounts' = mounts /\ faults' = faults => seen'.upto >= owed
====
