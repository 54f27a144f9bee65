---- MODULE WalletNetwork ----
(* Connected wallets and their network (app/src/wallet-network.ts, the wallet   *)
(* handlers of app/src/App.tsx, the client cache of app/src/nox.ts).  A flight  *)
(* is one ensureSepoliaNetwork: it prompts a wallet step by step, and everybody *)
(* who asks meanwhile joins it.  A task is one asynchronous handler; it is live *)
(* while no other handler has advanced walletConnectionEpoch.                   *)
EXTENDS Naturals, FiniteSets

CONSTANTS
    Wallets,      \* announced wallets, numbered from 1
    Fallback,     \* window.ethereum: one of them
    Knowing,      \* wallets that know Sepolia from the start
    Saved,        \* vg_wallet at start: a wallet, or 0
    Demo,         \* the account of a demo role
    Tasks, Flights,
    MaxFaults,    \* failed reads and clients that do not come up
    MaxMoves      \* what the user does, on the page and in the wallets

WalletsAssumption == /\ 0 \notin Wallets /\ Fallback \in Wallets /\ Saved \in Wallets \cup {0} /\ Knowing \subseteq Wallets
                            /\ 0 \notin Tasks \cup Flights /\ Demo \notin Wallets \cup {0}

VARIABLES
    chainOf,      \* wallet |-> "sepolia", "other"
    known,        \* wallets that know Sepolia
    event,        \* wallet |-> chainChanged not delivered yet: its chain, or "none"
    flight, check,    \* flight |-> its wallet and stage; pendingChecks: wallet |-> flight, 0: none
    task,         \* task |-> handler, wallet, live, pc and the flight it awaits
    account, info, active,    \* what App shows and getActiveProvider holds; 0: none
    shown,        \* chainId: "sepolia", "other", "unknown"
    switching, req,   \* networkSwitching and networkSwitchRequest (a flight, 0)
    cache,        \* account |-> wallet of its handle client, 0: none
    restoring,    \* the start-up effect may still reconnect
    source, intent,   \* ghosts: whose chain is shown; what the user asked for last
    faults, moves

wallet == <<chainOf, known, event>>
net == <<flight, check>>
page == <<account, info, active, shown, switching, req, cache>>
app == <<page, restoring>>
ghosts == <<source, intent>>
vars == <<wallet, net, task, app, ghosts, faults, moves>>

NoTask == [kind |-> "none", w |-> 0, live |-> FALSE, pc |-> "idle", on |-> 0]
NoFlight == [w |-> 0, stage |-> "idle"]
Provider == IF active # 0 THEN active ELSE Fallback
Free == {t \in Tasks : task[t].pc = "idle" /\ \A u \in Tasks : u < t => task[u].pc # "idle"}   \* the first of them
Waiting(f) == {t \in Tasks : task[t].pc = "flight" /\ task[t].on = f}
\* The epoch moves on: whatever is under way is no longer the latest.
Outdated == [t \in Tasks |-> [task[t] EXCEPT !.live = FALSE]]
\* setActiveProvider.
CacheUnder(w) == IF w # active THEN [a \in Wallets |-> 0] ELSE cache

(***************************************************************************)
(* ensureSepoliaNetwork.                                                   *)
(***************************************************************************)
\* mutant: the single flight is forgotten
FlightAlone(w) == {f \in Flights : flight[f].stage = "idle" /\ \A g \in Flights : g < f => flight[g].stage # "idle"}
\* The flights a check of w may be: the one under way, or a new one.
FlightFor(w) == IF check[w] # 0 THEN {check[w]}
                ELSE {f \in Flights : flight[f].stage = "idle" /\ \A g \in Flights : g < f => flight[g].stage # "idle"}
Start(w, f) ==
    /\ flight' = IF flight[f].stage = "idle" THEN [flight EXCEPT ![f] = [w |-> w, stage |-> "read"]] ELSE flight
    /\ check' = [check EXCEPT ![w] = f]
\* requestSepolia: App's own request is joined, another one is replaced.
Request(w, f) ==
    IF req # 0 /\ flight[req].w = w THEN f = req /\ UNCHANGED <<net, switching, req>>
    ELSE f \in FlightFor(w) /\ Start(w, f) /\ switching' = TRUE /\ req' = f

To(f, stage) == flight' = [flight EXCEPT ![f].stage = stage]
Stage(f, stages) == flight[f].stage \in stages
OnSepolia(f) == chainOf[flight[f].w] = "sepolia"

\* A promise settles, and its callers go on: an outdated handler stops, a live one
\* shows Sepolia or reads the chain anew, a client is created or given up.
Settle(f, ok) ==
    LET live == {t \in Waiting(f) : task[t].live /\ task[t].kind # "client"}
        clients == {t \in Waiting(f) : task[t].kind = "client"}
        After(t) == IF t \in live /\ ~ok THEN [task[t] EXCEPT !.pc = "reread", !.on = 0]
                    ELSE IF t \in clients /\ ok THEN [task[t] EXCEPT !.pc = "client", !.on = 0] ELSE NoTask
    IN  /\ flight' = [flight EXCEPT ![f] = NoFlight] /\ check' = [check EXCEPT ![flight[f].w] = 0]
        /\ task' = [t \in Tasks |-> IF t \in Waiting(f) THEN After(t) ELSE task[t]]
        /\ cache' = [a \in Wallets |-> IF ok /\ cache[a] = 0 /\ \E t \in clients : task[t].w = a THEN Provider ELSE cache[a]]
        /\ shown' = IF ok /\ live # {} THEN "sepolia" ELSE shown
        /\ source' = IF ok /\ live # {} THEN flight[f].w ELSE source
        /\ switching' = (switching /\ req # f) /\ req' = IF req = f THEN 0 ELSE req
        /\ UNCHANGED <<account, info, active, restoring, intent, moves>>

ReadFirst(f) ==
    /\ Stage(f, {"read"})
    /\ \/ OnSepolia(f) /\ Settle(f, TRUE) /\ UNCHANGED <<wallet, faults>>
       \/ ~OnSepolia(f) /\ To(f, "switch") /\ UNCHANGED <<wallet, check, task, app, ghosts, faults, moves>>
\* 4001, -32002 and every other error but 4902 end the check; so does a prompt
\* left open for its time.
Refuse(f) == /\ Stage(f, {"switch", "add", "select"}) /\ Settle(f, FALSE)
             /\ UNCHANGED <<wallet, faults>>
ReadFails(f) == /\ Stage(f, {"read"}) /\ faults < MaxFaults /\ faults' = faults + 1
                /\ Settle(f, FALSE) /\ UNCHANGED wallet
\* The wallet approves; it may apply the switch now, later, or not at all.
Apply(w) == \/ UNCHANGED <<chainOf, event>>
            \/ chainOf' = [chainOf EXCEPT ![w] = "sepolia"] /\ event' = [event EXCEPT ![w] = "sepolia"]
Approve(f) ==
    /\ \/ Stage(f, {"switch"}) /\ flight[f].w \in known /\ To(f, "settle") /\ Apply(flight[f].w) /\ UNCHANGED known
       \/ Stage(f, {"add"}) /\ To(f, "select") /\ Apply(flight[f].w) /\ known' = known \cup {flight[f].w}
       \/ Stage(f, {"select"}) /\ To(f, "confirm") /\ Apply(flight[f].w) /\ UNCHANGED known
    /\ UNCHANGED <<check, task, app, ghosts, faults, moves>>
\* 4902: the chain is added first.
Unrecognized(f) == /\ Stage(f, {"switch"}) /\ flight[f].w \notin known /\ To(f, "add")
                   /\ UNCHANGED <<wallet, check, task, app, ghosts, faults, moves>>
\* The chain id is polled until it is Sepolia's.
Poll(f) == Stage(f, {"settle", "confirm"}) /\ OnSepolia(f) /\ Settle(f, TRUE) /\ UNCHANGED <<wallet, faults>>
\* The time is over: a direct switch is recovered by adding the chain, once.
Deadline(f) ==
    /\ Stage(f, {"settle", "confirm"}) /\ ~OnSepolia(f)
    /\ \/ Stage(f, {"settle"}) /\ To(f, "add") /\ UNCHANGED <<check, task, app, ghosts, moves>>
       \/ Stage(f, {"confirm"}) /\ Settle(f, FALSE)
    /\ UNCHANGED <<wallet, faults>>

(***************************************************************************)
(* The wallets.                                                            *)
(***************************************************************************)
User == moves < MaxMoves /\ moves' = moves + 1
Move(w) ==
    /\ User
    /\ \E c \in {"sepolia", "other"} \ {chainOf[w]} :
           chainOf' = [chainOf EXCEPT ![w] = c] /\ event' = [event EXCEPT ![w] = c]
    /\ UNCHANGED <<known, net, task, app, ghosts, faults>>
\* Only the wallet App shows has a listener.
ChainChanged(w) ==
    /\ event[w] # "none" /\ event' = [event EXCEPT ![w] = "none"]
    /\ shown' = IF info = w THEN event[w] ELSE shown
    /\ source' = IF info = w THEN w ELSE source
    /\ UNCHANGED <<chainOf, known, net, task, account, info, active, switching, req, cache, restoring, intent, faults, moves>>
\* The wallet locks: accountsChanged with no account.
Locked(w) ==
    /\ info = w /\ account = w /\ User
    /\ account' = 0 /\ info' = 0
    /\ UNCHANGED <<wallet, net, task, active, shown, switching, req, cache, restoring, ghosts, faults>>

(***************************************************************************)
(* App's handlers.                                                         *)
(***************************************************************************)
Begin(kind, w, pc) == \E t \in Free : task' = [Outdated EXCEPT ![t] = [kind |-> kind, w |-> w, live |-> TRUE, pc |-> pc, on |-> 0]]
\* The picker opens; nothing else changes.
Connect == /\ User /\ (restoring \/ \E t \in Tasks : task[t].live)
           /\ task' = Outdated /\ restoring' = FALSE /\ UNCHANGED <<wallet, net, page, ghosts, faults>>
ConnectWallet(w) ==
    /\ User /\ Begin("connect", w, "accounts") /\ intent' = w /\ restoring' = FALSE
    /\ UNCHANGED <<wallet, net, page, source, faults>>
\* The saved wallet announces itself before anything else was asked for.
Restore ==
    /\ restoring /\ Saved # 0 /\ restoring' = FALSE
    /\ \E t \in Free : task' = [task EXCEPT ![t] = [kind |-> "silent", w |-> Saved, live |-> TRUE, pc |-> "accounts", on |-> 0]]
    /\ UNCHANGED <<wallet, net, page, ghosts, faults, moves>>
RestoreOver == /\ restoring /\ restoring' = FALSE
               /\ UNCHANGED <<wallet, net, task, page, ghosts, faults, moves>>

End(t) == task' = [task EXCEPT ![t] = NoTask]
\* The accounts of the wallet to connect.
Accounts(t) ==
    /\ task[t].pc = "accounts" /\ task[t].kind \in {"connect", "silent"}
    /\ \/ /\ task[t].live
          /\ active' = task[t].w /\ cache' = CacheUnder(task[t].w) /\ account' = task[t].w /\ info' = task[t].w
          /\ task' = [task EXCEPT ![t].pc = "chain"]
       \/ End(t) /\ UNCHANGED <<active, cache, account, info>>      \* outdated, none, or rejected
    /\ UNCHANGED <<wallet, net, shown, switching, req, restoring, ghosts, faults, moves>>
\* Its chain; an explicit connection to another network asks for Sepolia.
Chain(t) ==
    /\ task[t].pc = "chain"
    /\ \/ ~task[t].live /\ End(t) /\ UNCHANGED <<shown, source, net, switching, req>>
       \/ /\ task[t].live /\ shown' = chainOf[task[t].w] /\ source' = task[t].w
          /\ IF task[t].kind = "silent" \/ chainOf[task[t].w] = "sepolia"
             THEN End(t) /\ UNCHANGED <<net, switching, req>>
             ELSE \E f \in Flights : Request(task[t].w, f) /\ task' = [task EXCEPT ![t].pc = "flight", ![t].on = f]
    /\ UNCHANGED <<wallet, account, info, active, cache, restoring, intent, faults, moves>>
ChainFails(t) ==
    /\ task[t].pc = "chain" /\ task[t].live /\ faults < MaxFaults /\ faults' = faults + 1
    /\ shown' = "unknown" /\ End(t)
    /\ UNCHANGED <<wallet, net, account, info, active, switching, req, cache, restoring, ghosts, moves>>
\* mutant: a reread of another wallet's chain is shown
RereadAnyTime(t) ==
    /\ task[t].pc = "reread" /\ End(t)
    /\ shown' = chainOf[task[t].w] /\ source' = task[t].w
    /\ UNCHANGED <<wallet, net, account, info, active, switching, req, cache, restoring, intent, faults, moves>>
\* After a failed check the chain is read again; if that fails too, it is kept.
Reread(t) ==
    /\ task[t].pc = "reread" /\ End(t)
    /\ \/ task[t].live /\ shown' = chainOf[task[t].w] /\ source' = task[t].w
       \/ (~task[t].live \/ faults = MaxFaults) /\ UNCHANGED <<shown, source>>
    /\ UNCHANGED <<wallet, net, account, info, active, switching, req, cache, restoring, intent, faults, moves>>

\* The button of a wrong network; disabled while App's own request runs.
SwitchChain ==
    /\ User /\ account # 0 /\ account # Demo /\ shown # "sepolia" /\ ~switching
    /\ \E t \in Free, f \in Flights :
           /\ Request(Provider, f)
           /\ task' = [task EXCEPT ![t] = [kind |-> "switch", w |-> Provider, live |-> TRUE, pc |-> "flight", on |-> f]]
    /\ UNCHANGED <<wallet, account, info, active, shown, cache, restoring, ghosts, faults>>
SwitchAccount ==
    /\ User /\ account # 0 /\ account # Demo /\ intent' = Provider
    /\ Begin("account", Provider, "permissions") /\ restoring' = FALSE
    /\ UNCHANGED <<wallet, net, page, source, faults>>
\* The wallet hands out an account, or refuses; then its network is asked for.
Permitted(t) ==
    /\ task[t].pc = "permissions"
    /\ \/ End(t) /\ UNCHANGED <<account, net, switching, req>>
       \/ task[t].live /\ account' = task[t].w
          /\ \E f \in Flights : Request(task[t].w, f) /\ task' = [task EXCEPT ![t].pc = "flight", ![t].on = f]
    /\ UNCHANGED <<wallet, info, active, shown, cache, restoring, ghosts, faults, moves>>

\* disconnect, exitDemo (nobody) and enterDemo.
Drop(who) ==
    /\ User /\ task' = Outdated /\ restoring' = FALSE /\ req' = 0 /\ switching' = FALSE
    /\ active' = 0 /\ cache' = CacheUnder(0) /\ info' = 0 /\ shown' = "unknown" /\ account' = who /\ intent' = who
    /\ UNCHANGED <<wallet, net, source, faults>>
Disconnect == account # 0 /\ Drop(0)
EnterDemo == Drop(Demo)

\* handleClientFor, for a page's encryption or decryption.
Client ==
    /\ User /\ account # 0 /\ account # Demo
    /\ \E t \in Free, f \in FlightFor(Provider) :
           /\ Start(Provider, f)
           /\ task' = [task EXCEPT ![t] = [kind |-> "client", w |-> account, live |-> FALSE, pc |-> "flight", on |-> f]]
    /\ UNCHANGED <<wallet, app, ghosts, faults>>
\* The client comes up, or its promise is taken out of the cache again.
ClientUp(t) ==
    /\ task[t].pc = "client" /\ End(t)
    /\ \/ UNCHANGED <<cache, faults>>
       \/ faults < MaxFaults /\ faults' = faults + 1 /\ cache' = [cache EXCEPT ![task[t].w] = 0]
    /\ UNCHANGED <<wallet, net, account, info, active, shown, switching, req, restoring, ghosts, moves>>

Init ==
    /\ chainOf = [w \in Wallets |-> "other"] /\ known = Knowing /\ event = [w \in Wallets |-> "none"]
    /\ flight = [f \in Flights |-> NoFlight] /\ check = [w \in Wallets |-> 0] /\ task = [t \in Tasks |-> NoTask]
    /\ account = 0 /\ info = 0 /\ active = 0 /\ shown = "unknown" /\ switching = FALSE /\ req = 0
    /\ cache = [a \in Wallets |-> 0] /\ restoring = TRUE
    /\ source = 0 /\ intent = Saved /\ faults = 0 /\ moves = 0

FlightStep == \E f \in Flights : ReadFirst(f) \/ ReadFails(f) \/ Refuse(f) \/ Approve(f) \/ Unrecognized(f) \/ Poll(f) \/ Deadline(f)
TaskStep == \E t \in Tasks : Accounts(t) \/ Chain(t) \/ ChainFails(t) \/ Reread(t) \/ Permitted(t) \/ ClientUp(t)
WalletStep == \E w \in Wallets : Move(w) \/ ChainChanged(w) \/ Locked(w) \/ ConnectWallet(w)
Next == \/ FlightStep \/ TaskStep \/ WalletStep
        \/ Connect \/ Restore \/ RestoreOver \/ SwitchChain \/ SwitchAccount \/ Disconnect \/ EnterDemo \/ Client
Spec == Init /\ [][Next]_vars
\* Every stage of a flight ends: prompts and reads have a time, polling a deadline.
FairSpec == Spec /\ \A f \in Flights : WF_vars(ReadFirst(f) \/ Refuse(f) \/ Approve(f) \/ Poll(f) \/ Deadline(f))

(***************************************************************************)
(* Properties                                                              *)
(***************************************************************************)
\* The shape of the state: an awaited flight is under way, and networkSwitching
\* is on exactly while App's own request is.
NetTypeOK ==
    /\ \A t \in Tasks : task[t].pc = "flight" => flight[task[t].on].stage # "idle"
    /\ \A w \in Wallets : check[w] # 0 => flight[check[w]].w = w
    /\ switching <=> req # 0
    /\ req # 0 => flight[req].stage # "idle"
    /\ account \in Wallets \cup {0, Demo} /\ info \in Wallets \cup {0} /\ active \in Wallets \cup {0}

\* A wallet is never prompted by two checks at once, whoever asks: connecting,
\* the network button, a switched account or a page's client
\* (wallet-network.ts 316-332).
OnePrompt == \A f, g \in Flights : f # g /\ flight[f].stage # "idle" => flight[f].w # flight[g].w

\* The chain App shows is written only from the wallet in use: the late answer of
\* a wallet left behind satisfies no later connection (test/e2e/
\* wallet-network.spec.ts 245).  Refuted: see README.
Written == shown' # shown \/ source' # source
ChainFromItsWallet == Written => shown' = "unknown" \/ source' = active'

\* The same but for one handler: a network switch asked for while another wallet
\* was being connected, which does not advance the epoch.
Overtaken == {t \in Tasks : task[t].kind = "switch" /\ task[t].live /\ task[t].w # active}
LateAnswersIgnored == Written /\ Overtaken = {} => shown' = "unknown" \/ source' = active'

\* An account comes to be shown only if it is the one asked for last, whatever
\* answers late, the restored wallet's included.
LatestIntentWins == account' # account => account' \in {0, intent'}

\* A cached handle client signs with the provider in use (nox.ts 26-33, 69-88).
ClientIsProviders == \A a \in Wallets : cache[a] \in {0, Provider}

\* A handler shows Sepolia for a check only when the wallet was on Sepolia, however
\* the wallet answered the prompts.
SepoliaWasObserved ==
    \A f \in Flights : Stage(f, {"settle", "confirm"}) /\ flight'[f].stage = "idle" =>
        OnSepolia(f) \/ shown' = shown

\* One prompt per wallet at a time, and clients of the provider in use only.
WalletSafe == NetTypeOK /\ OnePrompt /\ ClientIsProviders
\* What a handler may do when it goes on after an await: nothing, unless it is the latest.
WalletSteps == LatestIntentWins /\ LateAnswersIgnored /\ SepoliaWasObserved
====
