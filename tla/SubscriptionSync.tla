-------------------------- MODULE SubscriptionSync --------------------------
(***************************************************************************)
(* The notification state of a subscriptions contract.  Every minute each  *)
(* node (SubscriptionsRunner) computes which subscriptions are due from    *)
(* its last sync data and the prices it sees, and triggers them with a     *)
(* transaction of the cluster (TxConsensus).  Once that landed, it signs   *)
(* the sync data with the new notifications and passes it on; whoever      *)
(* holds the signatures of a majority takes the data over                  *)
(* (SubscriptionsSyncData, PendingSyncDataCache, trySetSyncData).          *)
(*                                                                         *)
(* Time is counted in minutes, the distance of two rounds.                 *)
(***************************************************************************)
EXTENDS Integers, FiniteSets

CONSTANTS
    Node,         \* the nodes of the cluster configuration
    Sub,          \* the active subscriptions
    Seen,         \* what a node may see of a price: a price, 0 if there is none,
                  \* or None if the subscription or its price cannot be read
    None,         \* null
    Threshold,    \* threshold of the subscriptions, in tenths of a percent
    Heartbeat,    \* heartbeat of the subscriptions, in minutes
    Retention,    \* age at which the pending cache drops an item, in minutes
    MaxRound,     \* bound: rounds a node may start
    MaxClock,     \* bound: the minutes that pass
    MaxFaults     \* bound: skipped rounds, lost connections and restarts

ASSUME ClusterAssumption == IsFiniteSet(Node)
ASSUME SubscriptionAssumption ==
    /\ Seen \ {None} \subseteq Nat
    /\ Threshold \in Nat
    /\ Heartbeat \in Nat
    /\ Retention \in Nat
ASSUME LimitAssumption ==
    /\ MaxRound \in Nat
    /\ MaxClock \in Nat
    /\ MaxFaults \in Nat

VARIABLES
    clock,     \* the minute
    worker,    \* per node: the worker of the runner
    last,      \* per node: __lastSyncData
    cache,     \* per node: __pendingSyncData, as pairs <<item, signer>>
    net,       \* SYNC messages under way
    link,      \* per pair: the sender's OUTGOING channel to the receiver
    landed,    \* trigger transactions on the ledger
    signed,    \* history: per node, what it built and signed
    failures,  \* skipped rounds so far
    drops,     \* connections lost so far
    restarts   \* restarts so far

vars == <<clock, worker, last, cache, net, link, landed, signed, failures,
          drops, restarts>>

-----------------------------------------------------------------------------
(* Data *)

Rounds == 1..MaxRound
Price == (Seen \ {None}) \cup {0}

(* syncData: per subscription when and with which price it was notified.    *)
(* A subscription without an entry reads as zero.                          *)
Notification == [lastNotification : 0..MaxRound, lastPrice : Price]
NoNotification == [lastNotification |-> 0, lastPrice |-> 0]

SyncItem == [ts : Rounds, data : [Sub -> Notification]]
SyncData == [item : SyncItem, sigs : SUBSET Node]
ASSUME NoneAssumption == None \notin SyncData

Event == [sub : Sub, price : Price, prevPrice : Price]
TriggerTx == [ts : Rounds, events : SUBSET Event]

Channels == {c \in Node \X Node : c[1] # c[2]}

(* Mutant: one signature less than a majority *)
HasMajorityLess(S) == 2 * Cardinality(S) >= Cardinality(Node) - 1

HasMajority(S) == 2 * Cardinality(S) > Cardinality(Node)

(* getPriceDiff, in tenths of a percent *)
PriceDiff(old, new) ==
    IF new = 0 THEN 0
    ELSE IF old = 0 THEN 1000
    ELSE ((IF old > new THEN old - new ELSE new - old) * 1000) \div old

(* A timestamp is decades away from zero, so no entry means overdue *)
IsDue(entry, price, ts) ==
    \/ PriceDiff(entry.lastPrice, price) >= Threshold
    \/ entry.lastNotification = 0
    \/ ts - entry.lastNotification >= Heartbeat

(* The entry of a subscription that is triggered *)
Notified(ts, price) == [lastNotification |-> ts, lastPrice |-> price]

(* The copy of the sync data a round starts from *)
BaseData(n) ==
    IF last[n] = None THEN [s \in Sub |-> NoNotification] ELSE last[n].item.data

LastTimestamp(n) == IF last[n] = None THEN 0 ELSE last[n].item.ts

-----------------------------------------------------------------------------
(* Handling of sync data, shared by the worker and the SYNC handler *)

Signers(n, item) == {m \in Node : <<item, m>> \in cache[n]}

(* Mutant: a signer that is known already ends the merge *)
MergedUntilKnown(n, item, sigs) ==
    IF sigs \cap Signers(n, item) # {} THEN Signers(n, item)
    ELSE Signers(n, item) \cup sigs

(* push: the signatures for the item, those kept for it included *)
Merged(n, item, sigs) == Signers(n, item) \cup sigs

(* Mutant: the age of the data is not compared *)
IsCurrentAlways(n, item) == TRUE

IsCurrent(n, item) == item.ts >= LastTimestamp(n)

(* trySetSyncData: the item goes through the cache, which is then rid of    *)
(* old items, and becomes the last sync data if a majority signed it       *)
TrySetSyncData(n, item, sigs) ==
    LET merged == Merged(n, item, sigs) IN
    /\ cache' = [cache EXCEPT ![n] =
                    {e \in @ \cup {<<item, m>> : m \in merged} :
                        e[1].ts > clock - Retention}]
    /\ last' = IF HasMajority(merged) /\ IsCurrent(n, item)
               THEN [last EXCEPT ![n] = [item |-> item, sigs |-> merged]]
               ELSE last

(* The nodes n has a channel to, which need not have said READY yet *)
Reachable(n) == {m \in Node \ {n} : link[<<n, m>>] # "down"}

(* nodesManager.broadcast *)
Broadcast(n, peers, item, sigs) ==
    {[from |-> n, to |-> m, item |-> item, sigs |-> sigs] : m \in peers}

(* broadcastSyncData *)
BroadcastLast(n, peers) ==
    IF last[n] = None THEN {} ELSE Broadcast(n, peers, last[n].item, last[n].sigs)

IdleWorker(ts) == [pc |-> "idle", ts |-> ts, item |-> None, tx |-> None]

-----------------------------------------------------------------------------
Init ==
    /\ clock = 0
    /\ worker = [n \in Node |-> IdleWorker(0)]
    /\ last = [n \in Node |-> None]
    /\ cache = [n \in Node |-> {}]
    /\ net = {}
    /\ link = [c \in Channels |-> "synced"]
    /\ landed = {}
    /\ signed = [n \in Node |-> {}]
    /\ failures = 0
    /\ drops = 0
    /\ restarts = 0

FaultsLeft == failures + drops + restarts < MaxFaults

RoundIsDue(n) ==
    /\ worker[n].pc = "idle"
    /\ worker[n].ts < MaxRound
    /\ worker[n].ts < clock

(* The account and the contract are read; the last sync data is repeated.  The
   contract is initialized: the one round that initializes it triggers nothing,
   like one that fails. *)
StartWorker(n) ==
    /\ RoundIsDue(n)
    /\ worker' = [worker EXCEPT ![n] =
                    [IdleWorker(@.ts + 1) EXCEPT !.pc = "actions"]]
    /\ net' = net \cup BroadcastLast(n, Reachable(n))
    /\ UNCHANGED <<clock, last, cache, link, landed, signed, failures, drops,
                   restarts>>

(* One of these requests throws *)
SkipRound(n) ==
    /\ RoundIsDue(n)
    /\ FaultsLeft
    /\ failures' = failures + 1
    /\ worker' = [worker EXCEPT ![n] = IdleWorker(@.ts + 1)]
    /\ UNCHANGED <<clock, last, cache, net, link, landed, signed, drops, restarts>>

(* getSubscriptionActions for a node that sees these prices: the            *)
(* subscriptions that are due, and with which price                        *)
Due(n, seen) ==
    {s \in Sub : seen[s] # None /\ IsDue(BaseData(n)[s], seen[s], worker[n].ts)}

NotifiedPrice(n, seen, s) ==
    IF seen[s] = 0 THEN BaseData(n)[s].lastPrice ELSE seen[s]

(* The sync data as it will be, and the trigger transaction *)
NewItem(n, seen) ==
    [ts |-> worker[n].ts,
     data |-> [s \in Sub |-> IF s \in Due(n, seen)
                             THEN Notified(worker[n].ts, NotifiedPrice(n, seen, s))
                             ELSE BaseData(n)[s]]]

NewTrigger(n, seen) ==
    [ts |-> worker[n].ts,
     events |-> {[sub |-> s, price |-> NotifiedPrice(n, seen, s),
                  prevPrice |-> BaseData(n)[s].lastPrice] : s \in Due(n, seen)}]

(* The last sync data is copied first, what arrives while the prices are    *)
(* loaded is not seen any more.  The charges that follow in the round do   *)
(* not touch the sync data and are left out.                               *)
GetSubscriptionActions(n) ==
    \E seen \in [Sub -> Seen] :
        LET built == [item |-> NewItem(n, seen), tx |-> NewTrigger(n, seen)] IN
        /\ worker[n].pc = "actions"
        /\ \/ /\ Due(n, seen) = {}
              /\ worker' = [worker EXCEPT ![n] = IdleWorker(@.ts)]
              /\ UNCHANGED signed
           \/ /\ Due(n, seen) # {}
              /\ worker' = [worker EXCEPT ![n].pc = "wait",
                                          ![n].item = built.item,
                                          ![n].tx = built.tx]
              /\ signed' = [signed EXCEPT ![n] = @ \cup {built}]
        /\ UNCHANGED <<clock, last, cache, net, link, landed, failures, drops,
                       restarts>>

(* The transaction consensus: what a majority built may land *)
TriggerLands(tx) ==
    /\ HasMajority({n \in Node : \E b \in signed[n] : b.tx = tx})
    /\ landed' = landed \cup {tx}
    /\ UNCHANGED <<clock, worker, last, cache, net, link, signed, failures, drops,
                   restarts>>

(* Mutant: the sync data is published before the trigger landed *)
HasLandedAny(tx) == TRUE

HasLanded(tx) == tx \in landed

(* __buildAndSubmitTransaction returns: the sync data is set and broadcast *)
(* with the own signature                                                  *)
TriggerSucceeds(n) ==
    LET w == worker[n] IN
    /\ w.pc = "wait"
    /\ HasLanded(w.tx)
    /\ TrySetSyncData(n, w.item, {n})
    /\ net' = net \cup Broadcast(n, Reachable(n), w.item, {n})
    /\ worker' = [worker EXCEPT ![n] = IdleWorker(@.ts)]
    /\ UNCHANGED <<clock, link, landed, signed, failures, drops, restarts>>

(* An await of the round throws; also when the transaction did land *)
RoundFails(n) ==
    /\ worker[n].pc \in {"actions", "wait"}
    /\ worker' = [worker EXCEPT ![n] = IdleWorker(@.ts)]
    /\ UNCHANGED <<clock, last, cache, net, link, landed, signed, failures, drops,
                   restarts>>

(* SyncHandler, trySetRawSyncData *)
ReceiveSync(n, msg) ==
    /\ msg \in net
    /\ msg.to = n
    /\ net' = net \ {msg}
    /\ TrySetSyncData(n, msg.item, msg.sigs)
    /\ UNCHANGED <<clock, worker, link, landed, signed, failures, drops, restarts>>

Tick ==
    /\ clock < MaxClock
    /\ clock' = clock + 1
    /\ UNCHANGED <<worker, last, cache, net, link, landed, signed, failures, drops,
                   restarts>>

(* ------------------- connections and restarts ------------------------- *)

Disconnect(n, m) ==
    /\ FaultsLeft
    /\ link[<<n, m>>] # "down"
    /\ link' = [link EXCEPT ![<<n, m>>] = "down"]
    /\ net' = {msg \in net : ~(msg.from = n /\ msg.to = m)}
    /\ drops' = drops + 1
    /\ UNCHANGED <<clock, worker, last, cache, landed, signed, failures, restarts>>

(* The channel is back and is sent what n broadcasts *)
Connect(n, m) ==
    /\ link[<<n, m>>] = "down"
    /\ link' = [link EXCEPT ![<<n, m>>] = "open"]
    /\ UNCHANGED <<clock, worker, last, cache, net, landed, signed, failures,
                   drops, restarts>>

(* A second later m says READY on it, and n repeats its sync data to all *)
PeerReady(n, m) ==
    /\ link[<<n, m>>] = "open"
    /\ link' = [link EXCEPT ![<<n, m>>] = "synced"]
    /\ net' = net \cup BroadcastLast(n, Reachable(n))
    /\ UNCHANGED <<clock, worker, last, cache, landed, signed, failures, drops,
                   restarts>>

(* The process dies and comes up again, with nothing but its configuration; *)
(* start() begins with the current minute once more                        *)
Restart(n) ==
    /\ FaultsLeft
    /\ clock > 0
    /\ worker' = [worker EXCEPT ![n] =
                    IdleWorker(IF clock <= MaxRound THEN clock - 1 ELSE MaxRound)]
    /\ last' = [last EXCEPT ![n] = None]
    /\ cache' = [cache EXCEPT ![n] = {}]
    /\ link' = [c \in Channels |-> IF n \in {c[1], c[2]} THEN "down" ELSE link[c]]
    /\ net' = {msg \in net : n \notin {msg.from, msg.to}}
    /\ restarts' = restarts + 1
    /\ UNCHANGED <<clock, landed, signed, failures, drops>>

WorkerStep(n) ==
    \/ StartWorker(n)
    \/ GetSubscriptionActions(n)
    \/ TriggerSucceeds(n)
    \/ RoundFails(n)

FailureStep(n) == SkipRound(n) \/ Restart(n)

LedgerStep == \E n \in Node : \E b \in signed[n] : TriggerLands(b.tx)

Next ==
    \/ \E n \in Node : WorkerStep(n) \/ FailureStep(n)
                       \/ \E msg \in net : ReceiveSync(n, msg)
    \/ \E c \in Channels :
        Disconnect(c[1], c[2]) \/ Connect(c[1], c[2]) \/ PeerReady(c[1], c[2])
    \/ LedgerStep
    \/ Tick

Spec == Init /\ [][Next]_vars

-----------------------------------------------------------------------------
(* Properties *)

Worker == [pc : {"idle", "actions", "wait"}, ts : 0..MaxRound,
           item : SyncItem \cup {None}, tx : TriggerTx \cup {None}]

TypeOK ==
    /\ clock \in Nat
    /\ worker \in [Node -> Worker]
    /\ \A n \in Node : worker[n].pc # "idle" => worker[n].ts \in Rounds
    /\ last \in [Node -> SyncData \cup {None}]
    /\ cache \in [Node -> SUBSET (SyncItem \X Node)]
    /\ net \subseteq [from : Node, to : Node, item : SyncItem, sigs : SUBSET Node]
    /\ link \in [Channels -> {"down", "open", "synced"}]
    /\ landed \subseteq TriggerTx
    /\ signed \in [Node -> SUBSET [item : SyncItem, tx : TriggerTx]]
    /\ failures \in Nat
    /\ drops \in Nat
    /\ restarts \in Nat

(* Nodes that hold sync data of the same minute hold the same data, unless  *)
(* a node was restarted within a minute and signed it twice: different     *)
(* notification states would make them trigger differently ever after.     *)
SyncAgreement ==
    \A n, m \in Node :
        /\ last[n] # None
        /\ last[m] # None
        /\ last[n].item.ts = last[m].item.ts
        /\ last[n].item # last[m].item
        => restarts > 0

(* Some node of the cluster signed contradicting data for the minute ts *)
SignedTwice(ts) ==
    \E n \in Node : \E b, c \in signed[n] :
        b.item.ts = ts /\ c.item.ts = ts /\ b.item # c.item

(* Even with restarts, two nodes disagree about a minute only if some node  *)
(* signed both versions: no wrong data comes of lost, late or repeated     *)
(* messages, nor of signatures merged over several of them.                *)
DisagreementIsSigned ==
    \A n, m \in Node :
        /\ last[n] # None
        /\ last[m] # None
        /\ last[n].item.ts = last[m].item.ts
        /\ last[n].item # last[m].item
        => SignedTwice(last[n].item.ts)

(* One of the transactions triggered the subscription as the entry says *)
TriggeredIn(txs, s, entry) ==
    \E tx \in txs :
        /\ tx.ts = entry.lastNotification
        /\ \E e \in tx.events : e.sub = s /\ e.price = entry.lastPrice

(* All the item remembers was triggered by one of the transactions *)
RemembersOnly(item, txs) ==
    \A s \in Sub : item.data[s].lastNotification > 0 =>
                        TriggeredIn(txs, s, item.data[s])

(* Every notification the shared state remembers, with its minute and its   *)
(* price, was triggered on the ledger: a subscriber is never considered    *)
(* notified of a price that was not published, though the data is computed *)
(* and signed before the transaction is submitted, and although rounds     *)
(* overlap with the arrival of newer data.                                 *)
NotificationsLanded ==
    \A n \in Node : last[n] # None => RemembersOnly(last[n].item, landed)

(* The sync data of a node never goes back in time while it runs. *)
SyncMovesForward ==
    [][\A n \in Node :
        last'[n] # last[n] => LastTimestamp(n) <= LastTimestamp(n)'
                              \/ restarts' > restarts]_vars

(* Time passes and messages that arrive are handled.  No fairness for the   *)
(* requests of a round, which have no timeout, for the ledger, nor for      *)
(* connections: a channel may stay down for ever.                          *)
Fairness ==
    /\ WF_vars(Tick)
    /\ \A n \in Node : WF_vars(\E msg \in net : ReceiveSync(n, msg))

(* The reads at the beginning of the rounds of n return or throw, in the end *)
RequestsReturn(n) == WF_vars(StartWorker(n) \/ SkipRound(n))

(* What one node holds when it begins a round, another node it is connected *)
(* to again and again holds too, or something newer, some time later,      *)
(* unless a round is skipped or a node restarts meanwhile: the signatures   *)
(* that make the data acceptable travel with it, over a connection that    *)
(* was lost too.                                                           *)
SyncSpreads ==
    \A n \in Node : \A m \in Node \ {n} :
        RequestsReturn(n) /\ []<>(link[<<n, m>>] = "synced") =>
            \A t \in 1..MaxRound - 1, k \in 0..MaxFaults :
                (RoundIsDue(n) /\ LastTimestamp(n) = t /\ failures + restarts = k)
                    ~> (LastTimestamp(m) >= t \/ failures + restarts > k)

FairSpec == Spec /\ Fairness

=============================================================================
