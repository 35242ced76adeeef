----------------------------- MODULE TradesSync -----------------------------
(***************************************************************************)
(* How the nodes share the trades data the prices are computed from.  Each *)
(* minute the PriceRunner of a node loads what is missing of its own data, *)
(* TradesManager broadcasts it, and the TimestampSyncItem of a minute holds *)
(* the computation of prices back until all data is there or a deadline.   *)
(*                                                                         *)
(* The module is about one source and base asset: loads, caches and waits   *)
(* are kept per key.  Time is counted in units of the model; minute m is    *)
(* the timestamp m * Minute.  The clocks of the nodes agree.               *)
(***************************************************************************)
EXTENDS Integers, FiniteSets, Sequences

CONSTANTS
    Node,         \* the nodes of the cluster configuration
    Value,        \* what a data source may answer for a minute
    None,         \* undefined
    Minute,       \* units of time per minute
    SyncDelay,    \* dbSyncDelay
    Window,       \* how long after dbSyncDelay a minute is waited for
    CacheSize,    \* cacheSize: the most minutes loaded at once
    Heartbeat,    \* priceHeartbeat: minutes kept per node
    Asked,        \* bound: the minutes that prices are computed for
    MaxTime,      \* bound: the time
    MaxFaults     \* bound: failed and short loads, lost connections and restarts

ASSUME ClusterAssumption == IsFiniteSet(Node) /\ None \notin Value
ASSUME TimeAssumption ==
    /\ Minute \in Nat \ {0}
    /\ SyncDelay \in Nat
    /\ Window \in Nat
    /\ CacheSize \in Nat \ {0}
    /\ Heartbeat \in Nat /\ CacheSize <= Heartbeat
ASSUME LimitAssumption ==
    /\ MaxTime \in Nat /\ CacheSize * Minute <= MaxTime
    /\ MaxFaults \in Nat

VARIABLES
    now,       \* the time
    due,       \* per node: the minute the PriceRunner is at next
    load,      \* per node: __pendingTradesRequest
    trades,    \* per node: the cached data of each node, by minute
    item,      \* per node: __timestamps, the TimestampSyncItem of a minute
    link,      \* per pair: the sender's OUTGOING channel to the receiver
    queue,     \* per pair: the PRICE_SYNC messages under way
    short,     \* the nodes whose source once left minutes out
    restarted, \* the nodes that were restarted
    faults     \* failed and short loads, lost connections and restarts so far

vars == <<now, due, load, trades, item, link, queue, short, restarted, faults>>

-----------------------------------------------------------------------------
Minutes == 1..(MaxTime \div Minute)
CurrentMinute == now \div Minute
Deadline(m) == m * Minute + SyncDelay + Window

(* Cached or sent data, by minute *)
Data == [Minutes -> Value \cup {None}]
NoData == [m \in Minutes |-> None]

SyncItem == [presented : SUBSET Node, status : {"waiting", "ready", "timedOut"}]
Load == [target : Minutes, count : 1..CacheSize, next : BOOLEAN]
Channels == {c \in Node \X Node : c[1] # c[2]}

HasMajority(S) == 2 * Cardinality(S) > Cardinality(Node)

Cached(data) == {m \in Minutes : data[m] # None}

(* The last minute of the own data *)
LastTimestamp(data) ==
    IF Cached(data) = {} THEN 0
    ELSE CHOOSE m \in Cached(data) : \A k \in Cached(data) : k <= m

(* push of data into the cache, rid of what is older than the heartbeat *)
Push(data, batch) ==
    LET all == [m \in Minutes |-> IF batch[m] # None THEN batch[m] ELSE data[m]] IN
    [m \in Minutes |->
        IF Cardinality({k \in Cached(all) : k >= m}) <= Heartbeat THEN all[m] ELSE None]

(* Mutant: only the last minute is loaded *)
SampleSizeOne(last, current) == IF last >= current THEN 0 ELSE 1

(* Mutant: the last minute is loaded once more *)
SampleSizeMore(last, current) ==
    IF current - last + 1 <= CacheSize THEN current - last + 1 ELSE CacheSize

(* Mutant: the number of minutes is not limited *)
SampleSizeAll(last, current) == IF last >= current THEN 0 ELSE current - last

SampleSize(last, current) ==
    IF last >= current THEN 0
    ELSE IF current - last <= CacheSize THEN current - last ELSE CacheSize

(* A request for what is missing after this minute, if anything is *)
NewLoad(last) ==
    LET count == SampleSize(last, CurrentMinute) IN
    IF count = 0 THEN None
    ELSE [target |-> CurrentMinute, count |-> count, next |-> FALSE]

(* ------------------------- TimestampSyncItem -------------------------- *)

(* getConnectedNodes, also those that did not say READY yet; the age of a   *)
(* channel is in Channel                                                   *)
Connected(n) == {m \in Node \ {n} : link[<<n, m>>] # "down"}

(* Mutant: no majority is needed *)
IsReadyAny(n, presented) ==
    n \in presented /\ Cardinality(presented) - 1 >= Cardinality(Connected(n))

(* isReady: nodes are counted, not compared *)
IsReady(n, presented) ==
    /\ n \in presented
    /\ Cardinality(presented) - 1 >= Cardinality(Connected(n))
    /\ HasMajority(presented)

NewItem == [presented |-> {}, status |-> "waiting"]

GetOrAdd(n, m) == IF item[n][m] = None THEN NewItem ELSE item[n][m]

(* add: the data of the node is there; what is processed stays so *)
Add(n, i, from) ==
    LET presented == i.presented \cup {from} IN
    [presented |-> presented,
     status |-> IF i.status = "waiting" /\ IsReady(n, presented)
                THEN "ready" ELSE i.status]

(* Data of a node is pushed into n's cache and its items *)
Take(n, from, batch) ==
    /\ trades' = [trades EXCEPT ![n][from] = Push(@, batch)]
    /\ item' = [item EXCEPT ![n] =
                    [m \in Minutes |-> IF batch[m] = None THEN @[m]
                                       ELSE Add(n, GetOrAdd(n, m), from)]]

Send(from, peers, batch) ==
    queue' = [c \in Channels |-> IF c[1] = from /\ c[2] \in peers
                                 THEN Append(queue[c], batch) ELSE queue[c]]

-----------------------------------------------------------------------------
(* The sources have a history of CacheSize minutes *)
Init ==
    /\ now = CacheSize * Minute
    /\ due = [n \in Node |-> CacheSize]
    /\ load = [n \in Node |-> None]
    /\ trades = [n \in Node |-> [k \in Node |-> NoData]]
    /\ item = [n \in Node |-> [m \in Minutes |-> None]]
    /\ link = [c \in Channels |-> "synced"]
    /\ queue = [c \in Channels |-> <<>>]
    /\ short = {}
    /\ restarted = {}
    /\ faults = 0

(* Things go wrong only so often *)
Fault == faults < MaxFaults /\ faults' = faults + 1

(* PriceRunner.__workerFn, loadTradesData: one request at a time, another   *)
(* is made when it ended                                                   *)
LoadTradesData(n) ==
    /\ now >= due[n] * Minute + SyncDelay
    /\ due' = [due EXCEPT ![n] = @ + 1]
    /\ load' = [load EXCEPT ![n] =
                    IF @ = None THEN NewLoad(LastTimestamp(trades[n][n]))
                    ELSE [@ EXCEPT !.next = TRUE]]
    /\ UNCHANGED <<now, trades, item, link, queue, short, restarted, faults>>

(* The rest of loadTradesDataForSource, with an answer for the last count   *)
(* minutes                                                                 *)
Answered(n, count) ==
    LET to == load[n].target
        from == to - count + 1
    IN
    /\ \E values \in [from..to -> Value] :
        LET batch == [m \in Minutes |-> IF m \in from..to THEN values[m] ELSE None] IN
        /\ Take(n, n, batch)
        /\ Send(n, Connected(n), batch)
    /\ load' = [load EXCEPT ![n] = IF @.next THEN NewLoad(to) ELSE None]

(* The data source answers for all minutes it was asked for *)
FinishLoad(n) ==
    /\ load[n] # None
    /\ Answered(n, load[n].count)
    /\ UNCHANGED <<now, due, link, short, restarted, faults>>

(* It leaves some out: what it answers is taken for the last minutes.  That *)
(* it answers with more than it was asked for is left out.                 *)
FinishShort(n) ==
    /\ load[n] # None
    /\ Fault
    /\ \E count \in 1..load[n].count - 1 : Answered(n, count)
    /\ short' = short \cup {n}
    /\ UNCHANGED <<now, due, link, restarted>>

(* It fails, or has no answer *)
FailLoad(n) ==
    /\ load[n] # None
    /\ Fault
    /\ load' = [load EXCEPT ![n] =
                    IF @.next THEN NewLoad(LastTimestamp(trades[n][n])) ELSE None]
    /\ UNCHANGED <<now, due, trades, item, link, queue, short, restarted>>

(* PriceSyncHandler, addSyncData *)
ReceiveSync(c) ==
    /\ queue[c] # <<>>
    /\ queue' = [queue EXCEPT ![c] = Tail(@)]
    /\ Take(c[2], c[1], Head(queue[c]))
    /\ UNCHANGED <<now, due, load, link, short, restarted, faults>>

(* A computation of prices asks for a minute that is over *)
GetTradesData(n, m) ==
    /\ m \in Asked
    /\ m <= CurrentMinute
    /\ item[n][m] = None
    /\ item' = [item EXCEPT ![n][m] = NewItem]
    /\ UNCHANGED <<now, due, load, trades, link, queue, short, restarted, faults>>

IsOverdue(n, m) ==
    /\ item[n][m] # None
    /\ item[n][m].status = "waiting"
    /\ now >= Deadline(m)

SyncTimeout(n, m) ==
    /\ IsOverdue(n, m)
    /\ item' = [item EXCEPT ![n][m].status = "timedOut"]
    /\ UNCHANGED <<now, due, load, trades, link, queue, short, restarted, faults>>

(* __clearPendingTradesDataWorker: items older than the own data *)
ClearPendingTradesData(n) ==
    LET own == Cached(trades[n][n]) IN
    /\ own # {}
    /\ item' = [item EXCEPT ![n] =
                    [m \in Minutes |-> IF \A k \in own : m < k THEN None ELSE @[m]]]
    /\ UNCHANGED <<now, due, load, trades, link, queue, short, restarted, faults>>

Tick ==
    /\ now < MaxTime
    /\ \A n \in Node, m \in Minutes : ~IsOverdue(n, m)
    /\ now' = now + 1
    /\ UNCHANGED <<due, load, trades, item, link, queue, short, restarted, faults>>

(* ------------------- connections and restarts ------------------------- *)

Disconnect(c) ==
    /\ Fault
    /\ link[c] # "down"
    /\ link' = [link EXCEPT ![c] = "down"]
    /\ queue' = [queue EXCEPT ![c] = <<>>]
    /\ UNCHANGED <<now, due, load, trades, item, short, restarted>>

(* Mutant: only data that comes after the connection is sent *)
AllDataNew(n) == NoData

(* getAll *)
AllData(n) == trades[n][n]

(* The channel is back: it counts, and is sent what is broadcast *)
Connect(c) ==
    /\ link[c] = "down"
    /\ link' = [link EXCEPT ![c] = "open"]
    /\ UNCHANGED <<now, due, load, trades, item, queue, short, restarted, faults>>

(* A second later its receiver says READY on it, and gets all own data *)
PeerReady(c) ==
    /\ link[c] = "open"
    /\ link' = [link EXCEPT ![c] = "synced"]
    /\ Send(c[1], {c[2]}, AllData(c[1]))
    /\ UNCHANGED <<now, due, load, trades, item, short, restarted, faults>>

Restart(n) ==
    /\ Fault
    /\ restarted' = restarted \cup {n}
    /\ due' = [due EXCEPT ![n] = CurrentMinute]
    /\ load' = [load EXCEPT ![n] = None]
    /\ trades' = [trades EXCEPT ![n] = [k \in Node |-> NoData]]
    /\ item' = [item EXCEPT ![n] = [m \in Minutes |-> None]]
    /\ link' = [c \in Channels |-> IF n \in {c[1], c[2]} THEN "down" ELSE link[c]]
    /\ queue' = [c \in Channels |-> IF n \in {c[1], c[2]} THEN <<>> ELSE queue[c]]
    /\ UNCHANGED <<now, short>>

LoadStep(n) == LoadTradesData(n) \/ FinishLoad(n) \/ FinishShort(n) \/ FailLoad(n)

WaitStep(n) ==
    \/ \E m \in Minutes : GetTradesData(n, m) \/ SyncTimeout(n, m)
    \/ ClearPendingTradesData(n)

ChannelStep(c) == ReceiveSync(c) \/ Disconnect(c) \/ Connect(c) \/ PeerReady(c)

Next ==
    \/ \E n \in Node : LoadStep(n) \/ WaitStep(n) \/ Restart(n)
    \/ \E c \in Channels : ChannelStep(c)
    \/ Tick

Spec == Init /\ [][Next]_vars

-----------------------------------------------------------------------------
(* Properties *)

TypeOK ==
    /\ now \in 0..MaxTime
    /\ due \in [Node -> Nat]
    /\ load \in [Node -> Load \cup {None}]
    /\ trades \in [Node -> [Node -> Data]]
    /\ item \in [Node -> [Minutes -> SyncItem \cup {None}]]
    /\ link \in [Channels -> {"down", "open", "synced"}]
    /\ queue \in [Channels -> Seq(Data)]
    /\ short \subseteq Node
    /\ restarted \subseteq Node
    /\ faults \in 0..MaxFaults

(* Two nodes that hold data of a third for a minute hold the same, unless   *)
(* it was restarted: whoever loads data does so once, whatever loads fail,  *)
(* queue up or overlap.  The majority over equal data rests on this.       *)
ViewsAgree ==
    \A i, j, k \in Node : \A m \in Minutes :
        /\ k \notin restarted
        /\ trades[i][k][m] # None
        /\ trades[j][k][m] # None
        => trades[i][k][m] = trades[j][k][m]

(* The own data of the last CacheSize minutes has no hole: a load that      *)
(* failed is made up for by the next one, unless a source answered with    *)
(* less than it was asked for.                                             *)
RecentComplete ==
    \A n \in Node \ short :
        LET last == LastTimestamp(trades[n][n]) IN
        \A m \in Minutes : last - CacheSize < m /\ m <= last => trades[n][n][m] # None

(* A node stops waiting for minute m because the data is there *)
BecomesReady(n, m) ==
    /\ item'[n][m] # None
    /\ item'[n][m].status = "ready"
    /\ item[n][m] # None => item[n][m].status # "ready"

(* Who stops waiting before the deadline has the own data and that of a     *)
(* majority of nodes: nothing was dropped, and no node counted twice.      *)
ReadyIsComplete ==
    [][\A n \in Node, m \in Minutes :
          BecomesReady(n, m) /\ CurrentMinute - Heartbeat < m =>
             LET there == {k \in Node : trades'[n][k][m] # None} IN
             n \in there /\ HasMajority(there)]_vars

(* Nothing is left to a later exchange: over a connection whose receiver    *)
(* said READY, with nothing under way, the receiver has all the sender has  *)
(* of its own, whatever was lost, restarted or dropped from the caches      *)
(* before, and whatever was broadcast between the opening and READY.       *)
ViewsMeet ==
    \A c \in Channels, m \in Minutes :
        link[c] = "synced" /\ queue[c] = <<>> /\ trades[c[1]][c[1]][m] # None
            => trades[c[2]][c[1]][m] = trades[c[1]][c[1]][m]

=============================================================================
