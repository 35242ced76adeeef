---------------------------- MODULE OracleUpdates ----------------------------
(***************************************************************************)
(* Which prices an oracle contract of the new kind is updated with          *)
(* (OracleRunner.__getPricesToUpdate).  Each node keeps the last updates,   *)
(* __pricesCache, read from the ledger, and publishes a price that moved by *)
(* the threshold, or all of them once per heartbeat.  The nodes have the    *)
(* same prices (PriceConsensus); the transactions they build match only if *)
(* they choose the same ones of them.                                      *)
(*                                                                         *)
(* Time is counted in timeframes.  What the ledger once has of a timestamp *)
(* never changes, so that a cache is the set of its timestamps.            *)
(***************************************************************************)
EXTENDS Integers, FiniteSets, Functions

CONSTANTS
    Node,          \* nodes of the cluster
    Asset,         \* active assets of the contract
    Price,         \* prices an asset may have; 0 if there is none
    Threshold,     \* the assets' threshold, in tenths of a percent
    Heartbeat,     \* price heartbeat
    Window,        \* how far back the history is loaded (2 hours)
    MaxCacheSize,  \* MAX_PRICES_CACHE_SIZE (255)
    None,          \* null
    MaxTime,       \* bound: the timeframes that pass
    MaxRestarts    \* bound: restarts of processes

VARIABLES
    now,      \* the timestamp of the round
    current,  \* the prices of the round
    updates,  \* by timestamp, the updates on the ledger: 0 for an asset left out
    cache,    \* per node: the timestamps in __pricesCache
    plan,     \* per node: the update it computed in this round, or None
    restarts  \* restarts so far

vars == <<now, current, updates, cache, plan, restarts>>

HasMajority(S) == 2 * Cardinality(S) > Cardinality(Node)

Latest(S) == CHOOSE t \in S : \A u \in S : u <= t

-----------------------------------------------------------------------------
(* __loadPriceUpdateHistory *)

(* The last timestamp that is asked for: a known one, or one out of the     *)
(* window, but not more than the cache holds                               *)
IsLast(known, t) == t \in known \/ t < now - Window \/ t = now - (MaxCacheSize - 1)

(* Everything from there on *)
Requested(known) ==
    {t \in now - (MaxCacheSize - 1)..now - 1 :
        \A u \in t + 1..now - 1 : ~IsLast(known, u)}

(* The cache with what the ledger has of these, and without what is too old *)
LoadPriceUpdateHistory(known) ==
    {t \in known \cup (Requested(known) \cap DOMAIN updates) : t >= now - MaxCacheSize}

-----------------------------------------------------------------------------
(* __getPricesToUpdate, known being the cache after it was loaded *)

PriceDiff(old, new) ==
    ((IF old > new THEN old - new ELSE new - old) * 1000) \div old

(* normalizeTimestamp *)
HeartbeatBoundary == now - (now % Heartbeat)

IsHeartbeatUpdate(known) == known = {} \/ Latest(known) < HeartbeatBoundary

(* The most recent price of the asset, 0 if the cache has none *)
LastPrice(known, asset) ==
    LET priced == {t \in known : updates[t][asset] # 0}
    IN IF priced = {} THEN 0 ELSE updates[Latest(priced)][asset]

(* Too little of a change to be published *)
IsUnchanged(known, asset) ==
    /\ current[asset] # 0
    /\ LastPrice(known, asset) # 0
    /\ PriceDiff(LastPrice(known, asset), current[asset]) < Threshold

PricesToUpdate(known) ==
    [asset \in Asset |->
        IF IsHeartbeatUpdate(known)
        THEN IF current[asset] # 0 THEN current[asset] ELSE LastPrice(known, asset)
        ELSE IF IsUnchanged(known, asset) THEN 0 ELSE current[asset]]

NoPrices == [asset \in Asset |-> 0]

-----------------------------------------------------------------------------
Init ==
    /\ now = 1
    /\ current \in [Asset -> Price]
    /\ updates = <<>>
    /\ cache = [n \in Node |-> {}]
    /\ plan = [n \in Node |-> None]
    /\ restarts = 0

(* __workerFn of an initialized contract whose last update is older; the     *)
(* requests of a round succeed                                             *)
RunWorker(n) ==
    LET known == LoadPriceUpdateHistory(cache[n]) IN
    /\ plan[n] = None
    /\ now \notin DOMAIN updates
    /\ cache' = [cache EXCEPT ![n] = known]
    /\ plan' = [plan EXCEPT ![n] = PricesToUpdate(known)]
    /\ UNCHANGED <<now, current, updates, restarts>>

(* A majority signed the same update, and it lands *)
UpdateLands(update) ==
    /\ update # NoPrices
    /\ now \notin DOMAIN updates
    /\ HasMajority({n \in Node : plan[n] = update})
    /\ updates' = [t \in DOMAIN updates \cup {now} |->
                        IF t = now THEN update ELSE updates[t]]
    /\ UNCHANGED <<now, current, cache, plan, restarts>>

(* The next timeframe: the transaction need not have landed *)
Tick ==
    /\ now < MaxTime
    /\ now \in DOMAIN updates \/ \A n \in Node : plan[n] # None
    /\ now' = now + 1
    /\ current' \in [Asset -> Price]
    /\ plan' = [n \in Node |-> None]
    /\ UNCHANGED <<updates, cache, restarts>>

(* A process restarts, with an empty cache, and begins with this round *)
Restart(n) ==
    /\ restarts < MaxRestarts
    /\ restarts' = restarts + 1
    /\ cache' = [cache EXCEPT ![n] = {}]
    /\ plan' = [plan EXCEPT ![n] = None]
    /\ UNCHANGED <<now, current, updates>>

Next ==
    \/ \E n \in Node : RunWorker(n) \/ Restart(n)
    \/ \E n \in Node : plan[n] # None /\ UpdateLands(plan[n])
    \/ Tick

Spec == Init /\ [][Next]_vars

-----------------------------------------------------------------------------
(* Properties *)

(* The nodes choose the same prices, those that were restarted too: the     *)
(* comment at the eviction of the cache says that what is left in memory    *)
(* from before a long dormancy cannot diverge between restarted and         *)
(* non-restarted nodes.                                                    *)
UpdatesAgree ==
    \A n, m \in Node : plan[n] # None /\ plan[m] # None => plan[n] = plan[m]

=============================================================================
