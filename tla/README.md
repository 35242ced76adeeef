# Verification of the Reflector node

This directory holds TLA+ specifications of the node in `src/src`, the TLC
configurations that model-check them, and proofs checked by TLAPS. Line numbers
below are of the files under `src/src`.

A Reflector cluster publishes prices on the Stellar ledger. The nodes have no
leader and exchange no votes: each computes what is to be published on its own,
builds the transaction, signs its hash and sends the signature to the others.
A transaction that a majority built alike collects a majority of signatures and
can be submitted. Everything the cluster promises rests on a few mechanisms:
that nodes come to the same data (trades, subscriptions, configuration), that
the ledger takes each transaction once, and that connections, timers and
restarts do not get in the way. The modules are about these mechanisms.

## 1. Inventory

### Components, their state and operations

| component | files | state it keeps | operations |
|---|---|---|---|
| transaction consensus | `domain/runners/runner-base.js`, `oracle-runner.js` 21-110, `utils/rpc-helper.js` | `__pendingTransaction`, `__pendingSignatures`, `__payloadMajorityData`, the timers of a round | `worker`, `__buildAndSubmitTransaction`, `addSignature`, `__trySubmitTransaction`, `submitTransaction`, cleanup of early signatures |
| prices an oracle publishes | `oracle-runner.js` 112-230 | `__pricesCache`, read from the ledger | load of the update history, choice by threshold and heartbeat, eviction |
| subscription notifications | `subscriptions-runner.js`, `subscriptions-processor.js`, `subscriptions-sync-data.js`, `pending-notifications-cache.js` | `__lastSyncData`, `__pendingSyncData` | `getSubscriptionActions`, trigger, `trySetSyncData`, `trySetRawSyncData`, broadcast |
| subscriptions of a contract | `subscriptions-data-manager.js` | `__subscriptions`, `__lastLedger` | `processLastEvents`, loading the entries |
| webhook delivery | `subscriptions-runner.js` 187-309 | none | post to gateways or webhooks |
| channels | `ws-server/channels/*` | socket, timers, missed pongs, termination flag | ping, pong, close, reconnect, handshake |
| nodes and connections | `nodes-manager.js`, `node.js`, `ws-server/index.js`, handshake and state handlers | an incoming and an outgoing channel per node, sockets with two ends | accept, handshake, add, replace, reconnect, READY, set nodes |
| cluster configuration | `settings-manager.js`, `config-handler.js`, `cluster-runner.js`, `nonce-manager.js` | config, pending config, nonces, three files | CONFIG message, `setConfig`, `setPendingConfig`, `applyPendingUpdate`, `init` |
| trades data | `trades-manager.js`, `trades-cache.js`, `price-runner.js` | cached data per node and minute, pending loads, a `TimestampSyncItem` per minute | load, push, PRICE_SYNC, wait, cleanup |
| price consensus | `price-manager.js` 156-294 | none between calls | `getConcensusData` |
| prices of assets | `price-manager.js`, `price-utils.js` | none | sums, averages, VWAP, median |
| runner manager | `runner-manager.js`, timer loop of `runner-base.js` | the runners and whether they run | set contracts, add, remove, start, stop |
| DAO runner, gateways | `dao-runner.js`, `gateways-handler.js` | none; gateways and their nonce | unlock; get, set |
| message handlers, data sources, statistics, logging, settings, helpers | the rest | tables and counters nothing else reads | requests, output |

### Interactions

* `RunnerManager` starts a runner per contract. A runner's round reads the
  account and the contract through RPC servers, asks `price-manager` for prices
  (oracle) or `SubscriptionProcessor` for due notifications, and drives the
  transaction consensus.
* `price-manager` awaits `TradesManager` for each minute. `PriceRunner` makes
  `TradesManager` load each minute, from what oracle contracts and the
  subscriptions of all contracts need.
* Nodes exchange SIGNATURES, SYNC and PRICE_SYNC messages on the channels
  between them; STATE READY makes its receiver send its pending signature, sync
  data and trades data again.
* The orchestrator sends CONFIG messages; `ClusterRunner` submits the update as
  a transaction of the cluster and then applies it, which changes runners,
  nodes and trades caches.

### What is hard here

* *Interleaving*: every `await` lets signatures, messages, timers and other
  rounds in. State read before an await is used after it (the pending
  configuration, the sync data, the account's sequence number).
* *Failure*: any request may fail and end a round; the process may stop at any
  time and comes back with files only; servers lag and differ.
* *Delivery*: messages to a peer whose channel is down are lost silently; what
  arrives early is kept by hash; what is repeated must do no harm.
* *Timeouts*: three attempts per round share one sequence number, an attempt
  that timed out may still land; the wait for trades races its deadline; pong
  timers race each other.
* *Numbers*: masks of 32 bits, truncating division.

`PROJECT.json` lists the hazards one by one, each at its line with the
properties that would catch it.

### What makes each component correct

* Transaction consensus: each timestamp is published once and in order
  (`UpdatesInOrder`), a contract is initialized once (`InitializedOnce`), only
  what a majority built is submitted (`SubmittedByMajority`), success means
  landed (`SuccessLanded`), a payload counts as approved only if a majority
  computed it (`ApprovedByMajority`), signatures do not get lost
  (`SignaturesMeet`), a round ends (`RoundsEnd`), and all of it amounts to one
  feed (`ImplementsFeed`).
* Notifications: no two versions of a minute are accepted (`SyncAgreement`,
  `DisagreementIsSigned`), only what landed is remembered
  (`NotificationsLanded`), it spreads and never goes back (`SyncSpreads`,
  `SyncMovesForward`).
* Subscriptions: the copy is the contract's state (`ReadyIsReplica`) and
  catches up with it (`Converges`).
* Channels: keepalive never halts (`KeepAliveRuns`), silence is noticed
  (`ReadyIsHeard`), late pongs are forgiven (`PatientOnce`), a lost connection is
  made again (`RestartsOnFailure`, which the code violates).
* Connections: what is sent on a ready channel is not refused as anonymous
  (`ReadyIsMutual`), a pair of nodes is the link the other modules are written
  over (`LinkImplemented`), and both ends settle on one socket (`Settles`).
* Published prices: nodes choose the same ones (`UpdatesAgree`, which the code
  violates after a dormant time).
* Configuration and runners: only what landed is in force (`InForceLanded`),
  nothing older comes back (`NoRollback`), no runner stays behind with its loop
  ended (`NoRunnerLost`), and a node gets to what the operators settled on, with
  its runners alive (`Converges`).
* Trades: nodes hold the same data of one (`ViewsAgree`), without holes
  (`RecentComplete`), the wait ends with enough of it (`ReadyIsComplete`), what
  was lost is made up for (`ViewsMeet`).
* Prices: built from data a majority shares (`PricesShared`), alike at a
  majority (`MajorityAgrees`), not moved by a minority of sources
  (`MinorityCannotMove`), nor by minutes that are missing
  (`SourceWithinMinutes`).

## 2. Modules and how they correspond to the code

Each component has a module, an `MC` module that instantiates it for TLC, and
where something is proved a `Proofs` module that EXTENDS it. The inductive
invariants stand at the top of the `Proofs` modules. Definitions whose
comment begins with *Mutant* are defective variants of the operator that
follows them; each property is checked to fail under one. `PROJECT.json` maps
every other definition to its lines.

### TxConsensus and OracleFeed

`worker[n]` is the stack frame of `worker` and `__buildAndSubmitTransaction`:
its program counter (`idle`, `account`, `state`, `build`, `wait`) names the await
it is at. `pending`, `early` and `inflight` are `__pendingTransaction`,
`__pendingSignatures` and the calls of `__trySubmitTransaction` that have not
returned. `StartWorker`, `GetAccount`, `ReadState`, `BuildTx`, `TimerFires`,
`AddSignature` / `KeepSignature`, `ClearPendingSignatures`, `SendTransaction`,
`SubmissionSucceeds` / `SubmissionFails` are the pieces of code between awaits.
A transaction is its kind, timestamp, sequence number, payload and attempt: two
nodes have the same hash exactly when these agree.

The ledger is external: it takes a transaction from `mempool` if its sequence
number is the next one, its signatures are a majority and its time is not over.
`ForeignTransaction` is another runner of the same admin account. `link` is one
direction of a connection: `down`, `open`, or `synced` after READY. A restart
(`Crash`) forgets everything.

`isReadyToSubmit` belongs to the shared library; whether it looks at `isTimedOut`
cannot be seen from here, and `ReadyChecksTimeout` makes the runs (and the
proofs, which hold for both) cover either.

The account and the contract's state are two requests, and each may be answered
by another server (`makeServerRequest` takes the first that succeeds, and the
next one when it fails). So the state may be older than the account, by up to
`StateLag` ledgers; `worker[n].view` says whether it is. `submitted` and
`upToDate` are history variables, of what a node submitted since its start, in
order, and of the transactions that some node built on a state that was not older
than the account.

`OracleFeed` is what the cluster promises to a consumer: a sequence of one
initialization, then publications with growing timestamps, each of which a
majority proposed. Each publication takes a place of its own in the feed, so that
the same update landing a second time is a step that the feed does not allow, and
not a stutter. `ImplementsFeed` maps the ledger of TxConsensus to it.

### OracleUpdates

What a round of a contract of the new kind publishes. `cache[n]` is
`__pricesCache`: what the ledger has of a timestamp never changes, so the set of
its timestamps is enough. `RunWorker` loads the history (back to a timestamp it
knows, at most `Window` or the size of the cache), evicts, and computes
`PricesToUpdate`; `UpdateLands` needs a majority that computed the same.

### SubscriptionSync

`last`, `cache` and `worker` are `__lastSyncData`, `__pendingSyncData` and the
round. `GetSubscriptionActions` computes the due notifications from the copy of
the sync data and from what the node sees of the prices (`Seen`; nodes may see
different ones, or fail to). The trigger lands as a step of its own
(`TriggerLands`), which needs a majority that built it: that is what
TxConsensus shows, so the detail is not repeated. `TriggerSucceeds` is what
follows the await: set, sign and broadcast. `ReceiveSync` is the SYNC handler.
The signers of an item in the cache are pairs `<<item, signer>>`; an item is
verified once they are a majority. `link` is as in TxConsensus: a channel that is
`open` delivers broadcasts, and the sync data are sent again when READY is said
(`PeerReady`), a second later.

### SubscriptionEvents

One run of `processLastEvents`, request by request: the ledger's range, then,
if out of range, clear and load entry by entry, then the events (`ReadEvents`,
which also sets the last processed ledger), then the replay, event by event
(`ProcessEvent`), since the loop awaits what it does with each. What was read
stays as it was: the events of a ledger do not change, so the round keeps the place
of the next one instead of the list. Each request is answered by a server
that lags by up to `Lag` ledgers and keeps one of `Kept` ledgers. A failed
request ends the round and leaves the state as it is then.

The contract is external, and does what its events say: `Create`, `Deposit`,
`Charge` and `Cancel` change an entry and add events to `closing`, the ledger that
is going to close; `Close` closes it with the entries as they are then, between any
two steps of the round. A ledger takes any number of calls, of the same
subscription too, in one transaction or in several: a node charges up to 15
subscriptions at once (`subscriptions-runner.js` 161), while owners change theirs.

### Channel

The socket, its timers and flags, in seconds. A timer is a countdown apart from
the field that remembers it, since `setTimeout` goes on when the field is
overwritten. Time passes only when nothing is due; what is due in the same
second happens in any order.

### NodeConnections and PeerLink

One ordered pair of nodes: the client, whose Node of the server keeps the
outgoing channel (`outgoing` is its socket), and the server, whose Node of the
client keeps the incoming one (`incoming`). `sockets` holds each websocket with
its two ends, the messages under way in both directions, and what each end
thinks of the handshake. `ClientOpen`, `ClientSigns` / `ServerSigns`,
`ClientValidates`, `AddConnection` are the handlers of the handshake, where
`AddConnection` is also the end of the await in `__onConnect` and closes the
connection it replaces; `ReadyTimer` is the READY that is sent once, a second
after that, over whatever connection is used by then; `PeerReady` its handler.
`Lose` kills a socket, of which each end learns by itself (`ClientClosed`,
`ServerClosed`); restarts, and `setNodes` on either side (`ClientForgets`,
`ClientConnects`, `ServerForgets`, `ServerLearns`), come at any time. `Strand` is
the channel of the finding below that never reconnects.

`PeerLink` is what such a pair is for everybody else: down, open, or synced
after READY, and never open for ever without READY. It is the `link` of
TxConsensus, SubscriptionSync and TradesSync. `Link` of NodeConnections is the
refinement mapping, `LinkImplemented` the refinement.

### ClusterConfig

Configurations are numbers; an envelope has the nonce its operator signed it
with. `Send` is the orchestrator repeating what it has, `Handle` the handler up
to the await of `setConfig`, `FinishSetConfig` what follows it, and the steps of
the `ClusterRunner` begin, submit and apply an update. Crashes lose memory;
with `TornWrites` they happen between the writes of two files as well.

The runner manager is part of the module, since `setConfig` is what calls it:
`SetContracts` adds and removes runners, `Started` starts them, and starting one
whose contract is not in the configuration throws (`SetConfigThrows`), which
leaves the rest of `setConfig` undone. `LoseRunner` is a round of a runner whose
contract just left the configuration: it fails in a way that sets no further
timer, and the runner is dead while it counts as running.

### TradesSync

Per node: the pending load with its queued successor, the cached data of every
node, the sync items; per pair: link and FIFO queue of PRICE_SYNC messages
(a websocket keeps the order). `Connect` opens a link: from then on the peer counts
as connected and gets what is broadcast, but has no old minutes before READY
(`PeerReady`, a second later), which sends all the own data. A source may answer
anything of `Value`, and differently each time. `FinishLoad` is the answer to all
the minutes that were asked for; `FinishShort` is one with fewer of them, which the
code takes for the last ones (`trades-manager.js` 410), so that it is a fault that
leaves a hole (`short` remembers the nodes it befell). One source and base asset is
modelled, since everything is kept per key.

### PriceConsensus, AssetPrice

`getConcensusData` of every node, minute by minute, while the data of the others
arrive; a mask is the set of its bits, so that nodes beyond the width share
bits as they do in the code. AssetPrice EXTENDS it and goes on from what it
returns: the sums per source over the minutes, the price of a source, and the
median with its filter. The prices stay a function of the sources: a position of
the sorted prices is the price with fewer prices below it, and at least as many
up to it (`SortedAt`), which is all the median needs of the order. Sums and powers
of ten are recursive functions. `TradesData` is whatever trades of a source the
consensus may leave; `Moved` and `Distorted` are the counterexamples to the two
properties: prices of a majority that do not contain the price of the asset, and
sources whose price is outside of those of its minutes.

### How the modules fit together

NodeConnections implements PeerLink, and the links of TxConsensus,
SubscriptionSync and TradesSync are of this kind: a step from `down` to `open`, on
which broadcasts pass, then one to `synced` with READY, or back to `down`. The channel that `RestartsOnFailure` loses is its `Strand`.
TradesSync gives PriceConsensus its input: `ViewsAgree` is why PriceConsensus
may speak of *the* data a node loaded, and its `synced` flag is the situation
of `ViewsMeet`. What PriceConsensus and AssetPrice compute is the `Payload` of
TxConsensus, which therefore lets nodes compute any payload they like:
`MajorityAgrees` says when a majority computes the same. SubscriptionEvents
gives SubscriptionSync its `Sub`; TxConsensus justifies its `TriggerLands`.
OracleUpdates narrows that payload to what is published. ClusterConfig decides
on the `Node` and the contracts of all of them, which are constant there; only
NodeConnections has nodes that come and go.

## 3. Runs

All bounds are CONSTANTS marked *bound*. Symmetry is used in safety runs only.
`CHECK_DEADLOCK FALSE` stands where a bounded model ends (all rounds done, time
over); the unbounded system goes on.

| run | instance | shows |
|---|---|---|
| `tx_retry` | 2 nodes, 1 round, 2 attempts, 1 foreign transaction, 2 ledger entries, fairness | `UpdatesInOrder`, `SubmittedByMajority`, `SuccessLanded` with the attempts overlapping; `ImplementsFeed`, that is, TxConsensus implements OracleFeed; `RoundsEnd` |
| `tx_rounds` | 2 nodes, 2 rounds, contract not initialized, 1 restart, states up to 1 ledger older than the account | `ApprovedByMajority`, `NotGivenUpEarly`, `InitializedOnce`, `SignaturesMeet` when a transaction is left over to the next round or a node computes again |
| `tx_network` | 3 nodes, 1 round, 1 lost connection | `SignaturesMeet`, `SubmittedOnce` |
| `sync` | 2 nodes that see 2 prices or fail to, 2 rounds, 1 fault (failed round, lost connection or restart), fairness | `SyncAgreement`, `DisagreementIsSigned`, `NotificationsLanded`, `SyncMovesForward`, `SyncSpreads` |
| `events_replica` | 2 subscriptions, 5 ledgers of which servers keep 3, 4 calls of the contract in any of them, 1 failure, 1 restart, fairness | `ReadyIsReplica`, `Converges` |
| `channel_keepalive` | outgoing, timeouts of the code, 4 pong timers | `KeepAliveRuns`, `ReadyIsHeard`, `PatientOnce` |
| `channel_stranded` | the same | `RestartsOnFailure` **violated**, see findings |
| `connections` | 3 sockets of a pair, 2 READY timers, 2 faults or changes of a configuration, fairness | `ReadyIsMutual`, `LinkImplemented` (NodeConnections implements PeerLink, its fairness included), `Settles` |
| `oracle_updates` | 2 nodes, 1 asset with or without a price, a window and a heartbeat of 2 timeframes, a cache of 6, 1 restart | `UpdatesAgree` **violated**, see findings |
| `config_update` | 2 updates, the second with a secret, 3 contracts that come and go, 5 nonces, 3 messages and 3 calls of `setConfig` at once, 2 crashes, torn writes, fairness | `InForceLanded`, `NoRunnerLost`, `NoRollback`, `Converges` |
| `trades_sync` | 2 nodes, 2 values, 2 minutes after the first, a cache of 2 minutes, 1 fault of any kind (failed or short load, lost connection, restart) | `ViewsAgree`, `RecentComplete`, `ViewsMeet`, `ReadyIsComplete` |
| `consensus` | 3 nodes, 2 data of values 0, 1, 2 or missing; then the prices of 4 sources of 4 prices or none, one of them of trades, 2 minutes | `PricesShared` for every partial arrival, `MajorityAgrees` when all arrived, `MinorityCannotMove`, `SourceWithinMinutes` |

`TypeOK` is checked by a run of ClusterConfig, TradesSync, SubscriptionEvents and
PriceConsensus, and proved of these and the other modules of section 5.

Why the bounds are enough: two attempts of one round show how an attempt
overlaps the one before, and two rounds every overlap of rounds. In `tx_retry`
both places of the ledger may go to the same update, which is what a second
attempt could do wrong; that updates of several rounds are in order as well, with
the retries of each, is `UpdatesInOrderCorrect` and `FeedCorrect`, as two rounds of
two attempts are too many states. The nodes of the Tx runs compute one payload; a
second one would make a node that computes again disagree with itself, which the
proofs cover (`Payload` is any set there). With two nodes
a majority is both, so one disagreement stops the cluster; three nodes are the
least with a majority that leaves one out, which is where versions could differ
and a signature may come when its transaction is submitted already. One failure,
one lost connection and one restart are enough to meet each step of a round,
since a run meets them at every step. The sampling of trades needs a minute that
is loaded after another one, and a gap longer than the cache: a cache of two
minutes and loads that may be late by more give both. Three sockets of a pair are one in use at each end and
one that neither has noticed the loss of; the larger instance with two faults and
a change of a configuration besides (1.2 million states) passes as well. The
contracts of `config_update` are one that stays, one that is added and one that is
removed, of runners that read the configuration and one that does not. The history
of SubscriptionEvents is longer than what a server keeps, so that the copy is also
reloaded after it was complete, and four calls are enough to set, charge and set a
subscription again within one ledger. Prices are chosen around the 4% of the filter and
with remainders in each division. What the bounds cut off is covered, for the
properties listed in section 5, by the proofs.

`tx_rounds` compares states by a `VIEW`, `RoundsView`: it leaves out the history
`submitted`, which no guard and no property of that run reads, and what a worker
between two rounds keeps without anybody reading it.

What the instances leave out on purpose, as the property does not hold there:

* `tx_retry` has `StateLag = 0`. With a state that is older than its account
  `ImplementsFeed` is violated, see section 7; `tx_rounds` has `StateLag = 1`.
* `config_update` has `Hasty = FALSE`: the operators do not replace a pending
  configuration while a round of the node submits it. With `Hasty = TRUE` the
  round applies the configuration that is pending at its end, not the one that
  landed, and `InForceLanded` is violated; the other properties hold.
* Only the second configuration, the last one, has a secret. A call of `setConfig`
  waits for the import of a secret, and a later configuration may overtake it: the
  older one then writes the file last. `NoRollback` is violated as soon as a
  configuration with a secret is followed by another one, with a secret or
  without; the other properties hold. `ImportsEndInOrder` is this hypothesis: no
  configuration follows one with a secret, or calls never overlap.
* `connections` has no socket that a released channel opens after its release
  (section 7), and loses no message without its socket.
* `events_replica` has servers that keep the same ledgers and do not lag, as it has
  a failure, see section 7. Without failures servers may lag and differ, which the
  proof covers.
* `consensus` has the data in the same order on all nodes (`SameOrder`), see
  section 7.

## 4. Fairness

* `TxConsensus`: time passes and the timers of rounds and of transactions fire.
  Nothing else is fair, no message, ledger or connection, and no request either:
  `rpc.Server` is created without a timeout (`rpc-helper.js` 54), and no await of a
  round is raced with a timer, so that one request that hangs leaves the round open
  for ever. `RoundsEnd` is therefore about each node whose own requests return
  (`RequestsReturn`, fairness of their answers *or* failures, which is not a
  constraint of the specification but the left side of the property); it does not
  ask it of the other nodes.
* `SubscriptionSync`: time passes and messages that arrive are handled (a websocket
  delivers or closes). Neither requests nor connections are fair. `SyncSpreads` is
  therefore about a node whose requests return (`RequestsReturn`, as above) and a
  peer that says READY to it again and again, or once and for all
  (`[]<>(link[<<n, m>>] = "synced")`). A channel that never comes back, as
  the one of `RestartsOnFailure`, spreads nothing, and the property promises nothing
  for it.
* `SubscriptionEvents`: rounds move on and ledgers close.
* `NodeConnections`: as long as some event is due (a message, an end of a socket
  to be noticed, a timer), one of them happens: the event loops run, sockets
  close or deliver, and the keepalive of Channel finds dead ones. Faults,
  restarts and configurations are not fair. `PeerLink`: READY is heard.
* `ClusterConfig`: the orchestrator keeps repeating its state, messages are
  handled, and each call of `setConfig` ends, or throws. The latter is strong fairness: an
  import ends although calls without a secret, which never wait, come and go.
  The steps of the ClusterRunner are not fair: the node gets there by messages
  alone. `Converges` is about a node that is up; one that stopped need not come
  up (section 7).

`Converges` of ClusterConfig assumes that the operators stop changing the
configuration from some time on; what comes before is arbitrary. `Settles` assumes
that from some time on both nodes know each other and the channel is not
stranded.

## 5. What is proved

Proved for every value of the constants, from the ASSUMEs of the module, with
any number of nodes, rounds, attempts, failures and restarts. The third column
names the hypotheses that a theorem has besides.

| module | theorems | hypotheses |
|---|---|---|
| `TxConsensusProofs` | `TypeCorrect`, `InvCorrect`, `UpdatesInOrderCorrect`, `InitializedOnceCorrect`, `SubmittedByMajorityCorrect`, `RoundInvCorrect`, `SubmittedOnceCorrect`, `SuccessLandedCorrect` | |
| | `FeedCorrect` | `StateLag = 0` |
| | `ApprovedByMajorityCorrect`, `NotGivenUpEarlyCorrect` | `ReadyChecksTimeout` |
| | `SignaturesMeetCorrect` | early signatures live as long as the attempts of a round |
| `SubscriptionSyncProofs` | `TypeCorrect`, `InvCorrect`, `SyncAgreementCorrect`, `DisagreementIsSignedCorrect`, `NotificationsLandedCorrect`, `SyncMovesForwardCorrect` | |
| `SubscriptionEventsProofs` | `TypeCorrect` | |
| | `InvCorrect`, `ReadyIsReplicaCorrect` | `ServersAreAlike`, or `RequestsSucceed` |
| `TradesSyncProofs` | `TypeCorrect`, `InvCorrect`, `ViewsAgreeCorrect`, `RecentCompleteCorrect`, `ViewsMeetCorrect`, `ReadyIsCompleteCorrect` | |
| `PriceConsensusProofs` | `TypeCorrect`, `InvCorrect` | |
| | `PricesSharedCorrect` | `N <= Width` |
| | `MajorityAgreesCorrect` | `N <= Width`, `SameOrder` |
| | `MinorityCannotMoveCorrect` | |
| | `SourceWithinMinutesCorrect` | `TradesAreWhole` |
| `ClusterConfigProofs` | `TypeCorrect`, `NoRunnerLostCorrect` | |
| | `InForceLandedCorrect` | `~Hasty` |
| | `NoRollbackCorrect` | `~Hasty`, `ImportsEndInOrder` |
| `ChannelProofs` | `TypeCorrect`, `KeepAliveRunsCorrect`, `ReadyIsHeardCorrect` | |
| | `PatientOnceCorrect` | incoming channel, `0 < PongTimeout < MaxAge` |
| `NodeConnectionsProofs` | `TypeCorrect`, `InvCorrect`, `ReadyIsMutualCorrect`, `LinkSafety` | |

What the hypotheses mean in the code:

* `StateLag = 0`: the server that answers with the contract's state is not behind
  the one that answered with the account. One server that answers both is enough;
  after a failover between the two requests it may be otherwise. `UpdatesInOrder` and
  `InitializedOnce` need no such hypothesis, as they ask it of one signer only of
  the transaction in question (`upToDate`); section 7 says what happens when no
  signer was so lucky.

* `ReadyChecksTimeout`: `isReadyToSubmit` of the shared library looks at the
  timeout of a transaction. If it does not, a late signature submits a
  transaction that was given up, next to the attempt that followed it, and the two
  properties are false; which of the two the library does cannot be seen from here.
* Early signatures are kept for 60 seconds (`runner-base.js` 278), and three
  attempts take 30, 15 and 15 (`runner-base.js` 124-126): equality, with nothing to
  spare. With a shorter life `SignaturesMeet` is false.
* `N <= Width`: at most 32 nodes. A mask has 32 bits, and node 33 shares the bit
  of node 1.
* `TradesAreWhole`: a source that reports a volume reports a quote volume too, and
  the other way round, as the two are of the same trades. It is up to the
  connectors, which are outside of this repository; `price-manager.js` 261 would
  take data with one of the two. Then the property is false: the minutes
  `<<1, 0>>` and `<<5, 1>>` make 6, and each alone no more than 5.
* `ServersAreAlike`: the RPC servers do not lag behind each other and keep the same
  number of ledgers, as when one of them answers every request; requests may fail
  at any time. `RequestsSucceed`: the servers lag and keep what they like, as long
  as they do not lag by more than the 360 ledgers of the window (half an hour) and
  keep at least as many, but no request fails on all of them. With both a failure and servers that differ the property is false, see
  section 7.
* `SameOrder`, `~Hasty`, `ImportsEndInOrder`: without any of these the property does
  not hold, see sections 3 and 7.
* Incoming channel: of an outgoing one the timeout of the handshake starts the ping
  pong as well, next to the one that runs already, and forgotten timers of the
  connection before count too, so that its patience depends on the timeouts. TLC
  checks it with those of the code. `MaxAge` is where the model stops counting
  seconds.

**TxConsensus.** `UpdatesInOrder` is not inductive: it says nothing of
transactions that are signed but have not landed. `Inv` adds why a node built
them. `BuiltAreJustified`: whatever a node built with sequence number *s* on a fresh
state was justified by the ledger as it was just before *s* (no initialization
there for an init; an initialization, and no update as late, for an update), and
for an update there was an initialization in any case.
`WorkersAreJustified`: the same of what a worker is about to build, which holds
because the account is read before the state: what lands between the two uses up
the sequence number. A stale state takes the first half away, for this node: two
nodes sign the same hash on different states, and one fresh one is enough. `SignersBuilt` and `LedgerIsSigned` tie signatures, messages
and the ledger to the nodes that built a transaction. A landed transaction at
position *s* was then justified by the ledger before *s*, whatever retries,
restarts and other nodes did, and that is `UpdatesInOrder` and
`InitializedOnce`. `FeedCorrect` shows that each step maps to a step of OracleFeed
or a stutter, with a majority's proposals taken from `LedgerIsSigned`, and
`AllFresh` for what was built (with `StateLag = 0`).

**Rounds of TxConsensus.** `SubmittedOnce` says nothing of the attempt that is
not submitted yet (`SubmittedInOrder` does, of all that a node submitted since its
start, whether its submission still runs or not). `RoundInv` orders what a node ever built by what its worker is
at (`IsPast`): everything that is pending or submitted is of an attempt the worker
has reached, and what is pending is not among what is submitted
(`BuiltInOrder`). Hence the next attempt is a new transaction, and a signature that
comes while the timer fires finds the transaction gone. `TransactionsAreAwaited`
says that a worker leaves a wait only when the timer of its transaction fired and,
if that keeps it from being submitted, when each submission of the round
returned: so nobody marks a round as given up, or approves a payload, behind the
back of the worker. `SuccessLanded` and `ApprovedByMajority` follow with
`WorkerSound` (what is reported landed, what is approved was signed by a majority).
`SignaturesMeet` needs `SignaturesDelivered`: as long as the link is synced and
the time of a transaction is not over, the signature of a node is under way, kept
as an early one, counted, or the receiver built and dropped that transaction
already. The hypothesis is used at one place, the cleanup of early signatures.

**SubscriptionSync.** `Inv` says that each signature a node counts, sends or holds
for an item is one of a node that built the item and whose trigger landed
(`CountedAreSigned`), that the last sync data has a majority of them
(`LastIsVerified`), that what is built remembers only landed triggers and its
own (`BuiltIsSound`), and that without restarts a node builds one item per
minute (`BuiltOnce`). Two majorities share a node (`MajoritiesMeet`, from the
cardinality theorems of the library), which signed both items: hence
`DisagreementIsSigned`, and `SyncAgreement` where nobody was restarted.
`SyncMovesForward` is an action property: of the three places that set the last
sync data, two compare timestamps, and the third is the end of a round, where the
item is of the round's own minute, which no item set meanwhile is later than.

**SubscriptionEvents.** `ReadyIsReplica` speaks of the end of a replay, and what is
replayed over is a mixture: a copy that may have been cleared and loaded again,
each entry from another ledger, and events some of which are older than the
entry they are processed on. `HistoryInv` first says what the ledgers give the replay
to go by; it is about the contract alone, and a hypothesis in all but name, which
follows from what the contract's calls do. A ledger holds any number of events of a
subscription (`Tells`): the last one that is not a charge says whether it is active
after the ledger, and what it is, unless a charge follows; a charge that no such
event follows is of an active subscription, and the last one says what it is.
Between two ledgers without an event that sets a subscription, it stays active or
not, and without a charge unchanged. The same is an invariant of the events of the
ledger that is going to close (`ClosingTells`), which each call extends
(`TellsMore`). `LoadIsRecent` says that what was loaded is, for each subscription, of
*some* ledger from the start of the replay on; as no server lags by more than the
window, also the entry of the slowest server is. `ReplayConverges` is the
invariant of the replay: each subscription is either going to be set by an event
ahead, in the same ledger or a later one, or a charge is ahead and the copy has it, or the copy is that of the last
ledger or a later one some server has already (`IsLate`). An old event moves the
copy back, but then what moved it on is ahead. An entry read from a server that
is ahead of the one that told the events is later than all of these; it is not
lost, and events that are replayed over it bring it back to the last ledger at
most. `CopyInRange` is what makes a copy usable by the next round: one that is not
complete belongs to a last ledger no server keeps any more, and ledgers never come
back into range (`RangeShrinks`), so that it is cleared once more. `EndsOutOfRange`
sees to it, in two ways: with servers that are alike the last ledger is out of range
all the while the copy is loaded, whatever ends the round; with requests that
succeed only refused events end a round halfway, and a start that no server has
any more is not before the last ledger (`RefusedIsOutOfRange`). With a failure and
servers that differ neither is so.

**TradesSync.** `ViewsAgree` compares two copies, and both come from messages, so
the invariant is about everything that holds data of a node: the copies in the
caches of all nodes and in all queues (`Copies`). `CopiesAgree`: they agree with
each other, and hold no minute after the last one of the own data.
`LoadsFollowOwn`: a pending load asks for the minutes after that last one,
so that what it brings meets nothing that is there. `OwnHasAll` makes a load
never write a minute again that somebody holds already, `OwnIsTrimmed` and
`OwnIsComplete` are the two halves of the cleanup: it removes no more than what
is too old, and leaves no hole. After a restart the first load begins before the
minutes that the others remember, and the source may answer differently: the old
copies then differ from the new ones, which is why `CopiesAgree` excludes nodes
that were restarted, and why `SentIsOwn` has to say that what is under way is
never of the life before. `ViewsMeet` speaks of connections over which READY was said, as before
it the old minutes are missing with nothing under way, and needs `LackingIsSent`:
what the receiver lacks is in the queue, of which an empty queue is a special
case. `RecentComplete` speaks of nodes whose loads were answered in full. `ReadyIsComplete` needs `PresentedIsThere`: the nodes an item counted have
their data in the cache as long as the minute is kept.

**PriceConsensus.** `PricesShared` speaks of the end of the minutes, `Inv` of
each of them: a candidate is what the data of *some* set of nodes made of it
(`CandidatesMatch`), whatever had arrived. A mask is injective for at most `Width`
nodes, so the bits of the mask that wins name a majority that loaded what is
kept. For `MajorityAgrees` the set is all nodes (`ReadWithAll`). A datum then has
the same mask at all nodes of it; the best group of all masks, ties broken by the
order all nodes share, is the best one to each of its members, so they keep the
same.

**AssetPrice.** Sources within 4% of each other that are a majority hold each middle
position of the sorted prices, whatever the others are (`SortedAtWithin`,
`MedianWithin`: at most half of the prices are below the lowest of theirs, or above
the highest). So the first median is among theirs, none of them is an outlier of it
(`CloseIsNoOutlier`, by the very division of the code), all of them are left by
the filter, and they are a majority of what is left: the second median is among
theirs too. Here it matters that the filter only drops. For
`SourceWithinMinutes` the sum over the minutes is bounded term by term
(`WithinSum`): between lowest price and highest price times the number of minutes
that count, or between lowest and highest ratio times the sum of the quote
volumes. The bounds have to survive truncation, that of the single minute and that
of the sum, and the minutes with a price of zero, which count in neither. Sums and
powers are recursive functions; that they exist is proved by the least
number up to which they do not (`StepsExist`, `SumExists`), as the induction
theorems of the library cannot be cited.

**ClusterConfig.** `NoRunnerLost` is not inductive, since a runner dies only in the
round after its contract left the configuration: `RunnersOnTheirWay` speaks of the
live runners without a contract as well, for each of which a call of `setConfig`
that removes it is under way. `InForceLanded` needs to know that nobody can
make the pending configuration an older one while it is submitted. `Inv` does this
with nonces: envelopes with a later nonce have no older configuration
(`SignedInOrder`, which follows from the operators updating what landed last,
`OperatorsInOrder`); the nonce that is stored with a pending configuration is not
below its own (`PendingGuarded`); and during a round no envelope that passes the
stored nonce is older than what the round submits (`WorkerIsLatest`). For
`NoRollback`, `NoncesGuard` says the same of the configuration on disk and of each
call that has not written its own yet, and `TasksInOrder` that these calls are in
order. A crash between the writes of the two files leaves the new nonce with the
old configuration, which keeps out more, and not less.

**Channel.** `KeepAliveRuns` needs `ConnectionIsTimed`: a channel that connects
has its connection timer. Each handler then leaves one timer behind that leads
to a ping or to the end. `ReadyIsHeard` needs the time that is left
(`LifeIsChecked`): a ready channel missed at most two pongs, and its next ping or
pong timeout is due no later than the time that is allowed for the misses so
far. Forgotten timers only fire earlier, which is why they do not matter here.
For `PatientOnce` they do: `OneChain` says that an incoming channel has one
timer at a time, the one it remembers, and that the misses before it took their
time.

**NodeConnections.** `ReadyIsMutual` says nothing of a client that is not ready
yet. `AnswersFirst` follows it from the start: as long as a socket works, the
server has validated it, or the client's answer is on its way, or the server's
request is the first thing the client will read, and it is not validated before.
`RequestedIsSilent` (a socket the server has not accepted carries nothing) makes
that true when the server accepts, and `ToldIsValid` (READY counts on validated
sockets only) is what the refinement needs. Each handler keeps a socket safe,
which lemmas about single sockets say, and an action changes one or two of them.
`LinkSafety` rests on `Follows`: no step makes a socket ready that has heard READY
already, none forgets READY on a ready one, and the client changes to no socket
but a fresh one. It is the safety half of `LinkImplemented`; that READY is heard
is liveness, and checked by TLC.

Each of these properties is also checked by TLC in a run of section 3. The
inductive invariants were checked on the same instances before they were proved;
no run is kept for them, as the proofs cover more.

## 6. What is only model-checked

* Liveness under fairness: `RoundsEnd`, `SyncSpreads`, both `Converges`,
  `Settles`, and the fairness of PeerLink in `LinkImplemented`.
* `ReadyIsReplica` of SubscriptionEvents with servers that differ and requests that
  fail does not hold (section 7).
* `PatientOnce` of outgoing channels, which holds for the timeouts of the code and
  not for all.
* OracleUpdates has one property, which does not hold, and so has the run
  `channel_stranded`.

## 7. Findings and observations

`channel_stranded` is expected to be violated: outgoing channels are documented
to restart on failure, and `RestartsOnFailure` does not hold. A pong timer that
was overwritten fires during the reconnection delay, finds no open socket,
closes the channel once more, and thereby cancels the reconnection: the channel
never comes back. `PROJECT.json` quotes both sides. With a peer that always
answers in time (`Responsive = TRUE`) the property holds, so that the violation
is due to the forgotten timers.

`oracle_updates` is expected to be violated too. The comment at the eviction of
`__pricesCache` says that entries from before a long dormancy cannot make
restarted and other nodes diverge. Entries are kept for 255 timeframes, but a
restarted node loads the history of two hours only. Between the two, a node that
kept running still has the last price of an asset and publishes it in a heartbeat
round although there is no current one; a restarted node leaves it out. Without a
restart (`MaxRestarts = 0`) the property holds, and it is violated with a heartbeat
of 4 as well.

Other places where modelling and checking showed the code to do less than its
comments or documents say. No run is kept for them; where an instance is named,
TLC finds the violation in it.

* Hung requests (`rpc-helper.js` 54): the rounds of a runner are a chain of awaits
  without a timeout. A server that accepts a request and never answers stops the
  runner, as the next round is scheduled by the `finally` of this one
  (`runner-base.js` 225). `RoundsEnd` without its left side, `tx_retry`.
* States of another server (`rpc-helper.js` 46-58): when the server that answers
  with the state lags behind the one that answered with the account, a node builds
  with a new sequence number what is on the ledger already. If that happens to
  every signer, the initialization is submitted a second time, without any fault
  besides; only the contract can refuse it. `InitializedOnce` without `upToDate`,
  `tx_rounds`. For updates it also takes a restart of a majority within the
  round, as a node that kept running does not work on a round twice.
* Subscriptions (`subscriptions-data-manager.js` 260): the copy is cleared before
  it is loaded again. If a request of the reload fails and the next round is
  answered by a server that keeps more ledgers, nothing is loaded and the copy
  stays empty. `ReadyIsReplica` with `Kept = {2, 4}`, `Window = 1`, seven
  ledgers and a failure. A server that only lags by one ledger has an older first
  one too, which is enough: `Lag = 1`, `Kept = {3}`, `Window = 2`, six ledgers, a
  restart and a failure.
* Released channels (`channel-base.js` 111): a timer that fires while a released
  channel closes resets its termination flag, and it connects again without an
  owner. Channel has the steps; a released channel leaves `ws = "none"`.
  NodeConnections leaves such sockets out.
* First timer of a runner (`runner-base.js` 138): it is not remembered, so that
  `stop()` leaves it to fire once; it finds the runner stopped.
* Patience (`channel-base.js` 201-204): a peer is given up after less than the 30
  seconds of the comment, since the timeout is 4 seconds, and forgotten timers
  count as well.
* Pending configuration (`settings-manager.js` 129): see `Hasty` in section 3.
* Overlapping `setConfig` (`settings-manager.js` 158): see the secrets in
  section 3.
* Start (`settings-manager.js` 118): a pending file that holds the configuration
  that is already in force keeps the node from starting. `Boot` of
  ClusterConfig ends with `up = FALSE`; a crash after `applyPendingUpdate` wrote
  the configuration and before it cleared the pending one is enough.
* Waiting for trades (`trades-manager.js` 265): the "all connected peers present"
  gate of the tests counts nodes instead of comparing them, so the data of a
  node that is not connected any more may stand in for that of one that is.
* Short answers (`trades-manager.js` 410): the minutes of a load are numbered from
  the last one backwards by how many came back. A source that answers fewer leaves a
  hole that no later load fills (`RecentComplete` without `short`, `trades_sync`); one
  that answers more would write minutes the node holds already anew. The second is
  left out of TradesSync.
* Room for the worker (`trades-manager.js` 349-354): with the default
  `dbSyncDelay` of 15 seconds a sync timeout leaves the worker 10 seconds of its
  first attempt, not 25.
* Ties (`price-manager.js` 276): a tie between groups of nodes is broken by the
  order of the data, hence of the sources, which is a setting of the node; nodes
  may keep different data. `MajorityAgrees` with `SameOrder = FALSE` and
  `PerMinute = 3`.
* Outliers (`price-utils.js` 107-115): the filter is documented to drop what
  deviates by more than 4%. The ratio is truncated before it is compared, so that
  prices up to 5% above the median stay, see `Deviation`.

## 8. What is not modelled, and why

* Signatures, hashes, encryption: a signature is the name of its signer; data
  differ if their hashes do.
* The content of transactions and of configuration updates, fees, history
  entries, the expiry of assets: none of the properties tells them apart.
* The clocks of the nodes agree; a drift would only move timeouts.
* Webhook delivery keeps no state, repeats nothing and is awaited by nobody; what
  it may send is `ApprovedByMajority`. The gateways are read and replaced by two
  messages without an await; their nonce is kept the way that of a configuration
  is. The DAO runner is a RunnerBase: its rounds are those of TxConsensus, its own
  rule compares the time of the round with the last unlock the contract reports,
  and what the contract does with the time is outside of the repository.
* Requests and answers over a channel: an answer is matched by an identifier that
  is used once, and a late one is dropped; the protocols above repeat what counts
  when READY is said, and do not read the outcome of a send.
* Statistics, logs, settings, data sources and the handlers that answer
  requests for them keep nothing that another component reads.
* The shared library and the RPC servers are modelled from how the code uses
  them; `PROJECT.json` marks these definitions external.

## 9. Plan

The order was: the transaction consensus first, as everything is published
through it; then what gives it its input (notifications, trades, prices,
subscriptions), then configuration and channels, which all of them rely on.
What is left, in order:

1. `Submission`: `submitTransaction` poll by poll with several servers, against
   an abstract submission that TxConsensus uses.
2. TradesSync with assets that come and go with the subscriptions, which a load
   may meet in the middle of a reload.
