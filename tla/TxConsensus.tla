---------------------------- MODULE TxConsensus ----------------------------
(***************************************************************************)
(* The transaction consensus of a cluster: every node runs one runner for  *)
(* the same contract (RunnerBase, driven by OracleRunner.__workerFn).  In  *)
(* every round each node reads the admin account and the contract, builds  *)
(* the transaction on its own, signs it, broadcasts the signature, and the *)
(* nodes that collect a majority submit it.  There is no leader and no     *)
(* agreement protocol besides: two nodes agree when they built the same    *)
(* hash.  The Stellar ledger and its RPC are external and modelled from    *)
(* how the code uses them.                                                 *)
(*                                                                         *)
(* Time is counted in units of the retry budget (15 s in the code) from    *)
(* the sync timestamp (timestamp + syncDelay) of round 1.                  *)
(***************************************************************************)
EXTENDS Integers, Sequences, FiniteSets

CONSTANTS
    Node,                \* the nodes of the cluster configuration
    Payload,             \* what the nodes may compute for a round (prices)
    None,                \* null
    MaxSubmitAttempts,   \* maxSubmitAttempts
    FirstAttemptTimeout, \* firstAttemptTimeout, in time units
    RetryAttemptTimeout, \* retryAttemptTimeout, in time units
    RoundLength,         \* distance of two rounds, in time units
    SignatureLifetime,   \* age at which early signatures are dropped (1 minute)
    RoundsPerTimeframe,  \* contract timeframe / distance of two rounds
    ReadyChecksTimeout,  \* does the external isReadyToSubmit look at isTimedOut?
    InitiallyInitialized, \* is the contract initialized before round 1?
    StateLag,            \* bound: ledgers a state may be older than its account
    MaxRound,            \* bound: rounds a node may start
    MaxLedger,           \* bound: transactions the account may make
    MaxForeign,          \* bound: transactions of other runners on the account
    MaxCrashes,          \* bound: process restarts
    MaxDrops             \* bound: lost connections

ASSUME NodeAssumption == IsFiniteSet(Node)
ASSUME AttemptsAssumption == MaxSubmitAttempts \in Nat \ {0}
ASSUME BudgetAssumption ==
    /\ FirstAttemptTimeout \in Nat \ {0}
    /\ RetryAttemptTimeout \in Nat \ {0}
    /\ RoundLength \in Nat \ {0}
    /\ SignatureLifetime \in Nat
    /\ RoundsPerTimeframe \in Nat \ {0}
ASSUME FlagAssumption ==
    /\ ReadyChecksTimeout \in BOOLEAN
    /\ InitiallyInitialized \in BOOLEAN
ASSUME BoundAssumption ==
    /\ MaxRound \in Nat
    /\ MaxLedger \in Nat
    /\ MaxForeign \in Nat
    /\ MaxCrashes \in Nat
    /\ MaxDrops \in Nat
    /\ StateLag \in Nat

VARIABLES
    clock,      \* wall-clock time, the nodes' clocks being synchronised
    log,        \* the ledger: what the account's sequence numbers were used for
    mempool,    \* transactions the RPC servers accepted and the ledger may take
    worker,     \* per node: the state of the runner's worker
    pending,    \* per node: __pendingTransaction
    early,      \* per node: __pendingSignatures, as pairs <<hash, signer>>
    inflight,   \* per node: running __trySubmitTransaction calls
    submitted,  \* history: what a node submitted since its start, in order
    net,        \* SIGNATURE messages under way
    link,       \* per pair: the sender's OUTGOING channel to the receiver
    signed,     \* history: every transaction a node ever built and signed
    upToDate,   \* history: transactions built on a state not older than the account
    crashes,    \* restarts so far
    drops       \* connections lost so far

vars == <<clock, log, mempool, worker, pending, early, inflight, submitted, net,
          link, signed, upToDate, crashes, drops>>

-----------------------------------------------------------------------------
(* Data *)

Rounds == 1..MaxRound
Attempts == 0..MaxSubmitAttempts - 1
Kinds == {"init", "update"}

(* A transaction is what its hash covers.  The fee and maxTime follow from  *)
(* the round and the attempt.                                              *)
Tx == [kind : Kinds, ts : Rounds, payload : Payload, seq : Nat \ {0},
       attempt : Attempts]

(* A transaction together with the signatures collected for it. *)
SignedTx == [tx : Tx, sigs : SUBSET Node]

(* createPendingTransactionObject *)
PendingTx == [tx : Tx, sigs : SUBSET Node, timedOut : BOOLEAN]

(* Somebody else's transaction on the same account. *)
ForeignEntry == [kind |-> "foreign"]

Entry == [kind : {"own"}, tx : Tx, sigs : SUBSET Node, ok : BOOLEAN]
         \cup {ForeignEntry}

Channels == {c \in Node \X Node : c[1] # c[2]}

(* getMaxTime *)
RoundStart(ts) == RoundLength * (ts - 1)

MaxTime(ts, attempt) ==
    RoundStart(ts) + FirstAttemptTimeout + RetryAttemptTimeout * attempt

MaxClock == MaxTime(MaxRound, MaxSubmitAttempts - 1) + 1

-----------------------------------------------------------------------------
(* The ledger, as its readers see it: a reader may lag, so it sees a prefix *)

IsOwn(i) == log[i].kind = "own"

IsInitialized(len) ==
    \/ InitiallyInitialized
    \/ \E i \in 1..len : IsOwn(i) /\ log[i].ok /\ log[i].tx.kind = "init"

IsNewer(ts, len) ==
    \A i \in 1..len :
        IsOwn(i) /\ log[i].ok /\ log[i].tx.kind = "update" => log[i].tx.ts < ts

(* Mutant: half of the nodes is enough *)
HasMajorityHalf(S) == 2 * Cardinality(S) >= Cardinality(Node)

(* More than half of the nodes: the multisig threshold of the account and   *)
(* the library's hasMajority, which is the same number.                    *)
HasMajority(S) == 2 * Cardinality(S) > Cardinality(Node)

(* Mutant: a transaction that timed out may still be submitted *)
IsReadyToSubmitLate(p) == HasMajority(p.sigs)

(* isReadyToSubmit *)
IsReadyToSubmit(p) ==
    /\ HasMajority(p.sigs)
    /\ ReadyChecksTimeout => ~p.timedOut

-----------------------------------------------------------------------------
(* Steps of a worker, as functions of its record *)

(* Mutant: the account is read again whenever a transaction is built *)
CurrentTxRefetched(w) ==
    [kind |-> w.kind, ts |-> w.ts, payload |-> w.payload,
     seq |-> Len(log) + 1, attempt |-> w.attempt]

(* Mutant: every attempt takes a sequence number of its own *)
CurrentTxNextSequence(w) ==
    [kind |-> w.kind, ts |-> w.ts, payload |-> w.payload,
     seq |-> w.seq + w.attempt, attempt |-> w.attempt]

CurrentTx(w) == [kind |-> w.kind, ts |-> w.ts, payload |-> w.payload,
                 seq |-> w.seq, attempt |-> w.attempt]

(* The end of worker(): the payload promise is resolved if it still is open *)
Finish(w, outcome) ==
    [w EXCEPT !.pc = "idle",
              !.outcome = outcome,
              !.view = "fresh",
              !.approved = IF w.approved = "open" THEN "no" ELSE w.approved]

(* The loop of __buildAndSubmitTransaction from an attempt on: attempts     *)
(* whose maxTime has passed fail at once, the first other one is built.    *)
EnterLoop(w, attempt) ==
    LET open == {a \in Attempts : a >= attempt /\ clock <= MaxTime(w.ts, a)}
    IN  IF open = {}
        THEN Finish(w, "failed")
        ELSE [w EXCEPT !.pc = "build",
                       !.attempt = CHOOSE a \in open : \A b \in open : a <= b]

(* Mutant: a failed submission does not reject the promise *)
RejectedSilently(w, tx) == w

(* reject(): whoever awaits submitPromise of tx goes on to the next attempt *)
Rejected(w, tx) ==
    IF w.pc = "wait" /\ CurrentTx(w) = tx
    THEN EnterLoop(w, w.attempt + 1)
    ELSE w

(* resolve(): whoever awaits submitPromise of tx is done *)
Resolved(w, tx) ==
    IF w.pc = "wait" /\ CurrentTx(w) = tx THEN Finish(w, "landed") ELSE w

(* __payloadMajorityData.resolve(true) *)
Approved(w) == IF w.approved = "open" THEN [w EXCEPT !.approved = "yes"] ELSE w

(* Mutant: the pending transaction is not cleared when it is submitted *)
TrySubmitKeepPending(n, p, w) ==
    /\ pending' = [pending EXCEPT ![n] = p]
    /\ IF IsReadyToSubmit(p)
       THEN /\ inflight' = [inflight EXCEPT
                               ![n] = @ \cup {[tx |-> p.tx, sigs |-> p.sigs]}]
            /\ submitted' = [submitted EXCEPT ![n] = Append(@, p.tx)]
            /\ worker' = [worker EXCEPT ![n] = Approved(w)]
       ELSE /\ worker' = [worker EXCEPT ![n] = w]
            /\ UNCHANGED <<inflight, submitted>>

(* The synchronous part of __trySubmitTransaction: with p as the pending    *)
(* transaction and w as the worker, either submission starts and the       *)
(* pending transaction is cleared, or p stays.                             *)
TrySubmit(n, p, w) ==
    IF IsReadyToSubmit(p)
    THEN /\ pending' = [pending EXCEPT ![n] = None]
         /\ inflight' = [inflight EXCEPT
                            ![n] = @ \cup {[tx |-> p.tx, sigs |-> p.sigs]}]
         /\ submitted' = [submitted EXCEPT ![n] = Append(@, p.tx)]
         /\ worker' = [worker EXCEPT ![n] = Approved(w)]
    ELSE /\ pending' = [pending EXCEPT ![n] = p]
         /\ worker' = [worker EXCEPT ![n] = w]
         /\ UNCHANGED <<inflight, submitted>>

(* nodesManager.broadcast: to every node with a ready OUTGOING channel *)
Broadcast(n, tx) ==
    {[from |-> n, to |-> m, tx |-> tx] :
        m \in {x \in Node \ {n} : link[<<n, x>>] # "down"}}

(* Mutant: addSignature does not compare the hashes *)
IsPendingAny(n, tx) == pending[n] # None

IsPending(n, tx) == pending[n] # None /\ pending[n].tx = tx

(* Mutant: __assignPendingSignatures forgets what came early *)
EarlySignersForgotten(n, tx) == {}

EarlySigners(n, tx) == {m \in Node : <<tx, m>> \in early[n]}

IsTimestampValid(ts) == (ts - 1) % RoundsPerTimeframe = 0

(* start(): the last round of the contract's timeframe that began; the      *)
(* clock counts from sync timestamps, which are up to a round later.       *)
FirstRounds == {ts \in Rounds :
                    /\ IsTimestampValid(ts)
                    /\ RoundStart(ts) <= clock + RoundLength
                    /\ clock < RoundStart(ts) + RoundLength * RoundsPerTimeframe}

(* A worker that waits for the round after ts *)
FreshWorker(ts) ==
    [pc |-> "idle", ts |-> ts, seq |-> 0, kind |-> "init", payload |-> None,
     attempt |-> 0, view |-> "fresh", approved |-> "no", outcome |-> "none"]

-----------------------------------------------------------------------------
Init ==
    /\ clock = 0
    /\ log = <<>>
    /\ mempool = {}
    /\ worker = [n \in Node |-> FreshWorker(0)]
    /\ pending = [n \in Node |-> None]
    /\ early = [n \in Node |-> {}]
    /\ inflight = [n \in Node |-> {}]
    /\ submitted = [n \in Node |-> <<>>]
    /\ net = {}
    /\ link = [c \in Channels |-> "synced"]
    /\ signed = [n \in Node |-> {}]
    /\ upToDate = {}
    /\ crashes = 0
    /\ drops = 0

(* -------------------------- the worker -------------------------------- *)

(* worker(): the timer of the next round fires, a new payload promise *)
StartWorker(n) ==
    LET w == worker[n] IN
    /\ w.pc = "idle"
    /\ w.ts < MaxRound
    /\ RoundStart(w.ts + 1) <= clock
    /\ worker' = [worker EXCEPT ![n] =
                    [FreshWorker(w.ts + 1) EXCEPT !.pc = "account",
                                                  !.approved = "open"]]
    /\ UNCHANGED <<clock, log, mempool, pending, early, inflight, submitted,
                   net, link, signed, upToDate, crashes, drops>>

(* await getAccount: the sequence number some RPC server knows of.  Every   *)
(* attempt of the round is built on this one.                              *)
GetAccount(n) ==
    /\ worker[n].pc = "account"
    /\ \E len \in 0..Len(log) :
        worker' = [worker EXCEPT ![n].pc = "state", ![n].seq = len + 1]
    /\ UNCHANGED <<clock, log, mempool, pending, early, inflight, submitted,
                   net, link, signed, upToDate, crashes, drops>>

(* A request of the round throws; worker() logs it and reschedules *)
RequestFails(n) ==
    /\ worker[n].pc \in {"account", "state"}
    /\ worker' = [worker EXCEPT ![n] = Finish(@, "failed")]
    /\ UNCHANGED <<clock, log, mempool, pending, early, inflight, submitted,
                   net, link, signed, upToDate, crashes, drops>>

(* The state is a request of its own, which another server may answer: it is
   later than the account, or, from a server that lags behind, older.       *)
ReadableStates(w) == {len \in 0..Len(log) : len >= w.seq - 1 - StateLag}

UpdateIsDue(w, len) ==
    /\ IsTimestampValid(w.ts)
    /\ IsNewer(w.ts, len)
    /\ clock <= MaxTime(w.ts, MaxSubmitAttempts - 1)

(* await getOracleContractState, then the prices; the transaction of the    *)
(* round is decided, and __buildAndSubmitTransaction begins                *)
ReadState(n) ==
    LET w == worker[n] IN
    /\ w.pc = "state"
    /\ \E len \in ReadableStates(w), payload \in Payload :
        LET view == IF len < w.seq - 1 THEN "stale" ELSE "fresh"
            decided == [w EXCEPT !.payload = payload, !.view = view]
        IN
        \/ /\ ~IsInitialized(len)
           /\ worker' = [worker EXCEPT ![n] =
                EnterLoop([decided EXCEPT !.kind = "init"], 0)]
        \/ /\ IsInitialized(len)
           /\ UpdateIsDue(w, len)
           /\ worker' = [worker EXCEPT ![n] =
                EnterLoop([decided EXCEPT !.kind = "update"], 0)]
    /\ UNCHANGED <<clock, log, mempool, pending, early, inflight, submitted,
                   net, link, signed, upToDate, crashes, drops>>

(* Initialized, and no update is due, or there are no prices to publish *)
NothingToDo(n) ==
    /\ worker[n].pc = "state"
    /\ \E len \in ReadableStates(worker[n]) : IsInitialized(len)
    /\ worker' = [worker EXCEPT ![n] = Finish(@, "skipped")]
    /\ UNCHANGED <<clock, log, mempool, pending, early, inflight, submitted,
                   net, link, signed, upToDate, crashes, drops>>

(* buildTxFn throws *)
BuildFails(n) ==
    /\ worker[n].pc = "build"
    /\ worker' = [worker EXCEPT ![n] = EnterLoop(@, @.attempt + 1)]
    /\ UNCHANGED <<clock, log, mempool, pending, early, inflight, submitted,
                   net, link, signed, upToDate, crashes, drops>>

(* buildTxFn returns, __setPendingTransaction replaces the pending          *)
(* transaction, takes over the signatures that came early, broadcasts, and *)
(* __trySubmitTransaction runs                                             *)
BuildTx(n) ==
    LET tx == CurrentTx(worker[n])
        p == [tx |-> tx, sigs |-> {n} \cup EarlySigners(n, tx), timedOut |-> FALSE]
    IN
    /\ worker[n].pc = "build"
    /\ TrySubmit(n, p, [worker[n] EXCEPT !.pc = "wait"])
    /\ early' = [early EXCEPT ![n] = {e \in @ : e[1] # tx}]
    /\ net' = net \cup Broadcast(n, tx)
    /\ signed' = [signed EXCEPT ![n] = @ \cup {tx}]
    /\ upToDate' = IF worker[n].view = "fresh" THEN upToDate \cup {tx} ELSE upToDate
    /\ UNCHANGED <<clock, log, mempool, link, crashes, drops>>

(* The timer of the pending transaction.  A submitted one is waited for.    *)
TimerFires(n) ==
    LET p == pending[n] IN
    /\ p # None
    /\ ~p.timedOut
    /\ MaxTime(p.tx.ts, p.tx.attempt) <= clock
    /\ pending' = [pending EXCEPT ![n].timedOut = TRUE]
    /\ worker' = [worker EXCEPT ![n] = Rejected(@, p.tx)]
    /\ UNCHANGED <<clock, log, mempool, early, inflight, submitted, net, link,
                   signed, upToDate, crashes, drops>>

(* ------------------------- signatures --------------------------------- *)

(* SignaturesHandler, addSignature: a signature for the pending transaction *)
AddSignature(n, msg) ==
    LET p == pending[n] IN
    /\ msg \in net
    /\ msg.to = n
    /\ IsPending(n, msg.tx)
    /\ net' = net \ {msg}
    /\ TrySubmit(n, [p EXCEPT !.sigs = @ \cup {msg.from}], worker[n])
    /\ UNCHANGED <<clock, log, mempool, early, link, signed, upToDate, crashes,
                   drops>>

(* addSignature: a signature for any other hash is kept for later *)
KeepSignature(n, msg) ==
    /\ msg \in net
    /\ msg.to = n
    /\ ~IsPending(n, msg.tx)
    /\ net' = net \ {msg}
    /\ early' = [early EXCEPT ![n] = @ \cup {<<msg.tx, msg.from>>}]
    /\ UNCHANGED <<clock, log, mempool, worker, pending, inflight, submitted,
                   link, signed, upToDate, crashes, drops>>

(* __clearPendingSignatures drops what is older than a minute; the age is   *)
(* counted from the start of the round, before which none can arrive       *)
ClearPendingSignatures(n) ==
    \E tx \in {e[1] : e \in early[n]} :
        /\ clock > RoundStart(tx.ts) + SignatureLifetime
        /\ early' = [early EXCEPT ![n] = {e \in @ : e[1] # tx}]
        /\ UNCHANGED <<clock, log, mempool, worker, pending, inflight,
                       submitted, net, link, signed, upToDate, crashes, drops>>

(* ------------------------ submission ---------------------------------- *)

(* submitTransaction sends the transaction and an RPC server accepts it *)
SendTransaction(n, s) ==
    /\ s \in inflight[n]
    /\ s \notin mempool
    /\ s.tx.seq = Len(log) + 1
    /\ clock <= MaxTime(s.tx.ts, s.tx.attempt)
    /\ mempool' = mempool \cup {s}
    /\ UNCHANGED <<clock, log, worker, pending, early, inflight, submitted, net,
                   link, signed, upToDate, crashes, drops>>

(* Mutant: any status of a found transaction counts as success *)
HasSucceededAny(tx) == \E i \in 1..Len(log) : IsOwn(i) /\ log[i].tx = tx

(* The status of the transaction is SUCCESS *)
HasSucceeded(tx) ==
    \E i \in 1..Len(log) : IsOwn(i) /\ log[i].ok /\ log[i].tx = tx

(* submitTransaction returns *)
SubmissionSucceeds(n, s) ==
    /\ s \in inflight[n]
    /\ HasSucceeded(s.tx)
    /\ inflight' = [inflight EXCEPT ![n] = @ \ {s}]
    /\ worker' = [worker EXCEPT ![n] = Resolved(@, s.tx)]
    /\ UNCHANGED <<clock, log, mempool, pending, early, submitted, net, link,
                   signed, upToDate, crashes, drops>>

(* submitTransaction throws: too late, refused, out of attempts, no server; *)
(* the ledger may still take what was sent                                 *)
SubmissionFails(n, s) ==
    /\ s \in inflight[n]
    /\ inflight' = [inflight EXCEPT ![n] = @ \ {s}]
    /\ worker' = [worker EXCEPT ![n] = Rejected(@, s.tx)]
    /\ UNCHANGED <<clock, log, mempool, pending, early, submitted, net, link,
                   signed, upToDate, crashes, drops>>

(* The ledger takes a transaction with the next sequence number, enough     *)
(* signatures and a maxTime that has not passed; the contract call may fail *)
CloseLedger(s) ==
    /\ s \in mempool
    /\ Len(log) < MaxLedger
    /\ s.tx.seq = Len(log) + 1
    /\ HasMajority(s.sigs)
    /\ clock <= MaxTime(s.tx.ts, s.tx.attempt)
    /\ \E ok \in BOOLEAN :
        log' = Append(log, [kind |-> "own", tx |-> s.tx, sigs |-> s.sigs, ok |-> ok])
    /\ mempool' = {x \in mempool : x.tx.seq > Len(log) + 1}
    /\ UNCHANGED <<clock, worker, pending, early, inflight, submitted, net,
                   link, signed, upToDate, crashes, drops>>

(* Another runner of the same admin account uses a sequence number *)
ForeignTransaction ==
    /\ Len(log) < MaxLedger
    /\ Cardinality({i \in 1..Len(log) : ~IsOwn(i)}) < MaxForeign
    /\ log' = Append(log, ForeignEntry)
    /\ mempool' = {x \in mempool : x.tx.seq > Len(log) + 1}
    /\ UNCHANGED <<clock, worker, pending, early, inflight, submitted, net,
                   link, signed, upToDate, crashes, drops>>

Tick ==
    /\ clock < MaxClock
    /\ clock' = clock + 1
    /\ UNCHANGED <<log, mempool, worker, pending, early, inflight, submitted,
                   net, link, signed, upToDate, crashes, drops>>

(* ------------------- connections and restarts ------------------------- *)

(* The channel from n to m breaks, with what is under way on it *)
Disconnect(n, m) ==
    /\ drops < MaxDrops
    /\ link[<<n, m>>] # "down"
    /\ link' = [link EXCEPT ![<<n, m>>] = "down"]
    /\ net' = {msg \in net : ~(msg.from = n /\ msg.to = m)}
    /\ drops' = drops + 1
    /\ UNCHANGED <<clock, log, mempool, worker, pending, early, inflight,
                   submitted, signed, upToDate, crashes>>

(* Handshake done: n may send to m again *)
Connect(n, m) ==
    /\ link[<<n, m>>] = "down"
    /\ link' = [link EXCEPT ![<<n, m>>] = "open"]
    /\ UNCHANGED <<clock, log, mempool, worker, pending, early, inflight,
                   submitted, net, signed, upToDate, crashes, drops>>

(* Mutant: READY is not answered with the signature *)
PeerReadySilent(n, m) ==
    /\ link[<<n, m>>] = "open"
    /\ link' = [link EXCEPT ![<<n, m>>] = "synced"]
    /\ UNCHANGED <<clock, log, mempool, worker, pending, early, inflight,
                   submitted, net, signed, upToDate, crashes, drops>>

(* A second later m says READY on it, and n repeats its signature of the    *)
(* pending transaction (StateHandler, broadcastSignatureTo)                *)
PeerReady(n, m) ==
    /\ link[<<n, m>>] = "open"
    /\ link' = [link EXCEPT ![<<n, m>>] = "synced"]
    /\ net' = IF pending[n] = None
              THEN net
              ELSE net \cup {[from |-> n, to |-> m, tx |-> pending[n].tx]}
    /\ UNCHANGED <<clock, log, mempool, worker, pending, early, inflight,
                   submitted, signed, upToDate, crashes, drops>>

(* The process dies and comes up again: all of the runner's state is memory *)
Crash(n) ==
    /\ crashes < MaxCrashes
    /\ \E ts \in FirstRounds : worker' = [worker EXCEPT ![n] = FreshWorker(ts - 1)]
    /\ pending' = [pending EXCEPT ![n] = None]
    /\ early' = [early EXCEPT ![n] = {}]
    /\ inflight' = [inflight EXCEPT ![n] = {}]
    /\ submitted' = [submitted EXCEPT ![n] = <<>>]
    /\ link' = [c \in Channels |-> IF n \in {c[1], c[2]} THEN "down" ELSE link[c]]
    /\ net' = {msg \in net : n \notin {msg.from, msg.to}}
    /\ crashes' = crashes + 1
    /\ UNCHANGED <<clock, log, mempool, signed, upToDate, drops>>

WorkerStep(n) ==
    \/ StartWorker(n)
    \/ GetAccount(n)
    \/ RequestFails(n)
    \/ ReadState(n)
    \/ NothingToDo(n)
    \/ BuildFails(n)
    \/ BuildTx(n)
    \/ TimerFires(n)

SubmissionStep(n) ==
    \E s \in inflight[n] :
        \/ SendTransaction(n, s)
        \/ SubmissionSucceeds(n, s)
        \/ SubmissionFails(n, s)

SignatureStep(n) ==
    \/ \E msg \in net : AddSignature(n, msg) \/ KeepSignature(n, msg)
    \/ ClearPendingSignatures(n)

LinkStep(n, m) == Disconnect(n, m) \/ Connect(n, m) \/ PeerReady(n, m)

LedgerStep == (\E s \in mempool : CloseLedger(s)) \/ ForeignTransaction

Next ==
    \/ \E n \in Node : WorkerStep(n) \/ SubmissionStep(n) \/ SignatureStep(n)
                       \/ Crash(n)
    \/ \E c \in Channels : LinkStep(c[1], c[2])
    \/ LedgerStep
    \/ Tick

Spec == Init /\ [][Next]_vars

-----------------------------------------------------------------------------
(* Properties *)

Worker == [pc : {"idle", "account", "state", "build", "wait"},
           ts : 0..MaxRound, seq : Nat, kind : Kinds,
           payload : Payload \cup {None}, attempt : Attempts, view : {"fresh", "stale"},
           approved : {"open", "yes", "no"},
           outcome : {"none", "skipped", "failed", "landed"}]

TypeOK ==
    /\ clock \in Nat
    /\ log \in Seq(Entry)
    /\ mempool \subseteq SignedTx
    /\ worker \in [Node -> Worker]
    /\ pending \in [Node -> PendingTx \cup {None}]
    /\ early \in [Node -> SUBSET (Tx \X Node)]
    /\ inflight \in [Node -> SUBSET SignedTx]
    /\ submitted \in [Node -> Seq(Tx)]
    /\ net \subseteq [from : Node, to : Node, tx : Tx]
    /\ link \in [Channels -> {"down", "open", "synced"}]
    /\ signed \in [Node -> SUBSET Tx]
    /\ upToDate \subseteq Tx
    /\ crashes \in Nat
    /\ drops \in Nat

Landed(i) == IsOwn(i) /\ log[i].ok

(* The timestamps of the updates that succeed on the ledger grow strictly:  *)
(* a timestamp is never published twice and never after a later one, though *)
(* every node retries each round with up to three transactions, submits    *)
(* them concurrently with the others and may be restarted in between.  One *)
(* node that read a state as new as its account is enough; when everyone   *)
(* who signed was answered by a server that lags behind, only the contract *)
(* itself could refuse the update.                                         *)
UpdatesInOrder ==
    \A i, j \in 1..Len(log) :
        /\ i < j
        /\ Landed(i) /\ log[i].tx.kind = "update"
        /\ Landed(j) /\ log[j].tx.kind = "update"
        /\ log[j].tx \in upToDate
        => log[i].tx.ts < log[j].tx.ts

(* The contract is initialized before it is updated, and once: again, when  *)
(* at least one node that built the transaction did not read a state from  *)
(* before the account.                                                     *)
InitializedOnce ==
    \A j \in 1..Len(log) : Landed(j) =>
        /\ log[j].tx.kind = "update" => IsInitialized(j - 1)
        /\ log[j].tx.kind = "init" /\ log[j].tx \in upToDate
               => ~IsInitialized(j - 1)

(* What a node submits carries signatures of a majority, each of a node     *)
(* that built the very transaction: no signature collected for another     *)
(* hash, and none from before a restart, is ever counted for it.           *)
SubmittedByMajority ==
    \A s \in UNION {inflight[n] : n \in Node} :
        /\ HasMajority(s.sigs)
        /\ \A m \in s.sigs : s.tx \in signed[m]

(* A worker that reports success for a round has its transaction on the     *)
(* ledger: the round's payload as this node computed it.                   *)
SuccessLanded ==
    \A n \in Node : worker[n].outcome = "landed" =>
        \E i \in 1..Len(log) :
            /\ Landed(i)
            /\ log[i].tx = CurrentTx(worker[n])

(* The payload promise of a round (__payloadMajorityData) becomes true only *)
(* when a majority of the nodes signed what this node computed in the same  *)
(* round.  SubscriptionsRunner delivers webhooks on the strength of it.    *)
ApprovedByMajority ==
    \A n \in Node : worker[n].approved = "yes" =>
        LET w == worker[n] IN
        HasMajority({m \in Node : \E tx \in signed[m] :
            tx.kind = w.kind /\ tx.ts = w.ts /\ tx.payload = w.payload})

(* Two nodes that wait with the same transaction while it can still land    *)
(* know of each other, or will, once the channel between them is in order: *)
(* whichever of them builds first, and across reconnections and restarts,  *)
(* no signature gets lost.  It needs that early signatures are kept at     *)
(* least as long as the last attempt of a round may take.                  *)
SignaturesMeet ==
    \A c \in Channels :
        LET p == pending[c[1]]
            q == pending[c[2]]
        IN  p # None /\ q # None /\ link[c] = "synced" =>
                \/ p.tx # q.tx
                \/ clock > MaxTime(p.tx.ts, p.tx.attempt)
                \/ c[1] \in q.sigs
                \/ [from |-> c[1], to |-> c[2], tx |-> p.tx] \in net

(* A node submits a transaction at most once between two starts, whatever   *)
(* signatures come in while and after it is submitted, and however the     *)
(* submission ends.                                                        *)
SubmittedOnce ==
    \A n \in Node : \A i, j \in 1..Len(submitted[n]) :
        submitted[n][i] = submitted[n][j] => i = j

(* A worker gives a round up only when no submission of its transactions    *)
(* is running any more.                                                    *)
NotGivenUpEarly ==
    \A n \in Node : worker[n].outcome = "failed" =>
        \A s \in inflight[n] : s.tx.ts # worker[n].ts

(* Timers fire and time passes.  No fairness for messages, ledger and       *)
(* connections, and none for requests: rpc.Server is given no timeout and   *)
(* no await of the round is raced with a timer.                            *)
Fairness ==
    /\ WF_vars(Tick)
    /\ \A n \in Node : WF_vars(StartWorker(n)) /\ WF_vars(TimerFires(n))

(* The requests of n return or throw, in the end: those of its worker and   *)
(* of submitTransaction, which makes at most 100 attempts.                 *)
RequestsReturn(n) ==
    /\ WF_vars(GetAccount(n) \/ RequestFails(n) \/ ReadState(n) \/ NothingToDo(n))
    /\ WF_vars(BuildTx(n) \/ BuildFails(n))
    /\ WF_vars(\E s \in inflight[n] :
                   SubmissionSucceeds(n, s) \/ SubmissionFails(n, s))

(* A round of a node whose own requests return ends, and the next one is    *)
(* scheduled: whatever is answered, and though the requests of the others, *)
(* their signatures and the ledger may never come.                         *)
RoundsEnd ==
    \A n \in Node :
        RequestsReturn(n) => (worker[n].pc # "idle" ~> worker[n].pc = "idle")

FairSpec == Spec /\ Fairness

-----------------------------------------------------------------------------
(* What the cluster promises, with the retries, signatures and sequence     *)
(* numbers forgotten                                                       *)
ProposalOf(tx) == [kind |-> tx.kind, ts |-> tx.ts, payload |-> tx.payload]

ProposedBy(n) == {ProposalOf(tx) : tx \in signed[n]}

Published ==
    {[at |-> i, ts |-> log[i].tx.ts, payload |-> log[i].tx.payload] :
        i \in {j \in 1..Len(log) : Landed(j) /\ log[j].tx.kind = "update"}}

Feed == INSTANCE OracleFeed WITH
            Position <- 1..MaxLedger,
            proposed <- [n \in Node |-> ProposedBy(n)],
            initialized <- IsInitialized(Len(log)),
            feed <- Published

(* If no state is older than its account (StateLag = 0), the cluster        *)
(* implements its promise: what lands on the ledger is what a majority     *)
(* computed, in order, and no timestamp twice, whatever is retried, lost   *)
(* or restarted.                                                           *)
ImplementsFeed == Feed!FeedSpec

=============================================================================
