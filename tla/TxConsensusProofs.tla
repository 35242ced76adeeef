-------------------------- MODULE TxConsensusProofs --------------------------
(***************************************************************************)
(* Type correctness of TxConsensus, its inductive invariant, and what      *)
(* follows from it, for any number of nodes, payloads, rounds, attempts    *)
(* and for any bound on restarts, lost connections and foreign             *)
(* transactions.  The second part is about the rounds of the nodes: a      *)
(* transaction is submitted once, what a worker reports and approves is    *)
(* so, and no signature gets lost.  RoundInv is its inductive invariant,   *)
(* node by node (RoundOf); WorkerSound and SignaturesDelivered are         *)
(* inductive with it.                                                      *)
(***************************************************************************)
EXTENDS TxConsensus, FiniteSetTheorems, TLAPS

-----------------------------------------------------------------------------
(* The inductive invariant behind UpdatesInOrder, InitializedOnce and       *)
(* SubmittedByMajority                                                     *)

(* What is built with sequence number seq is justified by the ledger as it  *)
(* was just before seq: an update found the contract initialized; and, if  *)
(* the state is fresh, not older than the account, it found nothing as new, *)
(* and an init no initialization; or the number is used up already.        *)
Justified(kind, ts, seq, fresh) ==
    /\ seq \in 1..Len(log) + 1
    /\ kind = "init" /\ fresh => ~IsInitialized(seq - 1)
    /\ kind = "update" => /\ fresh => IsNewer(ts, seq - 1)
                          /\ IsInitialized(seq - 1) \/ seq <= Len(log)

TxJustified(tx, fresh) == Justified(tx.kind, tx.ts, tx.seq, fresh)

BuiltAreJustified ==
    /\ \A n \in Node : \A tx \in signed[n] : TxJustified(tx, FALSE)
    /\ \A tx \in upToDate : TxJustified(tx, TRUE)

WorkerJustified(w) ==
    /\ w.pc # "idle" => w.ts \in Rounds
    /\ w.pc = "state" => w.seq \in 1..Len(log) + 1
    /\ w.pc \in {"build", "wait"} => /\ w.payload \in Payload
                                    /\ Justified(w.kind, w.ts, w.seq, w.view = "fresh")

WorkersAreJustified == \A n \in Node : WorkerJustified(worker[n])

BuiltBy(tx, S) == \A m \in S : tx \in signed[m]

(* Signatures of a majority, all of nodes that built the transaction *)
MajorityBuilt(s) == HasMajority(s.sigs) /\ BuiltBy(s.tx, s.sigs)

SignersBuilt ==
    /\ \A n \in Node : pending[n] # None =>
            n \in pending[n].sigs /\ BuiltBy(pending[n].tx, pending[n].sigs)
    /\ \A n \in Node : \A e \in early[n] : e[1] \in signed[e[2]]
    /\ \A msg \in net : msg.tx \in signed[msg.from]
    /\ \A n \in Node : \A s \in inflight[n] : MajorityBuilt(s)
    /\ \A s \in mempool : MajorityBuilt(s)

LedgerIsSigned ==
    \A i \in 1..Len(log) : IsOwn(i) =>
        /\ log[i].tx.seq = i
        /\ MajorityBuilt(log[i])
        /\ log[i].tx.kind = "update" => IsInitialized(i - 1)

(* Everything a node ever built rests on the ledger before its sequence     *)
(* number, every counted signature is of a node that built the transaction,*)
(* and the ledger holds only majority-signed transactions at their number. *)
Inv == /\ BuiltAreJustified
       /\ WorkersAreJustified
       /\ SignersBuilt
       /\ LedgerIsSigned

(* The inductive invariant behind SuccessLanded, ApprovedByMajority,        *)
(* SubmittedOnce, NotGivenUpEarly and SignaturesMeet                       *)

(* A worker in this state does not build the transaction any more *)
IsPast(w, tx) ==
    \/ tx.ts < w.ts
    \/ /\ tx.ts = w.ts
       /\ \/ w.pc = "idle"
          \/ w.pc = "build" /\ tx.attempt < w.attempt
          \/ w.pc = "wait" /\ tx.attempt <= w.attempt

BuiltInOrder ==
    \A n \in Node :
        /\ pending[n] # None => /\ IsPast(worker[n], pending[n].tx)
                               /\ \A s \in inflight[n] : s.tx # pending[n].tx
        /\ \A s \in inflight[n] : IsPast(worker[n], s.tx)

IsAwaitedBy(tx, w) == w.pc = "wait" /\ CurrentTx(w) = tx

(* What a worker waits for, it waits for to the end: a transaction whose    *)
(* timer did not fire, and, when that keeps it from being submitted, each  *)
(* submission of the round                                                 *)
TransactionsAreAwaited ==
    \A n \in Node :
        /\ pending[n] # None /\ ~pending[n].timedOut
               => IsAwaitedBy(pending[n].tx, worker[n])
        /\ ReadyChecksTimeout =>
               \A s \in inflight[n] :
                   s.tx.ts = worker[n].ts => IsAwaitedBy(s.tx, worker[n])

OutcomeIsLast ==
    \A n \in Node :
        /\ worker[n].outcome # "none" => worker[n].pc = "idle"
        /\ ReadyChecksTimeout /\ worker[n].pc \in {"account", "state"}
               => worker[n].approved = "open"

(* The signature of c[1] is under way to c[2], kept there, counted there,   *)
(* or came too late: c[2] built and dropped the transaction already        *)
IsDelivered(c, tx) ==
    \/ [from |-> c[1], to |-> c[2], tx |-> tx] \in net
    \/ /\ ~IsPending(c[2], tx)
       /\ <<tx, c[1]>> \in early[c[2]] \/ IsPast(worker[c[2]], tx)
    \/ IsPending(c[2], tx) /\ c[1] \in pending[c[2]].sigs

SignaturesDelivered ==
    \A c \in Channels :
        LET p == pending[c[1]] IN
        p # None /\ link[c] = "synced" /\ clock <= MaxTime(p.tx.ts, p.tx.attempt)
            => IsDelivered(c, p.tx)

(* No two submissions of a transaction run at the same time *)
InflightOnce ==
    \A n \in Node : \A s, t \in inflight[n] : s.tx = t.tx => s = t

(* The rounds of a node follow each other: no transaction is built or       *)
(* submitted twice, and a worker goes on only when what it waits for ended *)
RoundInv == BuiltInOrder /\ InflightOnce /\ TransactionsAreAwaited /\ OutcomeIsLast

(* What a node submitted since its start is past and not pending again, and *)
(* is no transaction twice.                                                *)
SubmittedInOrder(n) ==
    /\ \A i \in 1..Len(submitted[n]) :
           /\ IsPast(worker[n], submitted[n][i])
           /\ pending[n] # None => submitted[n][i] # pending[n].tx
    /\ \A i, j \in 1..Len(submitted[n]) :
           submitted[n][i] = submitted[n][j] => i = j

-----------------------------------------------------------------------------
(* Facts about the operators *)

(* A nonempty set of naturals up to k has a least element: the attempt that *)
(* EnterLoop chooses exists.                                               *)
LEMMA LeastElement ==
  ASSUME NEW k \in Int, NEW S, S \subseteq 0..k, S # {}
  PROVE  \E x \in S : \A y \in S : x <= y
<1> DEFINE T == {0..a : a \in S}
<1>1. IsWellFoundedOn(StrictSubsetOrdering(0..k), SUBSET (0..k))
  <2>1. IsFiniteSet(0..k)
    BY FS_Interval
  <2>2. FiniteSubsetsOf(0..k) = SUBSET (0..k)
    BY <2>1, FS_FiniteSubsetsOfFinite, Zenon
  <2> QED BY <2>2, FS_StrictSubsetOrderingWellFounded, Zenon
<1>2. T \subseteq SUBSET (0..k) /\ T # {}
  <2>1. ASSUME NEW a \in S PROVE 0..a \subseteq 0..k
    OBVIOUS
  <2> QED BY <2>1, Zenon
<1>3. PICK x \in T : \A y \in T : ~ (<<y, x>> \in StrictSubsetOrdering(0..k))
  BY <1>1, <1>2, WFMin, Zenon
<1>4. PICK m \in S : x = 0..m
  BY <1>3
<1>5. ASSUME NEW b \in S, b < m PROVE FALSE
  <2>1. 0..b \in T /\ 0..b \subseteq 0..m /\ 0..b # 0..m
    BY <1>5
  <2>2. <<0..b, x>> \in StrictSubsetOrdering(0..k)
    BY <2>1, <1>2, <1>4 DEF StrictSubsetOrdering
  <2> QED BY <2>1, <2>2, <1>3
<1> QED BY <1>5

(* The end of a round keeps everything but the program counter, the outcome *)
(* and the payload promise.                                                *)
LEMMA FinishShape ==
  ASSUME NEW w \in Worker, NEW outcome \in {"skipped", "failed", "landed"}
  PROVE  /\ Finish(w, outcome) \in Worker
         /\ Finish(w, outcome).pc = "idle"
         /\ Finish(w, outcome).view = "fresh"
BY DEF Finish, Worker

(* The retry loop of __buildAndSubmitTransaction ends the round or builds   *)
(* another attempt of the same transaction: same round, payload and        *)
(* sequence number.                                                        *)
LEMMA EnterLoopShape ==
  ASSUME NEW w \in Worker, NEW attempt \in Int
  PROVE  LET r == EnterLoop(w, attempt) IN
         /\ r \in Worker
         /\ r.pc \in {"idle", "build"}
         /\ r.pc = "build" => r.view = w.view
         /\ w.view = "fresh" => r.view = "fresh"
         /\ r.ts = w.ts /\ r.kind = w.kind
         /\ r.seq = w.seq /\ r.payload = w.payload
<1> DEFINE open == {a \in Attempts : a >= attempt /\ clock <= MaxTime(w.ts, a)}
<1> DEFINE least == CHOOSE a \in open : \A b \in open : a <= b
<1>1. CASE open = {}
  BY <1>1 DEF EnterLoop, Finish, Worker
<1>2. CASE open # {}
  <2>1. open \subseteq 0..MaxSubmitAttempts - 1 /\ MaxSubmitAttempts - 1 \in Int
    BY AttemptsAssumption DEF Attempts
  <2>2. \E a \in open : \A b \in open : a <= b
    BY <1>2, <2>1, LeastElement
  <2>3. least \in Attempts
    BY <2>1, <2>2 DEF Attempts
  <2>4. EnterLoop(w, attempt) = [w EXCEPT !.pc = "build", !.attempt = least]
    BY <1>2 DEF EnterLoop
  <2> HIDE DEF least, open
  <2> QED BY <2>3, <2>4 DEF Worker
<1> QED BY <1>1, <1>2

(* A rejected promise moves only the worker that awaits it. *)
LEMMA RejectedShape ==
  ASSUME NEW w \in Worker, NEW tx
  PROVE  LET r == Rejected(w, tx) IN
         /\ r \in Worker
         /\ r = w \/ (w.pc = "wait" /\ r.pc \in {"idle", "build"})
         /\ r.pc = "build" => r.view = w.view
         /\ w.view = "fresh" => r.view = "fresh"
         /\ r.ts = w.ts /\ r.kind = w.kind
         /\ r.seq = w.seq /\ r.payload = w.payload
<1>1. w.attempt + 1 \in Int
  BY AttemptsAssumption DEF Worker, Attempts
<1> QED BY <1>1, EnterLoopShape DEF Rejected

(* A resolved promise ends the round of the worker that awaits it. *)
LEMMA ResolvedShape ==
  ASSUME NEW w \in Worker, NEW tx
  PROVE  /\ Resolved(w, tx) \in Worker
         /\ Resolved(w, tx) = w \/ Resolved(w, tx).pc = "idle"
         /\ w.view = "fresh" => Resolved(w, tx).view = "fresh"
BY FinishShape DEF Resolved

LEMMA FreshWorkerShape ==
  ASSUME NEW ts \in 0..MaxRound
  PROVE  FreshWorker(ts) \in Worker
BY AttemptsAssumption DEF FreshWorker, Worker, Kinds, Attempts

(* The transaction of a worker that builds or waits is a transaction. *)
LEMMA CurrentTxType ==
  ASSUME NEW w \in Worker, w.ts \in Rounds, w.payload \in Payload,
         w.seq \in Nat \ {0}
  PROVE  CurrentTx(w) \in Tx
BY DEF CurrentTx, Tx, Worker

-----------------------------------------------------------------------------
(* Type correctness *)

LEMMA WorkerAt ==
  ASSUME TypeOK, NEW n \in Node
  PROVE  worker[n] \in Worker
BY DEF TypeOK

(* A worker that read the state and decided on its transaction *)
Decided(w, kind, payload, view) ==
  [[w EXCEPT !.payload = payload, !.view = view] EXCEPT !.kind = kind]

(* What a worker reads, decides and awaits keeps its record typed. *)
LEMMA WorkerReads ==
  ASSUME NEW w \in Worker
  PROVE  /\ \A len \in Nat :
                [w EXCEPT !.pc = "state", !.seq = len + 1] \in Worker
         /\ \A kind \in Kinds, payload \in Payload, view \in {"fresh", "stale"} :
                Decided(w, kind, payload, view) \in Worker
         /\ [w EXCEPT !.pc = "wait"] \in Worker
<1>1. ASSUME NEW len \in Nat
      PROVE  [w EXCEPT !.pc = "state", !.seq = len + 1] \in Worker
  <2>1. len + 1 \in Nat
    OBVIOUS
  <2> QED BY <2>1 DEF Worker
<1>2. ASSUME NEW kind \in Kinds, NEW payload \in Payload, NEW view \in {"fresh", "stale"}
      PROVE  Decided(w, kind, payload, view) \in Worker
  BY DEF Worker, Decided
<1>3. [w EXCEPT !.pc = "wait"] \in Worker
  BY DEF Worker
<1> QED BY <1>1, <1>2, <1>3

(* What a worker decides when it read the state, which is stale if it   *)
(* is older than the account.                                              *)
LEMMA StateIsRead ==
  ASSUME TypeOK, NEW n \in Node, ReadState(n)
  PROVE  \E len \in ReadableStates(worker[n]), kind \in Kinds, payload \in Payload,
            view \in {"fresh", "stale"} :
            /\ kind = "init" => ~IsInitialized(len)
            /\ kind = "update" => IsInitialized(len) /\ IsNewer(worker[n].ts, len)
            /\ view = "fresh" => ~(len < worker[n].seq - 1)
            /\ view = "stale" => len < worker[n].seq - 1
            /\ worker' = [worker EXCEPT ![n] =
                            EnterLoop(Decided(worker[n], kind, payload, view), 0)]
<1>1. PICK len \in ReadableStates(worker[n]), kind \in Kinds, payload \in Payload :
          LET view == IF len < worker[n].seq - 1 THEN "stale" ELSE "fresh" IN
          /\ kind = "init" => ~IsInitialized(len)
          /\ kind = "update" => IsInitialized(len) /\ IsNewer(worker[n].ts, len)
          /\ worker' = [worker EXCEPT ![n] =
                            EnterLoop(Decided(worker[n], kind, payload, view), 0)]
  BY DEF ReadState, UpdateIsDue, Kinds, Decided
<1> DEFINE view == IF len < worker[n].seq - 1 THEN "stale" ELSE "fresh"
<1>2. /\ view \in {"fresh", "stale"}
      /\ view = "fresh" => ~(len < worker[n].seq - 1)
      /\ view = "stale" => len < worker[n].seq - 1
  OBVIOUS
<1> HIDE DEF view
<1>3. worker' = [worker EXCEPT ![n] =
                     EnterLoop(Decided(worker[n], kind, payload, view), 0)]
  BY <1>1 DEF view
<1> QED BY <1>1, <1>2, <1>3

LEMMA DecidedShape ==
  ASSUME NEW w \in Worker, NEW kind \in Kinds, NEW payload \in Payload,
         NEW view \in {"fresh", "stale"}
  PROVE  LET v == Decided(w, kind, payload, view) IN
         /\ v \in Worker /\ v.kind = kind /\ v.payload = payload
         /\ v.view = view /\ v.ts = w.ts /\ v.seq = w.seq
         /\ v.outcome = w.outcome /\ v.approved = w.approved
<1> DEFINE u == [w EXCEPT !.payload = payload, !.view = view]
<1>1. /\ u \in Worker /\ u.payload = payload /\ u.view = view
      /\ u.ts = w.ts /\ u.seq = w.seq
      /\ u.outcome = w.outcome /\ u.approved = w.approved
  BY DEF Worker
<1>2. Decided(w, kind, payload, view) = [u EXCEPT !.kind = kind]
  BY DEF Decided
<1> HIDE DEF u
<1> QED BY <1>1, <1>2 DEF Worker

LEMMA BroadcastType ==
  ASSUME NEW n \in Node, NEW tx \in Tx
  PROVE  /\ Broadcast(n, tx) \subseteq [from : Node, to : Node, tx : Tx]
         /\ \A msg \in Broadcast(n, tx) : msg.tx = tx /\ msg.from = n
<1> SUFFICES ASSUME NEW msg \in Broadcast(n, tx)
             PROVE  /\ msg \in [from : Node, to : Node, tx : Tx]
                    /\ msg.tx = tx /\ msg.from = n
  OBVIOUS
<1>1. PICK m \in Node : msg = [from |-> n, to |-> m, tx |-> tx]
  BY DEF Broadcast
<1> QED BY <1>1

(* What __trySubmitTransaction changes keeps its type. *)
LEMMA TrySubmitType ==
  ASSUME TypeOK, NEW n \in Node, NEW p \in PendingTx, NEW w \in Worker,
         TrySubmit(n, p, w)
  PROVE  /\ pending' \in [Node -> PendingTx \cup {None}]
         /\ inflight' \in [Node -> SUBSET SignedTx]
         /\ submitted' \in [Node -> Seq(Tx)]
         /\ worker' \in [Node -> Worker]
<1>1. CASE IsReadyToSubmit(p)
  <2>1. Approved(w) \in Worker
    BY DEF Approved, Worker
  <2>3. Append(submitted[n], p.tx) \in Seq(Tx)
    BY DEF PendingTx, TypeOK
  <2>2. [tx |-> p.tx, sigs |-> p.sigs] \in SignedTx
    BY DEF PendingTx, SignedTx
  <2>4. pending' \in [Node -> PendingTx \cup {None}] /\ worker' \in [Node -> Worker]
    BY <1>1, <2>1 DEF TrySubmit, TypeOK
  <2>5. inflight' \in [Node -> SUBSET SignedTx]
    <3>1. inflight' = [inflight EXCEPT ![n] = @ \cup {[tx |-> p.tx, sigs |-> p.sigs]}]
      BY <1>1 DEF TrySubmit
    <3>2. inflight \in [Node -> SUBSET SignedTx]
      BY DEF TypeOK
    <3> QED BY <2>2, <3>1, <3>2
  <2>6. submitted' \in [Node -> Seq(Tx)]
    BY <1>1, <2>3 DEF TrySubmit, TypeOK
  <2> QED BY <2>4, <2>5, <2>6
<1>2. CASE ~IsReadyToSubmit(p)
  BY <1>2 DEF TrySubmit, TypeOK
<1> QED BY <1>1, <1>2

(* Every step keeps the types; the transactions a worker builds are typed   *)
(* because WorkersAreJustified bounds its round and sequence number.       *)
LEMMA TypeStep ==
  ASSUME TypeOK, WorkersAreJustified, [Next]_vars
  PROVE  TypeOK'
<1> USE DEF TypeOK
<1>1. ASSUME NEW n \in Node, StartWorker(n) PROVE TypeOK'
  <2>1. worker[n].ts + 1 \in 0..MaxRound
    <3>1. worker[n].ts \in 0..MaxRound
      BY DEF Worker
    <3>2. worker[n].ts < MaxRound
      BY <1>1 DEF StartWorker
    <3> QED BY ONLY <3>1, <3>2, BoundAssumption
  <2> DEFINE u == [FreshWorker(worker[n].ts + 1) EXCEPT !.pc = "account",
                                                         !.approved = "open"]
  <2>2. u \in Worker
    <3>1. FreshWorker(worker[n].ts + 1) \in Worker
      BY <2>1, FreshWorkerShape
    <3> QED BY ONLY <3>1 DEF Worker
  <2>3. worker' = [worker EXCEPT ![n] = u]
    BY <1>1 DEF StartWorker
  <2> HIDE DEF u
  <2>4. worker' \in [Node -> Worker]
    BY <2>2, <2>3
  <2> QED BY <1>1, <2>4 DEF StartWorker
<1>2. ASSUME NEW n \in Node, GetAccount(n) PROVE TypeOK'
  <2>1. PICK len \in 0..Len(log) :
            worker' = [worker EXCEPT ![n] = [@ EXCEPT !.pc = "state", !.seq = len + 1]]
    BY <1>2 DEF GetAccount
  <2>2. [worker[n] EXCEPT !.pc = "state", !.seq = len + 1] \in Worker
    <3>1. len \in Nat
      OBVIOUS
    <3> QED BY <3>1, WorkerAt, WorkerReads
  <2> QED BY <1>2, <2>1, <2>2 DEF GetAccount
<1>3. ASSUME NEW n \in Node, RequestFails(n) PROVE TypeOK'
  BY <1>3, FinishShape DEF RequestFails
<1>4. ASSUME NEW n \in Node, ReadState(n) PROVE TypeOK'
  <2>1. PICK kind \in Kinds, payload \in Payload, view \in {"fresh", "stale"} :
            worker' = [worker EXCEPT ![n] =
                EnterLoop(Decided(worker[n], kind, payload, view), 0)]
    BY <1>4, StateIsRead
  <2>2. Decided(worker[n], kind, payload, view) \in Worker
    BY WorkerAt, WorkerReads
  <2>3. EnterLoop(Decided(worker[n], kind, payload, view), 0) \in Worker
    BY <2>2, EnterLoopShape
  <2> QED BY <1>4, <2>1, <2>3 DEF ReadState
<1>5. ASSUME NEW n \in Node, NothingToDo(n) PROVE TypeOK'
  BY <1>5, FinishShape DEF NothingToDo
<1>6. ASSUME NEW n \in Node, BuildFails(n) PROVE TypeOK'
  <2>1. worker[n].attempt + 1 \in Int
    BY AttemptsAssumption DEF Worker, Attempts
  <2> QED BY <1>6, <2>1, EnterLoopShape DEF BuildFails
<1>7. ASSUME NEW n \in Node, BuildTx(n) PROVE TypeOK'
  <2> DEFINE tx == CurrentTx(worker[n])
  <2> DEFINE p == [tx |-> tx, sigs |-> {n} \cup EarlySigners(n, tx), timedOut |-> FALSE]
  <2> DEFINE w == [worker[n] EXCEPT !.pc = "wait"]
  <2>1. tx \in Tx
    <3>1. /\ worker[n].pc = "build" /\ WorkerJustified(worker[n])
      BY <1>7 DEF BuildTx, WorkersAreJustified
    <3>2. /\ worker[n].ts \in Rounds /\ worker[n].payload \in Payload
          /\ worker[n].seq \in Nat \ {0}
      BY <3>1 DEF WorkerJustified, Justified
    <3> QED BY <3>2, WorkerAt, CurrentTxType
  <2>2. p \in PendingTx
    BY <2>1 DEF PendingTx, EarlySigners
  <2>3. w \in Worker
    BY WorkerAt, WorkerReads
  <2>4. TrySubmit(n, p, w)
    BY <1>7 DEF BuildTx
  <2>5. Broadcast(n, tx) \subseteq [from : Node, to : Node, tx : Tx]
    BY <2>1, BroadcastType
  <2> HIDE DEF tx, p, w
  <2>6. /\ early' = [early EXCEPT ![n] = {e \in @ : e[1] # tx}]
        /\ net' = net \cup Broadcast(n, tx)
        /\ signed' = [signed EXCEPT ![n] = @ \cup {tx}]
        /\ upToDate' \subseteq upToDate \cup {tx}
        /\ UNCHANGED <<clock, log, mempool, link, crashes, drops>>
    BY <1>7 DEF BuildTx, tx
  <2> QED BY <2>1, <2>2, <2>3, <2>4, <2>5, <2>6, TrySubmitType
<1>8. ASSUME NEW n \in Node, TimerFires(n) PROVE TypeOK'
  <2>1. pending[n] \in PendingTx
    BY <1>8 DEF TimerFires
  <2>2. [pending[n] EXCEPT !.timedOut = TRUE] \in PendingTx
    BY <2>1 DEF PendingTx
  <2> QED BY <1>8, <2>2, RejectedShape DEF TimerFires
<1>9. ASSUME NEW n \in Node, NEW msg \in net, AddSignature(n, msg) PROVE TypeOK'
  <2> DEFINE p == [pending[n] EXCEPT !.sigs = @ \cup {msg.from}]
  <2>1. p \in PendingTx
    <3>1. pending[n] \in PendingTx /\ msg.from \in Node
      BY <1>9 DEF AddSignature, IsPending
    <3> QED BY <3>1 DEF PendingTx
  <2>2. TrySubmit(n, p, worker[n])
    BY <1>9 DEF AddSignature
  <2> HIDE DEF p
  <2> QED BY <1>9, <2>1, <2>2, TrySubmitType DEF AddSignature
<1>10. ASSUME NEW n \in Node, NEW msg \in net, KeepSignature(n, msg) PROVE TypeOK'
  BY <1>10 DEF KeepSignature
<1>11. ASSUME NEW n \in Node, ClearPendingSignatures(n) PROVE TypeOK'
  BY <1>11 DEF ClearPendingSignatures
<1>12. ASSUME NEW n \in Node, NEW s \in inflight[n], SendTransaction(n, s)
       PROVE TypeOK'
  BY <1>12 DEF SendTransaction
<1>13. ASSUME NEW n \in Node, NEW s \in inflight[n], SubmissionSucceeds(n, s)
       PROVE TypeOK'
  BY <1>13, ResolvedShape DEF SubmissionSucceeds
<1>14. ASSUME NEW n \in Node, NEW s \in inflight[n], SubmissionFails(n, s)
       PROVE TypeOK'
  BY <1>14, RejectedShape DEF SubmissionFails
<1>15. ASSUME NEW s \in mempool, CloseLedger(s) PROVE TypeOK'
  <2>1. PICK ok \in BOOLEAN : log' = Append(log,
            [kind |-> "own", tx |-> s.tx, sigs |-> s.sigs, ok |-> ok])
    BY <1>15 DEF CloseLedger
  <2>2. [kind |-> "own", tx |-> s.tx, sigs |-> s.sigs, ok |-> ok] \in Entry
    BY DEF Entry, SignedTx
  <2> QED BY <1>15, <2>1, <2>2 DEF CloseLedger
<1>16. ASSUME ForeignTransaction PROVE TypeOK'
  BY <1>16 DEF ForeignTransaction, Entry
<1>17. ASSUME Tick PROVE TypeOK'
  BY <1>17 DEF Tick
<1>18. ASSUME NEW n \in Node, Crash(n) PROVE TypeOK'
  <2>1. PICK ts \in FirstRounds : worker' = [worker EXCEPT ![n] = FreshWorker(ts - 1)]
    BY <1>18 DEF Crash
  <2>2. ts - 1 \in 0..MaxRound
    BY BoundAssumption DEF FirstRounds, Rounds
  <2> QED BY <1>18, <2>1, <2>2, FreshWorkerShape DEF Crash
<1>19. ASSUME NEW c \in Channels, LinkStep(c[1], c[2]) PROVE TypeOK'
  <2>1. c[1] \in Node /\ c[2] \in Node /\ c = <<c[1], c[2]>>
    BY DEF Channels
  <2>2. pending[c[1]] # None => pending[c[1]].tx \in Tx
    BY <2>1 DEF PendingTx
  <2>3. link' \in [Channels -> {"down", "open", "synced"}]
    BY <1>19, <2>1 DEF LinkStep, Disconnect, Connect, PeerReady
  <2>4. net' \subseteq [from : Node, to : Node, tx : Tx]
    BY <1>19, <2>1, <2>2 DEF LinkStep, Disconnect, Connect, PeerReady
  <2>5. /\ crashes' = crashes
        /\ drops' \in Nat
        /\ UNCHANGED <<clock, log, mempool, worker, pending, early, inflight,
                       submitted, signed, upToDate>>
    BY <1>19 DEF LinkStep, Disconnect, Connect, PeerReady
  <2> QED BY <2>3, <2>4, <2>5
<1>20. CASE UNCHANGED vars
  BY <1>20 DEF vars
<1> QED
  BY <1>1, <1>2, <1>3, <1>4, <1>5, <1>6, <1>7, <1>8, <1>9, <1>10, <1>11, <1>12,
     <1>13, <1>14, <1>15, <1>16, <1>17, <1>18, <1>19, <1>20
  DEF Next, WorkerStep, SubmissionStep, SignatureStep, LedgerStep

-----------------------------------------------------------------------------
(* The inductive invariant *)

(* A majority has a member, so what a majority signed was built by a node. *)
LEMMA MajorityMember ==
  ASSUME NEW s, s.sigs \subseteq Node, MajorityBuilt(s)
  PROVE  \E m \in Node : s.tx \in signed[m]
<1>1. Cardinality({}) = 0 /\ Cardinality(Node) \in Nat
  BY NodeAssumption, FS_EmptySet, FS_CardinalityType
<1>2. s.sigs # {}
  BY <1>1 DEF MajorityBuilt, HasMajority
<1> QED BY <1>2 DEF MajorityBuilt, BuiltBy

(* The ledger only grows, so what was justified by a prefix of it stays so. *)
LEMMA JustifiedStays ==
  ASSUME TypeOK, NEW kind, NEW ts, NEW seq, NEW fresh \in BOOLEAN,
         Justified(kind, ts, seq, fresh),
         log' = log \/ \E e : log' = Append(log, e)
  PROVE  Justified(kind, ts, seq, fresh)'
<1>1. CASE log' = log
  BY <1>1 DEF Justified, IsInitialized, IsNewer, IsOwn
<1>2. ASSUME NEW e, log' = Append(log, e) PROVE Justified(kind, ts, seq, fresh)'
  <2>1. log \in Seq(Entry)
    BY DEF TypeOK
  <2>2. Len(log) \in Nat /\ Len(log') = Len(log) + 1
    BY <1>2, <2>1
  <2>3. \A i \in 1..Len(log) : log'[i] = log[i]
    BY <1>2, <2>1
  <2>4. seq \in 1..Len(log) + 1 /\ seq \in 1..Len(log') + 1
    BY <2>2 DEF Justified
  <2>5. \A i \in 1..seq - 1 : i \in 1..Len(log)
    BY <2>2, <2>4
  <2>6. IsInitialized(seq - 1)' <=> IsInitialized(seq - 1)
    BY <2>3, <2>5 DEF IsInitialized, IsOwn
  <2>7. IsNewer(ts, seq - 1)' <=> IsNewer(ts, seq - 1)
    BY <2>3, <2>5 DEF IsNewer, IsOwn
  <2>8. seq <= Len(log) => seq <= Len(log')
    BY <2>2, <2>4
  <2> QED BY <2>4, <2>6, <2>7, <2>8 DEF Justified
<1> QED BY <1>1, <1>2

(* Steps that neither build a transaction nor change the ledger *)
LEMMA LedgerFrame ==
  ASSUME UNCHANGED <<log, signed, upToDate>>, BuiltAreJustified, LedgerIsSigned
  PROVE  BuiltAreJustified' /\ LedgerIsSigned'
BY DEF BuiltAreJustified, LedgerIsSigned, MajorityBuilt, BuiltBy, HasMajority,
       TxJustified, Justified, IsInitialized, IsNewer, IsOwn

(* Steps of one worker that leave the ledger alone *)
LEMMA WorkersFrame ==
  ASSUME TypeOK, WorkersAreJustified, UNCHANGED log, NEW n \in Node, NEW w,
         worker' = [worker EXCEPT ![n] = w], WorkerJustified(w)
  PROVE  WorkersAreJustified'
<1>1. \A v : WorkerJustified(v) => WorkerJustified(v)'
  BY DEF WorkerJustified, Justified, IsInitialized, IsNewer, IsOwn
<1>2. \A m \in Node : worker'[m] = IF m = n THEN w ELSE worker[m]
  BY DEF TypeOK
<1> QED BY <1>1, <1>2 DEF WorkersAreJustified

(* The transaction moves on only with what justified it. *)
LEMMA WorkerMovesOn ==
  ASSUME NEW w \in Worker, WorkerJustified(w), NEW tx, NEW attempt \in Int
  PROVE  /\ WorkerJustified(Rejected(w, tx))
         /\ WorkerJustified(Resolved(w, tx))
         /\ w.pc \in {"build", "wait"} => WorkerJustified(EnterLoop(w, attempt))
         /\ WorkerJustified(Approved(w))
<1>1. WorkerJustified(Rejected(w, tx))
  BY RejectedShape DEF WorkerJustified
<1>2. WorkerJustified(Resolved(w, tx))
  BY ResolvedShape DEF WorkerJustified
<1>3. w.pc \in {"build", "wait"} => WorkerJustified(EnterLoop(w, attempt))
  BY EnterLoopShape DEF WorkerJustified
<1>4. /\ Approved(w).pc = w.pc /\ Approved(w).ts = w.ts
      /\ Approved(w).seq = w.seq /\ Approved(w).kind = w.kind
      /\ Approved(w).payload = w.payload /\ Approved(w).view = w.view
  BY DEF Approved, Worker
<1>5. WorkerJustified(Approved(w))
  BY <1>4 DEF WorkerJustified
<1> QED BY <1>1, <1>2, <1>3, <1>5

LEMMA WorkersStay ==
  ASSUME WorkersAreJustified, UNCHANGED <<log, worker>>
  PROVE  WorkersAreJustified'
BY DEF WorkersAreJustified, WorkerJustified, Justified, IsInitialized, IsNewer, IsOwn

(* A new ledger entry at its own number, signed by a majority that built    *)
(* it, leaves everything else as justified as it was.                      *)
LEMMA LedgerStepKeepsInv ==
  ASSUME TypeOK, Inv, NEW e, log' = Append(log, e), mempool' \subseteq mempool,
         UNCHANGED <<worker, pending, early, inflight, net, signed, upToDate>>,
         e.kind = "own" => /\ e.tx.seq = Len(log) + 1
                           /\ MajorityBuilt(e)
                           /\ e.tx.kind = "update" => IsInitialized(Len(log))
  PROVE  Inv'
<1> USE DEF Inv
<1>1. Len(log) \in Nat /\ Len(log') = Len(log) + 1
  BY DEF TypeOK
<1>2. \A i \in 1..Len(log') : log'[i] = IF i = Len(log) + 1 THEN e ELSE log[i]
  BY DEF TypeOK
<1>3. BuiltAreJustified'
  BY JustifiedStays DEF BuiltAreJustified, TxJustified
<1>4. WorkersAreJustified'
  <2> SUFFICES ASSUME NEW n \in Node PROVE WorkerJustified(worker[n])'
    BY DEF WorkersAreJustified
  <2>1. WorkerJustified(worker[n])
    BY DEF WorkersAreJustified
  <2>2. worker[n].pc = "state" => worker[n].seq \in 1..Len(log') + 1
    BY <1>1, <2>1 DEF WorkerJustified
  <2>3. worker[n].pc \in {"build", "wait"} =>
            Justified(worker[n].kind, worker[n].ts, worker[n].seq, worker[n].view = "fresh")'
    BY <2>1, JustifiedStays DEF WorkerJustified
  <2> QED BY <2>1, <2>2, <2>3 DEF WorkerJustified
<1>5. SignersBuilt'
  BY DEF SignersBuilt, MajorityBuilt, BuiltBy, HasMajority
<1>6. LedgerIsSigned'
  <2>1. \A len \in 0..Len(log) : IsInitialized(len) => IsInitialized(len)'
    BY <1>1, <1>2 DEF IsInitialized, IsOwn
  <2> SUFFICES ASSUME NEW i \in 1..Len(log'), IsOwn(i)'
               PROVE  /\ log'[i].tx.seq = i
                      /\ MajorityBuilt(log'[i])
                      /\ log'[i].tx.kind = "update" => IsInitialized(i - 1)'
    BY DEF LedgerIsSigned, MajorityBuilt, BuiltBy, HasMajority
  <2>2. CASE i = Len(log) + 1
    BY <1>1, <1>2, <2>1, <2>2 DEF IsOwn
  <2>3. CASE i \in 1..Len(log)
    <3>1. log'[i] = log[i] /\ i - 1 \in 0..Len(log)
      BY <1>1, <1>2, <2>3
    <3> QED BY <2>1, <2>3, <3>1 DEF LedgerIsSigned, IsOwn
  <2> QED BY <1>1, <2>2, <2>3
<1> QED BY <1>3, <1>4, <1>5, <1>6

(* Steps that hand no signature on, and build nothing *)
LEMMA SignersFrame ==
  ASSUME SignersBuilt, UNCHANGED <<signed, pending, early, inflight, net, mempool>>
  PROVE  SignersBuilt'
BY DEF SignersBuilt, MajorityBuilt, BuiltBy, HasMajority

(* __trySubmitTransaction hands signatures on to the pending transaction or *)
(* to a submission; if they are of nodes that built it, they stay so.      *)
LEMMA TrySubmitSigners ==
  ASSUME TypeOK, SignersBuilt,
         NEW n \in Node, NEW p \in PendingTx, NEW w \in Worker,
         TrySubmit(n, p, w),
         \A m \in Node : signed[m] \subseteq signed'[m],
         n \in p.sigs,
         \A m \in p.sigs : p.tx \in signed'[m]
  PROVE  /\ \A m \in Node : pending'[m] # None =>
                m \in pending'[m].sigs /\ \A k \in pending'[m].sigs : pending'[m].tx \in signed'[k]
         /\ \A m \in Node : \A s \in inflight'[m] :
                HasMajority(s.sigs) /\ \A k \in s.sigs : s.tx \in signed'[k]
<1>1. \A m \in Node : pending[m] # None =>
          m \in pending[m].sigs /\ \A k \in pending[m].sigs : pending[m].tx \in signed'[k]
  BY DEF TypeOK, SignersBuilt, BuiltBy, PendingTx
<1>2. \A m \in Node : \A s \in inflight[m] :
          HasMajority(s.sigs) /\ \A k \in s.sigs : s.tx \in signed'[k]
  <2>1. ASSUME NEW m \in Node, NEW s \in inflight[m] PROVE s.sigs \subseteq Node
    BY DEF TypeOK, SignedTx
  <2> QED BY <2>1 DEF SignersBuilt, MajorityBuilt, BuiltBy
<1>3. CASE IsReadyToSubmit(p)
  <2> DEFINE s == [tx |-> p.tx, sigs |-> p.sigs]
  <2>1. s.tx = p.tx /\ s.sigs = p.sigs /\ HasMajority(s.sigs)
    BY <1>3 DEF IsReadyToSubmit
  <2>2. /\ pending' = [pending EXCEPT ![n] = None]
        /\ inflight' = [inflight EXCEPT ![n] = @ \cup {s}]
    BY <1>3 DEF TrySubmit
  <2> HIDE DEF s
  <2>3. \A m \in Node : /\ pending'[m] = (IF m = n THEN None ELSE pending[m])
                        /\ inflight'[m] \subseteq inflight[m] \cup {s}
    BY <2>2 DEF TypeOK
  <2> QED BY <1>1, <1>2, <2>1, <2>3
<1>4. CASE ~IsReadyToSubmit(p)
  <2>1. /\ pending' = [pending EXCEPT ![n] = p]
        /\ inflight' = inflight
    BY <1>4 DEF TrySubmit
  <2>2. \A m \in Node : pending'[m] = IF m = n THEN p ELSE pending[m]
    BY <2>1 DEF TypeOK
  <2> QED BY <1>1, <1>2, <2>1, <2>2
<1> QED BY <1>3, <1>4

(* Every step preserves the invariant. *)
LEMMA InvStep ==
  ASSUME TypeOK, TypeOK', Inv, [Next]_vars
  PROVE  Inv'
<1> USE DEF Inv
<1>0. \A n \in Node : worker[n] \in Worker /\ WorkerJustified(worker[n])
  BY WorkerAt DEF WorkersAreJustified
<1>1. ASSUME NEW n \in Node, StartWorker(n) PROVE Inv'
  <2> DEFINE w == [FreshWorker(worker[n].ts + 1) EXCEPT !.pc = "account",
                                                       !.approved = "open"]
  <2>1. worker[n].ts + 1 \in Rounds
    BY <1>0, <1>1, BoundAssumption DEF StartWorker, Worker, Rounds
  <2>2. w.pc = "account" /\ w.ts = worker[n].ts + 1
    BY DEF FreshWorker
  <2>3. WorkerJustified(w)
    BY <2>1, <2>2 DEF WorkerJustified
  <2>4. worker' = [worker EXCEPT ![n] = w]
    BY <1>1 DEF StartWorker
  <2> HIDE DEF w
  <2> QED BY <1>1, <2>3, <2>4, LedgerFrame, WorkersFrame, SignersFrame DEF StartWorker
<1>2. ASSUME NEW n \in Node, GetAccount(n) PROVE Inv'
  <2>1. PICK len \in 0..Len(log) :
            worker' = [worker EXCEPT ![n] = [@ EXCEPT !.pc = "state", !.seq = len + 1]]
    BY <1>2 DEF GetAccount
  <2> DEFINE w == [worker[n] EXCEPT !.pc = "state", !.seq = len + 1]
  <2>2. w.pc = "state" /\ w.seq = len + 1 /\ w.ts = worker[n].ts
    BY <1>0 DEF Worker
  <2>3. len + 1 \in 1..Len(log) + 1
    BY DEF TypeOK
  <2>4. WorkerJustified(w)
    BY <1>0, <1>2, <2>2, <2>3 DEF WorkerJustified, GetAccount
  <2>5. worker' = [worker EXCEPT ![n] = w]
    BY <2>1
  <2> HIDE DEF w
  <2> QED BY <1>2, <2>4, <2>5, LedgerFrame, WorkersFrame, SignersFrame DEF GetAccount
<1>3. ASSUME NEW n \in Node, RequestFails(n) PROVE Inv'
  <2>1. WorkerJustified(Finish(worker[n], "failed"))
    BY <1>0, FinishShape DEF WorkerJustified
  <2> QED BY <1>3, <2>1, LedgerFrame, WorkersFrame, SignersFrame DEF RequestFails
<1>4. ASSUME NEW n \in Node, ReadState(n) PROVE Inv'
  <2>1. PICK len \in ReadableStates(worker[n]), kind \in Kinds, payload \in Payload,
             view \in {"fresh", "stale"} :
            /\ kind = "init" => ~IsInitialized(len)
            /\ kind = "update" => IsInitialized(len) /\ IsNewer(worker[n].ts, len)
            /\ view = "fresh" => ~(len < worker[n].seq - 1)
            /\ worker' = [worker EXCEPT ![n] =
                            EnterLoop(Decided(worker[n], kind, payload, view), 0)]
    BY <1>4, StateIsRead
  <2> DEFINE v == Decided(worker[n], kind, payload, view)
  <2>2. /\ v \in Worker /\ v.kind = kind /\ v.payload = payload
        /\ v.ts = worker[n].ts /\ v.seq = worker[n].seq /\ v.view = view
    BY <1>0, DecidedShape
  <2>3. /\ worker[n].pc = "state" /\ worker[n].ts \in Rounds
        /\ worker[n].seq \in 1..Len(log) + 1
    BY <1>0, <1>4 DEF ReadState, WorkerJustified
  <2>4. /\ Len(log) \in Nat /\ len \in Int
        /\ len <= Len(log)
    BY <2>3 DEF TypeOK, ReadableStates
  <2>5. view = "fresh" => \A i \in 1..worker[n].seq - 1 : i \in 1..len
    BY <2>1, <2>3, <2>4
  <2>10. len <= worker[n].seq - 1 => \A i \in 1..len : i \in 1..worker[n].seq - 1
    BY <2>3, <2>4
  <2>6. Justified(kind, worker[n].ts, worker[n].seq, view = "fresh")
    <3>1. kind = "init" /\ view = "fresh" => ~IsInitialized(worker[n].seq - 1)
      BY <2>1, <2>5 DEF IsInitialized
    <3>2. kind = "update" /\ view = "fresh" => IsNewer(worker[n].ts, worker[n].seq - 1)
      BY <2>1, <2>5 DEF IsNewer
    <3>3. kind = "update" => IsInitialized(worker[n].seq - 1) \/ worker[n].seq <= Len(log)
      <4>1. CASE len <= worker[n].seq - 1
        BY <2>1, <2>10, <4>1 DEF IsInitialized
      <4>2. CASE ~(len <= worker[n].seq - 1)
        BY <2>3, <2>4, <4>2
      <4> QED BY <4>1, <4>2
    <3> QED BY <2>3, <3>1, <3>2, <3>3 DEF Justified
  <2> HIDE DEF v
  <2> DEFINE r == EnterLoop(v, 0)
  <2>9. /\ r.pc \in {"idle", "build"} /\ r.ts = worker[n].ts /\ r.kind = kind
        /\ r.seq = worker[n].seq /\ r.payload = payload
        /\ r.pc = "build" => r.view = view
    BY <2>2, EnterLoopShape
  <2> HIDE DEF r
  <2>7. WorkerJustified(r)
    BY <2>3, <2>6, <2>9 DEF WorkerJustified
  <2>8. worker' = [worker EXCEPT ![n] = r]
    BY <2>1 DEF v, r
  <2> QED BY <1>4, <2>7, <2>8, LedgerFrame, WorkersFrame, SignersFrame DEF ReadState
<1>5. ASSUME NEW n \in Node, NothingToDo(n) PROVE Inv'
  <2>1. WorkerJustified(Finish(worker[n], "skipped"))
    BY <1>0, FinishShape DEF WorkerJustified
  <2> QED BY <1>5, <2>1, LedgerFrame, WorkersFrame, SignersFrame DEF NothingToDo
<1>6. ASSUME NEW n \in Node, BuildFails(n) PROVE Inv'
  <2>1. worker[n].attempt + 1 \in Int
    BY <1>0, AttemptsAssumption DEF Worker, Attempts
  <2>2. WorkerJustified(EnterLoop(worker[n], worker[n].attempt + 1))
    BY <1>0, <1>6, <2>1, WorkerMovesOn DEF BuildFails
  <2> QED BY <1>6, <2>2, LedgerFrame, WorkersFrame, SignersFrame DEF BuildFails
<1>7. ASSUME NEW n \in Node, BuildTx(n) PROVE Inv'
  <2> DEFINE tx == CurrentTx(worker[n])
  <2> DEFINE p == [tx |-> tx, sigs |-> {n} \cup EarlySigners(n, tx), timedOut |-> FALSE]
  <2> DEFINE w == [worker[n] EXCEPT !.pc = "wait"]
  <2>1. /\ worker[n].pc = "build" /\ worker[n].payload \in Payload
        /\ worker[n].ts \in Rounds
        /\ Justified(worker[n].kind, worker[n].ts, worker[n].seq, worker[n].view = "fresh")
    BY <1>0, <1>7 DEF BuildTx, WorkerJustified
  <2>2. tx \in Tx
    BY <1>0, <2>1, CurrentTxType DEF Justified
  <2>3. p \in PendingTx
    BY <2>2 DEF PendingTx, EarlySigners
  <2>4. w \in Worker /\ WorkerJustified(w)
    <3>1. w \in Worker
      BY <1>0, WorkerReads
    <3>2. /\ w.pc = "wait" /\ w.payload = worker[n].payload /\ w.ts = worker[n].ts
          /\ w.kind = worker[n].kind /\ w.seq = worker[n].seq
          /\ w.view = worker[n].view
      BY <1>0 DEF Worker
    <3> QED BY <2>1, <3>1, <3>2 DEF WorkerJustified
  <2>5. TxJustified(tx, worker[n].view = "fresh") /\ TxJustified(tx, FALSE)
    BY <2>1 DEF CurrentTx, TxJustified, Justified
  <2>6. TrySubmit(n, p, w)
    BY <1>7 DEF BuildTx
  <2>7. \A k \in p.sigs : k = n \/ tx \in signed[k]
    BY DEF EarlySigners, SignersBuilt
  <2>8. p.tx = tx /\ n \in p.sigs
    OBVIOUS
  <2>9. \A msg \in Broadcast(n, tx) : msg.tx = tx /\ msg.from = n
    BY <2>2, BroadcastType
  <2> HIDE DEF tx, p, w
  <2>10. /\ early' = [early EXCEPT ![n] = {e \in @ : e[1] # tx}]
         /\ net' = net \cup Broadcast(n, tx)
         /\ signed' = [signed EXCEPT ![n] = @ \cup {tx}]
         /\ upToDate' = IF worker[n].view = "fresh" THEN upToDate \cup {tx} ELSE upToDate
         /\ UNCHANGED <<log, mempool>>
    BY <1>7 DEF BuildTx, tx
  <2>11. \A m \in Node : signed'[m] = IF m = n THEN signed[n] \cup {tx} ELSE signed[m]
    BY <2>10 DEF TypeOK
  <2>12. BuiltAreJustified'
    <3>1. \A t : \A fresh \in BOOLEAN : TxJustified(t, fresh) => TxJustified(t, fresh)'
      BY <2>10, JustifiedStays DEF TxJustified
    <3>2. \A t \in upToDate' : TxJustified(t, TRUE)
      BY <1>0, <2>5, <2>10 DEF BuiltAreJustified, Worker
    <3>3. \A m \in Node : \A t \in signed'[m] : TxJustified(t, FALSE)
      BY <2>5, <2>11 DEF BuiltAreJustified
    <3> QED BY <3>1, <3>2, <3>3 DEF BuiltAreJustified
  <2>13. WorkersAreJustified'
    <3>1. WorkerJustified(Approved(w))
      BY <2>4, WorkerMovesOn
    <3>2. PICK v : worker' = [worker EXCEPT ![n] = v] /\ WorkerJustified(v)
      BY <2>4, <2>6, <3>1 DEF TrySubmit
    <3> QED BY <2>10, <3>2, WorkersFrame
  <2>14. SignersBuilt'
    <3>1. \A k \in p.sigs : p.tx \in signed'[k]
      BY <2>3, <2>7, <2>8, <2>11 DEF PendingTx
    <3>2. \A m \in Node : signed[m] \subseteq signed'[m]
      BY <2>11
    <3>3. /\ \A m \in Node : pending'[m] # None =>
                m \in pending'[m].sigs /\ \A k \in pending'[m].sigs : pending'[m].tx \in signed'[k]
          /\ \A m \in Node : \A s \in inflight'[m] :
                HasMajority(s.sigs) /\ \A k \in s.sigs : s.tx \in signed'[k]
      BY <2>3, <2>4, <2>6, <2>8, <3>1, <3>2, TrySubmitSigners
    <3>4. \A m \in Node : \A e \in early'[m] : e[1] \in signed'[e[2]]
      <4>1. \A m \in Node : early'[m] \subseteq early[m]
        BY <2>10 DEF TypeOK
      <4> QED BY <3>2, <4>1 DEF TypeOK, SignersBuilt
    <3>5. \A msg \in net' : msg.tx \in signed'[msg.from]
      BY <2>9, <2>10, <2>11, <3>2 DEF TypeOK, SignersBuilt
    <3>6. \A s \in mempool' : HasMajority(s.sigs) /\ \A k \in s.sigs : s.tx \in signed'[k]
      BY <2>10, <3>2 DEF TypeOK, SignersBuilt, MajorityBuilt, BuiltBy, SignedTx
    <3> QED BY <3>3, <3>4, <3>5, <3>6
            DEF SignersBuilt, MajorityBuilt, BuiltBy, HasMajority
  <2>15. LedgerIsSigned'
    <3>1. \A m \in Node : signed[m] \subseteq signed'[m]
      BY <2>11
    <3>2. \A i \in 1..Len(log) : IsOwn(i) => log[i].sigs \subseteq Node
      <4> SUFFICES ASSUME NEW i \in 1..Len(log), IsOwn(i)
                   PROVE  log[i].sigs \subseteq Node
        OBVIOUS
      <4>1. log[i] \in Entry
        BY DEF TypeOK
      <4> QED BY <4>1 DEF IsOwn, Entry, ForeignEntry
    <3> QED BY <2>10, <3>1, <3>2
            DEF LedgerIsSigned, MajorityBuilt, BuiltBy, HasMajority, IsOwn,
                IsInitialized
  <2> QED BY <2>12, <2>13, <2>14, <2>15
<1>8. ASSUME NEW n \in Node, TimerFires(n) PROVE Inv'
  <2> DEFINE p == [pending[n] EXCEPT !.timedOut = TRUE]
  <2>1. pending[n] \in PendingTx /\ pending[n] # None
    BY <1>8 DEF TimerFires, TypeOK
  <2>2. p.tx = pending[n].tx /\ p.sigs = pending[n].sigs
    BY <2>1 DEF PendingTx
  <2>3. /\ pending' = [pending EXCEPT ![n] = p]
        /\ worker' = [worker EXCEPT ![n] = Rejected(worker[n], pending[n].tx)]
        /\ UNCHANGED <<log, mempool, early, inflight, net, signed, upToDate>>
    BY <1>8 DEF TimerFires
  <2> HIDE DEF p
  <2>4. \A m \in Node : pending'[m] = IF m = n THEN p ELSE pending[m]
    BY <2>3 DEF TypeOK
  <2>5. SignersBuilt'
    BY <2>1, <2>2, <2>3, <2>4 DEF SignersBuilt, MajorityBuilt, BuiltBy, HasMajority
  <2>6. WorkerJustified(Rejected(worker[n], pending[n].tx))
    BY <1>0, WorkerMovesOn
  <2> QED BY <2>3, <2>5, <2>6, LedgerFrame, WorkersFrame
<1>9. ASSUME NEW n \in Node, NEW msg \in net, AddSignature(n, msg) PROVE Inv'
  <2> DEFINE p == [pending[n] EXCEPT !.sigs = @ \cup {msg.from}]
  <2>1. pending[n] \in PendingTx /\ pending[n] # None /\ pending[n].tx = msg.tx
    BY <1>9 DEF AddSignature, IsPending, TypeOK
  <2>2. p \in PendingTx /\ p.tx = msg.tx /\ p.sigs = pending[n].sigs \cup {msg.from}
    <3>1. msg.from \in Node
      BY DEF TypeOK
    <3> QED BY <2>1, <3>1 DEF PendingTx
  <2>3. /\ TrySubmit(n, p, worker[n])
        /\ net' \subseteq net
        /\ UNCHANGED <<log, mempool, early, signed, upToDate>>
    BY <1>9 DEF AddSignature
  <2> HIDE DEF p
  <2>4. n \in p.sigs /\ \A k \in p.sigs : p.tx \in signed'[k]
    BY <2>1, <2>2, <2>3 DEF SignersBuilt, BuiltBy
  <2>5. \A m \in Node : signed[m] \subseteq signed'[m]
    BY <2>3
  <2>6. /\ \A m \in Node : pending'[m] # None =>
              m \in pending'[m].sigs /\ \A k \in pending'[m].sigs : pending'[m].tx \in signed'[k]
        /\ \A m \in Node : \A s \in inflight'[m] :
              HasMajority(s.sigs) /\ \A k \in s.sigs : s.tx \in signed'[k]
    BY <1>0, <2>2, <2>3, <2>4, <2>5, TrySubmitSigners
  <2>7. SignersBuilt'
    BY <2>3, <2>6 DEF SignersBuilt, MajorityBuilt, BuiltBy, HasMajority
  <2>8. WorkersAreJustified'
    <3>1. WorkerJustified(Approved(worker[n]))
      BY <1>0, WorkerMovesOn
    <3>2. PICK v : worker' = [worker EXCEPT ![n] = v] /\ WorkerJustified(v)
      BY <1>0, <2>3, <3>1 DEF TrySubmit
    <3> QED BY <2>3, <3>2, WorkersFrame
  <2> QED BY <2>3, <2>7, <2>8, LedgerFrame
<1>10. ASSUME NEW n \in Node, NEW msg \in net, KeepSignature(n, msg) PROVE Inv'
  <2>1. /\ early' = [early EXCEPT ![n] = @ \cup {<<msg.tx, msg.from>>}]
        /\ net' \subseteq net
        /\ UNCHANGED <<log, worker, pending, inflight, mempool, signed, upToDate>>
    BY <1>10 DEF KeepSignature
  <2>2. \A m \in Node : early'[m] \subseteq early[m] \cup {<<msg.tx, msg.from>>}
    BY <2>1 DEF TypeOK
  <2>3. SignersBuilt'
    BY <2>1, <2>2 DEF SignersBuilt, MajorityBuilt, BuiltBy, HasMajority
  <2> QED BY <2>1, <2>3, LedgerFrame, WorkersStay
<1>11. ASSUME NEW n \in Node, ClearPendingSignatures(n) PROVE Inv'
  <2>1. PICK tx : early' = [early EXCEPT ![n] = {e \in @ : e[1] # tx}]
    BY <1>11 DEF ClearPendingSignatures
  <2>2. UNCHANGED <<log, worker, pending, inflight, net, mempool, signed, upToDate>>
    BY <1>11 DEF ClearPendingSignatures
  <2>3. \A m \in Node : early'[m] \subseteq early[m]
    BY <2>1 DEF TypeOK
  <2>4. SignersBuilt'
    BY <2>2, <2>3 DEF SignersBuilt, MajorityBuilt, BuiltBy, HasMajority
  <2> QED BY <2>2, <2>4, LedgerFrame, WorkersStay
<1>12. ASSUME NEW n \in Node, NEW s \in inflight[n], SendTransaction(n, s)
       PROVE Inv'
  <2>1. /\ mempool' = mempool \cup {s}
        /\ UNCHANGED <<log, worker, pending, early, inflight, net, signed, upToDate>>
    BY <1>12 DEF SendTransaction
  <2>2. SignersBuilt'
    BY <2>1 DEF SignersBuilt, MajorityBuilt, BuiltBy, HasMajority
  <2> QED BY <2>1, <2>2, LedgerFrame, WorkersStay
<1>13. ASSUME NEW n \in Node, NEW s \in inflight[n],
              SubmissionSucceeds(n, s) \/ SubmissionFails(n, s)
       PROVE Inv'
  <2>1. /\ inflight' = [inflight EXCEPT ![n] = @ \ {s}]
        /\ UNCHANGED <<log, pending, early, net, mempool, signed, upToDate>>
    BY <1>13 DEF SubmissionSucceeds, SubmissionFails
  <2>2. \A m \in Node : inflight'[m] \subseteq inflight[m]
    BY <2>1 DEF TypeOK
  <2>3. SignersBuilt'
    BY <2>1, <2>2 DEF SignersBuilt, MajorityBuilt, BuiltBy, HasMajority
  <2>4. PICK w : worker' = [worker EXCEPT ![n] = w] /\ WorkerJustified(w)
    BY <1>0, <1>13, WorkerMovesOn DEF SubmissionSucceeds, SubmissionFails
  <2> QED BY <2>1, <2>3, <2>4, LedgerFrame, WorkersFrame
<1>14. ASSUME NEW s \in mempool, CloseLedger(s) PROVE Inv'
  <2>1. PICK ok \in BOOLEAN : log' = Append(log,
            [kind |-> "own", tx |-> s.tx, sigs |-> s.sigs, ok |-> ok])
    BY <1>14 DEF CloseLedger
  <2> DEFINE e == [kind |-> "own", tx |-> s.tx, sigs |-> s.sigs, ok |-> ok]
  <2>2. e.tx = s.tx /\ e.sigs = s.sigs /\ s.tx.seq = Len(log) + 1
    BY <1>14 DEF CloseLedger
  <2>3. log' = Append(log, e)
    BY <2>1
  <2> HIDE DEF e
  <2>4. MajorityBuilt(e)
    BY <2>2 DEF SignersBuilt, MajorityBuilt
  <2>5. /\ mempool' \subseteq mempool
        /\ UNCHANGED <<worker, pending, early, inflight, net, signed, upToDate>>
    BY <1>14 DEF CloseLedger
  <2>6. e.tx.kind = "update" => IsInitialized(Len(log))
    <3>1. s.sigs \subseteq Node /\ MajorityBuilt(s)
      BY DEF TypeOK, SignedTx, SignersBuilt
    <3>2. PICK m \in Node : s.tx \in signed[m]
      BY <3>1, MajorityMember
    <3>3. Justified(s.tx.kind, s.tx.ts, s.tx.seq, FALSE)
      BY <3>2 DEF BuiltAreJustified, TxJustified
    <3>4. Len(log) \in Nat
      BY DEF TypeOK
    <3> QED BY <2>2, <3>3, <3>4 DEF Justified
  <2> QED BY <2>2, <2>3, <2>4, <2>5, <2>6, LedgerStepKeepsInv
<1>15. ASSUME ForeignTransaction PROVE Inv'
  <2>1. /\ mempool' \subseteq mempool
        /\ UNCHANGED <<worker, pending, early, inflight, net, signed, upToDate>>
        /\ log' = Append(log, ForeignEntry)
    BY <1>15 DEF ForeignTransaction
  <2>2. ForeignEntry.kind # "own"
    BY DEF ForeignEntry
  <2> QED BY <2>1, <2>2, LedgerStepKeepsInv
<1>16. ASSUME Tick PROVE Inv'
  BY <1>16, LedgerFrame, SignersFrame, WorkersStay DEF Tick
<1>17. ASSUME NEW n \in Node, Crash(n) PROVE Inv'
  <2>1. PICK ts \in FirstRounds : worker' = [worker EXCEPT ![n] = FreshWorker(ts - 1)]
    BY <1>17 DEF Crash
  <2>2. WorkerJustified(FreshWorker(ts - 1))
    BY DEF WorkerJustified, FreshWorker
  <2>3. /\ pending' = [pending EXCEPT ![n] = None]
        /\ early' = [early EXCEPT ![n] = {}]
        /\ inflight' = [inflight EXCEPT ![n] = {}]
        /\ net' \subseteq net
        /\ UNCHANGED <<log, mempool, signed, upToDate>>
    BY <1>17 DEF Crash
  <2>4. \A m \in Node : /\ pending'[m] = (IF m = n THEN None ELSE pending[m])
                        /\ early'[m] \subseteq early[m]
                        /\ inflight'[m] \subseteq inflight[m]
    BY <2>3 DEF TypeOK
  <2>5. SignersBuilt'
    BY <2>3, <2>4 DEF SignersBuilt, MajorityBuilt, BuiltBy, HasMajority
  <2> QED BY <2>1, <2>2, <2>3, <2>5, LedgerFrame, WorkersFrame
<1>18. ASSUME NEW c \in Channels, LinkStep(c[1], c[2]) PROVE Inv'
  <2>1. UNCHANGED <<log, mempool, worker, pending, early, inflight, signed, upToDate>>
    BY <1>18 DEF LinkStep, Disconnect, Connect, PeerReady
  <2>2. c[1] \in Node
    BY DEF Channels
  <2>3. \A msg \in net' :
            \/ msg \in net
            \/ /\ pending[c[1]] # None
               /\ msg = [from |-> c[1], to |-> c[2], tx |-> pending[c[1]].tx]
    BY <1>18 DEF LinkStep, Disconnect, Connect, PeerReady
  <2>4. pending[c[1]] # None => pending[c[1]].tx \in signed[c[1]]
    BY <2>2 DEF SignersBuilt, BuiltBy
  <2>5. \A msg \in net' : msg.tx \in signed[msg.from]
    BY <2>3, <2>4 DEF SignersBuilt
  <2>6. SignersBuilt'
    BY <2>1, <2>5 DEF SignersBuilt, MajorityBuilt, BuiltBy, HasMajority
  <2> QED BY <2>1, <2>6, LedgerFrame, WorkersStay
<1>19. CASE UNCHANGED vars
  BY <1>19, LedgerFrame, SignersFrame, WorkersStay DEF vars
<1> QED
  BY <1>1, <1>2, <1>3, <1>4, <1>5, <1>6, <1>7, <1>8, <1>9, <1>10, <1>11, <1>12,
     <1>13, <1>14, <1>15, <1>16, <1>17, <1>18, <1>19
  DEF Next, WorkerStep, SubmissionStep, SignatureStep, LedgerStep

-----------------------------------------------------------------------------
(* The invariant holds, and what follows from it *)

(* The state of every node is typed, and rests on the ledger: whatever was  *)
(* built or is being built is justified by the ledger before its sequence  *)
(* number (the account is read before the contract), and every signature   *)
(* that counts is of a node that built the transaction (SignaturesHandler, *)
(* addSignature, __assignPendingSignatures).                               *)
THEOREM InvCorrect == Spec => [](TypeOK /\ Inv)
<1>1. Init => TypeOK
  BY FreshWorkerShape, BoundAssumption
  DEF Init, TypeOK, Entry, SignedTx, PendingTx
<1>2. Init => Inv
  BY DEF Init, Inv, BuiltAreJustified, WorkersAreJustified, WorkerJustified,
         SignersBuilt, LedgerIsSigned, FreshWorker
<1>3. TypeOK /\ Inv /\ [Next]_vars => TypeOK'
  BY TypeStep DEF Inv
<1>4. TypeOK /\ TypeOK' /\ Inv /\ [Next]_vars => Inv'
  BY InvStep
<1> QED BY <1>1, <1>2, <1>3, <1>4, PTL DEF Spec

THEOREM TypeCorrect == Spec => []TypeOK
BY InvCorrect, PTL

(* What landed after a fresh state was read is justified by the ledger       *)
(* before it.                                                              *)
LEMMA LandedIsJustified ==
  ASSUME TypeOK, Inv, NEW i \in 1..Len(log), IsOwn(i), log[i].tx \in upToDate
  PROVE  Justified(log[i].tx.kind, log[i].tx.ts, i, TRUE)
BY DEF Inv, LedgerIsSigned, BuiltAreJustified, TxJustified

(* No timestamp is published twice or after a later one, however the nodes' *)
(* retries, submissions, restarts and the other users of the account       *)
(* interleave, as long as one node of those that built the transaction was *)
(* not answered by a server that lags behind.                              *)
THEOREM UpdatesInOrderCorrect == Spec => []UpdatesInOrder
<1>1. TypeOK /\ Inv => UpdatesInOrder
  <2> SUFFICES ASSUME TypeOK, Inv, NEW i \in 1..Len(log), NEW j \in 1..Len(log),
                      i < j,
                      Landed(i), log[i].tx.kind = "update",
                      Landed(j), log[j].tx.kind = "update",
                      log[j].tx \in upToDate
               PROVE  log[i].tx.ts < log[j].tx.ts
    BY DEF UpdatesInOrder
  <2>1. IsNewer(log[j].tx.ts, j - 1)
    BY LandedIsJustified DEF Landed, Justified
  <2>2. i \in 1..j - 1
    BY DEF TypeOK
  <2> QED BY <2>1, <2>2 DEF IsNewer, Landed
<1> QED BY <1>1, InvCorrect, PTL

(* The contract is initialized before it is updated; and only once, unless  *)
(* every node that built the transaction read a state from before its      *)
(* account, of another server.                                             *)
THEOREM InitializedOnceCorrect == Spec => []InitializedOnce
<1>1. TypeOK /\ Inv => InitializedOnce
  <2> SUFFICES ASSUME TypeOK, Inv, NEW j \in 1..Len(log), Landed(j)
               PROVE  /\ log[j].tx.kind = "update" => IsInitialized(j - 1)
                      /\ log[j].tx.kind = "init" /\ log[j].tx \in upToDate
                             => ~IsInitialized(j - 1)
    BY DEF InitializedOnce
  <2>1. log[j].tx.kind = "update" => IsInitialized(j - 1)
    BY DEF Landed, Inv, LedgerIsSigned
  <2>2. log[j].tx.kind = "init" /\ log[j].tx \in upToDate => ~IsInitialized(j - 1)
    BY LandedIsJustified DEF Landed, Justified
  <2> QED BY <2>1, <2>2
<1> QED BY <1>1, InvCorrect, PTL

(* Every submission carries a majority of signatures, all of nodes that     *)
(* built that very transaction.                                            *)
THEOREM SubmittedByMajorityCorrect == Spec => []SubmittedByMajority
<1>1. TypeOK /\ Inv => SubmittedByMajority
  BY DEF Inv, SignersBuilt, MajorityBuilt, BuiltBy, SubmittedByMajority
<1> QED BY <1>1, InvCorrect, PTL

-----------------------------------------------------------------------------
(* The cluster implements OracleFeed *)

(* Nothing changes for the reader of the feed. *)
LEMMA FeedStutters ==
  ASSUME UNCHANGED <<log, signed>>
  PROVE  UNCHANGED Feed!feedVars
BY DEF Feed!feedVars, ProposedBy, Published, Landed, IsInitialized, IsOwn

(* What a majority signed, a majority proposed. *)
LEMMA MajorityProposed ==
  ASSUME NEW s, s.sigs \subseteq Node, MajorityBuilt(s)
  PROVE  Feed!Supported(ProposalOf(s.tx))
<1> DEFINE S == Feed!Supporters(ProposalOf(s.tx))
<1>1. S \subseteq Node /\ s.sigs \subseteq S
  BY DEF Feed!Supporters, ProposedBy, MajorityBuilt, BuiltBy
<1>2. IsFiniteSet(S) /\ IsFiniteSet(s.sigs)
  BY <1>1, NodeAssumption, FS_Subset
<1>3. Cardinality(s.sigs) <= Cardinality(S)
  BY <1>1, <1>2, FS_Subset
<1>4. Cardinality(s.sigs) \in Nat /\ Cardinality(S) \in Nat /\ Cardinality(Node) \in Nat
  BY <1>2, NodeAssumption, FS_CardinalityType
<1>5. 2 * Cardinality(s.sigs) > Cardinality(Node)
  BY DEF MajorityBuilt, HasMajority
<1>6. 2 * Cardinality(S) > Cardinality(Node)
  <2> HIDE DEF S
  <2> QED BY <1>3, <1>4, <1>5
<1>7. Feed!Cardinality(S) = Cardinality(S) /\ Feed!Cardinality(Node) = Cardinality(Node)
  <2> HIDE DEF S
  <2> QED BY Zenon DEF Feed!Cardinality, Cardinality
<1> QED BY <1>6, <1>7 DEF Feed!Supported

(* How an entry of the ledger shows in the feed *)
ShowAt(i, e) == [at |-> i, ts |-> e.tx.ts, payload |-> e.tx.payload]

LEMMA AppendShows ==
  ASSUME TypeOK, NEW e, log' = Append(log, e)
  PROVE  LET lands == e.kind = "own" /\ e.ok IN
         /\ IsInitialized(Len(log))' <=>
                IsInitialized(Len(log)) \/ (lands /\ e.tx.kind = "init")
         /\ lands /\ e.tx.kind = "update" =>
                Published' = Published \cup
                             {ShowAt(Len(log) + 1, e)}
         /\ ~(lands /\ e.tx.kind = "update") => Published' = Published
<1>1. Len(log) \in Nat /\ Len(log') = Len(log) + 1
  BY DEF TypeOK
<1>2. \A i \in 1..Len(log') : log'[i] = IF i = Len(log) + 1 THEN e ELSE log[i]
  BY DEF TypeOK
<1>3. 1..Len(log') = (1..Len(log)) \cup {Len(log) + 1}
  BY <1>1
<1>4. IsInitialized(Len(log))' <=>
          IsInitialized(Len(log)) \/ (e.kind = "own" /\ e.ok /\ e.tx.kind = "init")
  BY <1>1, <1>2, <1>3 DEF IsInitialized, IsOwn
<1> DEFINE U == {j \in 1..Len(log) : Landed(j) /\ log[j].tx.kind = "update"}
<1> DEFINE V == {j \in 1..Len(log') : (Landed(j) /\ log[j].tx.kind = "update")'}
<1>5. V = U \cup {j \in {Len(log) + 1} : e.kind = "own" /\ e.ok /\ e.tx.kind = "update"}
  BY <1>1, <1>2, <1>3 DEF Landed, IsOwn
<1>6. Published = {ShowAt(i, log[i]) : i \in U}
  BY DEF Published, ShowAt
<1>7. Published' = {ShowAt(i, log'[i]) : i \in V}
  BY DEF Published, ShowAt
<1>8. \A i \in U : log'[i] = log[i] /\ i \in V
  BY <1>1, <1>2, <1>5
<1>9. \A i \in V : i \in U \/ (i = Len(log) + 1 /\ log'[i] = e)
  BY <1>1, <1>2, <1>5
<1>10. e.kind = "own" /\ e.ok /\ e.tx.kind = "update" => Len(log) + 1 \in V
  BY <1>5
<1>11. ~(e.kind = "own" /\ e.ok /\ e.tx.kind = "update") => V = U
  BY <1>5
<1>12. log'[Len(log) + 1] = e
  BY <1>1, <1>2
<1> HIDE DEF U, V
<1>13. ~(e.kind = "own" /\ e.ok /\ e.tx.kind = "update") => Published' = Published
  BY <1>6, <1>7, <1>8, <1>11
<1>14. e.kind = "own" /\ e.ok /\ e.tx.kind = "update" =>
          Published' = Published \cup {ShowAt(Len(log) + 1, e)}
  <2> SUFFICES ASSUME e.kind = "own" /\ e.ok /\ e.tx.kind = "update"
               PROVE  Published' = Published \cup
                                   {ShowAt(Len(log) + 1, e)}
    OBVIOUS
  <2>1. ShowAt(Len(log) + 1, e) \in Published'
    BY <1>7, <1>10, <1>12
  <2>2. Published \subseteq Published'
    <3> SUFFICES ASSUME NEW x \in Published PROVE x \in Published'
      OBVIOUS
    <3>1. PICK i \in U : x = ShowAt(i, log[i])
      BY <1>6
    <3> QED BY <1>7, <1>8, <3>1
  <2>3. ASSUME NEW x \in Published'
        PROVE  x \in Published \/ x = ShowAt(Len(log) + 1, e)
    <3>1. PICK i \in V : x = ShowAt(i, log'[i])
      BY <1>7
    <3>2. CASE i \in U
      BY <1>6, <1>8, <3>1, <3>2
    <3>3. CASE i = Len(log) + 1 /\ log'[i] = e
      BY <3>1, <3>3
    <3> QED BY <1>9, <3>2, <3>3
  <2> QED BY <2>1, <2>2, <2>3
<1> QED BY <1>4, <1>13, <1>14

(* Building a transaction proposes its payload. *)
LEMMA BuildProposes ==
  ASSUME TypeOK, Inv, NEW n \in Node, BuildTx(n)
  PROVE  Feed!FeedNext
<1> DEFINE tx == CurrentTx(worker[n])
<1>1. tx \in Tx
  BY CurrentTxType, WorkerAt
  DEF BuildTx, Inv, WorkersAreJustified, WorkerJustified, Justified
<1>2. UNCHANGED log /\ signed' = [signed EXCEPT ![n] = @ \cup {tx}]
  BY DEF BuildTx
<1> HIDE DEF tx
<1>3. ProposalOf(tx) \in Feed!Proposal
  BY <1>1 DEF ProposalOf, Feed!Proposal, Tx, Kinds
<1>4. \A m \in Node : signed'[m] = IF m = n THEN signed[n] \cup {tx} ELSE signed[m]
  BY <1>2 DEF TypeOK
<1>5. \A m \in Node : ProposedBy(m)' =
          IF m = n THEN ProposedBy(n) \cup {ProposalOf(tx)} ELSE ProposedBy(m)
  <2>1. ASSUME NEW m \in Node, m # n PROVE ProposedBy(m)' = ProposedBy(m)
    BY <1>4, <2>1 DEF ProposedBy
  <2>2. ProposedBy(n)' = {ProposalOf(t) : t \in signed'[n]}
    BY DEF ProposedBy, ProposalOf
  <2>3. signed'[n] = signed[n] \cup {tx}
    BY <1>4
  <2>4. {ProposalOf(t) : t \in signed[n] \cup {tx}} = ProposedBy(n) \cup {ProposalOf(tx)}
    BY Zenon DEF ProposedBy
  <2>5. ProposedBy(n)' = ProposedBy(n) \cup {ProposalOf(tx)}
    BY <2>2, <2>3, <2>4
  <2> QED BY <2>1, <2>5
<1>6. [m \in Node |-> ProposedBy(m)]' =
          [[m \in Node |-> ProposedBy(m)] EXCEPT ![n] = @ \cup {ProposalOf(tx)}]
  BY <1>5
<1>7. UNCHANGED <<IsInitialized(Len(log)), Published>>
  BY <1>2 DEF IsInitialized, Published, Landed, IsOwn
<1>8. Feed!Propose(n, ProposalOf(tx))
  BY <1>6, <1>7 DEF Feed!Propose
<1> QED BY <1>3, <1>8 DEF Feed!FeedNext

(* If no state is older than its account, every node that built a           *)
(* transaction read a fresh state.                                         *)
AllFresh == \A n \in Node : worker[n].view = "fresh" /\ signed[n] \subseteq upToDate

LEMMA FreshFrame ==
  ASSUME TypeOK, AllFresh, NEW n \in Node, NEW w, w.view = "fresh",
         worker' = [worker EXCEPT ![n] = w], UNCHANGED <<signed, upToDate>>
  PROVE  AllFresh'
<1>1. \A m \in Node : worker'[m] = IF m = n THEN w ELSE worker[m]
  BY DEF TypeOK
<1> QED BY <1>1 DEF AllFresh

LEMMA FreshSubmit ==
  ASSUME TypeOK, AllFresh, NEW n \in Node, NEW p, NEW w \in Worker, w.view = "fresh",
         TrySubmit(n, p, w)
  PROVE  \A m \in Node : worker'[m].view = "fresh"
<1>1. Approved(w).view = "fresh"
  BY DEF Approved, Worker
<1>2. worker' = [worker EXCEPT ![n] = Approved(w)] \/ worker' = [worker EXCEPT ![n] = w]
  BY DEF TrySubmit
<1> QED BY <1>1, <1>2 DEF AllFresh, TypeOK

LEMMA FreshStep ==
  ASSUME StateLag = 0, TypeOK, AllFresh, [Next]_vars
  PROVE  AllFresh'
<1>0. \A n \in Node : worker[n] \in Worker /\ worker[n].view = "fresh"
  BY WorkerAt DEF AllFresh
<1>1. ASSUME NEW n \in Node, StartWorker(n) PROVE AllFresh'
  <2> DEFINE w == [FreshWorker(worker[n].ts + 1) EXCEPT !.pc = "account",
                                                       !.approved = "open"]
  <2>1. w.view = "fresh"
    BY DEF FreshWorker
  <2>2. worker' = [worker EXCEPT ![n] = w] /\ UNCHANGED <<signed, upToDate>>
    BY <1>1 DEF StartWorker
  <2> HIDE DEF w
  <2> QED BY <2>1, <2>2, FreshFrame
<1>2. ASSUME NEW n \in Node, GetAccount(n) PROVE AllFresh'
  <2>1. PICK len \in 0..Len(log) :
            worker' = [worker EXCEPT ![n].pc = "state", ![n].seq = len + 1]
    BY <1>2 DEF GetAccount
  <2>2. worker' = [worker EXCEPT ![n] = [worker[n] EXCEPT !.pc = "state",
                                                         !.seq = len + 1]]
    BY <2>1 DEF TypeOK
  <2>3. [worker[n] EXCEPT !.pc = "state", !.seq = len + 1].view = "fresh"
    BY <1>0 DEF Worker
  <2>4. UNCHANGED <<signed, upToDate>>
    BY <1>2 DEF GetAccount
  <2> QED BY <2>2, <2>3, <2>4, FreshFrame
<1>3. ASSUME NEW n \in Node, RequestFails(n) \/ NothingToDo(n) PROVE AllFresh'
  <2>1. PICK outcome \in {"skipped", "failed", "landed"} :
            worker' = [worker EXCEPT ![n] = Finish(worker[n], outcome)]
    BY <1>3 DEF RequestFails, NothingToDo
  <2>2. UNCHANGED <<signed, upToDate>>
    BY <1>3 DEF RequestFails, NothingToDo
  <2> QED BY <1>0, <2>1, <2>2, FinishShape, FreshFrame
<1>4. ASSUME NEW n \in Node, ReadState(n) PROVE AllFresh'
  <2>1. PICK len \in ReadableStates(worker[n]), kind \in Kinds, payload \in Payload,
             view \in {"fresh", "stale"} :
            /\ view = "stale" => len < worker[n].seq - 1
            /\ worker' = [worker EXCEPT ![n] =
                            EnterLoop(Decided(worker[n], kind, payload, view), 0)]
    BY <1>4, StateIsRead
  <2>2. ~(len < worker[n].seq - 1)
    BY <1>0 DEF ReadableStates, Worker, TypeOK
  <2>3. view = "fresh"
    BY <2>1, <2>2
  <2> DEFINE v == Decided(worker[n], kind, payload, "fresh")
  <2>4. v \in Worker /\ v.view = "fresh"
    BY <1>0, DecidedShape
  <2> HIDE DEF v
  <2>5. EnterLoop(v, 0).view = "fresh"
    BY <2>4, EnterLoopShape
  <2>6. worker' = [worker EXCEPT ![n] = EnterLoop(v, 0)]
    BY <2>1, <2>3 DEF v
  <2>7. UNCHANGED <<signed, upToDate>>
    BY <1>4 DEF ReadState
  <2> QED BY <2>5, <2>6, <2>7, FreshFrame
<1>5. ASSUME NEW n \in Node, BuildFails(n) PROVE AllFresh'
  <2>1. worker[n].attempt + 1 \in Int
    BY <1>0, AttemptsAssumption DEF Worker, Attempts
  <2>2. EnterLoop(worker[n], worker[n].attempt + 1).view = "fresh"
    BY <1>0, <2>1, EnterLoopShape
  <2>3. /\ worker' = [worker EXCEPT ![n] = EnterLoop(worker[n], worker[n].attempt + 1)]
        /\ UNCHANGED <<signed, upToDate>>
    BY <1>5 DEF BuildFails
  <2> QED BY <2>2, <2>3, FreshFrame
<1>6. ASSUME NEW n \in Node, BuildTx(n) PROVE AllFresh'
  <2> DEFINE w == [worker[n] EXCEPT !.pc = "wait"]
  <2>1. w \in Worker /\ w.view = "fresh"
    BY <1>0 DEF Worker
  <2>2. \E p : TrySubmit(n, p, w)
    BY <1>6 DEF BuildTx
  <2> HIDE DEF w
  <2>3. \A m \in Node : worker'[m].view = "fresh"
    BY <2>1, <2>2, FreshSubmit
  <2>4. /\ signed' = [signed EXCEPT ![n] = @ \cup {CurrentTx(worker[n])}]
        /\ upToDate' = upToDate \cup {CurrentTx(worker[n])}
    BY <1>0, <1>6 DEF BuildTx
  <2>5. \A m \in Node : signed'[m] \subseteq signed[m] \cup {CurrentTx(worker[n])}
    BY <2>4 DEF TypeOK
  <2> QED BY <2>3, <2>4, <2>5 DEF AllFresh
<1>7. ASSUME NEW n \in Node, TimerFires(n) PROVE AllFresh'
  <2>1. /\ worker' = [worker EXCEPT ![n] = Rejected(worker[n], pending[n].tx)]
        /\ UNCHANGED <<signed, upToDate>>
    BY <1>7 DEF TimerFires
  <2> QED BY <1>0, <2>1, RejectedShape, FreshFrame
<1>8. ASSUME NEW n \in Node, SubmissionStep(n) PROVE AllFresh'
  <2>1. PICK s \in inflight[n] : \/ SendTransaction(n, s)
                                \/ SubmissionSucceeds(n, s)
                                \/ SubmissionFails(n, s)
    BY <1>8 DEF SubmissionStep
  <2>2. CASE SendTransaction(n, s)
    BY <2>2 DEF SendTransaction, AllFresh
  <2>3. CASE SubmissionSucceeds(n, s)
    <3>1. /\ worker' = [worker EXCEPT ![n] = Resolved(worker[n], s.tx)]
          /\ UNCHANGED <<signed, upToDate>>
      BY <2>3 DEF SubmissionSucceeds
    <3> QED BY <1>0, <3>1, ResolvedShape, FreshFrame
  <2>4. CASE SubmissionFails(n, s)
    <3>1. /\ worker' = [worker EXCEPT ![n] = Rejected(worker[n], s.tx)]
          /\ UNCHANGED <<signed, upToDate>>
      BY <2>4 DEF SubmissionFails
    <3> QED BY <1>0, <3>1, RejectedShape, FreshFrame
  <2> QED BY <2>1, <2>2, <2>3, <2>4
<1>9. ASSUME NEW n \in Node, SignatureStep(n) PROVE AllFresh'
  <2>1. CASE UNCHANGED <<worker, signed, upToDate>>
    BY <2>1 DEF AllFresh
  <2>2. ASSUME NEW msg \in net, AddSignature(n, msg) PROVE AllFresh'
    <3>1. (\E p : TrySubmit(n, p, worker[n])) /\ UNCHANGED <<signed, upToDate>>
      BY <2>2 DEF AddSignature
    <3> QED BY <1>0, <3>1, FreshSubmit DEF AllFresh
  <2> QED
    BY <1>9, <2>1, <2>2 DEF SignatureStep, KeepSignature, ClearPendingSignatures
<1>10. ASSUME NEW n \in Node, Crash(n) PROVE AllFresh'
  <2>1. PICK ts \in FirstRounds : worker' = [worker EXCEPT ![n] = FreshWorker(ts - 1)]
    BY <1>10 DEF Crash
  <2>2. FreshWorker(ts - 1).view = "fresh"
    BY DEF FreshWorker
  <2>3. UNCHANGED <<signed, upToDate>>
    BY <1>10 DEF Crash
  <2> QED BY <2>1, <2>2, <2>3, FreshFrame
<1>11. CASE UNCHANGED <<worker, signed, upToDate>>
  BY <1>11 DEF AllFresh
<1>12. ASSUME NEW c \in Channels, LinkStep(c[1], c[2])
       PROVE  UNCHANGED <<worker, signed, upToDate>>
  BY <1>12 DEF LinkStep, Disconnect, Connect, PeerReady
<1>13. CASE LedgerStep \/ Tick \/ UNCHANGED vars
  BY <1>11, <1>13 DEF LedgerStep, CloseLedger, ForeignTransaction, Tick, vars
<1> QED
  BY <1>1, <1>2, <1>3, <1>4, <1>5, <1>6, <1>7, <1>8, <1>9, <1>10, <1>11, <1>12, <1>13
  DEF Next, WorkerStep

(* A transaction that lands initializes the contract or publishes, if no    *)
(* state is older than its account.                                        *)
LEMMA LandingPublishes ==
  ASSUME TypeOK, Inv, AllFresh, NEW s \in mempool, CloseLedger(s)
  PROVE  Feed!FeedNext \/ UNCHANGED Feed!feedVars
<1>1. PICK ok \in BOOLEAN : log' = Append(log,
          [kind |-> "own", tx |-> s.tx, sigs |-> s.sigs, ok |-> ok])
  BY DEF CloseLedger
<1> DEFINE e == [kind |-> "own", tx |-> s.tx, sigs |-> s.sigs, ok |-> ok]
<1>2. /\ e.kind = "own" /\ e.tx = s.tx /\ e.ok = ok
      /\ log' = Append(log, e) /\ UNCHANGED signed
  BY <1>1 DEF CloseLedger
<1> HIDE DEF e
<1>3. s.tx \in Tx /\ s.sigs \subseteq Node /\ MajorityBuilt(s)
  BY DEF TypeOK, SignedTx, Inv, SignersBuilt
<1>4. Justified(s.tx.kind, s.tx.ts, s.tx.seq, TRUE)
  <2>1. PICK m \in Node : s.tx \in signed[m]
    BY <1>3, MajorityMember
  <2>2. s.tx \in upToDate
    BY <2>1 DEF AllFresh
  <2> QED BY <2>2 DEF Inv, BuiltAreJustified, TxJustified
<1>5. /\ s.tx.seq - 1 = Len(log) /\ ~(s.tx.seq <= Len(log)) /\ Len(log) \in Nat
      /\ Len(log) + 1 \in 1..MaxLedger
  BY BoundAssumption DEF CloseLedger, TypeOK
<1>6. ProposalOf(s.tx) \in Feed!Proposal /\ Feed!Supported(ProposalOf(s.tx))
  BY <1>3, MajorityProposed DEF ProposalOf, Feed!Proposal, Tx, Kinds
<1>7. UNCHANGED [n \in Node |-> ProposedBy(n)]
  BY <1>2 DEF ProposedBy
<1>8. CASE ok /\ s.tx.kind = "init"
  <2>1. ~IsInitialized(Len(log))
    BY <1>4, <1>5, <1>8 DEF Justified
  <2>2. IsInitialized(Len(log))' /\ Published' = Published
    BY <1>2, <1>8, AppendShows
  <2>3. ProposalOf(s.tx).kind = "init"
    BY <1>8 DEF ProposalOf
  <2>4. IsInitialized(Len(log))' = TRUE
    BY <2>2 DEF IsInitialized
  <2>5. Feed!Initialize
    BY <1>6, <1>7, <2>1, <2>2, <2>3, <2>4 DEF Feed!Initialize
  <2> QED BY <2>5 DEF Feed!FeedNext
<1>9. CASE ok /\ s.tx.kind = "update"
  <2>1. IsInitialized(Len(log)) /\ IsNewer(s.tx.ts, Len(log))
    BY <1>4, <1>5, <1>9 DEF Justified
  <2>2. /\ IsInitialized(Len(log))' <=> IsInitialized(Len(log))
        /\ Published' = Published \cup {[at |-> Len(log) + 1, ts |-> s.tx.ts,
                                       payload |-> s.tx.payload]}
    BY <1>2, <1>9, AppendShows DEF ShowAt
  <2>3. IsInitialized(Len(log))' = IsInitialized(Len(log))
    BY <2>2 DEF IsInitialized
  <2>4. \A x \in Published : x.at < Len(log) + 1 /\ x.ts < s.tx.ts
    <3> SUFFICES ASSUME NEW x \in Published
                 PROVE  x.at < Len(log) + 1 /\ x.ts < s.tx.ts
      OBVIOUS
    <3>1. PICK i \in 1..Len(log) :
              /\ Landed(i) /\ log[i].tx.kind = "update"
              /\ x = [at |-> i, ts |-> log[i].tx.ts, payload |-> log[i].tx.payload]
      BY DEF Published
    <3> QED BY <1>5, <2>1, <3>1 DEF IsNewer, Landed
  <2>5. /\ ProposalOf(s.tx).kind = "update" /\ ProposalOf(s.tx).ts = s.tx.ts
        /\ ProposalOf(s.tx).payload = s.tx.payload
    BY <1>9 DEF ProposalOf
  <2>6. Feed!Publish(ProposalOf(s.tx), Len(log) + 1)
    BY <1>6, <1>7, <2>1, <2>2, <2>3, <2>4, <2>5 DEF Feed!Publish
  <2> QED BY <1>5, <1>6, <2>6 DEF Feed!FeedNext
<1>10. CASE ~ok
  <2>1. IsInitialized(Len(log))' <=> IsInitialized(Len(log))
    BY <1>2, <1>10, AppendShows
  <2>2. IsInitialized(Len(log))' = IsInitialized(Len(log))
    BY <2>1 DEF IsInitialized
  <2>3. Published' = Published
    BY <1>2, <1>10, AppendShows
  <2> QED BY <1>7, <2>2, <2>3 DEF Feed!feedVars
<1>11. s.tx.kind = "init" \/ s.tx.kind = "update"
  BY <1>3 DEF Tx, Kinds
<1> QED BY <1>8, <1>9, <1>10, <1>11

(* Every step of the cluster is a step of the feed, or none for its reader. *)
LEMMA FeedStep ==
  ASSUME TypeOK, Inv, AllFresh, [Next]_vars
  PROVE  Feed!FeedNext \/ UNCHANGED Feed!feedVars
<1>1. ASSUME NEW n \in Node,
             \/ StartWorker(n) \/ GetAccount(n) \/ RequestFails(n) \/ ReadState(n)
             \/ NothingToDo(n) \/ BuildFails(n) \/ TimerFires(n)
             \/ SubmissionStep(n) \/ SignatureStep(n) \/ Crash(n)
      PROVE  UNCHANGED <<log, signed>>
  BY <1>1 DEF StartWorker, GetAccount, RequestFails, ReadState, NothingToDo,
    BuildFails, TimerFires, SubmissionStep, SendTransaction, SubmissionSucceeds,
    SubmissionFails, SignatureStep, AddSignature, KeepSignature,
    ClearPendingSignatures, Crash
<1>2. ASSUME NEW c \in Channels, LinkStep(c[1], c[2])
      PROVE  UNCHANGED <<log, signed>>
  BY <1>2 DEF LinkStep, Disconnect, Connect, PeerReady
<1>3. CASE Tick \/ UNCHANGED vars
  BY <1>3, FeedStutters DEF Tick, vars
<1>4. CASE ForeignTransaction
  <2>1. log' = Append(log, ForeignEntry) /\ UNCHANGED signed
    BY <1>4 DEF ForeignTransaction
  <2>2. ForeignEntry.kind # "own"
    BY DEF ForeignEntry
  <2>3. /\ IsInitialized(Len(log))' <=> IsInitialized(Len(log))
        /\ Published' = Published
    BY <2>1, <2>2, AppendShows
  <2>4. IsInitialized(Len(log))' = IsInitialized(Len(log))
    BY <2>3 DEF IsInitialized
  <2> QED BY <2>1, <2>3, <2>4 DEF Feed!feedVars, ProposedBy
<1> QED
  BY <1>1, <1>2, <1>3, <1>4, FeedStutters, BuildProposes, LandingPublishes
  DEF Next, WorkerStep, LedgerStep

(* What lands on the ledger is what a majority of the nodes computed for    *)
(* that timestamp, in order and once: the rounds, retries, signatures,     *)
(* lost messages and restarts of the runners add nothing to it, if no      *)
(* server that answers with the state lags behind the one that answered    *)
(* with the account.                                                       *)
THEOREM FeedCorrect ==
  ASSUME StateLag = 0
  PROVE  Spec => ImplementsFeed
<1>1. Init => Feed!FeedInit
  <2> SUFFICES ASSUME Init PROVE Feed!FeedInit
    OBVIOUS
  <2>1. [n \in Node |-> ProposedBy(n)] = [n \in Node |-> {}]
    BY DEF Init, ProposedBy
  <2>2. IsInitialized(Len(log)) \in BOOLEAN
    BY DEF IsInitialized
  <2>3. Published = {}
    BY DEF Init, Published
  <2> QED BY <2>1, <2>2, <2>3 DEF Feed!FeedInit
<1>2. TypeOK /\ Inv /\ AllFresh /\ [Next]_vars => [Feed!FeedNext]_(Feed!feedVars)
  BY FeedStep
<1>3. Init => AllFresh
  BY DEF Init, AllFresh, FreshWorker
<1>4. TypeOK /\ AllFresh /\ [Next]_vars => AllFresh'
  BY FreshStep
<1>5. Spec => [](TypeOK /\ Inv /\ AllFresh)
  BY <1>3, <1>4, InvCorrect, PTL DEF Spec
<1> QED BY <1>1, <1>2, <1>5, PTL DEF Spec, ImplementsFeed, Feed!FeedSpec

-----------------------------------------------------------------------------
(* The rounds of a node *)

(* RoundInv, of one node: its worker, pending transaction and submissions *)
RoundOf(w, p, S) ==
  /\ p # None => IsPast(w, p.tx) /\ \A s \in S : s.tx # p.tx
  /\ \A s \in S : IsPast(w, s.tx)
  /\ \A s, t \in S : s.tx = t.tx => s = t
  /\ p # None /\ ~p.timedOut => IsAwaitedBy(p.tx, w)
  /\ ReadyChecksTimeout => \A s \in S : s.tx.ts = w.ts => IsAwaitedBy(s.tx, w)
  /\ w.outcome # "none" => w.pc = "idle"
  /\ ReadyChecksTimeout /\ w.pc \in {"account", "state"} => w.approved = "open"

LEMMA RoundInvOfNodes ==
  RoundInv <=> \A n \in Node : RoundOf(worker[n], pending[n], inflight[n])
BY DEF RoundInv, BuiltInOrder, InflightOnce, TransactionsAreAwaited, OutcomeIsLast,
       RoundOf

(* The next attempt is a later one, or the round is over. *)
LEMMA EnterLoopMovesOn ==
  ASSUME NEW w \in Worker, NEW attempt \in Int
  PROVE  LET r == EnterLoop(w, attempt) IN
         /\ \/ r.pc = "idle" /\ r.outcome = "failed"
            \/ r.pc = "build" /\ r.attempt >= attempt /\ r.outcome = w.outcome
         /\ r.approved = "yes" => w.approved = "yes"
         /\ r.pc = "build" => r.approved = w.approved
<1> DEFINE open == {a \in Attempts : a >= attempt /\ clock <= MaxTime(w.ts, a)}
<1> DEFINE least == CHOOSE a \in open : \A b \in open : a <= b
<1>1. CASE open = {}
  BY <1>1 DEF EnterLoop, Finish, Worker
<1>2. CASE open # {}
  <2>1. open \subseteq 0..MaxSubmitAttempts - 1 /\ MaxSubmitAttempts - 1 \in Int
    BY AttemptsAssumption DEF Attempts
  <2>2. \E a \in open : \A b \in open : a <= b
    BY <1>2, <2>1, LeastElement
  <2>3. least \in open
    BY <2>2
  <2>4. least >= attempt
    BY <2>3
  <2>5. EnterLoop(w, attempt) = [w EXCEPT !.pc = "build", !.attempt = least]
    BY <1>2 DEF EnterLoop
  <2> HIDE DEF least, open
  <2> QED BY <2>4, <2>5 DEF Worker
<1> QED BY <1>1, <1>2

(* A worker that does not wait goes on, in this round or to the next. *)
LEMMA RoundGoesOn ==
  ASSUME NEW w \in Worker, NEW v \in Worker,
         NEW p \in PendingTx \cup {None}, NEW S \in SUBSET SignedTx,
         RoundOf(w, p, S),
         w.pc # "wait", v.ts >= w.ts,
         \A tx \in Tx : IsPast(w, tx) => IsPast(v, tx),
         v.outcome # "none" => v.pc = "idle",
         ReadyChecksTimeout /\ v.pc \in {"account", "state"} => v.approved = "open"
  PROVE  RoundOf(v, p, S)
<1>1. \A s \in S : s.tx \in Tx /\ s.tx.ts \in Int
  BY DEF SignedTx, Tx, Rounds
<1>2. w.ts \in Int /\ v.ts \in Int
  BY DEF Worker
<1>3. p # None => p.tx \in Tx
  BY DEF PendingTx
<1>4. ReadyChecksTimeout => \A s \in S : s.tx.ts # v.ts
  BY <1>1, <1>2 DEF RoundOf, IsAwaitedBy, IsPast
<1>5. p # None => p.timedOut
  BY DEF RoundOf, IsAwaitedBy
<1> QED BY <1>1, <1>3, <1>4, <1>5 DEF RoundOf

LEMMA SubmissionRejected ==
  ASSUME NEW w \in Worker, NEW tx,
         w.outcome # "none" => w.pc = "idle"
  PROVE  LET v == Rejected(w, tx) IN
         /\ ~IsAwaitedBy(tx, w) => v = w
         /\ IsAwaitedBy(tx, w) => v.pc \in {"idle", "build"}
         /\ v.ts = w.ts
         /\ \A t \in Tx : IsPast(w, t) => IsPast(v, t)
         /\ v.outcome # "none" => v.pc = "idle"
         /\ v.approved = "yes" => w.approved = "yes"
         /\ v = w \/ v.outcome # "landed"
<1> DEFINE r == EnterLoop(w, w.attempt + 1)
<1>1. w.attempt \in Int /\ w.attempt + 1 \in Int
  BY AttemptsAssumption DEF Worker, Attempts
<1>2. CASE ~IsAwaitedBy(tx, w)
  BY <1>2 DEF Rejected, IsAwaitedBy
<1>3. CASE IsAwaitedBy(tx, w)
  <2>1. Rejected(w, tx) = r /\ w.pc = "wait" /\ w.outcome = "none"
    BY <1>3 DEF Rejected, IsAwaitedBy
  <2>2. r \in Worker /\ r.ts = w.ts /\ r.pc \in {"idle", "build"}
    BY <1>1, EnterLoopShape
  <2>3. \/ r.pc = "idle" /\ r.outcome = "failed"
        \/ r.pc = "build" /\ r.attempt >= w.attempt + 1 /\ r.outcome = w.outcome
    BY <1>1, EnterLoopMovesOn
  <2>5. r.approved = "yes" => w.approved = "yes"
    BY <1>1, EnterLoopMovesOn
  <2>4. r.attempt \in Int /\ \A t \in Tx : t.attempt \in Int
    BY <2>2, AttemptsAssumption DEF Worker, Attempts, Tx
  <2> HIDE DEF r
  <2> QED BY <1>1, <1>3, <2>1, <2>2, <2>3, <2>4, <2>5 DEF IsPast
<1> QED BY <1>2, <1>3

LEMMA SubmissionResolved ==
  ASSUME NEW w \in Worker, NEW tx,
         w.outcome # "none" => w.pc = "idle"
  PROVE  LET v == Resolved(w, tx) IN
         /\ ~IsAwaitedBy(tx, w) => v = w
         /\ IsAwaitedBy(tx, w) => v.pc = "idle"
         /\ v.ts = w.ts
         /\ \A t \in Tx : IsPast(w, t) => IsPast(v, t)
         /\ v.outcome # "none" => v.pc = "idle"
         /\ v.approved = "yes" => w.approved = "yes"
         /\ v = w \/ CurrentTx(v) = tx
BY DEF CurrentTx, Resolved, IsAwaitedBy, Finish, Worker, IsPast

(* A submission that ends is the one that is awaited, or nothing waits. *)
LEMMA RoundAfterSubmission ==
  ASSUME NEW w \in Worker, NEW v \in Worker,
         NEW p \in PendingTx \cup {None}, NEW S \in SUBSET SignedTx, NEW s \in S,
         RoundOf(w, p, S),
         ~IsAwaitedBy(s.tx, w) => v = w,
         IsAwaitedBy(s.tx, w) => v.pc \in {"idle", "build"},
         v.ts = w.ts,
         \A t \in Tx : IsPast(w, t) => IsPast(v, t),
         v.outcome # "none" => v.pc = "idle"
  PROVE  RoundOf(v, p, S \ {s})
<1>1. \A t \in S : t.tx \in Tx
  BY DEF SignedTx
<1>2. p # None => p.tx \in Tx
  BY DEF PendingTx
<1>3. CASE ~IsAwaitedBy(s.tx, w)
  BY <1>3 DEF RoundOf
<1>4. CASE IsAwaitedBy(s.tx, w)
  <2>1. p # None => p.timedOut
    BY <1>4 DEF RoundOf, IsAwaitedBy
  <2>2. ReadyChecksTimeout => \A t \in S \ {s} : t.tx.ts # v.ts
    BY <1>4 DEF RoundOf, IsAwaitedBy
  <2> QED BY <1>1, <1>2, <1>4, <2>1, <2>2 DEF RoundOf
<1> QED BY <1>3, <1>4

(* The timer of an awaited transaction rejects it. *)
LEMMA RoundAfterTimer ==
  ASSUME NEW w \in Worker, NEW v \in Worker,
         NEW p \in PendingTx, p # None, NEW S \in SUBSET SignedTx,
         RoundOf(w, p, S), ~p.timedOut,
         IsAwaitedBy(p.tx, w) => v.pc \in {"idle", "build"},
         v.ts = w.ts,
         \A t \in Tx : IsPast(w, t) => IsPast(v, t),
         v.outcome # "none" => v.pc = "idle"
  PROVE  RoundOf(v, [p EXCEPT !.timedOut = TRUE], S)
<1> DEFINE q == [p EXCEPT !.timedOut = TRUE]
<1>1. \A t \in S : t.tx \in Tx
  BY DEF SignedTx
<1>2. q.tx = p.tx /\ q.timedOut /\ p.tx \in Tx
  BY DEF PendingTx
<1> HIDE DEF q
<1>3. IsAwaitedBy(p.tx, w) /\ v.pc \in {"idle", "build"}
  BY DEF RoundOf
<1>4. ReadyChecksTimeout => \A t \in S : t.tx.ts # v.ts
  BY <1>3 DEF RoundOf, IsAwaitedBy
<1>5. RoundOf(v, q, S)
  BY <1>1, <1>2, <1>3, <1>4 DEF RoundOf
<1> QED BY <1>5 DEF q

(* The payload promise is not looked at by what a round goes on with. *)
LEMMA ApprovedShape ==
  ASSUME NEW w \in Worker
  PROVE  LET v == Approved(w) IN
         /\ v \in Worker
         /\ v.pc = w.pc /\ v.ts = w.ts /\ v.attempt = w.attempt
         /\ v.kind = w.kind /\ v.payload = w.payload /\ v.seq = w.seq
         /\ v.outcome = w.outcome
         /\ v.approved = IF w.approved = "open" THEN "yes" ELSE w.approved
BY DEF Approved, Worker

(* The pending transaction of a worker, and the submissions besides it *)
PendingFits(w, p, S) ==
  /\ IsPast(w, p.tx)
  /\ \A s \in S : s.tx # p.tx
  /\ ~p.timedOut => IsAwaitedBy(p.tx, w)

(* A transaction is submitted once: it stops being the pending one. *)
LEMMA RoundAfterSubmit ==
  ASSUME NEW w \in Worker, NEW v \in Worker, NEW p \in PendingTx,
         NEW S \in SUBSET SignedTx, NEW s, s.tx = p.tx,
         RoundOf(w, None, S), PendingFits(w, p, S), IsReadyToSubmit(p),
         v.pc = w.pc, v.ts = w.ts, v.attempt = w.attempt, v.outcome = w.outcome,
         v.kind = w.kind, v.payload = w.payload, v.seq = w.seq,
         w.approved = "open" \/ v.approved = w.approved
  PROVE  RoundOf(v, None, S \cup {s})
<1>1. \A tx : IsPast(v, tx) <=> IsPast(w, tx)
  BY DEF IsPast
<1>2. \A tx : IsAwaitedBy(tx, v) <=> IsAwaitedBy(tx, w)
  BY DEF IsAwaitedBy, CurrentTx
<1>3. ReadyChecksTimeout => IsAwaitedBy(p.tx, w)
  BY FlagAssumption DEF PendingFits, IsReadyToSubmit, PendingTx
<1>4. \A t \in S \cup {s} : IsPast(v, t.tx)
  BY <1>1 DEF RoundOf, PendingFits
<1>5. \A t, u \in S \cup {s} : t.tx = u.tx => t = u
  BY DEF RoundOf, PendingFits
<1>6. ReadyChecksTimeout =>
          \A t \in S \cup {s} : t.tx.ts = v.ts => IsAwaitedBy(t.tx, v)
  BY <1>2, <1>3 DEF RoundOf
<1>7. ReadyChecksTimeout => v.pc = "wait"
  BY <1>3 DEF IsAwaitedBy
<1>8. v.outcome # "none" => v.pc = "idle"
  BY DEF RoundOf
<1> QED BY <1>4, <1>5, <1>6, <1>7, <1>8 DEF RoundOf

-----------------------------------------------------------------------------
(* Success and approval *)

(* Who built a transaction of the round with this worker's payload *)
Proposers(w) ==
  {m \in Node : \E tx \in signed[m] :
      tx.kind = w.kind /\ tx.ts = w.ts /\ tx.payload = w.payload}

WorkerSound(w) ==
  /\ w.outcome = "landed" => HasSucceeded(CurrentTx(w))
  /\ ReadyChecksTimeout /\ w.approved = "yes" => HasMajority(Proposers(w))

(* A superset of a majority is one. *)
LEMMA MajorityGrows ==
  ASSUME NEW S, NEW T \in SUBSET Node, S \subseteq T, HasMajority(S)
  PROVE  HasMajority(T)
<1>1. IsFiniteSet(T) /\ IsFiniteSet(S) /\ Cardinality(S) <= Cardinality(T)
  BY NodeAssumption, FS_Subset
<1>2. Cardinality(S) \in Nat /\ Cardinality(T) \in Nat /\ Cardinality(Node) \in Nat
  BY <1>1, NodeAssumption, FS_CardinalityType
<1> QED BY <1>1, <1>2 DEF HasMajority

(* No step takes anything from the ledger, or from what was signed. *)
LEMMA HistoryGrows ==
  ASSUME TypeOK, [Next]_vars
  PROVE  /\ log' = log \/ \E e : log' = Append(log, e)
         /\ \A m \in Node : signed[m] \subseteq signed'[m]
<1>1. CASE UNCHANGED <<log, signed>>
  BY <1>1
<1>2. ASSUME NEW n \in Node, BuildTx(n)
      PROVE  log' = log /\ \A m \in Node : signed[m] \subseteq signed'[m]
  BY <1>2 DEF BuildTx, TypeOK
<1>3. CASE LedgerStep
  BY <1>3 DEF LedgerStep, CloseLedger, ForeignTransaction
<1>4. ASSUME NEW n \in Node, WorkerStep(n)
      PROVE  BuildTx(n) \/ UNCHANGED <<log, signed>>
  BY <1>4 DEF WorkerStep, StartWorker, GetAccount, RequestFails, ReadState,
    NothingToDo, BuildFails, TimerFires
<1>5. ASSUME NEW n \in Node, SubmissionStep(n) \/ SignatureStep(n) \/ Crash(n)
      PROVE  UNCHANGED <<log, signed>>
  BY <1>5 DEF SubmissionStep, SendTransaction, SubmissionSucceeds, SubmissionFails,
    SignatureStep, AddSignature, KeepSignature, ClearPendingSignatures, Crash
<1>6. ASSUME NEW c \in Channels, LinkStep(c[1], c[2])
      PROVE  UNCHANGED <<log, signed>>
  BY <1>6 DEF LinkStep, Disconnect, Connect, PeerReady
<1>7. CASE Tick \/ UNCHANGED vars
  BY <1>7 DEF Tick, vars
<1> QED
  BY <1>1, <1>2, <1>3, <1>4, <1>5, <1>6, <1>7 DEF Next

LEMMA SoundStays ==
  ASSUME TypeOK, [Next]_vars, NEW w, WorkerSound(w)
  PROVE  WorkerSound(w)'
<1>1. /\ log' = log \/ \E e : log' = Append(log, e)
      /\ \A m \in Node : signed[m] \subseteq signed'[m]
  BY HistoryGrows
<1>2. HasSucceeded(CurrentTx(w)) => HasSucceeded(CurrentTx(w))'
  <2>1. CASE log' = log
    BY <2>1 DEF HasSucceeded, IsOwn, CurrentTx
  <2>2. ASSUME NEW e, log' = Append(log, e)
        PROVE  HasSucceeded(CurrentTx(w)) => HasSucceeded(CurrentTx(w))'
    <3>1. Len(log) \in Nat /\ Len(log') = Len(log) + 1
      BY <2>2 DEF TypeOK
    <3>2. \A i \in 1..Len(log) : i \in 1..Len(log') /\ log'[i] = log[i]
      BY <2>2, <3>1 DEF TypeOK
    <3> QED BY <3>2 DEF HasSucceeded, IsOwn, CurrentTx
  <2> QED BY <1>1, <2>1, <2>2
<1>3. HasMajority(Proposers(w)) => HasMajority(Proposers(w))'
  <2>1. Proposers(w) \subseteq Proposers(w)' /\ Proposers(w)' \subseteq Node
    BY <1>1 DEF Proposers
  <2>2. HasMajority(Proposers(w)) => HasMajority(Proposers(w)')
    BY <2>1, MajorityGrows
  <2> QED BY <2>2 DEF HasMajority
<1> QED BY <1>2, <1>3 DEF WorkerSound

(* Signatures of a majority for what the worker built approve its payload. *)
LEMMA SoundApproval ==
  ASSUME NEW w \in Worker, NEW v \in Worker, WorkerSound(w)',
         NEW s, s.sigs \in SUBSET Node, HasMajority(s.sigs),
         \A m \in s.sigs : s.tx \in signed'[m],
         ReadyChecksTimeout => CurrentTx(w) = s.tx,
         v.kind = w.kind, v.ts = w.ts, v.payload = w.payload,
         v.outcome = w.outcome, CurrentTx(v) = CurrentTx(w)
  PROVE  WorkerSound(v)'
<1>1. v.outcome = "landed" => HasSucceeded(CurrentTx(v))'
  BY DEF WorkerSound, HasSucceeded
<1>2. ASSUME ReadyChecksTimeout PROVE HasMajority(Proposers(v))'
  <2>1. s.tx.kind = w.kind /\ s.tx.ts = w.ts /\ s.tx.payload = w.payload
    BY <1>2 DEF CurrentTx
  <2>2. s.sigs \subseteq Proposers(v)' /\ Proposers(v)' \subseteq Node
    BY <2>1 DEF Proposers
  <2>3. HasMajority(Proposers(v)')
    BY <2>2, MajorityGrows
  <2> QED BY <2>3 DEF HasMajority
<1> QED BY <1>1, <1>2 DEF WorkerSound

-----------------------------------------------------------------------------
(* The state of a node after a step of its own *)
NodeOk(n) ==
  RoundOf(worker[n], pending[n], inflight[n]) /\ WorkerSound(worker[n])

(* What the steps of the worker itself do to its record: it goes on in its  *)
(* round, or to the next one, or waits for what it built.                  *)
LEMMA WorkerStepIsOrdered ==
  ASSUME TypeOK, TypeOK', NEW n \in Node, NodeOk(n),
         \/ StartWorker(n) \/ GetAccount(n) \/ RequestFails(n) \/ ReadState(n)
         \/ NothingToDo(n) \/ BuildFails(n),
         NEW w, w = worker[n], NEW v, v = worker'[n]
  PROVE  /\ w.pc # "wait" /\ v.ts >= w.ts
         /\ \A tx \in Tx : IsPast(w, tx) => IsPast(v, tx)
         /\ v.outcome # "none" => v.pc = "idle"
         /\ ReadyChecksTimeout /\ v.pc \in {"account", "state"} => v.approved = "open"
         /\ v.outcome # "landed"
         /\ \/ ~ReadyChecksTimeout
            \/ v.approved # "yes"
            \/ /\ v.kind = w.kind /\ v.ts = w.ts /\ v.payload = w.payload
               /\ w.approved = "yes"
<1>0. /\ w \in Worker /\ v \in Worker /\ w.ts \in Int
      /\ \A tx \in Tx : tx.ts \in Int /\ tx.attempt \in Int
      /\ w.outcome # "none" => w.pc = "idle"
      /\ ReadyChecksTimeout /\ w.pc \in {"account", "state"} => w.approved = "open"
  <2>1. w \in Worker /\ v \in Worker
    BY DEF TypeOK
  <2>2. w.ts \in Int
    BY <2>1 DEF Worker
  <2>3. \A tx \in Tx : tx.ts \in Int /\ tx.attempt \in Int
    BY AttemptsAssumption DEF Tx, Rounds, Attempts
  <2> QED BY <2>1, <2>2, <2>3 DEF NodeOk, RoundOf
<1>1. CASE StartWorker(n)
  <2>1. /\ w.pc = "idle"
        /\ v = [FreshWorker(w.ts + 1) EXCEPT !.pc = "account", !.approved = "open"]
    BY <1>1 DEF StartWorker, TypeOK
  <2>2. /\ v.pc = "account" /\ v.ts = w.ts + 1
        /\ v.approved = "open" /\ v.outcome = "none"
    BY <2>1 DEF FreshWorker
  <2> QED BY <1>0, <2>1, <2>2 DEF IsPast
<1>2. CASE GetAccount(n)
  <2>1. PICK len \in 0..Len(log) : v = [w EXCEPT !.pc = "state", !.seq = len + 1]
    BY <1>2 DEF GetAccount, TypeOK
  <2>2. /\ w.pc = "account" /\ v.pc = "state" /\ v.ts = w.ts
        /\ v.approved = w.approved /\ v.outcome = w.outcome
    BY <1>0, <1>2, <2>1 DEF GetAccount, Worker
  <2> QED BY <1>0, <2>2 DEF IsPast
<1>3. CASE RequestFails(n) \/ NothingToDo(n)
  <2>1. /\ w.pc \in {"account", "state"}
        /\ v = Finish(w, "failed") \/ v = Finish(w, "skipped")
    BY <1>3 DEF RequestFails, NothingToDo, TypeOK
  <2>2. /\ v.pc = "idle" /\ v.ts = w.ts /\ v.outcome \in {"failed", "skipped"}
        /\ v.approved = "yes" => w.approved = "yes"
    <3>1. w \in Worker
      BY <1>0
    <3> QED BY ONLY <2>1, <3>1 DEF Finish, Worker
  <2>3. w.pc \in {"account", "state"}
    BY <2>1
  <2> QED BY <1>0, <2>2, <2>3 DEF IsPast
<1>4. CASE ReadState(n)
  <2>1. PICK kind \in Kinds, payload \in Payload, view \in {"fresh", "stale"} :
            v = EnterLoop(Decided(w, kind, payload, view), 0)
    <3>1. PICK kind \in Kinds, payload \in Payload, view \in {"fresh", "stale"} :
              worker' = [worker EXCEPT ![n] =
                            EnterLoop(Decided(worker[n], kind, payload, view), 0)]
      BY <1>4, StateIsRead
    <3> QED BY <3>1 DEF TypeOK
  <2> DEFINE u == Decided(w, kind, payload, view)
  <2>2. /\ u \in Worker /\ u.ts = w.ts /\ u.outcome = w.outcome
        /\ u.approved = w.approved
    BY <1>0, DecidedShape
  <2> HIDE DEF u
  <2> DEFINE r == EnterLoop(u, 0)
  <2>3. /\ r.pc \in {"idle", "build"} /\ r.ts = u.ts
        /\ \/ r.pc = "idle" /\ r.outcome = "failed"
           \/ r.pc = "build" /\ r.outcome = u.outcome
        /\ r.approved = "yes" => u.approved = "yes"
        /\ r.pc = "build" => r.approved = u.approved
    BY <2>2, EnterLoopShape, EnterLoopMovesOn
  <2>5. v = r
    BY <2>1 DEF u
  <2> HIDE DEF r
  <2>4. w.pc = "state"
    BY <1>4 DEF ReadState
  <2> QED BY <1>0, <2>2, <2>3, <2>4, <2>5 DEF IsPast
<1>5. CASE BuildFails(n)
  <2>1. /\ w.pc = "build" /\ v = EnterLoop(w, w.attempt + 1)
        /\ w.attempt \in Int /\ w.attempt + 1 \in Int
    BY <1>0, <1>5, AttemptsAssumption DEF BuildFails, TypeOK, Worker, Attempts
  <2> DEFINE r == EnterLoop(w, w.attempt + 1)
  <2>2. /\ r.pc \in {"idle", "build"} /\ r.ts = w.ts
        /\ r.kind = w.kind /\ r.payload = w.payload
    <3>1. w \in Worker
      BY <1>0
    <3> QED BY <2>1, <3>1, EnterLoopShape
  <2>3. /\ \/ r.pc = "idle" /\ r.outcome = "failed"
           \/ r.pc = "build" /\ r.attempt >= w.attempt + 1 /\ r.outcome = w.outcome
        /\ r.approved = "yes" => w.approved = "yes"
    BY <1>0, <2>1, EnterLoopMovesOn
  <2>4. v = r /\ v.attempt \in Int
    BY <1>0, <2>1, AttemptsAssumption DEF Worker, Attempts
  <2> HIDE DEF r
  <2> QED BY <1>0, <2>1, <2>2, <2>3, <2>4 DEF IsPast
<1> QED BY <1>1, <1>2, <1>3, <1>4, <1>5

LEMMA NodeOkNext ==
  ASSUME NEW n \in Node, NEW v, v = worker'[n],
         RoundOf(v, pending'[n], inflight'[n]), WorkerSound(v)'
  PROVE  NodeOk(n)'
<1>1. RoundOf(worker[n], pending[n], inflight[n])'
  BY DEF RoundOf, IsPast, IsAwaitedBy, CurrentTx
<1>2. WorkerSound(worker[n])'
  BY DEF WorkerSound, HasSucceeded, IsOwn, HasMajority, Proposers, CurrentTx
<1> QED BY <1>1, <1>2 DEF NodeOk

(* __trySubmitTransaction keeps the pending transaction, or submits it. *)
LEMMA TrySubmitOk ==
  ASSUME TypeOK, NEW n \in Node, NEW w \in Worker, NEW p \in PendingTx,
         TrySubmit(n, p, w),
         RoundOf(w, None, inflight[n]), PendingFits(w, p, inflight[n]),
         WorkerSound(w)',
         \A m \in p.sigs : p.tx \in signed'[m]
  PROVE  NodeOk(n)'
<1> DEFINE s == [tx |-> p.tx, sigs |-> p.sigs]
<1>1. inflight[n] \in SUBSET SignedTx
  BY DEF TypeOK
<1>2. CASE IsReadyToSubmit(p)
  <2>1. /\ pending'[n] = None
        /\ inflight'[n] = inflight[n] \cup {s}
        /\ worker'[n] = Approved(w)
    BY <1>2 DEF TrySubmit, TypeOK
  <2>2. s.tx = p.tx /\ s.sigs = p.sigs
    OBVIOUS
  <2>3. s.sigs \in SUBSET Node /\ HasMajority(s.sigs)
    BY <1>2 DEF IsReadyToSubmit, PendingTx
  <2>4. PICK v : v = Approved(w)
    OBVIOUS
  <2>5. /\ v \in Worker
        /\ v.pc = w.pc /\ v.ts = w.ts /\ v.attempt = w.attempt
        /\ v.kind = w.kind /\ v.payload = w.payload /\ v.seq = w.seq
        /\ v.outcome = w.outcome
        /\ w.approved = "open" \/ v.approved = w.approved
    BY <2>4, ApprovedShape
  <2>6. ReadyChecksTimeout => CurrentTx(w) = s.tx
    BY <1>2, FlagAssumption DEF PendingFits, IsAwaitedBy, IsReadyToSubmit, PendingTx
  <2>7. CurrentTx(v) = CurrentTx(w)
    BY <2>5 DEF CurrentTx
  <2> HIDE DEF s
  <2>8. RoundOf(v, None, inflight[n] \cup {s})
    BY <1>1, <1>2, <2>2, <2>5, RoundAfterSubmit
  <2>9. WorkerSound(v)'
    BY <2>2, <2>3, <2>5, <2>6, <2>7, SoundApproval
  <2> QED BY <2>1, <2>4, <2>8, <2>9, NodeOkNext
<1>3. CASE ~IsReadyToSubmit(p)
  <2>1. pending'[n] = p /\ inflight'[n] = inflight[n] /\ worker'[n] = w
    BY <1>3 DEF TrySubmit, TypeOK
  <2>2. RoundOf(w, p, inflight[n])
    BY DEF RoundOf, PendingFits
  <2> QED BY <2>1, <2>2, NodeOkNext
<1> QED BY <1>2, <1>3

StepOf(n) == WorkerStep(n) \/ SubmissionStep(n) \/ SignatureStep(n) \/ Crash(n)

(* What a step leaves alone that is not the node's own *)
LEMMA OthersLeave ==
  ASSUME TypeOK, [Next]_vars, NEW n \in Node, ~StepOf(n)
  PROVE  UNCHANGED <<worker[n], pending[n], inflight[n], submitted[n], early[n], signed[n]>>
<1>1. ASSUME NEW m \in Node, m # n, StepOf(m)
      PROVE  UNCHANGED <<worker[n], pending[n], inflight[n], submitted[n], early[n], signed[n]>>
  <2>1. ASSUME NEW p, NEW w, TrySubmit(m, p, w)
        PROVE  UNCHANGED <<worker[n], pending[n], inflight[n], submitted[n]>>
    BY <1>1, <2>1 DEF TrySubmit, TypeOK
  <2>2. CASE BuildTx(m)
    <3>1. /\ \E p, w : TrySubmit(m, p, w)
          /\ \E S : early' = [early EXCEPT ![m] = S]
          /\ \E S : signed' = [signed EXCEPT ![m] = S]
      BY <2>2 DEF BuildTx
    <3> QED BY <1>1, <2>1, <3>1 DEF TypeOK
  <2>3. CASE \E msg \in net : AddSignature(m, msg)
    BY <1>1, <2>1, <2>3 DEF AddSignature
  <2>4. CASE \/ StartWorker(m) \/ GetAccount(m) \/ RequestFails(m) \/ ReadState(m)
             \/ NothingToDo(m) \/ BuildFails(m) \/ TimerFires(m)
    BY <1>1, <2>4 DEF StartWorker, GetAccount, RequestFails, ReadState, NothingToDo,
      BuildFails, TimerFires, TypeOK
  <2>5. CASE SubmissionStep(m)
    BY <1>1, <2>5 DEF SubmissionStep, SendTransaction, SubmissionSucceeds,
      SubmissionFails, TypeOK
  <2>6. CASE \/ \E msg \in net : KeepSignature(m, msg)
             \/ ClearPendingSignatures(m)
    <3>1. \E S : early' = [early EXCEPT ![m] = S]
      BY <2>6 DEF KeepSignature, ClearPendingSignatures
    <3> QED BY <1>1, <2>6, <3>1 DEF KeepSignature, ClearPendingSignatures, TypeOK
  <2>7. CASE Crash(m)
    BY <1>1, <2>7 DEF Crash, TypeOK
  <2> QED
    BY <1>1, <2>2, <2>3, <2>4, <2>5, <2>6, <2>7
    DEF StepOf, WorkerStep, SignatureStep
<1>2. CASE \/ \E c \in Channels : LinkStep(c[1], c[2])
           \/ LedgerStep \/ Tick \/ UNCHANGED vars
  <2>1. UNCHANGED <<worker, pending, inflight, submitted, early, signed>>
    BY <1>2 DEF LinkStep, Disconnect, Connect, PeerReady, LedgerStep, CloseLedger,
      ForeignTransaction, Tick, vars
  <2> QED BY <2>1
<1>3. CASE \E m \in Node : StepOf(m)
  BY <1>1, <1>3
<1>4. \/ \E m \in Node : StepOf(m)
      \/ \E c \in Channels : LinkStep(c[1], c[2])
      \/ LedgerStep \/ Tick \/ UNCHANGED vars
  BY DEF Next, StepOf
<1> QED BY <1>2, <1>3, <1>4

(* A node that takes no part in a step *)
LEMMA NodeOkFrame ==
  ASSUME TypeOK, [Next]_vars, NEW n \in Node, NodeOk(n),
         worker'[n] = worker[n], pending'[n] = pending[n], inflight'[n] = inflight[n]
  PROVE  NodeOk(n)'
<1>1. PICK v : v = worker[n]
  OBVIOUS
<1>2. WorkerSound(v)
  BY <1>1 DEF NodeOk
<1>3. WorkerSound(v)'
  BY <1>2, SoundStays
<1>4. RoundOf(v, pending'[n], inflight'[n])
  BY <1>1 DEF NodeOk
<1> QED BY <1>1, <1>3, <1>4, NodeOkNext

(* What a node does itself keeps its round in order. *)
LEMMA OwnStep ==
  ASSUME TypeOK, TypeOK', Inv, [Next]_vars, NEW n \in Node, NodeOk(n),
         WorkerStep(n) \/ SubmissionStep(n) \/ SignatureStep(n) \/ Crash(n)
  PROVE  NodeOk(n)'
<1>1. PICK w : w = worker[n]
  OBVIOUS
<1>2. /\ w \in Worker
      /\ pending[n] \in PendingTx \cup {None}
      /\ inflight[n] \in SUBSET SignedTx
      /\ RoundOf(w, pending[n], inflight[n])
      /\ w.outcome # "none" => w.pc = "idle"
  BY <1>1 DEF TypeOK, NodeOk, RoundOf
<1>3. WorkerSound(w) /\ WorkerSound(w)'
  BY <1>1, SoundStays DEF NodeOk
<1>4. PICK v : v = worker'[n]
  OBVIOUS
<1>5. v \in Worker
  BY <1>4 DEF TypeOK
<1>6. CASE \/ StartWorker(n) \/ GetAccount(n) \/ RequestFails(n) \/ ReadState(n)
           \/ NothingToDo(n) \/ BuildFails(n)
  <2>1. /\ w.pc # "wait" /\ v.ts >= w.ts
        /\ \A tx \in Tx : IsPast(w, tx) => IsPast(v, tx)
        /\ v.outcome # "none" => v.pc = "idle"
        /\ ReadyChecksTimeout /\ v.pc \in {"account", "state"} => v.approved = "open"
        /\ v.outcome # "landed"
        /\ \/ ~ReadyChecksTimeout
           \/ v.approved # "yes"
           \/ /\ v.kind = w.kind /\ v.ts = w.ts /\ v.payload = w.payload
              /\ w.approved = "yes"
    BY <1>1, <1>4, <1>6, WorkerStepIsOrdered
  <2>2. pending'[n] = pending[n] /\ inflight'[n] = inflight[n]
    BY <1>6 DEF StartWorker, GetAccount, RequestFails, ReadState, NothingToDo, BuildFails
  <2>3. RoundOf(v, pending[n], inflight[n])
    BY <1>2, <1>5, <2>1, RoundGoesOn
  <2>4. WorkerSound(v)'
    BY <1>3, <2>1 DEF WorkerSound, Proposers, HasMajority
  <2> QED BY <1>4, <2>2, <2>3, <2>4, NodeOkNext
<1>7. CASE BuildTx(n)
  <2> DEFINE tx == CurrentTx(w)
  <2> DEFINE p == [tx |-> tx, sigs |-> {n} \cup EarlySigners(n, tx), timedOut |-> FALSE]
  <2> DEFINE u == [w EXCEPT !.pc = "wait"]
  <2>1. w.pc = "build" /\ TrySubmit(n, p, u)
        /\ signed' = [signed EXCEPT ![n] = @ \cup {tx}]
    BY <1>1, <1>7 DEF BuildTx
  <2>2. tx \in Tx
    BY <1>1, <1>2, <2>1, CurrentTxType
       DEF Inv, WorkersAreJustified, WorkerJustified, Justified
  <2>3. tx.ts = w.ts /\ tx.attempt = w.attempt
    BY DEF CurrentTx
  <2>4. u \in Worker /\ u.pc = "wait" /\ u.ts = w.ts /\ u.attempt = w.attempt
        /\ u.kind = w.kind /\ u.payload = w.payload /\ u.outcome = w.outcome
        /\ u.approved = w.approved /\ CurrentTx(u) = tx
    BY <1>2 DEF Worker, CurrentTx
  <2>5. p \in PendingTx /\ p.tx = tx /\ p.timedOut = FALSE
    BY <2>2 DEF PendingTx, EarlySigners
  <2>6. \A m \in p.sigs : tx \in signed'[m]
    <3>1. \A m \in p.sigs : m \in Node /\ (m = n \/ tx \in signed[m])
      BY DEF EarlySigners, Inv, SignersBuilt
    <3> HIDE DEF tx, p
    <3> QED BY <2>1, <3>1 DEF TypeOK
  <2> HIDE DEF tx, p, u
  <2>7. \A s \in inflight[n] : /\ s.tx \in Tx
                               /\ s.tx # tx /\ IsPast(u, s.tx)
                               /\ ReadyChecksTimeout => s.tx.ts # u.ts
    <3>1. \A t \in Tx : t.ts \in Int /\ t.attempt \in Int
      BY AttemptsAssumption DEF Tx, Rounds, Attempts
    <3>2. \A s \in inflight[n] : s.tx \in Tx /\ IsPast(w, s.tx)
      BY <1>2 DEF SignedTx, RoundOf
    <3>3. w.ts \in Int /\ w.attempt \in Int
      BY <1>2, AttemptsAssumption DEF Worker, Attempts
    <3>4. ReadyChecksTimeout => \A s \in inflight[n] : s.tx.ts # w.ts
      BY <1>2, <2>1 DEF RoundOf, IsAwaitedBy
    <3> QED BY <2>1, <2>3, <2>4, <3>1, <3>2, <3>3, <3>4 DEF IsPast
  <2>8. RoundOf(u, None, inflight[n])
    BY <1>2, <2>1, <2>4, <2>7 DEF RoundOf
  <2>9. PendingFits(u, p, inflight[n])
    <3>1. w.attempt \in Int
      BY <1>2, AttemptsAssumption DEF Worker, Attempts
    <3> QED BY <2>3, <2>4, <2>5, <2>7, <3>1 DEF PendingFits, IsPast, IsAwaitedBy
  <2>10. WorkerSound(u)'
    BY <1>2, <1>3, <2>1, <2>4 DEF WorkerSound, Proposers, HasMajority
  <2> QED BY <2>1, <2>4, <2>5, <2>6, <2>8, <2>9, <2>10, TrySubmitOk
<1>8. CASE TimerFires(n)
  <2> DEFINE p == pending[n]
  <2>1. /\ p \in PendingTx /\ p # None /\ ~p.timedOut
        /\ pending'[n] = [p EXCEPT !.timedOut = TRUE]
        /\ v = Rejected(w, p.tx)
        /\ inflight'[n] = inflight[n]
    BY <1>1, <1>2, <1>4, <1>8 DEF TimerFires, TypeOK
  <2>2. /\ IsAwaitedBy(p.tx, w) => v.pc \in {"idle", "build"}
        /\ v.ts = w.ts
        /\ \A t \in Tx : IsPast(w, t) => IsPast(v, t)
        /\ v.outcome # "none" => v.pc = "idle"
        /\ v.approved = "yes" => w.approved = "yes"
        /\ v = w \/ v.outcome # "landed"
    BY <1>2, <2>1, SubmissionRejected
  <2>3. RoundOf(v, [p EXCEPT !.timedOut = TRUE], inflight[n])
    BY <1>2, <1>5, <2>1, <2>2, RoundAfterTimer
  <2>4. v.kind = w.kind /\ v.payload = w.payload
    BY <1>2, <2>1, RejectedShape
  <2>5. WorkerSound(v)'
    BY <1>3, <2>2, <2>4 DEF WorkerSound, Proposers, HasMajority
  <2> QED BY <1>4, <2>1, <2>3, <2>5, NodeOkNext
<1>9. ASSUME NEW msg \in net, AddSignature(n, msg) PROVE NodeOk(n)'
  <2> DEFINE p == [pending[n] EXCEPT !.sigs = @ \cup {msg.from}]
  <2>1. pending[n] \in PendingTx /\ pending[n] # None /\ pending[n].tx = msg.tx
    BY <1>9 DEF AddSignature, IsPending, TypeOK
  <2>2. /\ p \in PendingTx /\ p.tx = pending[n].tx
        /\ p.sigs = pending[n].sigs \cup {msg.from}
        /\ p.timedOut = pending[n].timedOut
    <3>1. msg.from \in Node
      BY DEF TypeOK
    <3> QED BY <2>1, <3>1 DEF PendingTx
  <2>3. TrySubmit(n, p, w) /\ UNCHANGED signed
    BY <1>1, <1>9 DEF AddSignature
  <2> HIDE DEF p
  <2>4. \A m \in p.sigs : p.tx \in signed'[m]
    BY <2>1, <2>2, <2>3 DEF Inv, SignersBuilt, BuiltBy
  <2>5. RoundOf(w, None, inflight[n]) /\ PendingFits(w, p, inflight[n])
    BY <1>2, <2>1, <2>2 DEF RoundOf, PendingFits
  <2> QED BY <1>2, <1>3, <2>2, <2>3, <2>4, <2>5, TrySubmitOk
<1>10. CASE (\E msg \in net : KeepSignature(n, msg)) \/ ClearPendingSignatures(n)
  BY <1>10, NodeOkFrame DEF KeepSignature, ClearPendingSignatures
<1>11. ASSUME NEW s \in inflight[n], SendTransaction(n, s) PROVE NodeOk(n)'
  BY <1>11, NodeOkFrame DEF SendTransaction
<1>12. ASSUME NEW s \in inflight[n], SubmissionFails(n, s) PROVE NodeOk(n)'
  <2>1. /\ v = Rejected(w, s.tx)
        /\ pending'[n] = pending[n]
        /\ inflight'[n] = inflight[n] \ {s}
    BY <1>1, <1>4, <1>12 DEF SubmissionFails, TypeOK
  <2>2. /\ ~IsAwaitedBy(s.tx, w) => v = w
        /\ IsAwaitedBy(s.tx, w) => v.pc \in {"idle", "build"}
        /\ v.ts = w.ts
        /\ \A t \in Tx : IsPast(w, t) => IsPast(v, t)
        /\ v.outcome # "none" => v.pc = "idle"
        /\ v.approved = "yes" => w.approved = "yes"
        /\ v = w \/ v.outcome # "landed"
    BY <1>2, <2>1, SubmissionRejected
  <2>3. RoundOf(v, pending[n], inflight[n] \ {s})
    BY <1>2, <1>5, <2>2, RoundAfterSubmission
  <2>4. v.kind = w.kind /\ v.payload = w.payload
    BY <1>2, <2>1, RejectedShape
  <2>5. WorkerSound(v)'
    BY <1>3, <2>2, <2>4 DEF WorkerSound, Proposers, HasMajority
  <2> QED BY <1>4, <2>1, <2>3, <2>5, NodeOkNext
<1>13. ASSUME NEW s \in inflight[n], SubmissionSucceeds(n, s) PROVE NodeOk(n)'
  <2>1. /\ v = Resolved(w, s.tx)
        /\ pending'[n] = pending[n]
        /\ inflight'[n] = inflight[n] \ {s}
        /\ HasSucceeded(s.tx) /\ UNCHANGED <<log, signed>>
    BY <1>1, <1>4, <1>13 DEF SubmissionSucceeds, TypeOK
  <2>2. /\ ~IsAwaitedBy(s.tx, w) => v = w
        /\ IsAwaitedBy(s.tx, w) => v.pc = "idle"
        /\ v.ts = w.ts
        /\ \A t \in Tx : IsPast(w, t) => IsPast(v, t)
        /\ v.outcome # "none" => v.pc = "idle"
        /\ v.approved = "yes" => w.approved = "yes"
        /\ v = w \/ CurrentTx(v) = s.tx
    BY <1>2, <2>1, SubmissionResolved
  <2>3. RoundOf(v, pending[n], inflight[n] \ {s})
    BY <1>2, <1>5, <2>2, RoundAfterSubmission
  <2>4. v.kind = w.kind /\ v.payload = w.payload
    BY <1>2, <2>1 DEF Resolved, Finish, Worker
  <2>5. HasSucceeded(s.tx)'
    BY <2>1 DEF HasSucceeded, IsOwn
  <2>6. WorkerSound(v)'
    BY <1>3, <2>2, <2>4, <2>5 DEF WorkerSound, Proposers, HasMajority
  <2> QED BY <1>4, <2>1, <2>3, <2>6, NodeOkNext
<1>14. CASE Crash(n)
  <2>1. PICK ts \in FirstRounds : v = FreshWorker(ts - 1)
    BY <1>4, <1>14 DEF Crash, TypeOK
  <2>2. pending'[n] = None /\ inflight'[n] = {}
    BY <1>14 DEF Crash, TypeOK
  <2>3. v.pc = "idle" /\ v.outcome = "none" /\ v.approved = "no"
    BY <2>1 DEF FreshWorker
  <2>4. RoundOf(v, None, {}) /\ WorkerSound(v)'
    BY <2>3 DEF RoundOf, WorkerSound
  <2> QED BY <1>4, <2>2, <2>4, NodeOkNext
<1> QED
  BY <1>6, <1>7, <1>8, <1>9, <1>10, <1>11, <1>12, <1>13, <1>14
  DEF WorkerStep, SubmissionStep, SignatureStep

(* The rounds of every node stay in order with every step. *)
LEMMA RoundStep ==
  ASSUME TypeOK, TypeOK', Inv, [Next]_vars, \A n \in Node : NodeOk(n)
  PROVE  \A n \in Node : NodeOk(n)'
<1> SUFFICES ASSUME NEW n \in Node PROVE NodeOk(n)'
  OBVIOUS
<1>1. CASE StepOf(n)
  BY <1>1, OwnStep DEF StepOf
<1>2. CASE ~StepOf(n)
  BY <1>2, OthersLeave, NodeOkFrame
<1> QED BY <1>1, <1>2

LEMMA RoundsCorrect == Spec => []\A n \in Node : NodeOk(n)
<1>1. Init => \A n \in Node : NodeOk(n)
  BY DEF Init, NodeOk, RoundOf, WorkerSound, FreshWorker
<1>2. TypeOK /\ TypeOK' /\ Inv /\ [Next]_vars /\ (\A n \in Node : NodeOk(n))
        => (\A n \in Node : NodeOk(n))'
  BY RoundStep
<1> QED BY <1>1, <1>2, InvCorrect, PTL DEF Spec

LEMMA NodesOkRoundInv == (\A n \in Node : NodeOk(n)) => RoundInv
BY RoundInvOfNodes DEF NodeOk

(* The rounds of a node follow each other: what a worker waits for, it      *)
(* waits for to the end, and it goes on only then.                         *)
THEOREM RoundInvCorrect == Spec => []RoundInv
BY RoundsCorrect, NodesOkRoundInv, PTL

(* A worker that reports success has its transaction on the ledger.        *)
THEOREM SuccessLandedCorrect == Spec => []SuccessLanded
<1>1. (\A n \in Node : NodeOk(n)) => SuccessLanded
  BY DEF NodeOk, WorkerSound, SuccessLanded, HasSucceeded, Landed
<1> QED BY <1>1, RoundsCorrect, PTL

(* As long as a transaction that timed out is not submitted any more, the   *)
(* payload promise of a round comes true only for what a majority signed.  *)
THEOREM ApprovedByMajorityCorrect ==
  ASSUME ReadyChecksTimeout
  PROVE  Spec => []ApprovedByMajority
<1>1. (\A n \in Node : NodeOk(n)) => ApprovedByMajority
  BY DEF NodeOk, WorkerSound, ApprovedByMajority, Proposers
<1> QED BY <1>1, RoundsCorrect, PTL

(* ... and no round is given up while a transaction of it is submitted.    *)
THEOREM NotGivenUpEarlyCorrect ==
  ASSUME ReadyChecksTimeout
  PROVE  Spec => []NotGivenUpEarly
<1>1. RoundInv => NotGivenUpEarly
  BY DEF RoundInv, TransactionsAreAwaited, OutcomeIsLast, NotGivenUpEarly, IsAwaitedBy
<1> QED BY <1>1, RoundInvCorrect, PTL

-----------------------------------------------------------------------------
(* Signatures on their way *)

(* What a node does not build any more, it never does in this life. *)
LEMMA PastStays ==
  ASSUME TypeOK, TypeOK', NEW n \in Node, NodeOk(n), NEW tx \in Tx,
         IsPast(worker[n], tx),
         WorkerStep(n) \/ SubmissionStep(n) \/ SignatureStep(n)
  PROVE  IsPast(worker[n], tx)'
<1>0. PICK w : w = worker[n]
  OBVIOUS
<1>1. PICK v : v = worker'[n]
  OBVIOUS
<1>2. /\ w \in Worker /\ v \in Worker
      /\ w.outcome # "none" => w.pc = "idle"
      /\ IsPast(w, tx)
  BY <1>0, <1>1 DEF TypeOK, NodeOk, RoundOf
<1>3. SUFFICES IsPast(v, tx)
  BY <1>1 DEF IsPast
<1>4. ASSUME v.pc = w.pc, v.ts = w.ts, v.attempt = w.attempt PROVE IsPast(v, tx)
  BY <1>2, <1>4 DEF IsPast
<1>5. CASE \/ StartWorker(n) \/ GetAccount(n) \/ RequestFails(n) \/ ReadState(n)
           \/ NothingToDo(n) \/ BuildFails(n)
  BY <1>0, <1>1, <1>2, <1>5, WorkerStepIsOrdered
<1>6. ASSUME NEW p, NEW u \in Worker, TrySubmit(n, p, u)
      PROVE  v.pc = u.pc /\ v.ts = u.ts /\ v.attempt = u.attempt
  BY <1>1, <1>6, ApprovedShape DEF TrySubmit, TypeOK
<1>7. CASE BuildTx(n)
  <2> DEFINE u == [w EXCEPT !.pc = "wait"]
  <2>1. w.pc = "build" /\ \E p : TrySubmit(n, p, u)
    BY <1>0, <1>7 DEF BuildTx
  <2>2. u \in Worker /\ u.pc = "wait" /\ u.ts = w.ts /\ u.attempt = w.attempt
    BY <1>2 DEF Worker
  <2>3. v.pc = "wait" /\ v.ts = w.ts /\ v.attempt = w.attempt
    <3> HIDE DEF u
    <3> QED BY <1>6, <2>1, <2>2
  <2>4. w.attempt \in Int /\ tx.attempt \in Int
    BY <1>2, AttemptsAssumption DEF Worker, Attempts, Tx
  <2> QED BY <1>2, <2>1, <2>3, <2>4 DEF IsPast
<1>8. CASE TimerFires(n)
  <2>1. v = Rejected(w, pending[n].tx)
    BY <1>0, <1>1, <1>8 DEF TimerFires, TypeOK
  <2> QED BY <1>2, <2>1, SubmissionRejected
<1>9. ASSUME NEW msg \in net, AddSignature(n, msg) PROVE IsPast(v, tx)
  <2>1. \E p : TrySubmit(n, p, w)
    BY <1>0, <1>9 DEF AddSignature
  <2> QED BY <1>2, <1>4, <1>6, <2>1
<1>10. CASE (\E msg \in net : KeepSignature(n, msg)) \/ ClearPendingSignatures(n)
  BY <1>0, <1>1, <1>2, <1>10 DEF KeepSignature, ClearPendingSignatures
<1>11. ASSUME NEW s \in inflight[n], SendTransaction(n, s) PROVE IsPast(v, tx)
  BY <1>0, <1>1, <1>2, <1>11 DEF SendTransaction
<1>12. ASSUME NEW s \in inflight[n], SubmissionFails(n, s) PROVE IsPast(v, tx)
  <2>1. v = Rejected(w, s.tx)
    BY <1>0, <1>1, <1>12 DEF SubmissionFails, TypeOK
  <2> QED BY <1>2, <2>1, SubmissionRejected
<1>13. ASSUME NEW s \in inflight[n], SubmissionSucceeds(n, s) PROVE IsPast(v, tx)
  <2>1. v = Resolved(w, s.tx)
    BY <1>0, <1>1, <1>13 DEF SubmissionSucceeds, TypeOK
  <2> QED BY <1>2, <2>1, SubmissionResolved
<1> QED
  BY <1>5, <1>7, <1>8, <1>9, <1>10, <1>11, <1>12, <1>13
  DEF WorkerStep, SubmissionStep, SignatureStep

(* The clock does not go back; a maximal time is a number. *)
LEMMA ClockGrows ==
  ASSUME TypeOK, [Next]_vars
  PROVE  clock' >= clock
<1>1. ASSUME NEW n \in Node, StepOf(n) PROVE clock' = clock
  BY <1>1 DEF StepOf, WorkerStep, SubmissionStep, SignatureStep,
    StartWorker, GetAccount, RequestFails, ReadState, NothingToDo, BuildFails,
    BuildTx, TimerFires, SendTransaction, SubmissionSucceeds, SubmissionFails,
    AddSignature, KeepSignature, ClearPendingSignatures, Crash
<1>2. ASSUME \/ \E c \in Channels : LinkStep(c[1], c[2])
             \/ LedgerStep \/ UNCHANGED vars
      PROVE  clock' = clock
  BY <1>2 DEF LinkStep, Disconnect, Connect, PeerReady, LedgerStep, CloseLedger,
    ForeignTransaction, vars
<1>3. ASSUME Tick PROVE clock' = clock + 1
  BY <1>3 DEF Tick
<1>4. \/ \E n \in Node : StepOf(n)
      \/ \E c \in Channels : LinkStep(c[1], c[2])
      \/ LedgerStep \/ Tick \/ UNCHANGED vars
  BY DEF Next, StepOf
<1>5. clock' = clock \/ clock' = clock + 1
  BY <1>1, <1>2, <1>3, <1>4
<1> QED BY <1>5 DEF TypeOK

(* The last attempt of a round is over before its early signatures go. *)
LEMMA SignaturesLive ==
  ASSUME SignatureLifetime >= FirstAttemptTimeout
                              + RetryAttemptTimeout * (MaxSubmitAttempts - 1),
         NEW tx \in Tx
  PROVE  /\ MaxTime(tx.ts, tx.attempt) \in Int
         /\ RoundStart(tx.ts) + SignatureLifetime \in Int
         /\ MaxTime(tx.ts, tx.attempt) <= RoundStart(tx.ts) + SignatureLifetime
<1>1. tx.ts \in Int /\ tx.attempt \in Int /\ 0 <= tx.attempt
      /\ tx.attempt <= MaxSubmitAttempts - 1 /\ MaxSubmitAttempts - 1 \in Int
  BY AttemptsAssumption DEF Tx, Rounds, Attempts
<1>2. RetryAttemptTimeout \in Nat /\ FirstAttemptTimeout \in Nat
      /\ SignatureLifetime \in Nat /\ RoundLength \in Nat
  BY BudgetAssumption
<1>3. RoundStart(tx.ts) \in Int
  BY <1>1, <1>2 DEF RoundStart
<1>4. \A r \in Nat : \A a, b \in Int : a <= b => r * a <= r * b
  <2> SUFFICES ASSUME NEW r \in Nat, NEW a \in Int, NEW b \in Int, a <= b
               PROVE  r * a <= r * b
    OBVIOUS
  <2>1. b - a \in Nat /\ r * (b - a) >= 0
    OBVIOUS
  <2>2. r * (b - a) = r * b - r * a /\ r * a \in Int /\ r * b \in Int
    OBVIOUS
  <2> QED BY <2>1, <2>2
<1>5. RetryAttemptTimeout * tx.attempt <= RetryAttemptTimeout * (MaxSubmitAttempts - 1)
  BY <1>1, <1>2, <1>4
<1>6. RetryAttemptTimeout * tx.attempt \in Int
      /\ RetryAttemptTimeout * (MaxSubmitAttempts - 1) \in Int
  BY <1>1, <1>2
<1> QED BY <1>2, <1>3, <1>5, <1>6 DEF MaxTime

-----------------------------------------------------------------------------
(* A node's step, as far as its pending transaction and what came early go *)

(* Only building a transaction changes which one is pending. *)
LEMMA PendingStays ==
  ASSUME TypeOK, [Next]_vars, NEW n \in Node, pending'[n] # None, ~BuildTx(n)
  PROVE  pending[n] # None /\ pending'[n].tx = pending[n].tx
<1>1. CASE ~StepOf(n)
  BY <1>1, OthersLeave
<1>2. ASSUME NEW msg \in net, AddSignature(n, msg)
      PROVE  pending[n] # None /\ pending'[n].tx = pending[n].tx
  <2> DEFINE p == [pending[n] EXCEPT !.sigs = @ \cup {msg.from}]
  <2>1. pending[n] \in PendingTx /\ pending[n] # None /\ TrySubmit(n, p, worker[n])
    BY <1>2 DEF AddSignature, IsPending, TypeOK
  <2>2. p.tx = pending[n].tx
    BY <2>1 DEF PendingTx
  <2>3. pending'[n] = None \/ pending'[n] = p
    <3> HIDE DEF p
    <3> QED BY <2>1 DEF TrySubmit, TypeOK
  <2> QED BY <2>1, <2>2, <2>3
<1>3. CASE TimerFires(n)
  BY <1>3 DEF TimerFires, TypeOK, PendingTx
<1>4. CASE \/ StartWorker(n) \/ GetAccount(n) \/ RequestFails(n) \/ ReadState(n)
           \/ NothingToDo(n) \/ BuildFails(n)
           \/ (\E msg \in net : KeepSignature(n, msg)) \/ ClearPendingSignatures(n)
  BY <1>4 DEF StartWorker, GetAccount, RequestFails, ReadState, NothingToDo,
    BuildFails, KeepSignature, ClearPendingSignatures
<1>5. CASE SubmissionStep(n)
  BY <1>5 DEF SubmissionStep, SendTransaction, SubmissionSucceeds, SubmissionFails
<1>6. CASE Crash(n)
  BY <1>6 DEF Crash, TypeOK
<1> QED
  BY <1>1, <1>2, <1>3, <1>4, <1>5, <1>6 DEF StepOf, WorkerStep, SignatureStep

(* A worker does not build a transaction that is past. *)
LEMMA BuildIsNew ==
  ASSUME TypeOK, NEW n \in Node, NEW tx \in Tx, BuildTx(n), IsPast(worker[n], tx)
  PROVE  CurrentTx(worker[n]) # tx
<1>1. /\ worker[n] \in Worker /\ worker[n].pc = "build"
      /\ worker[n].ts \in Int /\ worker[n].attempt \in Int
  BY AttemptsAssumption DEF BuildTx, TypeOK, Worker, Attempts
<1> QED BY <1>1 DEF IsPast, CurrentTx

(* __trySubmitTransaction submits what is past and was not submitted yet.   *)
LEMMA SubmissionIsNew ==
  ASSUME TypeOK, TypeOK', NEW n \in Node, NodeOk(n)', NEW p, NEW w,
         TrySubmit(n, p, w),
         \A i \in 1..Len(submitted[n]) :
             IsPast(worker'[n], submitted[n][i]) /\ submitted[n][i] # p.tx,
         SubmittedInOrder(n)
  PROVE  SubmittedInOrder(n)'
<1> DEFINE q == submitted[n]
<1>1. q \in Seq(Tx) /\ Len(q) \in Nat
  BY DEF TypeOK
<1>2. CASE IsReadyToSubmit(p)
  <2>1. /\ submitted'[n] = Append(q, p.tx)
        /\ pending'[n] = None
        /\ [tx |-> p.tx, sigs |-> p.sigs] \in inflight'[n]
    BY <1>2 DEF TrySubmit, TypeOK
  <2>2. IsPast(worker'[n], p.tx)
    BY <2>1 DEF NodeOk, RoundOf, IsPast
  <2>3. /\ Len(submitted'[n]) = Len(q) + 1
        /\ \A i \in 1..Len(q) + 1 :
               submitted'[n][i] = IF i = Len(q) + 1 THEN p.tx ELSE q[i]
    <3> HIDE DEF q
    <3> QED BY <1>1, <2>1
  <2>4. ASSUME NEW i \in 1..Len(q) + 1, NEW j \in 1..Len(q) + 1,
               submitted'[n][i] = submitted'[n][j]
        PROVE  i = j
    <3>1. \A k \in 1..Len(q) + 1 : k = Len(q) + 1 \/ k \in 1..Len(q)
      BY <1>1
    <3> QED BY <2>3, <2>4, <3>1 DEF SubmittedInOrder
  <2>5. ASSUME NEW i \in 1..Len(q) + 1 PROVE IsPast(worker'[n], submitted'[n][i])
    <3>1. i = Len(q) + 1 \/ i \in 1..Len(q)
      BY <1>1
    <3> QED BY <2>2, <2>3, <3>1
  <2> HIDE DEF q
  <2>6. \A i \in 1..Len(submitted'[n]) : IsPast(worker'[n], submitted'[n][i])
    BY <2>3, <2>5
  <2>7. \A i, j \in 1..Len(submitted'[n]) :
            submitted'[n][i] = submitted'[n][j] => i = j
    BY <2>3, <2>4
  <2> QED BY <2>1, <2>6, <2>7 DEF SubmittedInOrder, IsPast
<1>3. CASE ~IsReadyToSubmit(p)
  <2>1. submitted'[n] = q /\ pending'[n] = p
    BY <1>3 DEF TrySubmit, TypeOK
  <2> QED BY <2>1 DEF SubmittedInOrder, IsPast
<1> QED BY <1>2, <1>3

LEMMA SubmittedStep ==
  ASSUME TypeOK, TypeOK', [Next]_vars,
         \A n \in Node : NodeOk(n), (\A n \in Node : NodeOk(n))',
         \A n \in Node : SubmittedInOrder(n)
  PROVE  (\A n \in Node : SubmittedInOrder(n))'
<1> SUFFICES ASSUME NEW n \in Node PROVE SubmittedInOrder(n)'
  OBVIOUS
<1>0. NodeOk(n) /\ NodeOk(n)' /\ SubmittedInOrder(n)
  OBVIOUS
<1>1. CASE ~StepOf(n)
  BY <1>0, <1>1, OthersLeave DEF SubmittedInOrder, IsPast
<1>2. CASE Crash(n)
  <2>1. submitted'[n] = <<>>
    BY <1>2 DEF Crash, TypeOK
  <2> QED BY <2>1 DEF SubmittedInOrder
<1>3. CASE WorkerStep(n) \/ SubmissionStep(n) \/ SignatureStep(n)
  <2>0. \A i \in 1..Len(submitted[n]) : submitted[n][i] \in Tx
    BY DEF TypeOK
  <2>1. \A tx \in Tx : IsPast(worker[n], tx) => IsPast(worker'[n], tx)
    BY <1>0, <1>3, PastStays DEF IsPast
  <2>2. \A i \in 1..Len(submitted[n]) : IsPast(worker'[n], submitted[n][i])
    BY <1>0, <2>0, <2>1 DEF SubmittedInOrder
  <2>3. CASE BuildTx(n)
    <3> DEFINE own == CurrentTx(worker[n])
    <3> DEFINE p == [tx |-> own, sigs |-> {n} \cup EarlySigners(n, own),
                     timedOut |-> FALSE]
    <3>1. TrySubmit(n, p, [worker[n] EXCEPT !.pc = "wait"]) /\ p.tx = own
      BY <2>3 DEF BuildTx
    <3>2. \A i \in 1..Len(submitted[n]) : submitted[n][i] # own
      BY <1>0, <2>0, <2>3, BuildIsNew DEF SubmittedInOrder
    <3> HIDE DEF p, own
    <3> QED BY <1>0, <2>2, <3>1, <3>2, SubmissionIsNew
  <2>4. ASSUME NEW msg \in net, AddSignature(n, msg) PROVE SubmittedInOrder(n)'
    <3> DEFINE p == [pending[n] EXCEPT !.sigs = @ \cup {msg.from}]
    <3>1. /\ pending[n] \in PendingTx /\ pending[n] # None
          /\ TrySubmit(n, p, worker[n])
      BY <2>4 DEF AddSignature, IsPending, TypeOK
    <3>2. p.tx = pending[n].tx
      BY <3>1 DEF PendingTx
    <3>3. \A i \in 1..Len(submitted[n]) : submitted[n][i] # p.tx
      BY <1>0, <3>1, <3>2 DEF SubmittedInOrder
    <3> HIDE DEF p
    <3> QED BY <1>0, <2>2, <3>1, <3>3, SubmissionIsNew
  <2>5. ASSUME UNCHANGED submitted[n], ~BuildTx(n) PROVE SubmittedInOrder(n)'
    <3>1. pending'[n] # None => pending[n] # None /\ pending'[n].tx = pending[n].tx
      BY <2>5, PendingStays
    <3> QED BY <1>0, <2>2, <2>5, <3>1 DEF SubmittedInOrder, IsPast
  <2>6. CASE \/ StartWorker(n) \/ GetAccount(n) \/ RequestFails(n) \/ ReadState(n)
             \/ NothingToDo(n) \/ BuildFails(n) \/ TimerFires(n)
             \/ (\E msg \in net : KeepSignature(n, msg))
             \/ ClearPendingSignatures(n) \/ SubmissionStep(n)
    <3>1. UNCHANGED submitted
      BY <2>6 DEF StartWorker, GetAccount, RequestFails, ReadState, NothingToDo,
        BuildFails, TimerFires, KeepSignature, ClearPendingSignatures,
        SubmissionStep, SendTransaction, SubmissionSucceeds, SubmissionFails
    <3> QED BY <2>3, <2>5, <3>1
  <2> QED BY <1>3, <2>3, <2>4, <2>6 DEF WorkerStep, SignatureStep
<1> QED BY <1>1, <1>2, <1>3 DEF StepOf

(* A node submits a transaction once between two starts, however its        *)
(* worker, its timers and the signatures of the others interleave and the  *)
(* submission ends: __trySubmitTransaction clears the pending transaction,  *)
(* and no later attempt has the same hash.                                 *)
THEOREM SubmittedOnceCorrect == Spec => []SubmittedOnce
<1>1. Init => \A n \in Node : SubmittedInOrder(n)
  BY DEF Init, SubmittedInOrder
<1>2. TypeOK /\ TypeOK' /\ [Next]_vars
        /\ (\A n \in Node : NodeOk(n)) /\ (\A n \in Node : NodeOk(n))'
        /\ (\A n \in Node : SubmittedInOrder(n))
        => (\A n \in Node : SubmittedInOrder(n))'
  BY SubmittedStep
<1>3. (\A n \in Node : SubmittedInOrder(n)) => SubmittedOnce
  BY DEF SubmittedInOrder, SubmittedOnce
<1> QED BY <1>1, <1>2, <1>3, RoundsCorrect, TypeCorrect, PTL DEF Spec

(* Where a node stands with a transaction *)
Counted(n, tx, m) == IsPending(n, tx) /\ m \in pending[n].sigs
Awaiting(n, tx, m) ==
  ~IsPending(n, tx) /\ (<<tx, m>> \in early[n] \/ IsPast(worker[n], tx))

(* A signature that a node has, it keeps until it does not need it.        *)
LEMMA SignatureStays ==
  ASSUME SignatureLifetime >= FirstAttemptTimeout
                              + RetryAttemptTimeout * (MaxSubmitAttempts - 1),
         TypeOK, TypeOK', NEW n \in Node, NodeOk(n), NodeOk(n)',
         NEW tx \in Tx, NEW m \in Node,
         WorkerStep(n) \/ SubmissionStep(n) \/ SignatureStep(n),
         clock <= MaxTime(tx.ts, tx.attempt),
         Counted(n, tx, m) \/ Awaiting(n, tx, m)
  PROVE  (Counted(n, tx, m) \/ Awaiting(n, tx, m))'
<1>1. IsPending(n, tx) => IsPast(worker[n], tx)
  BY DEF NodeOk, RoundOf, IsPending
<1>2. IsPast(worker[n], tx) => IsPast(worker[n], tx)'
  BY PastStays
<1>3. /\ pending[n] \in PendingTx \cup {None}
      /\ early[n] \in SUBSET (Tx \X Node)
  BY DEF TypeOK
<1>4. ASSUME pending'[n] = pending[n], <<tx, m>> \in early[n] => <<tx, m>> \in early'[n]
      PROVE  (Counted(n, tx, m) \/ Awaiting(n, tx, m))'
  BY <1>2, <1>4 DEF Counted, Awaiting, IsPending
<1>5. ASSUME NEW p, NEW u, TrySubmit(n, p, u)
      PROVE  \/ pending'[n] = None
             \/ pending'[n] = p
  BY <1>5 DEF TrySubmit, TypeOK
<1>6. CASE BuildTx(n)
  <2> DEFINE own == CurrentTx(worker[n])
  <2> DEFINE p == [tx |-> own, sigs |-> {n} \cup EarlySigners(n, own),
                   timedOut |-> FALSE]
  <2>1. /\ TrySubmit(n, p, [worker[n] EXCEPT !.pc = "wait"])
        /\ early' = [early EXCEPT ![n] = {e \in @ : e[1] # own}]
    BY <1>6 DEF BuildTx
  <2>2. early'[n] = {e \in early[n] : e[1] # own}
    BY <2>1 DEF TypeOK
  <2>3. pending'[n] = None \/ pending'[n] = p
    BY <1>5, <2>1
  <2>4. CASE IsPast(worker[n], tx)
    <3>1. own # tx
      BY <1>6, <2>4, BuildIsNew
    <3> QED BY <1>2, <2>3, <2>4, <3>1 DEF Awaiting, IsPending
  <2>5. CASE ~IsPast(worker[n], tx)
    <3>1. ~IsPending(n, tx) /\ <<tx, m>> \in early[n]
      BY <1>1, <2>5 DEF Counted, Awaiting
    <3>2. CASE own # tx
      BY <2>2, <2>3, <3>1, <3>2 DEF Awaiting, IsPending
    <3>3. CASE own = tx
      <4>1. m \in EarlySigners(n, own)
        BY <3>1, <3>3 DEF EarlySigners
      <4>2. IsPast(worker[n], tx)'
        <5>1. PICK w : w = worker[n]
          OBVIOUS
        <5>2. w \in Worker /\ w.ts = tx.ts /\ w.attempt = tx.attempt
          BY <3>3, <5>1 DEF CurrentTx, TypeOK
        <5>3. PICK u : u = [w EXCEPT !.pc = "wait"]
          OBVIOUS
        <5>4. u \in Worker /\ u.pc = "wait" /\ u.ts = tx.ts /\ u.attempt = tx.attempt
          BY <5>2, <5>3 DEF Worker
        <5>5. worker'[n] = u \/ worker'[n] = Approved(u)
          <6>1. \E q : TrySubmit(n, q, u)
            BY <2>1, <5>1, <5>3
          <6> QED BY <6>1 DEF TrySubmit, TypeOK
        <5>6. worker'[n].pc = "wait" /\ worker'[n].ts = tx.ts
              /\ worker'[n].attempt = tx.attempt
          BY <5>4, <5>5, ApprovedShape
        <5>7. tx.attempt \in Int
          BY AttemptsAssumption DEF Tx, Attempts
        <5> QED BY <5>6, <5>7 DEF IsPast
      <4>3. CASE pending'[n] = None
        BY <4>2, <4>3 DEF Awaiting, IsPending
      <4>4. CASE pending'[n] # None
        BY <2>3, <3>3, <4>1, <4>4 DEF Counted, IsPending
      <4> QED BY <4>3, <4>4
    <3> QED BY <3>2, <3>3
  <2> QED BY <2>4, <2>5
<1>7. ASSUME NEW msg \in net, AddSignature(n, msg)
      PROVE  (Counted(n, tx, m) \/ Awaiting(n, tx, m))'
  <2> DEFINE p == [pending[n] EXCEPT !.sigs = @ \cup {msg.from}]
  <2>1. pending[n] \in PendingTx /\ pending[n] # None
        /\ TrySubmit(n, p, worker[n]) /\ early' = early
    BY <1>7 DEF AddSignature, IsPending, TypeOK
  <2>2. p.tx = pending[n].tx /\ pending[n].sigs \subseteq p.sigs
    BY <2>1 DEF PendingTx
  <2>3. pending'[n] = None \/ pending'[n] = p
    BY <1>5, <2>1
  <2> HIDE DEF p
  <2> QED BY <1>1, <1>2, <2>1, <2>2, <2>3 DEF Counted, Awaiting, IsPending
<1>8. CASE TimerFires(n)
  <2>1. /\ pending[n] \in PendingTx /\ pending[n] # None /\ early' = early
        /\ pending'[n] = [pending[n] EXCEPT !.timedOut = TRUE]
    BY <1>8 DEF TimerFires, TypeOK
  <2>2. pending'[n].tx = pending[n].tx /\ pending'[n].sigs = pending[n].sigs
        /\ pending'[n] \in PendingTx
    BY <2>1 DEF PendingTx
  <2> QED BY <1>1, <1>2, <2>1, <2>2 DEF Counted, Awaiting, IsPending
<1>9. CASE \E msg \in net : KeepSignature(n, msg)
  <2>1. pending'[n] = pending[n] /\ early[n] \subseteq early'[n]
    BY <1>9 DEF KeepSignature, TypeOK
  <2> QED BY <1>4, <2>1
<1>10. CASE ClearPendingSignatures(n)
  <2>1. PICK t \in {e[1] : e \in early[n]} :
            /\ clock > RoundStart(t.ts) + SignatureLifetime
            /\ early' = [early EXCEPT ![n] = {e \in @ : e[1] # t}]
            /\ pending' = pending
    BY <1>10 DEF ClearPendingSignatures
  <2>2. t # tx
    <3>1. /\ MaxTime(tx.ts, tx.attempt) \in Int /\ clock \in Int
          /\ RoundStart(tx.ts) + SignatureLifetime \in Int
          /\ MaxTime(tx.ts, tx.attempt) <= RoundStart(tx.ts) + SignatureLifetime
      BY SignaturesLive DEF TypeOK
    <3>2. clock <= RoundStart(tx.ts) + SignatureLifetime
      BY <3>1
    <3>3. SUFFICES ASSUME t = tx PROVE FALSE
      OBVIOUS
    <3>4. clock > RoundStart(tx.ts) + SignatureLifetime
      BY <2>1, <3>3, Zenon
    <3> QED BY ONLY <3>1, <3>2, <3>4
  <2>3. <<tx, m>> \in early[n] => <<tx, m>> \in early'[n]
    BY <2>1, <2>2 DEF TypeOK
  <2> QED BY <1>4, <2>1, <2>3
<1>11. CASE \/ StartWorker(n) \/ GetAccount(n) \/ RequestFails(n) \/ ReadState(n)
            \/ NothingToDo(n) \/ BuildFails(n)
  BY <1>4, <1>11 DEF StartWorker, GetAccount, RequestFails, ReadState, NothingToDo,
    BuildFails
<1>12. CASE SubmissionStep(n)
  BY <1>4, <1>12 DEF SubmissionStep, SendTransaction, SubmissionSucceeds,
    SubmissionFails
<1> QED
  BY <1>6, <1>7, <1>8, <1>9, <1>10, <1>11, <1>12 DEF WorkerStep, SignatureStep

-----------------------------------------------------------------------------
(* A message is under way until it arrives, or its channel breaks. *)
LEMMA MessageStays ==
  ASSUME TypeOK, [Next]_vars, NEW msg \in net, <<msg.from, msg.to>> \in Channels,
         link'[<<msg.from, msg.to>>] # "down",
         ~AddSignature(msg.to, msg), ~KeepSignature(msg.to, msg)
  PROVE  msg \in net'
<1>1. ASSUME NEW n \in Node, \E x \in net : AddSignature(n, x) \/ KeepSignature(n, x)
      PROVE  msg \in net'
  BY <1>1 DEF AddSignature, KeepSignature
<1>2. ASSUME NEW n \in Node, Crash(n) PROVE msg \in net'
  BY <1>2 DEF Crash
<1>3. ASSUME NEW n \in Node, BuildTx(n) PROVE msg \in net'
  BY <1>3 DEF BuildTx
<1>4. ASSUME NEW n \in Node, WorkerStep(n) \/ SubmissionStep(n), ~BuildTx(n)
      PROVE  msg \in net'
  BY <1>4 DEF WorkerStep, SubmissionStep, StartWorker, GetAccount, RequestFails,
    ReadState, NothingToDo, BuildFails, TimerFires, SendTransaction,
    SubmissionSucceeds, SubmissionFails
<1>5. ASSUME NEW n \in Node, ClearPendingSignatures(n) PROVE msg \in net'
  BY <1>5 DEF ClearPendingSignatures
<1>6. ASSUME NEW c \in Channels, LinkStep(c[1], c[2]) PROVE msg \in net'
  <2>1. CASE Connect(c[1], c[2]) \/ PeerReady(c[1], c[2])
    BY <2>1 DEF Connect, PeerReady
  <2>2. CASE Disconnect(c[1], c[2])
    <3>1. ~(msg.from = c[1] /\ msg.to = c[2])
      BY <2>2 DEF Disconnect, TypeOK
    <3> QED BY <2>2, <3>1 DEF Disconnect
  <2> QED BY <1>6, <2>1, <2>2 DEF LinkStep
<1>7. CASE LedgerStep \/ Tick \/ UNCHANGED vars
  BY <1>7 DEF LedgerStep, CloseLedger, ForeignTransaction, Tick, vars
<1>8. ASSUME NEW n \in Node, StepOf(n) PROVE msg \in net'
  BY <1>1, <1>2, <1>3, <1>4, <1>5, <1>8 DEF StepOf, SignatureStep
<1>9. \/ \E n \in Node : StepOf(n)
      \/ \E c \in Channels : LinkStep(c[1], c[2])
      \/ LedgerStep \/ Tick \/ UNCHANGED vars
  BY DEF Next, StepOf
<1> QED BY <1>6, <1>7, <1>8, <1>9

(* What was delivered stays so, as long as anybody may need it. *)
LEMMA DeliveredStays ==
  ASSUME SignatureLifetime >= FirstAttemptTimeout
                              + RetryAttemptTimeout * (MaxSubmitAttempts - 1),
         TypeOK, TypeOK', [Next]_vars, NEW a \in Node, NEW b \in Node, a # b,
         NodeOk(b), NodeOk(b)', NEW tx \in Tx,
         link'[<<a, b>>] # "down", clock <= MaxTime(tx.ts, tx.attempt),
         IsDelivered(<<a, b>>, tx)
  PROVE  IsDelivered(<<a, b>>, tx)'
<1> DEFINE msg == [from |-> a, to |-> b, tx |-> tx]
<1> DEFINE has == Counted(b, tx, a) \/ Awaiting(b, tx, a)
<1>1. IsDelivered(<<a, b>>, tx) <=> msg \in net \/ has
  BY DEF IsDelivered, Counted, Awaiting
<1>2. IsDelivered(<<a, b>>, tx)' <=> msg \in net' \/ has'
  BY DEF IsDelivered, Counted, Awaiting, IsPending, IsPast
<1>3. CASE has
  <2>1. CASE ~StepOf(b)
    <3>1. UNCHANGED <<worker[b], pending[b], early[b]>>
      BY <2>1, OthersLeave
    <3> QED BY <1>2, <1>3, <3>1 DEF Counted, Awaiting, IsPending, IsPast
  <2>2. ~Crash(b)
    BY DEF Crash, Channels
  <2>3. CASE WorkerStep(b) \/ SubmissionStep(b) \/ SignatureStep(b)
    BY <1>2, <1>3, <2>3, SignatureStays
  <2> QED BY <2>1, <2>2, <2>3 DEF StepOf
<1>4. CASE msg \in net /\ ~has
  <2>1. msg.from = a /\ msg.to = b /\ msg.tx = tx
    OBVIOUS
  <2>2. CASE AddSignature(b, msg)
    <3> DEFINE p == [pending[b] EXCEPT !.sigs = @ \cup {a}]
    <3>1. pending[b] \in PendingTx /\ pending[b] # None /\ pending[b].tx = tx
          /\ TrySubmit(b, p, worker[b])
      BY <2>1, <2>2 DEF AddSignature, IsPending, TypeOK
    <3>2. p.tx = tx /\ a \in p.sigs
      BY <3>1 DEF PendingTx
    <3>3. pending'[b] = None \/ pending'[b] = p
      <4> HIDE DEF p
      <4> QED BY <3>1 DEF TrySubmit, TypeOK
    <3>4. IsPast(worker[b], tx)
      BY <3>1 DEF NodeOk, RoundOf
    <3>5. IsPast(worker[b], tx)'
      BY <1>4, <2>2, <3>4, PastStays DEF SignatureStep
    <3> HIDE DEF p
    <3>6. has'
      BY <3>2, <3>3, <3>5 DEF Counted, Awaiting, IsPending
    <3> QED BY <1>2, <3>6
  <2>3. CASE KeepSignature(b, msg)
    <3>1. ~IsPending(b, tx) /\ pending' = pending /\ <<tx, a>> \in early'[b]
      BY <2>1, <2>3 DEF KeepSignature, TypeOK
    <3>2. has'
      BY <3>1 DEF Awaiting, IsPending
    <3> QED BY <1>2, <3>2
  <2>4. CASE ~AddSignature(b, msg) /\ ~KeepSignature(b, msg)
    <3>1. <<a, b>> \in Channels
      BY DEF Channels
    <3>2. msg \in net'
      <4> HIDE DEF msg
      <4> QED BY <1>4, <2>1, <2>4, <3>1, MessageStays
    <3> QED BY <1>2, <3>2
  <2> QED BY <2>2, <2>3, <2>4
<1> QED BY <1>1, <1>3, <1>4

(* A node's signature is under way from the moment it is built, or the      *)
(* channel is in order again.                                              *)
LEMMA DeliveryStep ==
  ASSUME SignatureLifetime >= FirstAttemptTimeout
                              + RetryAttemptTimeout * (MaxSubmitAttempts - 1),
         TypeOK, TypeOK', [Next]_vars,
         \A n \in Node : NodeOk(n), \A n \in Node : NodeOk(n)',
         SignaturesDelivered
  PROVE  SignaturesDelivered'
<1> SUFFICES ASSUME NEW c \in Channels, NEW p, p = pending'[c[1]],
                    p # None, link'[c] = "synced",
                    clock' <= MaxTime(p.tx.ts, p.tx.attempt)
             PROVE  IsDelivered(c, p.tx)'
  BY DEF SignaturesDelivered, IsDelivered, IsPending, IsPast, MaxTime, RoundStart
<1>1. PICK a \in Node, b \in Node : c = <<a, b>> /\ a # b
  BY DEF Channels
<1>2. p = pending'[a] /\ link'[<<a, b>>] = "synced"
  BY <1>1
<1>3. p.tx \in Tx
  BY <1>2 DEF TypeOK, PendingTx
<1> DEFINE msg == [from |-> a, to |-> b, tx |-> p.tx]
<1>4. SUFFICES ASSUME msg \notin net' PROVE IsDelivered(<<a, b>>, p.tx)'
  BY <1>1 DEF IsDelivered
<1>5. ~BuildTx(a)
  <2> SUFFICES ASSUME BuildTx(a) PROVE FALSE
    OBVIOUS
  <2>1. link' = link /\ net' = net \cup Broadcast(a, CurrentTx(worker[a]))
    BY DEF BuildTx
  <2>2. p.tx = CurrentTx(worker[a])
    BY <1>2 DEF BuildTx, TrySubmit, TypeOK
  <2>3. msg \in Broadcast(a, CurrentTx(worker[a]))
    BY <1>1, <1>2, <2>1, <2>2 DEF Broadcast
  <2> QED BY <1>4, <2>1, <2>3
<1>6. pending[a] # None /\ pending[a].tx = p.tx
  BY <1>2, <1>5, PendingStays
<1>7. link[<<a, b>>] = "synced"
  <2>1. ~PeerReady(a, b)
    BY <1>4, <1>6 DEF PeerReady
  <2>2. ASSUME NEW d \in Channels, LinkStep(d[1], d[2]), link[<<a, b>>] # "synced"
        PROVE  FALSE
    <3>1. PICK x \in Node, y \in Node : d = <<x, y>>
      BY DEF Channels
    <3>2. CASE Disconnect(x, y) \/ Connect(x, y)
      BY <1>1, <1>2, <2>2, <3>2 DEF Disconnect, Connect, TypeOK, Channels
    <3>3. CASE PeerReady(x, y)
      <4>1. x # a \/ y # b
        BY <2>1, <3>3
      <4> QED BY <1>1, <1>2, <2>2, <3>3, <4>1 DEF PeerReady, TypeOK, Channels
    <3> QED BY <2>2, <3>1, <3>2, <3>3 DEF LinkStep
  <2>3. ASSUME NEW n \in Node, Crash(n), link[<<a, b>>] # "synced"
        PROVE  FALSE
    BY <1>1, <1>2, <2>3 DEF Crash, Channels
  <2>4. ASSUME NEW n \in Node, StepOf(n), ~Crash(n)
        PROVE  link' = link
    BY <2>4 DEF StepOf, WorkerStep, SubmissionStep, SignatureStep,
      StartWorker, GetAccount, RequestFails, ReadState, NothingToDo, BuildFails,
      BuildTx, TimerFires, SendTransaction, SubmissionSucceeds, SubmissionFails,
      AddSignature, KeepSignature, ClearPendingSignatures
  <2>5. ASSUME LedgerStep \/ Tick \/ UNCHANGED vars
        PROVE  link' = link
    BY <2>5 DEF LedgerStep, CloseLedger, ForeignTransaction, Tick, vars
  <2>6. \/ \E n \in Node : StepOf(n)
        \/ \E d \in Channels : LinkStep(d[1], d[2])
        \/ LedgerStep \/ Tick \/ UNCHANGED vars
    BY DEF Next, StepOf
  <2> QED BY <1>2, <2>2, <2>3, <2>4, <2>5, <2>6
<1>8. clock <= MaxTime(p.tx.ts, p.tx.attempt)
  <2>1. clock \in Nat /\ clock' \in Nat
    BY DEF TypeOK
  <2>2. p.tx \in Tx /\ MaxTime(p.tx.ts, p.tx.attempt) \in Int
    BY <1>3, SignaturesLive
  <2> QED BY <1>3, <2>1, <2>2, ClockGrows
<1>9. IsDelivered(<<a, b>>, p.tx)
  BY <1>1, <1>6, <1>7, <1>8 DEF SignaturesDelivered
<1> HIDE DEF msg
<1> QED BY <1>1, <1>2, <1>3, <1>8, <1>9, DeliveredStays

(* Two nodes that wait with the same transaction know of each other, or     *)
(* will: broadcast, __pendingSignatures and the repeat at READY lose no     *)
(* signature, when early ones are kept as long as a round may take.        *)
THEOREM SignaturesMeetCorrect ==
  ASSUME SignatureLifetime >= FirstAttemptTimeout
                              + RetryAttemptTimeout * (MaxSubmitAttempts - 1)
  PROVE  Spec => []SignaturesMeet
<1>0. \A c \in Channels : c[1] \in Node
  BY DEF Channels
<1>1. Init => SignaturesDelivered
  <2>1. Init => \A c \in Channels : pending[c[1]] = None
    BY <1>0 DEF Init
  <2> QED BY <2>1 DEF SignaturesDelivered
<1>2. TypeOK /\ TypeOK' /\ [Next]_vars /\ SignaturesDelivered
        /\ (\A n \in Node : NodeOk(n)) /\ (\A n \in Node : NodeOk(n))'
      => SignaturesDelivered'
  BY DeliveryStep
<1>3. TypeOK /\ SignaturesDelivered => SignaturesMeet
  <2> SUFFICES ASSUME TypeOK, SignaturesDelivered, NEW c \in Channels,
                      NEW p, p = pending[c[1]], NEW q, q = pending[c[2]],
                      p # None, q # None, link[c] = "synced", p.tx = q.tx,
                      ~(clock > MaxTime(p.tx.ts, p.tx.attempt))
               PROVE  \/ c[1] \in q.sigs
                      \/ [from |-> c[1], to |-> c[2], tx |-> p.tx] \in net
    BY DEF SignaturesMeet
  <2>1. p.tx \in Tx
    BY <1>0 DEF TypeOK, PendingTx
  <2>2. clock <= MaxTime(p.tx.ts, p.tx.attempt)
    BY <2>1, SignaturesLive DEF TypeOK
  <2>3. IsDelivered(c, p.tx)
    BY <2>2 DEF SignaturesDelivered
  <2> QED BY <2>3 DEF IsDelivered, IsPending
<1> QED BY <1>1, <1>2, <1>3, InvCorrect, RoundsCorrect, PTL DEF Spec

=============================================================================
